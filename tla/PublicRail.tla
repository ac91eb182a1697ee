----------------------------- MODULE PublicRail -----------------------------
(* The public rail in front of a Rekber custody contract of its own: the     *)
(* rail plays the privacy pool, so ordinary accounts can fund and act on     *)
(* custodies.  It binds the two parties of a custody to accounts, decides    *)
(* which of them may make which call, and passes every payout on within the  *)
(* call that produced it.  Settlement certificates are claimed from the same *)
(* custody records.                                                          *)
(*                                                                           *)
(* contracts/src/public_rail/vinss_public_rail.cairo (fund_custody,          *)
(* act_custody, post_message) and                                            *)
(* contracts/src/settlement_certificate/vinss_settlement_certificate.cairo,  *)
(* over EscrowRekber.  An account makes any number of calls in a             *)
(* transaction, and nobody else acts meanwhile.  A call with an output is    *)
(* two steps, the helper's and the drain; a check that fails in between      *)
(* reverts the call, and DrainsMatch says that it never does.                *)
EXTENDS EscrowRekber

CONSTANTS
    Accounts,       \* accounts that call the rail
    NoAccount       \* the zero address

ASSUME AccountsAssumption == NoAccount \notin Accounts

VARIABLES
    payers,             \* the account bound as payer, per custody
    payees,             \* the account bound as payee, per custody
    certificate_to,     \* who the certificate commitments name, per role
    certificates,       \* who holds the certificate of a role
    last_message_tx,    \* the transaction of an account's last message
    tx,                 \* the account whose transaction runs, or NoAccount
    acted,              \* whether it made a call that is to be paid for
    charged,            \* whether it paid a message or a workflow fee
    call,               \* the drain a call still owes
    handed              \* principal the rail passed on, per custody and account

railVars == <<payers, payees, certificate_to, certificates, last_message_tx,
              tx, acted, charged, call, handed>>

\* When an account last posted a message: never, before, or in this transaction.
MessageTimes == {"never", "past", "now"}

\* The operations of act_custody.
Operations == {"release", "refund", "submit", "request_revision", "open_dispute",
               "confirm", "auto_release", "mutual_refund", "claim"}

Idle == [custody |-> NoCustody, amount |-> 0, to |-> NoAccount, workflow_fee |-> FALSE]

RailInit ==
    /\ Init
    /\ payers = [c \in Custodies |-> NoAccount]
    /\ payees = [c \in Custodies |-> NoAccount]
    /\ certificate_to = [c \in Custodies |-> [role \in Roles |-> NoAccount]]
    /\ certificates = [c \in Custodies |-> [role \in Roles |-> NoAccount]]
    /\ last_message_tx = [a \in Accounts |-> "never"]
    /\ tx = NoAccount
    /\ acted = FALSE
    /\ charged = FALSE
    /\ call = Idle
    /\ handed = [c \in Custodies |-> [a \in Accounts |-> 0]]

-----------------------------------------------------------------------------
(* Transactions.                                                             *)

BeginTx(a) ==
    /\ tx = NoAccount
    /\ tx' = a
    /\ acted' = FALSE
    /\ charged' = FALSE
    /\ last_message_tx' = [b \in Accounts |->
          IF last_message_tx[b] = "now" THEN "past" ELSE last_message_tx[b]]
    /\ UNCHANGED <<vars, payers, payees, certificate_to, certificates, call, handed>>

EndTx ==
    /\ tx # NoAccount
    /\ call = Idle
    /\ tx' = NoAccount
    /\ UNCHANGED <<vars, payers, payees, certificate_to, certificates,
                   last_message_tx, acted, charged, call, handed>>

\* The reentrancy guard: one call of the running transaction at a time.
Enter == tx # NoAccount /\ call = Idle

\* The fee of a message goes to the treasury, and the transaction is remembered.
PostMessage ==
    /\ Enter
    /\ charged' = TRUE
    /\ last_message_tx' = [last_message_tx EXCEPT ![tx] = "now"]
    /\ UNCHANGED <<vars, payers, payees, certificate_to, certificates, tx, acted,
                   call, handed>>

-----------------------------------------------------------------------------
(* fund_custody                                                              *)

Bindable(c, payee) == payers[c] = NoAccount /\ payee # tx

\* The caller pays principal and fee into the helper; the fee comes back as the
\* helper's only output and goes to the treasury.
FundCustody(c, payee, plan, recipients) ==
    /\ Enter
    /\ Bindable(c, payee)
    /\ plan.amount + plan.quoted_fee \in Transfers
    /\ Deposit(c, plan, plan.amount + plan.quoted_fee)
    /\ payers' = [payers EXCEPT ![c] = tx]
    /\ payees' = [payees EXCEPT ![c] = payee]
    /\ certificate_to' = [certificate_to EXCEPT ![c] = recipients]
    /\ call' = [custody |-> c, amount |-> plan.quoted_fee, to |-> NoAccount,
                workflow_fee |-> FALSE]
    /\ UNCHANGED <<certificates, last_message_tx, tx, acted, charged, handed>>

-----------------------------------------------------------------------------
(* act_custody                                                               *)

Bug_RolesOf(op) ==
    IF op \in {"open_dispute", "claim"} THEN Roles
    ELSE IF op \in {"release", "submit", "auto_release", "mutual_refund"}
      THEN {Payee} ELSE {Payer}

\* Whose call an operation is; for a dispute and a claim the calldata says.
RolesOf(op) ==
    IF op \in {"open_dispute", "claim"} THEN Roles
    ELSE IF op \in {"release", "submit", "auto_release"} THEN {Payee} ELSE {Payer}

PartyOf(c, role) == IF role = Payer THEN payers[c] ELSE payees[c]

\* The operation as the helper performs it.
HelperCall(c, op, role) ==
    \/ op = "release" /\ ReleaseStep(c)
    \/ op = "refund" /\ RefundStep(c)
    \/ op = "submit" /\ SubmitStep(c)
    \/ op = "request_revision" /\ RevisionStep(c)
    \/ op = "open_dispute" /\ OpenDispute(c, role)
    \/ op = "confirm" /\ ConfirmStep(c)
    \/ op = "auto_release" /\ AutoReleaseStep(c)
    \/ op = "mutual_refund" /\ MutualRefundStep(c)
    \/ op = "claim" /\ ClaimStep(c, role)

HasOutput(op) == op \in {"release", "refund", "auto_release", "mutual_refund", "claim"}

Bug_Amount(c, op, role) == custodies[c].amount

\* The amount act_custody expects, read before the helper is called.
Amount(c, op, role) ==
    IF op = "claim" THEN custodies[c].resolution_amount[role] ELSE custodies[c].amount

Bug_MessagePaid(a) == last_message_tx[a] # "never"

\* The message of this very transaction has been paid for.
MessagePaid(a) == last_message_tx[a] = "now"

OwesWorkflowFee(a, op) ==
    \/ op \in {"submit", "open_dispute", "claim"}
    \/ op \in {"request_revision", "confirm"} /\ ~MessagePaid(a)

\* The operations that are to be paid for, one way or the other.
Chargeable(op) == op \in {"submit", "open_dispute", "claim", "request_revision", "confirm"}

ActCustody(c, op, role) ==
    /\ Enter
    /\ payers[c] # NoAccount
    /\ role \in RolesOf(op)
    /\ tx = PartyOf(c, role)
    /\ HelperCall(c, op, role)
    /\ acted' = (acted \/ Chargeable(op))
    /\ IF HasOutput(op)
         THEN /\ call' = [custody |-> c, amount |-> Amount(c, op, role), to |-> tx,
                          workflow_fee |-> OwesWorkflowFee(tx, op)]
              /\ UNCHANGED charged
         ELSE /\ charged' = (charged \/ OwesWorkflowFee(tx, op))
              /\ UNCHANGED call
    /\ UNCHANGED <<payers, payees, certificate_to, certificates, last_message_tx,
                   tx, handed>>

\* What drain asserts of the helper's output and allowance.
OutputMatches ==
    LET note == open_note[custodies[call.custody].token] IN
    /\ call.amount # 0
    /\ note.custody = call.custody
    /\ note.amount = call.amount

\* The approved amount goes to the treasury (a deposit's fee) or to the caller.
Drain ==
    /\ call # Idle
    /\ OutputMatches
    /\ PoolCollect(custodies[call.custody].token)
    /\ handed' = IF call.to = NoAccount THEN handed
                   ELSE [handed EXCEPT ![call.custody][call.to] = @ + call.amount]
    /\ charged' = (charged \/ call.workflow_fee)
    /\ call' = Idle
    /\ UNCHANGED <<payers, payees, certificate_to, certificates, last_message_tx,
                   tx, acted>>

-----------------------------------------------------------------------------
(* VinssSettlementCertificate.claim                                          *)

Bug_CleanlySettled(c) == ~custodies[c].refunded /\ ~custodies[c].disputed

CleanlySettled(c) ==
    custodies[c].consumed /\ ~custodies[c].refunded /\ ~custodies[c].disputed

\* Only the account the commitment names can compute it; once per role.
ClaimCertificate(c, role) ==
    /\ Enter
    /\ certificates[c][role] = NoAccount
    /\ CleanlySettled(c)
    /\ certificate_to[c][role] = tx
    /\ certificates' = [certificates EXCEPT ![c][role] = tx]
    /\ UNCHANGED <<vars, payers, payees, certificate_to, last_message_tx, tx, acted,
                   charged, call, handed>>

-----------------------------------------------------------------------------
\* The verifier and the dispute resolver call the custody contract themselves.
Outside ==
    /\ tx = NoAccount
    /\ Tick \/ \E c \in Custodies : VerifyStep(c) \/ ResolveStep(c)
    /\ UNCHANGED railVars

RailNext ==
    \/ \E a \in Accounts : BeginTx(a)
    \/ EndTx
    \/ PostMessage
    \/ \E c \in Custodies, payee \in Accounts, plan \in Plans,
          recipients \in [Roles -> Accounts] : FundCustody(c, payee, plan, recipients)
    \/ \E c \in Custodies, op \in Operations, role \in Roles : ActCustody(c, op, role)
    \/ Drain
    \/ \E c \in Custodies, role \in Roles : ClaimCertificate(c, role)
    \/ Outside

RailSpec == RailInit /\ [][RailNext]_<<vars, railVars>>

-----------------------------------------------------------------------------
(* Properties.                                                               *)

Party == Accounts \cup {NoAccount}

Call == [custody : Custodies, amount : Nat \ {0}, to : Party,
         workflow_fee : BOOLEAN]

\* Every variable of the rail has its type; no drain is owed for nothing.
RailTypeOK ==
    /\ payers \in [Custodies -> Party]
    /\ payees \in [Custodies -> Party]
    /\ certificate_to \in [Custodies -> [Roles -> Party]]
    /\ certificates \in [Custodies -> [Roles -> Party]]
    /\ last_message_tx \in [Accounts -> MessageTimes]
    /\ tx \in Party
    /\ acted \in BOOLEAN
    /\ charged \in BOOLEAN
    /\ call \in Call \cup {Idle}
    /\ handed \in [Custodies -> [Accounts -> Nat]]

\* The rail passes on what the custody contract decided, to the account bound to
\* the role it decided for, and to nobody else: fund_custody's binding, the role
\* act_custody derives and the recipient of drain agree with the helper.
HandedAsDecided ==
    \A c \in Custodies :
        /\ payers[c] = NoAccount => c \notin custody_exists
        /\ \A a \in Accounts :
             handed[c][a] = (IF a = payers[c] THEN paid[c][Payer] ELSE 0)
                          + (IF a = payees[c] THEN paid[c][Payee] ELSE 0)
        /\ payers[c] = payees[c] => payers[c] = NoAccount

\* An accepted helper call is never lost to a check of the rail: between the two,
\* the output is the one act_custody computed from the record it read before, and
\* between calls no allowance is left behind.
DrainsMatch ==
    IF call = Idle THEN \A t \in Tokens : open_note[t].amount = 0
                   ELSE OutputMatches

\* A transaction that submits, confirms, asks for a revision, disputes or claims
\* pays the treasury a fee: its own, or that of a message of the same
\* transaction (last_message_tx), never that of an earlier one.
NoFreeAction == (call = Idle /\ acted) => charged

\* A certificate stands for a settlement that stayed clean: the payee's account got
\* the whole principal and there is no dispute, also at any later time.
CertifiedIsClean ==
    \A c \in Custodies, role \in Roles :
        certificates[c][role] # NoAccount =>
            /\ certificates[c][role] = certificate_to[c][role]
            /\ ~custodies[c].disputed
            /\ call = Idle => handed[c][payees[c]] = custodies[c].amount
=============================================================================
