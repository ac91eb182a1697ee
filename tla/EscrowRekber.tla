---------------------------- MODULE EscrowRekber ----------------------------
(* The Rekber custody contract: one principal per custody, held under the    *)
(* contract's ERC20 balance until it is released to the payee, refunded to   *)
(* the payer or split between them by the dispute resolver.                  *)
(*                                                                           *)
(* contracts/src/escrow_rekber/vinss_escrow_rekber.cairo.  One action per    *)
(* entry point.  A call that returns an OpenNoteDeposit leaves an exact      *)
(* allowance to the privacy pool; PoolCollect is the pool drawing it.  Calls *)
(* may come between the two (a pool transaction can invoke more than once),  *)
(* which is what the STALE_ALLOWANCE check of approve_exact is about.        *)
(*                                                                           *)
(* Secrets are abstracted to the party that holds them: "signers" is the set *)
(* of parties whose secrets are in the calldata.  The one-way chains are     *)
(* kept as positions: the preimage of head n is n - 1, the seed is 1.        *)
(*                                                                           *)
(* An operator named Bug_... is a faulty variant of the definition below it; *)
(* the specification does not use it.                                        *)
EXTENDS Integers, FiniteSets
LOCAL INSTANCE FiniteSetsExt

CONSTANTS
    Custodies,                \* custody commitments
    Tokens,                   \* supported ERC20 tokens
    Evidence,                 \* fulfillment evidence commitments
    NoEvidence,               \* the zero commitment
    NoCustody,                \* the custody of no open note
    Plans,                    \* DEPOSIT calldata the parties may send
    Transfers,                \* token amounts sent along with a DEPOSIT
    HasExternalVerifier,      \* external_verifier # 0
    MAX_FULFILLMENT_WINDOW, MIN_REVIEW_WINDOW, MAX_REVIEW_WINDOW,
    MAX_FULFILLMENT_ROUNDS, MAX_REVISION_ROUNDS,
    MAX_U128,                 \* largest reserve a token's counter can hold
    MaxTime                   \* bound: the last block timestamp

Payer == "payer"
Payee == "payee"
Roles == {Payer, Payee}
Revenue == "revenue"
Recipients == Roles \cup {Revenue}

POLICY_SUBMISSION_REVIEW == 1
POLICY_COUNTERPARTY_CONFIRM == 2
POLICY_EXTERNAL_VERIFY == 3
Policies == {POLICY_SUBMISSION_REVIEW, POLICY_COUNTERPARTY_CONFIRM,
             POLICY_EXTERNAL_VERIFY}

Plan == [token : Tokens, amount : Nat, quoted_fee : Nat,
         fulfillment_window : Nat, review_window : Nat, policy : Nat,
         fulfillment_rounds : Nat, revision_rounds : Nat]

ASSUME TokensAssumption == Tokens # {}
ASSUME PlansAssumption == Plans \subseteq Plan
ASSUME TransfersAssumption == Transfers \subseteq Nat
ASSUME EvidenceAssumption == NoEvidence \notin Evidence
ASSUME NoCustodyAssumption == NoCustody \notin Custodies
ASSUME LimitsAssumption ==
    /\ HasExternalVerifier \in BOOLEAN
    /\ MAX_FULFILLMENT_WINDOW \in Nat
    /\ MIN_REVIEW_WINDOW \in Nat \ {0} /\ MAX_REVIEW_WINDOW \in Nat
    /\ MAX_FULFILLMENT_ROUNDS \in Nat /\ MAX_REVISION_ROUNDS \in Nat
    /\ MAX_U128 \in Nat /\ MaxTime \in Nat

VARIABLES
    now,                \* get_block_timestamp()
    custody_exists,     \* the custodies that were funded
    custodies,          \* the stored EscrowRekberCustody records
    reserved_by_token,  \* principal the contract accounts for, per token
    balance,            \* ERC20 balance of the contract
    open_note,          \* the OpenNoteDeposit approved to the pool, per token
    paid,               \* what the pool has delivered, per custody
    consents            \* parties whose secrets settled the custody in full

vars == <<now, custody_exists, custodies, reserved_by_token, balance,
          open_note, paid, consents>>

-----------------------------------------------------------------------------
Custody ==
    [token : Tokens, amount : Nat, fee_amount : Nat,
     fulfillment_deadline : Nat, review_window : Nat,
     review_deadline : Nat, revision_deadline : Nat,
     verification_policy : Policies,
     fulfillment_rounds_remaining : Nat, revision_rounds_remaining : Nat,
     fulfillment_chain_head : Nat, revision_chain_head : Nat,
     fulfillment_evidence_commitment : Evidence \cup {NoEvidence},
     fulfillment_submitted : BOOLEAN, fulfillment_confirmed : BOOLEAN,
     revision_pending : BOOLEAN, disputed : BOOLEAN,
     resolution_authorized : BOOLEAN,
     resolution_amount : [Roles -> Nat],
     resolution_claimed : [Roles -> BOOLEAN],
     consumed : BOOLEAN, refunded : BOOLEAN,
     fulfilled_at : Nat, settled_at : Nat]

OpenNote == [custody : Custodies \cup {NoCustody}, to : Recipients, amount : Nat]

\* No allowance is outstanding.
NoNote == [custody |-> NoCustody, to |-> Revenue, amount |-> 0]

\* A storage slot that was never written.
Unfunded ==
    [token |-> CHOOSE t \in Tokens : TRUE, amount |-> 0, fee_amount |-> 0,
     fulfillment_deadline |-> 0, review_window |-> 0,
     review_deadline |-> 0, revision_deadline |-> 0,
     verification_policy |-> POLICY_SUBMISSION_REVIEW,
     fulfillment_rounds_remaining |-> 0, revision_rounds_remaining |-> 0,
     fulfillment_chain_head |-> 0, revision_chain_head |-> 0,
     fulfillment_evidence_commitment |-> NoEvidence,
     fulfillment_submitted |-> FALSE, fulfillment_confirmed |-> FALSE,
     revision_pending |-> FALSE, disputed |-> FALSE,
     resolution_authorized |-> FALSE,
     resolution_amount |-> [role \in Roles |-> 0],
     resolution_claimed |-> [role \in Roles |-> FALSE],
     consumed |-> FALSE, refunded |-> FALSE,
     fulfilled_at |-> 0, settled_at |-> 0]

Init ==
    /\ now = 1
    /\ custody_exists = {}
    /\ custodies = [c \in Custodies |-> Unfunded]
    /\ reserved_by_token = [t \in Tokens |-> 0]
    /\ balance = [t \in Tokens |-> 0]
    /\ open_note = [t \in Tokens |-> NoNote]
    /\ paid = [c \in Custodies |-> [to \in Recipients |-> 0]]
    /\ consents = [c \in Custodies |-> {}]

-----------------------------------------------------------------------------
(* Helpers shared by the entry points.                                       *)

\* No custody is ever funded twice under one commitment.
FreshCustody(c) == c \notin custody_exists

\* require_open_custody: funded and not consumed.
Open(c) == c \in custody_exists /\ ~custodies[c].consumed

\* compute_fulfillment_chain_step, compute_revision_chain_step.
ChainStep(secret) == secret + 1

\* The allowance approve_exact finds: zero unless a note is still open.
NoStaleAllowance(t) == open_note[t].amount = 0

ApproveExact(t, c, to, amount) ==
    /\ NoStaleAllowance(t)
    /\ open_note' = [open_note EXCEPT
                       ![t] = [custody |-> c, to |-> to, amount |-> amount]]

Bug_Backed(t, amount) ==
    reserved_by_token[t] >= amount /\ balance[t] >= reserved_by_token[t] + amount

\* The RESERVE_INVARIANT checks made before a payout.
Backed(t, amount) ==
    reserved_by_token[t] >= amount /\ balance[t] >= reserved_by_token[t]

\* prepare_partial_output: move an amount from the reserve to an allowance.
PrepareOutput(c, to, amount) ==
    LET t == custodies[c].token IN
    /\ amount # 0
    /\ Backed(t, amount)
    /\ reserved_by_token' = [reserved_by_token EXCEPT ![t] = @ - amount]
    /\ ApproveExact(t, c, to, amount)

\* finalize_full_output: the whole principal leaves at once.
FinalizeFullOutput(c, isRefund, signers) ==
    /\ PrepareOutput(c, IF isRefund THEN Payer ELSE Payee, custodies[c].amount)
    /\ custodies' = [custodies EXCEPT
                       ![c] = [@ EXCEPT !.consumed = TRUE,
                                        !.refunded = isRefund,
                                        !.settled_at = now]]
    /\ consents' = [consents EXCEPT ![c] = signers]
    /\ UNCHANGED <<now, custody_exists, balance, paid>>

Bug_StartReview(r) == [r EXCEPT !.fulfillment_confirmed = TRUE]

\* start_review, on a record the caller is about to store.
StartReview(r) ==
    [r EXCEPT !.fulfillment_confirmed = TRUE,
              !.review_deadline = now + r.review_window]

\* An entry point that only rewrites the custody record.
Store(c, r) ==
    /\ custodies' = [custodies EXCEPT ![c] = r]
    /\ UNCHANGED <<now, custody_exists, reserved_by_token, balance,
                   open_note, paid, consents>>

-----------------------------------------------------------------------------
(* DEPOSIT                                                                   *)

\* Every revision leaves a round to answer it with.
RoundsFit(plan) == plan.revision_rounds < plan.fulfillment_rounds

ValidPlan(plan) ==
    /\ plan.amount # 0
    /\ plan.fulfillment_window > 0
    /\ plan.fulfillment_window <= MAX_FULFILLMENT_WINDOW
    /\ plan.review_window >= MIN_REVIEW_WINDOW
    /\ plan.review_window <= MAX_REVIEW_WINDOW
    /\ plan.policy \in Policies
    /\ plan.fulfillment_rounds > 0
    /\ plan.fulfillment_rounds <= MAX_FULFILLMENT_ROUNDS
    /\ plan.revision_rounds <= MAX_REVISION_ROUNDS
    /\ RoundsFit(plan)
    /\ plan.policy = POLICY_EXTERNAL_VERIFY => HasExternalVerifier
    /\ plan.quoted_fee # 0

Funded(plan) ==
    [Unfunded EXCEPT
       !.token = plan.token,
       !.amount = plan.amount,
       !.fee_amount = plan.quoted_fee,
       !.fulfillment_deadline = now + plan.fulfillment_window,
       !.review_window = plan.review_window,
       !.verification_policy = plan.policy,
       !.fulfillment_rounds_remaining = plan.fulfillment_rounds,
       !.revision_rounds_remaining = plan.revision_rounds,
       !.fulfillment_chain_head = plan.fulfillment_rounds + 1,
       !.revision_chain_head = plan.revision_rounds + 1]

Bug_FundsReceived(held, reserved, fee) == held >= reserved

\* The balance covers the whole reserve and the fee.
FundsReceived(held, reserved, fee) == held >= reserved + fee

\* The oracle-backed quote equals plan.quoted_fee, or the call reverts.  The
\* pool sends tokens to the contract in the same transaction; the contract
\* sees only the resulting balance.
Deposit(c, plan, sent) ==
    LET t == plan.token
        reserved == reserved_by_token[t] + plan.amount
    IN
    /\ FreshCustody(c)
    /\ ValidPlan(plan)
    /\ reserved <= MAX_U128
    /\ FundsReceived(balance[t] + sent, reserved, plan.quoted_fee)
    /\ custodies' = [custodies EXCEPT ![c] = Funded(plan)]
    /\ custody_exists' = custody_exists \cup {c}
    /\ reserved_by_token' = [reserved_by_token EXCEPT ![t] = reserved]
    /\ balance' = [balance EXCEPT ![t] = @ + sent]
    /\ ApproveExact(t, c, Revenue, plan.quoted_fee)
    /\ UNCHANGED <<now, paid, consents>>

-----------------------------------------------------------------------------
(* SUBMIT_FULFILLMENT, CONFIRM_FULFILLMENT, confirm_external_fulfillment     *)

\* A revision is answered up to its deadline, a first submission before it.
SubmitInTime(r) ==
    IF r.revision_pending
      THEN now <= r.revision_deadline
      ELSE ~r.fulfillment_submitted /\ now < r.fulfillment_deadline

Bug_CanSubmit(c) ==
    /\ Open(c)
    /\ custodies[c].fulfillment_rounds_remaining > 0
    /\ SubmitInTime(custodies[c])

CanSubmit(c) ==
    /\ Open(c)
    /\ ~custodies[c].disputed
    /\ custodies[c].fulfillment_rounds_remaining > 0
    /\ SubmitInTime(custodies[c])

\* The record after an accepted submission, before the policy is applied.
Submitted(r, secret, evidence) ==
    [r EXCEPT !.fulfillment_chain_head = secret,
              !.fulfillment_rounds_remaining = @ - 1,
              !.fulfillment_evidence_commitment = evidence,
              !.fulfillment_submitted = TRUE,
              !.revision_pending = FALSE,
              !.revision_deadline = 0,
              !.fulfilled_at = now]

\* Submission review starts at once; the other policies wait for a receipt.
SubmitFulfillment(c, secret, evidence) ==
    LET r == custodies[c]
        submitted == Submitted(r, secret, evidence)
    IN
    /\ CanSubmit(c)
    /\ ChainStep(secret) = r.fulfillment_chain_head
    /\ Store(c, IF r.verification_policy = POLICY_SUBMISSION_REVIEW
                  THEN StartReview(submitted)
                  ELSE [submitted EXCEPT !.fulfillment_confirmed = FALSE,
                                         !.review_deadline = 0])

\* What the payer's and the verifier's confirmation have in common.
CanConfirm(c, policy, evidence) ==
    LET r == custodies[c] IN
    /\ Open(c)
    /\ ~r.disputed
    /\ r.verification_policy = policy
    /\ r.fulfillment_submitted
    /\ ~r.fulfillment_confirmed
    /\ evidence = r.fulfillment_evidence_commitment

ConfirmFulfillment(c, evidence, signers) ==
    /\ CanConfirm(c, POLICY_COUNTERPARTY_CONFIRM, evidence)
    /\ Payer \in signers
    /\ Store(c, StartReview(custodies[c]))

ConfirmExternalFulfillment(c, evidence) ==
    /\ HasExternalVerifier
    /\ CanConfirm(c, POLICY_EXTERNAL_VERIFY, evidence)
    /\ Store(c, StartReview(custodies[c]))

-----------------------------------------------------------------------------
(* REQUEST_REVISION, OPEN_DISPUTE, authorize_dispute_resolution              *)

CanRequestRevision(c) ==
    LET r == custodies[c] IN
    /\ Open(c)
    /\ ~r.disputed
    /\ r.verification_policy = POLICY_SUBMISSION_REVIEW
    /\ r.fulfillment_submitted /\ r.fulfillment_confirmed
    /\ ~r.revision_pending
    /\ r.revision_rounds_remaining > 0
    /\ r.fulfillment_rounds_remaining > 0
    /\ now < r.review_deadline

RequestRevision(c, secret) ==
    LET r == custodies[c] IN
    /\ CanRequestRevision(c)
    /\ ChainStep(secret) = r.revision_chain_head
    /\ Store(c, [r EXCEPT
            !.revision_chain_head = secret,
            !.revision_rounds_remaining = @ - 1,
            !.revision_pending = TRUE,
            !.fulfillment_confirmed = FALSE,
            !.review_deadline = 0,
            !.revision_deadline = now + r.review_window])

CanOpenDispute(c) ==
    LET r == custodies[c] IN
    /\ Open(c)
    /\ r.fulfillment_submitted
    /\ ~r.disputed
    /\ (r.fulfillment_confirmed /\ r.review_deadline # 0)
         => now < r.review_deadline

\* Either party, each with a dispute secret of its own.
OpenDispute(c, role) ==
    /\ CanOpenDispute(c)
    /\ Store(c, [custodies[c] EXCEPT !.disputed = TRUE])

Bug_CanAuthorize(c) == Open(c) /\ custodies[c].disputed

CanAuthorize(c) ==
    /\ Open(c)
    /\ custodies[c].disputed
    /\ ~custodies[c].resolution_authorized

Bug_ZeroShareClaimed(share) == FALSE

\* A zero share needs no claim and counts as claimed.
ZeroShareClaimed(share) == share = 0

\* Only dispute_resolver may call.
AuthorizeDisputeResolution(c, payer_amount, payee_amount) ==
    LET r == custodies[c] IN
    /\ CanAuthorize(c)
    /\ payer_amount + payee_amount = r.amount
    /\ Store(c, [r EXCEPT
            !.resolution_amount = [role \in Roles |->
                 IF role = Payer THEN payer_amount ELSE payee_amount],
            !.resolution_authorized = TRUE,
            !.resolution_claimed = [role \in Roles |->
                 ZeroShareClaimed(IF role = Payer THEN payer_amount
                                                  ELSE payee_amount)]])

-----------------------------------------------------------------------------
(* RELEASE, AUTO_RELEASE, REFUND, MUTUAL_REFUND, CLAIM_RESOLUTION            *)

NoResolution(c) ==
    /\ ~custodies[c].resolution_authorized
    /\ \A role \in Roles : ~custodies[c].resolution_claimed[role]

Reviewable(c) ==
    /\ custodies[c].fulfillment_submitted
    /\ custodies[c].fulfillment_confirmed
    /\ ~custodies[c].revision_pending

CanRelease(c) == Open(c) /\ NoResolution(c) /\ Reviewable(c)

ReleaseCustody(c, signers) ==
    /\ CanRelease(c)
    /\ {Payer, Payee} \subseteq signers
    /\ FinalizeFullOutput(c, FALSE, signers)

CanAutoRelease(c) ==
    /\ Open(c)
    /\ ~custodies[c].disputed
    /\ Reviewable(c)
    /\ custodies[c].review_deadline # 0
    /\ now >= custodies[c].review_deadline

AutoRelease(c, signers) ==
    /\ CanAutoRelease(c)
    /\ Payee \in signers
    /\ FinalizeFullOutput(c, FALSE, signers)

CanRefund(c) ==
    /\ Open(c)
    /\ ~custodies[c].fulfillment_submitted
    /\ ~custodies[c].disputed
    /\ now >= custodies[c].fulfillment_deadline

RefundNoFulfillment(c, signers) ==
    /\ CanRefund(c)
    /\ Payer \in signers
    /\ FinalizeFullOutput(c, TRUE, signers)

CanMutualRefund(c) == Open(c) /\ NoResolution(c)

Bug_MutualRefund(c, signers) ==
    /\ CanMutualRefund(c)
    /\ Payer \in signers
    /\ FinalizeFullOutput(c, TRUE, signers)

MutualRefund(c, signers) ==
    /\ CanMutualRefund(c)
    /\ {Payer, Payee} \subseteq signers
    /\ FinalizeFullOutput(c, TRUE, signers)

CanClaim(c, role) ==
    LET r == custodies[c] IN
    /\ Open(c)
    /\ r.disputed
    /\ r.resolution_authorized
    /\ ~r.resolution_claimed[role]
    /\ r.resolution_amount[role] > 0

\* The last outstanding claim closes the custody.
ClaimResolution(c, role, signers) ==
    LET r == custodies[c]
        claimed == [r.resolution_claimed EXCEPT ![role] = TRUE]
        marked == [r EXCEPT !.resolution_claimed = claimed]
    IN
    /\ CanClaim(c, role)
    /\ role \in signers
    /\ PrepareOutput(c, role, r.resolution_amount[role])
    /\ custodies' = [custodies EXCEPT ![c] =
         IF claimed[Payer] /\ claimed[Payee]
           THEN [marked EXCEPT
                   !.consumed = TRUE,
                   !.refunded = (r.resolution_amount[Payee] = 0),
                   !.settled_at = now]
           ELSE marked]
    /\ UNCHANGED <<now, custody_exists, balance, paid, consents>>

-----------------------------------------------------------------------------
(* Environment: the privacy pool and block time.                             *)

\* The pool draws the approved amount into the note named by the calldata.
PoolCollect(t) ==
    LET n == open_note[t] IN
    /\ n.amount # 0
    /\ balance[t] >= n.amount
    /\ balance' = [balance EXCEPT ![t] = @ - n.amount]
    /\ open_note' = [open_note EXCEPT ![t] = NoNote]
    /\ paid' = [paid EXCEPT ![n.custody][n.to] = @ + n.amount]
    /\ UNCHANGED <<now, custody_exists, custodies, reserved_by_token, consents>>

Tick ==
    /\ now < MaxTime
    /\ now' = now + 1
    /\ UNCHANGED <<custody_exists, custodies, reserved_by_token, balance,
                   open_note, paid, consents>>

-----------------------------------------------------------------------------
(* The calls the parties, the verifier and the resolver may make on c.       *)
DepositStep(c) == \E plan \in Plans, sent \in Transfers : Deposit(c, plan, sent)
SubmitStep(c) ==
    \E secret \in 1..MAX_FULFILLMENT_ROUNDS, e \in Evidence :
        SubmitFulfillment(c, secret, e)
ConfirmStep(c) ==
    \E e \in Evidence, s \in SUBSET Roles : ConfirmFulfillment(c, e, s)
VerifyStep(c) == \E e \in Evidence : ConfirmExternalFulfillment(c, e)
RevisionStep(c) ==
    \E secret \in 1..MAX_REVISION_ROUNDS : RequestRevision(c, secret)
DisputeStep(c) == \E role \in Roles : OpenDispute(c, role)
ResolveStep(c) ==
    \E x, y \in 0..MAX_U128 : AuthorizeDisputeResolution(c, x, y)
ReleaseStep(c) == \E s \in SUBSET Roles : ReleaseCustody(c, s)
AutoReleaseStep(c) == \E s \in SUBSET Roles : AutoRelease(c, s)
RefundStep(c) == \E s \in SUBSET Roles : RefundNoFulfillment(c, s)
MutualRefundStep(c) == \E s \in SUBSET Roles : MutualRefund(c, s)
ClaimStep(c, role) == \E s \in SUBSET Roles : ClaimResolution(c, role, s)

CustodyNext(c) ==
    \/ DepositStep(c)
    \/ SubmitStep(c)
    \/ ConfirmStep(c)
    \/ VerifyStep(c)
    \/ RevisionStep(c)
    \/ DisputeStep(c)
    \/ ResolveStep(c)
    \/ ReleaseStep(c)
    \/ AutoReleaseStep(c)
    \/ RefundStep(c)
    \/ MutualRefundStep(c)
    \/ \E role \in Roles : ClaimStep(c, role)

Next ==
    \/ \E c \in Custodies : CustodyNext(c)
    \/ \E t \in Tokens : PoolCollect(t)
    \/ Tick

Spec == Init /\ [][Next]_vars

(* What must happen without either party's goodwill: time passes, the pool   *)
(* collects the notes it was given, the party that a timeout protects uses   *)
(* it, the resolver decides, and a party claims the share it was awarded.    *)
Fairness ==
    /\ WF_vars(Tick)
    /\ \A t \in Tokens : WF_vars(PoolCollect(t))
    /\ \A c \in Custodies :
         /\ WF_vars(RefundStep(c))
         /\ WF_vars(AutoReleaseStep(c))
         /\ WF_vars(ResolveStep(c))
         /\ \A role \in Roles : WF_vars(ClaimStep(c, role))

FairSpec == Spec /\ Fairness

-----------------------------------------------------------------------------
(* Properties.                                                               *)

\* Every variable has its type.
TypeOK ==
    /\ now \in Nat
    /\ custody_exists \in SUBSET Custodies
    /\ custodies \in [Custodies -> Custody]
    /\ reserved_by_token \in [Tokens -> Nat]
    /\ balance \in [Tokens -> Nat]
    /\ open_note \in [Tokens -> OpenNote]
    /\ paid \in [Custodies -> [Recipients -> Nat]]
    /\ consents \in [Custodies -> SUBSET Roles]

\* The contract's balance always covers the principal it accounts for and the
\* allowance it has given away, whatever calls come before the pool collects
\* (deposit_custody, prepare_partial_output, approve_exact).
Solvent ==
    \A t \in Tokens :
        balance[t] >= reserved_by_token[t] + open_note[t].amount

\* What the contract has let go to a party so far.
DueOf(r, role) ==
    IF r.resolution_authorized
      THEN IF r.resolution_claimed[role] THEN r.resolution_amount[role] ELSE 0
      ELSE IF r.consumed /\ (r.refunded = (role = Payer)) THEN r.amount ELSE 0

Due(c, role) == DueOf(custodies[c], role)

Held(c) == custodies[c].amount - Due(c, Payer) - Due(c, Payee)

\* Approved to the pool for a recipient and not collected yet.
Uncollected(c, to) ==
    LET n == open_note[custodies[c].token] IN
    IF n.custody = c /\ n.to = to THEN n.amount ELSE 0

\* The reserve of a token is exactly the principal of its custodies that has
\* not been let go: no deposit, payout or partial claim is counted twice or
\* forgotten (reserved_by_token against the custody records).
ReserveIsHeldPrincipal ==
    \A t \in Tokens :
        reserved_by_token[t] =
            MapThenSumSet(Held,
                          {c \in custody_exists : custodies[c].token = t})

\* Each recipient gets what its custody decided, once, and nothing approved is
\* lost to a later approval: delivered plus collectable equals what is due, and
\* the fee is paid once and apart from the principal.
PaidAsDecided ==
    \A c \in custody_exists :
        /\ \A role \in Roles : paid[c][role] + Uncollected(c, role) = Due(c, role)
        /\ paid[c][Revenue] + Uncollected(c, Revenue) = custodies[c].fee_amount

\* The parties that settled r alone had the right to.
Rightful(r, signers) ==
    (r.consumed /\ ~r.resolution_authorized) =>
        \/ signers = Roles
        \/ /\ signers = {Payer} /\ r.refunded
           /\ ~r.fulfillment_submitted
           /\ r.settled_at >= r.fulfillment_deadline
        \/ /\ signers = {Payee} /\ ~r.refunded
           /\ r.fulfillment_confirmed /\ ~r.disputed
           /\ r.settled_at >= r.fulfilled_at + r.review_window

\* A custody that ends without the resolver ends with both parties' secrets, or
\* by the payer alone when nothing was submitted in time, or by the payee alone
\* after an undisputed fulfillment and a full review window since the last
\* submission.
SettledByRight ==
    \A c \in custody_exists : Rightful(custodies[c], consents[c])

\* At no timestamp do a right and the timeout that ends it coexist: submission
\* and timeout refund, revision or dispute and auto-release.
TimeoutsExclusive ==
    \A c \in Custodies :
        /\ ~(CanSubmit(c) /\ CanRefund(c))
        /\ ~(CanRequestRevision(c) /\ CanAutoRelease(c))
        /\ ~(CanOpenDispute(c) /\ CanAutoRelease(c))

\* No open custody is stuck: it waits for a deadline that ends in a refund or an
\* auto-release, or a dispute can be opened, resolved or claimed.
NoDeadEnd ==
    \A c \in Custodies :
        Open(c) =>
            \/ CanRefund(c)
            \/ ~custodies[c].fulfillment_submitted /\ now < custodies[c].fulfillment_deadline
            \/ CanAutoRelease(c)
            \/ CanOpenDispute(c)
            \/ CanAuthorize(c)
            \/ \E role \in Roles : CanClaim(c, role)

\* Under review, the payer's remaining revisions never outnumber the rounds the
\* payee has left to answer them (the deposit's bound, kept by every step).
RevisionsAnswerable ==
    \A c \in custody_exists :
        LET r == custodies[c] IN
        /\ r.fulfillment_submitted =>
             r.revision_rounds_remaining <= r.fulfillment_rounds_remaining
        /\ r.revision_pending =>
             r.revision_rounds_remaining < r.fulfillment_rounds_remaining

\* The chain heads move with the round counters, so a revealed secret is never
\* accepted again and the last round still has a preimage.
SecretsInStep ==
    \A c \in custody_exists :
        LET r == custodies[c] IN
        /\ r.fulfillment_chain_head = r.fulfillment_rounds_remaining + 1
        /\ r.revision_chain_head = r.revision_rounds_remaining + 1

\* What the parties may dispute about.
Facts(r) ==
    <<r.fulfillment_evidence_commitment, r.fulfilled_at,
      r.fulfillment_rounds_remaining, r.revision_rounds_remaining,
      r.fulfillment_submitted, r.fulfillment_confirmed, r.revision_pending,
      r.review_deadline, r.revision_deadline>>

\* Once a dispute is open it stays open, and the facts it is about stay as they
\* were: evidence, rounds, confirmation, revision and deadlines.
DisputeFreezes ==
    [][\A c \in Custodies :
         custodies[c].disputed =>
            /\ custodies'[c].disputed
            /\ Facts(custodies'[c]) = Facts(custodies[c])]_vars

\* The resolver's split is final: the shares never change, a claim is never taken
\* back, and the principal leaves by claims only.
ResolutionFinal ==
    [][\A c \in Custodies :
         LET r == custodies[c]
             s == custodies'[c]
         IN
         r.resolution_authorized =>
            /\ s.resolution_authorized
            /\ s.resolution_amount = r.resolution_amount
            /\ \A role \in Roles :
                 r.resolution_claimed[role] => s.resolution_claimed[role]
            /\ consents'[c] = consents[c]]_vars

\* A payee that never submits cannot keep the principal: it reaches the payer's
\* note unless the custody goes another way first.
SilentPayeeRefunded ==
    \A c \in Custodies :
        (Open(c) /\ ~custodies[c].fulfillment_submitted
            /\ custodies[c].fulfillment_deadline <= MaxTime)
          ~> \/ custodies[c].fulfillment_submitted
             \/ paid[c][Payer] = custodies[c].amount
             \/ paid[c][Payee] = custodies[c].amount

\* A payer that stays silent after a confirmed fulfillment cannot lock the payee
\* out: unless the payer acts, the principal reaches the payee's note.
SilentPayerReleased ==
    \A c \in Custodies :
        (Open(c) /\ Reviewable(c) /\ custodies[c].review_deadline <= MaxTime)
          ~> \/ custodies[c].revision_pending
             \/ custodies[c].disputed
             \/ paid[c][Payee] = custodies[c].amount
             \/ paid[c][Payer] = custodies[c].amount

\* An open dispute ends with the whole principal delivered and the custody closed,
\* also when the resolver leaves one party nothing.
DisputeSettles ==
    \A c \in Custodies :
        (Open(c) /\ custodies[c].disputed)
          ~> /\ custodies[c].consumed
             /\ paid[c][Payer] + paid[c][Payee] = custodies[c].amount

\* The division a custody has settled on; resolver authorization and a full
\* payout both fix it.
Division(c) ==
    LET r == custodies[c] IN
    IF r.resolution_authorized
      THEN r.resolution_amount
      ELSE [role \in Roles |->
              IF r.consumed /\ r.refunded = (role = Payer) THEN r.amount ELSE 0]

\* The contract keeps the promise of CustodyPromise: money is delivered when the
\* pool collects a note; reserves, notes, policies and clocks are hidden.
Promise == INSTANCE CustodyPromise WITH
    MaxPrincipal <- MAX_U128,
    principal <- [c \in Custodies |-> custodies[c].amount],
    share <- [c \in Custodies |-> Division(c)],
    delivered <- [c \in Custodies |-> [role \in Roles |-> paid[c][role]]]

\* Safety: every step of the contract is a step of the promise or hidden from it.
KeepsPromise == Promise!Safe

\* With fairness: a share that was fixed reaches its party's note.
DeliversPromise == Promise!Spec

-----------------------------------------------------------------------------
(* The inductive invariant behind the safety properties.                     *)

\* What relates the flags, deadlines, shares and rounds of a funded record.
Coherent(r) ==
    /\ r.amount > 0 /\ r.amount <= MAX_U128 /\ r.review_window > 0
    /\ r.fulfilled_at <= now
    /\ r.fulfillment_confirmed =>
         /\ r.fulfillment_submitted /\ ~r.revision_pending
         /\ r.review_deadline >= r.fulfilled_at + r.review_window
    /\ r.revision_pending =>
         r.fulfillment_submitted /\ r.verification_policy = POLICY_SUBMISSION_REVIEW
    /\ r.disputed => r.fulfillment_submitted
    /\ r.resolution_authorized =>
         /\ r.disputed
         /\ r.resolution_amount[Payer] + r.resolution_amount[Payee] = r.amount
         /\ \A role \in Roles :
              r.resolution_claimed[role] \/ r.resolution_amount[role] > 0
         /\ r.consumed = (\A role \in Roles : r.resolution_claimed[role])
    /\ r.fulfillment_chain_head = r.fulfillment_rounds_remaining + 1
    /\ r.revision_chain_head = r.revision_rounds_remaining + 1
    /\ IF r.fulfillment_submitted /\ ~r.revision_pending
         THEN r.revision_rounds_remaining <= r.fulfillment_rounds_remaining
         ELSE r.revision_rounds_remaining < r.fulfillment_rounds_remaining

Lifecycle == \A c \in custody_exists : Coherent(custodies[c])

\* A slot that was never funded was never written.
Unwritten == \A c \in Custodies \ custody_exists : custodies[c] = Unfunded

\* A token has at most one open note, for a funded custody in that token.
NotesBelong ==
    \A t \in Tokens :
        IF open_note[t].amount = 0
          THEN open_note[t] = NoNote
          ELSE /\ open_note[t].custody \in custody_exists
               /\ custodies[open_note[t].custody].token = t

\* Nothing is paid for a custody that was never funded, nor twice.
PaidOnce ==
    \A c \in Custodies, to \in Recipients :
        /\ c \notin custody_exists => paid[c][to] = 0
        /\ paid[c][to] = 0 \/ Uncollected(c, to) = 0

\* Holds in every reachable state, and every step keeps it.
IInv ==
    /\ TypeOK
    /\ Lifecycle
    /\ Unwritten
    /\ Solvent
    /\ NotesBelong
    /\ PaidOnce
    /\ PaidAsDecided
    /\ SettledByRight
=============================================================================
