----------------------------- MODULE RekberDeal -----------------------------
(***************************************************************************)
(* From an accepted offer to a settled custody: the Rekber panel of the    *)
(* payer and of the payee (EscrowPanel.tsx), the capabilities each keeps   *)
(* on its device (rekberSecrets.ts), the coordination records they send to *)
(* one another, and the custody contract as the two panels drive it.       *)
(*                                                                         *)
(* The payer signs a setup for a fresh custody and sends it; the payee     *)
(* signs an acceptance of it and sends that; the payer funds the custody   *)
(* with the commitments of both; work is submitted and reviewed; the payer *)
(* sends the release secret; the payee claims. Signing and sending are two *)
(* taps. A wallet request stays open until its owner approves it, also     *)
(* when the page has given it up. The records on chain are discovered at   *)
(* once (RoomDesk has the delays of discovery).                            *)
(***************************************************************************)
EXTENDS Naturals, FiniteSets, Sequences, SequencesExt

CONSTANTS MaxCustodies,  \* bound: setups the payer signs
          MaxSigned,     \* bound: acceptances the payee signs, per policy
          MaxOpened,     \* bound: times each panel is opened (one that could not be opened again stays open)
          MaxPrompts,    \* bound: wallet requests open at once
          MaxFunded,     \* bound: custodies that are funded
          MaxWork,       \* bound: work handlers that run at once
          MaxRounds,     \* maxFulfillmentRounds of the settlement plan
          MaxRevisions,  \* maxRevisionRounds of the settlement plan
          Policies       \* verificationPolicyCode: 1 submission_review, 2 counterparty_confirm

Parties == {"payer", "payee"}

ASSUME DealAssumption ==
  /\ MaxCustodies \in Nat \ {0} /\ MaxPrompts \in Nat \ {0} /\ MaxFunded \in Nat
  /\ MaxWork \in Nat /\ MaxSigned \in [Policies -> Nat] /\ MaxOpened \in Nat
  /\ MaxRounds \in 1 .. 8 /\ MaxRevisions \in 0 .. 8 /\ Policies \subseteq {1, 2}

Custodies == 1 .. MaxCustodies

VARIABLES
  panel,     \* is the party's panel open on the accepted offer
  opened,
  custody,   \* custodyCommitment of the panel, 0 for none
  unread,    \* the stored capabilities of that custody are still to be read
  mine,      \* localSecrets: their version, 0 for none
  pend,      \* pendingPayerSetup, pendingPayeeAcceptance: signed, not sent
  act,       \* pendingRekberAction of the panel
  busy,      \* the page's busy flag
  crossed,   \* history: since the page was loaded, a work handler took the flag from another
  ops,       \* handlers that wait for a signature or a wallet
  signed,    \* custodies and acceptances signed so far
  stored,    \* capabilities on the device: their version, 0 for none
  unsent,    \* custodies whose stored capabilities hold a pending payload
  creates,   \* setup records on chain, in order
  accepts,   \* acceptance records on chain
  releases,  \* custodies whose release secret is on chain
  prompts,   \* open wallet requests
  esc,       \* the custody contract
  late,      \* custodies whose fulfilment deadline has passed
  policy     \* the verification policy of the accepted plan

pageVars == <<panel, opened, custody, unread, mine, pend>>
lockVars == <<act, busy, crossed, ops>>
deviceVars == <<signed, stored, unsent>>
chainVars == <<creates, accepts, releases, esc, late, policy>>
vars == <<pageVars, lockVars, deviceVars, chainVars, prompts>>

None == [k |-> 0, ver |-> 0]
Empty == [st |-> "none", ver |-> 0, sub |-> 0, rev |-> 0]

Init ==
  /\ panel = [c \in Parties |-> FALSE] /\ opened = [c \in Parties |-> 0]
  /\ custody = [c \in Parties |-> 0]
  /\ unread = [c \in Parties |-> FALSE]
  /\ mine = [c \in Parties |-> 0]
  /\ pend = [c \in Parties |-> None]
  /\ act = [c \in Parties |-> "none"] /\ busy = [c \in Parties |-> FALSE]
  /\ crossed = [c \in Parties |-> FALSE] /\ ops = {}
  /\ signed = [c \in Parties |-> 0]
  /\ stored = [c \in Parties |-> [k \in Custodies |-> 0]]
  /\ unsent = [c \in Parties |-> {}]
  /\ creates = <<>> /\ accepts = {} /\ releases = {}
  /\ prompts = {}
  /\ esc = [k \in Custodies |-> Empty] /\ late = {}
  /\ policy \in Policies

-----------------------------------------------------------------------------
(* What a panel derives from the discovered records.                       *)

\* The last setup of this offer; the panel follows it.
discoveredCreate == IF creates = <<>> THEN 0 ELSE Last(creates)

\* What a signature binds: the custody and the signer's commitments for it. The
\* rest of the signed terms is the same in every setup of this offer.
SignedSetup(k) == [k |-> k, ver |-> 1]
SignedAcceptance(k, ver) == [k |-> k, ver |-> ver]

\* An acceptance counts for the setup whose custody it was signed for.
verifyRekberAcceptance(k, r) == r.k = k

AcceptsOf(k) == {r \in accepts : verifyRekberAcceptance(k, r)}

\* Setup and acceptance carry the commitments the custody was funded with.
custodyVerification(k) == \E r \in AcceptsOf(k) : r.ver = esc[k].ver
funded(k) == esc[k].st # "none" /\ custodyVerification(k)

\* The release secret of the payer was found.
discoveredRelease(k) == k \in releases

settled(k) == esc[k].st \in {"released", "refunded"}

-----------------------------------------------------------------------------
(* The panel and the page.                                                 *)

\* Opened from an accepted offer; the panel's memory starts empty and adopts
\* the custody of the last setup.
Open(c) ==
  /\ ~panel[c] /\ opened[c] < MaxOpened
  /\ panel' = [panel EXCEPT ![c] = TRUE]
  /\ opened' = [opened EXCEPT ![c] = @ + 1]
  /\ custody' = [custody EXCEPT ![c] = discoveredCreate]
  /\ unread' = [unread EXCEPT ![c] = discoveredCreate # 0]
  /\ UNCHANGED <<mine, pend, lockVars, deviceVars, chainVars, prompts>>

\* Closed while a handler runs: the handler goes on without its panel, and the
\* page stays busy for the one that held the lock.
Leave(c) ==
  /\ panel' = [panel EXCEPT ![c] = FALSE]
  /\ custody' = [custody EXCEPT ![c] = 0] /\ unread' = [unread EXCEPT ![c] = FALSE]
  /\ mine' = [mine EXCEPT ![c] = 0] /\ pend' = [pend EXCEPT ![c] = None]
  /\ act' = [act EXCEPT ![c] = "none"]

Close(c) ==
  /\ panel[c] /\ opened[c] < MaxOpened
  /\ Leave(c)
  /\ ops' = {IF o.who = c /\ o.at = "panel"
               THEN [o EXCEPT !.at = IF act[c] = o.act THEN "holds" ELSE "gone"]
               ELSE o : o \in ops}
  /\ UNCHANGED <<opened, busy, crossed, deviceVars, chainVars, prompts>>

\* The page is loaded again: every handler of this party is gone.
Reload(c) ==
  /\ opened[c] < MaxOpened /\ (busy[c] \/ panel[c])
  /\ Leave(c)
  /\ busy' = [busy EXCEPT ![c] = FALSE] /\ crossed' = [crossed EXCEPT ![c] = FALSE]
  /\ ops' = {o \in ops : o.who # c}
  /\ UNCHANGED <<opened, deviceVars, chainVars, prompts>>

\* loadRekberSecrets; a signed payload that was not seen on chain is restored.
LoadSecrets(c) ==
  /\ unread[c]
  /\ LET k == custody[c]
         missing == IF c = "payer" THEN k \notin ToSet(creates) ELSE AcceptsOf(k) = {} IN
       /\ mine' = [mine EXCEPT ![c] = stored[c][k]]
       /\ pend' = IF k \in unsent[c] /\ missing
                    THEN [pend EXCEPT ![c] = [k |-> k, ver |-> stored[c][k]]] ELSE pend
  /\ unread' = [unread EXCEPT ![c] = FALSE]
  /\ UNCHANGED <<panel, opened, custody, lockVars, deviceVars, chainVars, prompts>>

-----------------------------------------------------------------------------
(* The lock of the panel and the busy flag of the page.                    *)

Ready(c) == panel[c] /\ ~busy[c]

beginRekberAction(c, a) ==
  /\ act' = [act EXCEPT ![c] = a]
  /\ busy' = [busy EXCEPT ![c] = TRUE]

Run(c, a, step, k, ver) ==
  /\ beginRekberAction(c, a)
  /\ ops' = ops \union {[who |-> c, act |-> a, step |-> step, k |-> k, ver |-> ver, at |-> "panel"]}
  /\ UNCHANGED crossed

Bug_finishRekberAction(o) ==
  /\ busy' = [busy EXCEPT ![o.who] = FALSE]
  /\ act' = [act EXCEPT ![o.who] = "none"]

\* A delayed callback must not unlock a newer action.
finishRekberAction(o) ==
  LET holds == o.at = "holds" \/ (o.at = "panel" /\ act[o.who] = o.act) IN
    /\ busy' = IF holds THEN [busy EXCEPT ![o.who] = FALSE] ELSE busy
    /\ act' = IF holds /\ o.at = "panel" THEN [act EXCEPT ![o.who] = "none"] ELSE act

End(o) == o.at # "chat" /\ finishRekberAction(o) /\ ops' = ops \ {o} /\ UNCHANGED crossed

-----------------------------------------------------------------------------
(* Capabilities on the device. What is stored is never replaced, and only  *)
(* capabilities of that custody are stored.                                *)

Bug_MaySave(c, k, s) == s.k = k
MaySave(c, k, s) == s.k = k /\ stored[c][k] \in {0, s.ver}

saveRekberSecrets(c, k, s, pending) ==
  /\ stored' = [stored EXCEPT ![c][k] = s.ver]
  /\ unsent' = [unsent EXCEPT ![c] = IF pending THEN @ \union {k} ELSE @ \ {k}]

-----------------------------------------------------------------------------
(* Wallet requests: coordination records and calls of the custody contract. *)

Ask(kind, k, arg) ==
  /\ Cardinality(prompts) < MaxPrompts
  /\ prompts' = prompts \union {[kind |-> kind, k |-> k, arg |-> arg]}

sendEscrowCoordinationAction(kind, k, arg) == Ask(kind, k, arg)

depositEscrow(k, r) == Ask("fund", k, r.ver)
releaseEscrow(k, ver) == Ask("claim", k, ver)
refundEscrow(k) == Ask("refund", k, 0)

\* The secret of a round is the one at the index of the rounds already used.
invokeRekberWorkflowAction(kind, k, round) == Ask(kind, k, round)

submitRekberFulfillment(k)  == invokeRekberWorkflowAction("submit", k, esc[k].sub)
confirmRekberFulfillment(k) == invokeRekberWorkflowAction("confirm", k, esc[k].sub)
requestRekberRevision(k)    == invokeRekberWorkflowAction("revise", k, esc[k].rev)

-----------------------------------------------------------------------------
(* Setup: the payer.                                                       *)

handleStartRekber ==
  /\ Ready("payer") /\ creates = <<>> /\ pend["payer"] = None
  /\ signed["payer"] < MaxCustodies
  /\ Run("payer", "setup", "sign", 0, 0)
  /\ UNCHANGED <<pageVars, deviceVars, chainVars, prompts>>

\* Signed: the capabilities are stored before anything is sent.
SetupSigned(o) ==
  /\ o.act = "setup" /\ o.step = "sign" /\ signed["payer"] < MaxCustodies
  /\ LET k == signed["payer"] + 1
         s == SignedSetup(k) IN
       /\ signed' = [signed EXCEPT !["payer"] = k]
       /\ saveRekberSecrets("payer", k, s, TRUE)
       /\ IF o.at = "panel"
            THEN /\ pend' = [pend EXCEPT !["payer"] = s]
                 /\ custody' = [custody EXCEPT !["payer"] = k]
                 /\ mine' = [mine EXCEPT !["payer"] = 0]
                 /\ unread' = [unread EXCEPT !["payer"] = TRUE]
            ELSE UNCHANGED <<pend, custody, mine, unread>>
  /\ End(o)
  /\ UNCHANGED <<panel, opened, chainVars, prompts>>

\* The second tap: the exact signed setup is sent.
SendSetup ==
  /\ Ready("payer") /\ creates = <<>> /\ pend["payer"] # None
  /\ LET s == pend["payer"] IN
       /\ saveRekberSecrets("payer", s.k, s, TRUE)
       /\ Run("payer", "setup", "send", s.k, s.ver)
       /\ sendEscrowCoordinationAction("create", s.k, s.ver)
  /\ UNCHANGED <<pageVars, signed, chainVars>>

-----------------------------------------------------------------------------
(* Acceptance: the payee.                                                  *)

MayAccept == Ready("payee") /\ custody["payee"] # 0 /\ AcceptsOf(custody["payee"]) = {}

handleAcceptRekber ==
  /\ MayAccept /\ pend["payee"] = None /\ signed["payee"] < MaxSigned[policy]
  /\ Run("payee", "accept", "sign", custody["payee"], 0)
  /\ UNCHANGED <<pageVars, deviceVars, chainVars, prompts>>

\* The panel keeps what was signed also when the device refuses to store it.
AcceptSigned(o) ==
  /\ o.act = "accept" /\ o.step = "sign" /\ signed["payee"] < MaxSigned[policy]
  /\ LET s == SignedAcceptance(o.k, signed["payee"] + 1) IN
       /\ signed' = [signed EXCEPT !["payee"] = s.ver]
       /\ pend' = IF o.at = "panel" THEN [pend EXCEPT !["payee"] = s] ELSE pend
       /\ IF MaySave("payee", o.k, s)
            THEN /\ saveRekberSecrets("payee", o.k, s, TRUE)
                 /\ mine' = IF o.at = "panel" THEN [mine EXCEPT !["payee"] = s.ver] ELSE mine
            ELSE UNCHANGED <<stored, unsent, mine>>
  /\ End(o)
  /\ UNCHANGED <<panel, opened, custody, unread, chainVars, prompts>>

SendAcceptance ==
  /\ MayAccept /\ pend["payee"] # None
  /\ LET s == pend["payee"] IN
       /\ MaySave("payee", custody["payee"], s)
       /\ saveRekberSecrets("payee", custody["payee"], s, TRUE)
       /\ Run("payee", "accept", "send", s.k, s.ver)
       /\ sendEscrowCoordinationAction("accept", s.k, s.ver)
  /\ UNCHANGED <<pageVars, signed, chainVars>>

-----------------------------------------------------------------------------
(* Funding, release, claim, refund.                                        *)

\* The commitments of the setup and of the last acceptance the panel found.
handleFund ==
  LET k == custody["payer"] IN
  /\ Ready("payer") /\ k # 0 /\ k = discoveredCreate /\ mine["payer"] # 0 /\ ~funded(k)
  /\ Cardinality({j \in Custodies : esc[j].st # "none"}) < MaxFunded
  /\ \E r \in AcceptsOf(k) :
       /\ Run("payer", "fund", "send", k, r.ver)
       /\ depositEscrow(k, r)
  /\ UNCHANGED <<pageVars, deviceVars, chainVars>>

handleAuthorizeRelease ==
  LET k == custody["payer"] IN
  /\ Ready("payer") /\ k # 0 /\ mine["payer"] # 0
  /\ esc[k].st = "confirmed" /\ ~discoveredRelease(k)
  /\ Run("payer", "release", "send", k, 0)
  /\ sendEscrowCoordinationAction("release", k, 0)
  /\ UNCHANGED <<pageVars, deviceVars, chainVars>>

handleClaimPayment ==
  LET k == custody["payee"] IN
  /\ Ready("payee") /\ k # 0 /\ mine["payee"] # 0 /\ discoveredRelease(k) /\ funded(k) /\ ~settled(k)
  /\ Run("payee", "claim", "send", k, mine["payee"])
  /\ releaseEscrow(k, mine["payee"])
  /\ UNCHANGED <<pageVars, deviceVars, chainVars>>

handleRefund ==
  LET k == custody["payer"] IN
  /\ Ready("payer") /\ k # 0 /\ mine["payer"] # 0
  /\ k \in late /\ esc[k].st = "funded"
  /\ Run("payer", "refund", "send", k, 0)
  /\ refundEscrow(k)
  /\ UNCHANGED <<pageVars, deviceVars, chainVars>>

-----------------------------------------------------------------------------
(* Work and its review, from the chat, which an open panel covers. The     *)
(* handler derives the key of the chat before it sets busy, and does not   *)
(* look at the flag again; it clears it when it ends, whoever set it.      *)

\* The deal of the chat has a custody, and the custody shows work.
fundedDealEntry(k) == esc[k].st # "none"
currentEvidenceEntry(k) == esc[k].sub > 0

Tap(c, a, k) ==
  /\ ~panel[c] /\ ~busy[c] /\ fundedDealEntry(k)
  /\ Cardinality({o \in ops : o.at = "chat"}) < MaxWork
  /\ ops' = ops \union {[who |-> c, act |-> a, step |-> "key", k |-> k, ver |-> 0, at |-> "chat"]}
  /\ UNCHANGED <<pageVars, act, busy, crossed, deviceVars, chainVars, prompts>>

sendDirectWorkSubmission(k) == Tap("payee", "work", k)
sendDirectWorkReview(k)     == currentEvidenceEntry(k) /\ Tap("payer", "review", k)

TakesBusy(o) ==
  /\ o.step = "key"
  /\ busy' = [busy EXCEPT ![o.who] = TRUE]
  /\ crossed' = [crossed EXCEPT ![o.who] = @ \/ busy[o.who]]
  /\ ops' = (ops \ {o}) \union {[o EXCEPT !.step = "send"]}
  /\ UNCHANGED <<pageVars, act, deviceVars, chainVars>>

\* The payee's own capabilities, a live custody and a round that is left.
MaySubmitWork(k) ==
  stored["payee"][k] # 0 /\ esc[k].st # "none" /\ ~settled(k) /\ esc[k].sub < MaxRounds

\* Nothing is asked of the wallet when a secret is missing or an upload fails.
SubmitsWork(o) ==
  /\ o.act = "work" /\ TakesBusy(o)
  /\ (MaySubmitWork(o.k) /\ submitRekberFulfillment(o.k)) \/ UNCHANGED prompts

\* The payer's own capabilities and work to review.
MayReviewWork(k) == stored["payer"][k] # 0 /\ esc[k].sub > 0 /\ ~settled(k)

ApproveWork(k) == policy = 2 /\ confirmRekberFulfillment(k)
RequestRevision(k) == esc[k].rev < MaxRevisions /\ requestRekberRevision(k)

\* A rejection, and under submission_review an approval, changes no custody.
ReviewsWork(o) ==
  /\ o.act = "review" /\ TakesBusy(o)
  /\ (MayReviewWork(o.k) /\ (ApproveWork(o.k) \/ RequestRevision(o.k))) \/ UNCHANGED prompts

WorkEnds(o) ==
  /\ o.at = "chat" /\ o.step = "send"
  /\ busy' = [busy EXCEPT ![o.who] = FALSE]
  /\ ops' = ops \ {o}
  /\ UNCHANGED <<pageVars, act, crossed, deviceVars, chainVars, prompts>>

-----------------------------------------------------------------------------
(* The wallet and the contracts. A request is approved at any time after   *)
(* it was made; a call the contract rejects changes nothing.               *)

\* A new setup: the panels that are open follow it.
StoreCreate(p) ==
  /\ p.kind = "create" /\ creates' = Append(creates, p.k)
  /\ LET moved == {c \in Parties : panel[c] /\ custody[c] # p.k} IN
       /\ custody' = [c \in Parties |-> IF c \in moved THEN p.k ELSE custody[c]]
       /\ unread' = [c \in Parties |-> c \in moved \/ unread[c]]
       /\ mine' = [c \in Parties |-> IF c \in moved THEN 0 ELSE mine[c]]
  /\ UNCHANGED <<accepts, releases, esc>>

StoreAccept(p) ==
  /\ p.kind = "accept" /\ accepts' = accepts \union {[k |-> p.k, ver |-> p.arg]}
  /\ UNCHANGED <<custody, unread, mine, creates, releases, esc>>

StoreRelease(p) ==
  /\ p.kind = "release" /\ releases' = releases \union {p.k}
  /\ UNCHANGED <<custody, unread, mine, creates, accepts, esc>>

\* The record of a custody after a call, as far as the panels depend on it.
ReviewStarts == IF policy = 1 THEN "confirmed" ELSE "submitted"

Accepted(p) ==
  LET e == esc[p.k] IN
  CASE p.kind = "fund"    -> e.st = "none" /\ p.k \notin late
    [] p.kind = "submit"  -> p.arg = e.sub /\ (e.st = "revision" \/ (e.st = "funded" /\ p.k \notin late))
    [] p.kind = "confirm" -> p.arg = e.sub /\ e.st = "submitted" /\ policy = 2
    [] p.kind = "revise"  -> p.arg = e.rev /\ e.st = "confirmed" /\ policy = 1 /\ e.sub < MaxRounds
    [] p.kind = "claim"   -> p.arg = e.ver /\ e.st = "confirmed"
    [] p.kind = "refund"  -> e.st = "funded" /\ p.k \in late
    [] OTHER              -> FALSE

After(p) ==
  LET e == esc[p.k] IN
  CASE p.kind = "fund"    -> [Empty EXCEPT !.st = "funded", !.ver = p.arg]
    [] p.kind = "submit"  -> [e EXCEPT !.st = ReviewStarts, !.sub = @ + 1]
    [] p.kind = "confirm" -> [e EXCEPT !.st = "confirmed"]
    [] p.kind = "revise"  -> [e EXCEPT !.st = "revision", !.rev = @ + 1]
    [] p.kind = "claim"   -> [e EXCEPT !.st = "released"]
    [] p.kind = "refund"  -> [e EXCEPT !.st = "refunded"]

Custody(p) ==
  /\ Accepted(p)
  /\ esc' = [esc EXCEPT ![p.k] = After(p)]
  /\ UNCHANGED <<custody, unread, mine, creates, accepts, releases>>

Approve(p) ==
  /\ p \in prompts
  /\ prompts' = prompts \ {p}
  /\ \/ StoreCreate(p) \/ StoreAccept(p) \/ StoreRelease(p) \/ Custody(p)
  /\ UNCHANGED <<panel, opened, pend, lockVars, deviceVars, late, policy>>

\* Rejected by the contract, or declined in the wallet.
Decline(p) ==
  /\ p \in prompts
  /\ prompts' = prompts \ {p}
  /\ UNCHANGED <<pageVars, lockVars, deviceVars, chainVars>>

Deadline(k) ==
  /\ esc[k].st = "funded" /\ k \notin late
  /\ late' = late \union {k}
  /\ UNCHANGED <<pageVars, lockVars, deviceVars, creates, accepts, releases, esc, policy, prompts>>

-----------------------------------------------------------------------------
(* How a handler ends.                                                     *)

Done(o) == CASE o.act = "setup"   -> o.k \in ToSet(creates)
             [] o.act = "accept"  -> [k |-> o.k, ver |-> o.ver] \in accepts
             [] o.act = "release" -> o.k \in releases
             [] o.act = "fund"    -> esc[o.k].st # "none"
             [] o.act = "claim"   -> esc[o.k].st = "released"
             [] o.act = "refund"  -> esc[o.k].st = "refunded"

\* A coordination record was found: its payload is no longer pending.
Succeeds(o) ==
  /\ o.at # "chat" /\ o.step = "send" /\ Done(o)
  /\ IF o.act \in {"setup", "accept"}
       THEN /\ saveRekberSecrets(o.who, o.k, [k |-> o.k, ver |-> o.ver], FALSE)
            /\ pend' = IF o.at = "panel" THEN [pend EXCEPT ![o.who] = None] ELSE pend
       ELSE UNCHANGED <<pend, stored, unsent>>
  /\ End(o)
  /\ UNCHANGED <<panel, opened, custody, unread, mine, signed, chainVars, prompts>>

\* Refused, an error of the wallet, 45 seconds without discovery.
Fails(o) ==
  /\ End(o)
  /\ UNCHANGED <<pageVars, deviceVars, chainVars, prompts>>

\* The chain shows the action done, whatever became of its callback.
Proven(c) ==
  LET k == custody[c] IN
  CASE act[c] = "setup"   -> discoveredCreate # 0
    [] act[c] = "accept"  -> k # 0 /\ AcceptsOf(k) # {}
    [] act[c] = "release" -> discoveredRelease(k)
    [] act[c] = "fund"    -> k # 0 /\ funded(k)
    [] act[c] = "claim"   -> k # 0 /\ esc[k].st = "released"
    [] act[c] = "refund"  -> k # 0 /\ esc[k].st = "refunded"
    [] OTHER              -> FALSE

ReleaseLock(c) ==
  /\ panel[c] /\ Proven(c)
  /\ pend' = IF act[c] \in {"setup", "accept"} THEN [pend EXCEPT ![c] = None] ELSE pend
  /\ act' = [act EXCEPT ![c] = "none"] /\ busy' = [busy EXCEPT ![c] = FALSE]
  /\ UNCHANGED <<panel, opened, custody, unread, mine, crossed, ops, deviceVars, chainVars, prompts>>

-----------------------------------------------------------------------------
Taps == \/ handleStartRekber \/ SendSetup \/ handleAcceptRekber \/ SendAcceptance
        \/ handleFund \/ handleAuthorizeRelease \/ handleClaimPayment \/ handleRefund
        \/ \E k \in Custodies : sendDirectWorkSubmission(k) \/ sendDirectWorkReview(k)

Next ==
  \/ \E c \in Parties : Open(c) \/ Close(c) \/ Reload(c) \/ LoadSecrets(c) \/ ReleaseLock(c)
  \/ Taps
  \/ \E o \in ops : SetupSigned(o) \/ AcceptSigned(o) \/ Succeeds(o) \/ Fails(o)
  \/ \E o \in ops : SubmitsWork(o) \/ ReviewsWork(o) \/ WorkEnds(o)
  \/ \E p \in prompts : Approve(p) \/ Decline(p)
  \/ \E k \in Custodies : Deadline(k)

Spec == Init /\ [][Next]_vars

-----------------------------------------------------------------------------
(* Properties.                                                             *)

\* Whatever approval reaches the chain, and so whatever custody is funded with
\* it, its author's device holds the capabilities of exactly that approval
\* (saveRekberSecrets before every send, assertSameCapabilities).
CapabilitiesKept ==
  /\ \A i \in DOMAIN creates : stored["payer"][creates[i]] = 1
  /\ \A r \in accepts : stored["payee"][r.k] = r.ver
  /\ \A k \in Custodies : esc[k].st # "none" => stored["payer"][k] = 1 /\ stored["payee"][k] = esc[k].ver

\* One setup of the offer is on chain, or none. A setup that is approved after
\* its panel was loaded again makes a second one.
OneLifecycle == \A i, j \in DOMAIN creates : creates[i] = creates[j]

\* Is the purpose of the handler on chain already?
Moot(o) == CASE o.act = "setup"  -> creates # <<>>
             [] o.act = "accept" -> AcceptsOf(o.k) # {}
             [] OTHER            -> Done(o)

\* "An older delayed Ready X callback must never unlock a newer Rekber action":
\* a handler whose purpose is not on chain yet keeps its lock, also against the
\* handlers of a panel that was closed (EscrowPanel.tsx:242), and while anyone
\* works the page is busy. Handlers are told apart by their kind, which is enough
\* while the offer has one lifecycle; and a work handler of the chat that sets
\* busy after a Rekber action did, clears it under that action.
LockHeld ==
  OneLifecycle =>
    \A o \in ops : ~crossed[o.who] =>
      /\ o.at = "panel" /\ ~Moot(o) => act[o.who] = o.act /\ busy[o.who]
      /\ o.at = "holds" \/ (o.at = "chat" /\ o.step = "send") => busy[o.who]
=============================================================================
