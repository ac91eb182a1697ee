--------------------------- MODULE DisputeReview ---------------------------
(* A dispute as one party's device conducts it: the protection panel         *)
(* (RekberProtectionPanel, useRekberProtectionActions), the review panel     *)
(* (DisputeAgentReview, useDisputeAgentReview, lib/deal-room/disputeAgent),  *)
(* the encrypted coordination log it shares with the other party, and what   *)
(* the dispute routes check before they answer.                              *)
(*                                                                           *)
(* The device reads the custody and the log by polling, so it acts on what   *)
(* it saw last.  The other party, peer, may run any client: its records and  *)
(* calls are whatever the log, the contract and the desk accept.  The log    *)
(* takes a record as that of the party it names, and is sure only that one   *)
(* of the two wrote it.  How the desk evaluates and authorizes is the        *)
(* subject of DisputeDesk.                                                   *)
(*                                                                           *)
(* An operator named Bug_... is a faulty variant of the definition below it; *)
(* the specification does not use it.                                        *)
EXTENDS Integers, Sequences, FiniteSets, SequencesExt

CONSTANTS
    Scenarios,     \* whose device, what the parties agreed, and the bounds
    Divisions,     \* whom a resolution may award something
    Disputed,      \* the custody the dispute is about
    Packets,       \* bound: the numbers of the packets
    NoCase,
    NoRecord

Roles == {"payer", "payee"}
Kinds == {"reason", "packet", "consent"}

\* policy: "submission" starts the review at once, "counterparty" waits.
\* malformed: packets under the peer's name that the desk refuses.
\* works bounds the submissions, records what is written under each name.
ASSUME ScenariosAssumption ==
    \A s \in Scenarios :
      /\ s.me \in Roles /\ s.policy \in {"submission", "counterparty"}
      /\ s.works \in Nat /\ s.records \in [Kinds -> [Roles -> Nat]]
      /\ \A by \in Roles : 1..s.records["packet"][by] \subseteq Packets

\* A division awards something to a party at least.
ASSUME DivisionsAssumption == Divisions \subseteq (SUBSET Roles) \ {{}}

VARIABLES
    scenario,      \* chosen at the start
    custody,       \* the custody record
    log,           \* the indexed coordination records of each kind and name, in order
    outbox,        \* records the wallet may still post after their send was given up
    device,        \* the state of the two panels
    asked,         \* cases whose challenge is being requested
    evaluating,    \* cases whose evaluation is being requested
    attested,      \* the desk's signatures, per case
    verdict        \* the desk's decision, per case

Desk == <<attested, verdict>>
vars == <<scenario, custody, log, outbox, device, asked, evaluating, Desk>>

me == scenario.me
agreement == scenario.agreement
peer == CHOOSE r \in Roles : r # me

-----------------------------------------------------------------------------
\* A record under the name of by. n is the work a reason is about, the number of a
\* packet, and 1 for a consent whose secret opens the custody's commitment, 0 for
\* another; a consent is looked for under no name, and stands under the payee's.
Record(kind, by, n) == [kind |-> kind, by |-> by, n |-> n]

NoRecords == [kind \in Kinds |-> [by \in Roles |-> <<>>]]

\* A case is the two packets it is built from: a dispute freezes the rest of it.
Cases == [Roles -> Packets]

ASSUME NoCaseAssumption == NoCase \notin Cases

\* work numbers the submissions, about is the one a dispute was opened on;
\* shares are the parties a resolution awards something.
NewCustody(policy) ==
    [policy |-> policy, work |-> 0, confirmed |-> FALSE, revision |-> FALSE,
     late |-> FALSE, disputed |-> FALSE, by |-> "payer", about |-> 0,
     shares |-> {}, claimed |-> {}, consumed |-> FALSE, refunded |-> FALSE]

Fresh(view) ==
    [view |-> view, seen |-> NoRecords, busy |-> FALSE, sending |-> NoRecord,
     posted |-> FALSE, key |-> NoCase, challenge |-> NoCase, error |-> FALSE,
     signing |-> NoCase, typed |-> NoCase, marks |-> {},
     auto |-> NoCase, result |-> NoCase]

Init ==
    /\ scenario \in Scenarios
    /\ custody = NewCustody(scenario.policy)
    /\ log = NoRecords
    /\ outbox = {}
    /\ device = Fresh(custody)
    /\ asked = {}
    /\ evaluating = {}
    /\ attested = [c \in Cases |-> {}]
    /\ verdict = [c \in Cases |-> "none"]

-----------------------------------------------------------------------------
(* The log, as far as the device has discovered it.                          *)

\* The latest record of this kind and name, 0 for none.
LatestOf(seen, kind, by) ==
    IF seen[kind][by] = <<>> THEN 0 ELSE Last(seen[kind][by])

Written(kind, by) == LatestOf(device.seen, kind, by)

\* What the wallet may still post.
Unposted ==
    IF device.sending = NoRecord \/ device.posted THEN outbox ELSE outbox \cup {device.sending}

Sent(kind, by) ==
    Len(log[kind][by]) + Cardinality({r \in Unposted : r.kind = kind /\ r.by = by})

\* Packets differ: the next one under a name has the first number that is free.
FreePackets(by) ==
    {n \in 1..scenario.records["packet"][by] :
        ~Contains(log["packet"][by], n) /\ Record("packet", by, n) \notin Unposted}
NextPacket(n, by) == n \in FreePackets(by) /\ \A m \in FreePackets(by) : n <= m

Post(r) == log' = [log EXCEPT ![r.kind][r.by] = Append(@, r.n)]

-----------------------------------------------------------------------------
(* The agreement both parties signed, and the desk's look at it.             *)

\* A device that holds approvals for different rails builds no binding.
Bindable == agreement.setup.rail = agreement.acceptance.rail

\* What the payer's signature of a setup covers, and the payee's of its answer:
\* the payee signs the payer's commitments too.
SetupTypedData(s) ==
    [custody |-> s.custody, deal |-> s.deal, rail |-> s.rail, secrets |-> s.secrets]
AcceptanceTypedData(s, a) ==
    [custody |-> a.custody, deal |-> a.deal, rail |-> a.rail, secrets |-> s.secrets]

\* verifyDisputeRekberBinding: both approvals name this custody and one deal, and
\* carry the signatures of what they say.
Bound ==
    LET setup == agreement.setup
        acceptance == agreement.acceptance
    IN
    /\ setup.custody = Disputed /\ acceptance.custody = Disputed
    /\ setup.deal = acceptance.deal
    /\ setup.signature = SetupTypedData(setup)
    /\ acceptance.signature = AcceptanceTypedData(setup, acceptance)

\* sanitizePartyPacket: a packet under the peer's name may be one the desk refuses.
Sanitized(c) == c[peer] \notin scenario.malformed

\* readAndVerifyDisputeCustody: disputed, neither consumed nor resolved.
Arbitrable == custody.disputed /\ ~custody.consumed /\ custody.shares = {}

Accepts(c) == Arbitrable /\ Bound /\ Sanitized(c)

-----------------------------------------------------------------------------
(* What follows from new data: the case is rebuilt, and a changed case drops *)
(* the challenge, the signature marks and any error, and asks again.         *)

\* Once resolved or consumed, the desk refuses every case, so none is kept.
CaseFrom(seen, view) ==
    LET latest == [by \in Roles |-> LatestOf(seen, "packet", by)] IN
    IF /\ view.disputed /\ ~view.consumed /\ view.shares = {}
       /\ \A by \in Roles : latest[by] # 0
       /\ Bindable
      THEN latest
      ELSE NoCase

Render(seen, view) ==
    LET c == CaseFrom(seen, view)
        read == [device EXCEPT !.seen = seen, !.view = view]
    IN
    IF c = device.key
      THEN device' = read /\ UNCHANGED asked
      ELSE /\ device' = [read EXCEPT !.key = c, !.challenge = NoCase,
                                     !.error = FALSE, !.marks = {}]
           /\ asked' = IF c = NoCase THEN asked ELSE asked \cup {c}

\* Discovery of the room's records, every second while the view is open.
Discover ==
    /\ device.seen # log
    /\ Render(log, device.view)
    /\ UNCHANGED <<scenario, custody, log, outbox, evaluating, Desk>>

\* The custody poll.
ReadCustody ==
    /\ device.view # custody
    /\ Render(device.seen, custody)
    /\ UNCHANGED <<scenario, custody, log, outbox, evaluating, Desk>>

\* The page is left and opened again: what it knew and awaited is gone, and a
\* prompt that is still open may be answered.
Reload ==
    /\ device # Fresh(device.view)
    /\ device' = Fresh(device.view)
    /\ asked' = {} /\ evaluating' = {}
    /\ outbox' = Unposted
    /\ UNCHANGED <<scenario, custody, log, Desk>>

-----------------------------------------------------------------------------
(* What the panels offer for a custody k, and the contract accepts.          *)

CanConfirm(k) ==
    /\ k.policy = "counterparty" /\ k.work > 0
    /\ ~k.consumed /\ ~k.disputed /\ ~k.confirmed

CanDispute(k) == k.work > 0 /\ ~k.consumed /\ ~k.disputed /\ ~(k.confirmed /\ k.late)

CanAutoRelease(k) ==
    k.work > 0 /\ k.confirmed /\ ~k.revision /\ k.late /\ ~k.consumed /\ ~k.disputed

MutualRefundOpen(k) == ~k.consumed /\ k.shares = {}

CanClaim(k, by) == ~k.consumed /\ by \in k.shares \ k.claimed

-----------------------------------------------------------------------------
(* Sending a coordination record: the wallet posts it or not, and the send   *)
(* succeeds only once the record has been discovered.                        *)

Send(kind, n) ==
    /\ ~device.busy
    /\ Sent(kind, me) < scenario.records[kind][me]
    /\ device' = [device EXCEPT !.busy = TRUE, !.posted = FALSE,
                                !.sending = Record(kind, me, n)]
    /\ UNCHANGED <<scenario, custody, log, outbox, asked, evaluating, Desk>>

\* A reason is bound to the work it is about; one that was written is not
\* asked for again.
ShareDisputeEvidence ==
    /\ CanDispute(device.view)
    /\ Written("reason", me) = 0
    /\ Send("reason", device.view.work)

\* submitEvidence: a party that sees its own packet is not asked for another.
SubmitEvidence ==
    /\ device.view.disputed /\ MutualRefundOpen(device.view)
    /\ Written("packet", me) = 0
    /\ \E n \in Packets : NextPacket(n, me) /\ Send("packet", n)

AuthorizeMutualRefund ==
    /\ me = "payee"
    /\ MutualRefundOpen(device.view)
    /\ Written("consent", me) # 1
    /\ Send("consent", 1)

WalletPosts ==
    /\ device.sending # NoRecord /\ ~device.posted
    /\ Post(device.sending)
    /\ device' = [device EXCEPT !.posted = TRUE]
    /\ UNCHANGED <<scenario, custody, outbox, asked, evaluating, Desk>>

\* submitEvidence drops the evaluation on display and the challenge.
SendConfirmed ==
    LET done == [device EXCEPT !.busy = FALSE, !.sending = NoRecord] IN
    /\ device.posted /\ device.sending # NoRecord
    /\ device' = IF device.sending.kind = "packet"
                   THEN [done EXCEPT !.result = NoCase, !.challenge = NoCase, !.marks = {}]
                   ELSE done
    /\ UNCHANGED <<scenario, custody, log, outbox, asked, evaluating, Desk>>

\* The user declined, or nothing was discovered for 45 seconds; the wallet may
\* still post the record afterwards.
SendFails ==
    /\ device.sending # NoRecord
    /\ device' = [device EXCEPT !.busy = FALSE, !.sending = NoRecord]
    /\ \/ UNCHANGED outbox
       \/ ~device.posted /\ outbox' = outbox \cup {device.sending}
    /\ UNCHANGED <<scenario, custody, log, asked, evaluating, Desk>>

PostLate(r) ==
    /\ r \in outbox
    /\ outbox' = outbox \ {r}
    /\ Post(r)
    /\ UNCHANGED <<scenario, custody, device, asked, evaluating, Desk>>

-----------------------------------------------------------------------------
(* Calls of the custody, as the contract accepts them.                       *)

Accept(k) ==
    /\ custody' = k
    /\ UNCHANGED <<scenario, log, outbox, device, asked, evaluating, Desk>>

SubmitWork ==
    /\ custody.work < scenario.works
    /\ custody.work = 0 \/ custody.revision
    /\ ~custody.consumed /\ ~custody.disputed
    /\ Accept([custody EXCEPT !.work = @ + 1, !.revision = FALSE, !.late = FALSE,
                              !.confirmed = custody.policy = "submission"])

RequestRevision ==
    /\ custody.policy = "submission"
    /\ custody.confirmed /\ ~custody.late /\ ~custody.consumed /\ ~custody.disputed
    /\ custody.work < scenario.works
    /\ Accept([custody EXCEPT !.revision = TRUE, !.confirmed = FALSE])

\* A dispute freezes the review.
ReviewWindowEnds ==
    /\ custody.confirmed /\ ~custody.late /\ ~custody.disputed /\ ~custody.consumed
    /\ Accept([custody EXCEPT !.late = TRUE])

Confirm(by) ==
    /\ by = "payer" /\ CanConfirm(custody)
    /\ Accept([custody EXCEPT !.confirmed = TRUE])

Dispute(by, work) ==
    /\ CanDispute(custody)
    /\ Accept([custody EXCEPT !.disputed = TRUE, !.by = by, !.about = work])

Release(by) ==
    /\ by = "payee" /\ CanAutoRelease(custody)
    /\ Accept([custody EXCEPT !.consumed = TRUE])

\* The payee's secret opens the custody's commitment: the payer has it from a
\* consent in the log.
Refund(by) ==
    /\ by = "payer" /\ MutualRefundOpen(custody)
    /\ Accept([custody EXCEPT !.consumed = TRUE, !.refunded = TRUE])

Claim(by) ==
    LET claimed == custody.claimed \cup {by} IN
    /\ CanClaim(custody, by)
    /\ Accept([custody EXCEPT !.claimed = claimed,
                              !.consumed = claimed = custody.shares])

-----------------------------------------------------------------------------
(* The same calls, offered by the panel from what it saw last.               *)

\* The contract compares the evidence the payer saw with the stored one.
ConfirmFulfillment ==
    /\ ~device.busy
    /\ CanConfirm(device.view) /\ device.view.work = custody.work
    /\ Confirm(me)

Bug_ReasonFits == device.view.work > 0

\* The commitment is computed anew from the recorded reason, and must agree
\* with the record: the reason is about the work the device sees.
ReasonFits == Written("reason", me) = device.view.work

LockDispute ==
    /\ ~device.busy
    /\ CanDispute(device.view) /\ ReasonFits
    /\ Dispute(me, device.view.work)

AutoRelease ==
    /\ ~device.busy
    /\ CanAutoRelease(device.view)
    /\ Release(me)

\* Only a consent whose secret opens the custody's commitment counts.
HoldsConsent == Written("consent", "payee") = 1

CompleteMutualRefund ==
    /\ ~device.busy
    /\ MutualRefundOpen(device.view) /\ HoldsConsent
    /\ Refund(me)

ClaimResolution ==
    /\ ~device.busy
    /\ CanClaim(device.view, me)
    /\ Claim(me)

-----------------------------------------------------------------------------
(* The challenge.                                                            *)

Bug_Wanted(c) == device.key # NoCase

\* An answer for a case that is no longer the device's is dropped.
Wanted(c) == device.key = c

\* A case whose challenge was missing starts without marks.
ChallengeArrives(c) ==
    /\ c \in asked
    /\ Accepts(c)
    /\ asked' = asked \ {c}
    /\ device' = IF Wanted(c)
                   THEN [device EXCEPT !.challenge = c,
                                       !.marks = IF device.challenge = NoCase THEN {} ELSE @]
                   ELSE device
    /\ UNCHANGED <<scenario, custody, log, outbox, evaluating, Desk>>

\* Refused by the desk, out of time, or out of reach.
ChallengeFails(c) ==
    /\ c \in asked
    /\ asked' = asked \ {c}
    /\ device' = IF Wanted(c) THEN [device EXCEPT !.error = TRUE] ELSE device
    /\ UNCHANGED <<scenario, custody, log, outbox, evaluating, Desk>>

RetryChallenge ==
    /\ device.error /\ device.challenge = NoCase
    /\ device' = [device EXCEPT !.error = FALSE]
    /\ asked' = asked \cup {device.key}
    /\ UNCHANGED <<scenario, custody, log, outbox, evaluating, Desk>>

-----------------------------------------------------------------------------
(* Signing, and the marks that show who has signed.                          *)

Ready == device.key # NoCase /\ device.challenge # NoCase

SignReview ==
    /\ ~device.busy
    /\ Ready
    /\ me \notin device.marks
    /\ device' = [device EXCEPT !.busy = TRUE, !.signing = device.key,
                                !.typed = device.challenge]
    /\ UNCHANGED <<scenario, custody, log, outbox, asked, evaluating, Desk>>

SigningEnds(marks) ==
    device' = [device EXCEPT !.busy = FALSE, !.signing = NoCase,
                             !.typed = NoCase, !.marks = marks]

\* Declined in the wallet, refused by the desk, or lost on the way.
SigningFails ==
    /\ device.signing # NoCase
    /\ SigningEnds(device.marks)
    /\ UNCHANGED <<scenario, custody, log, outbox, asked, evaluating, Desk>>

\* What a party signs, and the desk's look at it.
Attestation(c, by) == [case |-> c, by |-> by]
Verified(signature, c, by) == signature = Attestation(c, by)

\* The desk stores a signature of exactly this case; the answer is shown under
\* whatever case the device has by then, or is lost.
SubmitAttestation ==
    LET c == device.signing
        stored == attested[c] \cup {me}
    IN
    /\ c # NoCase /\ Accepts(c)
    /\ Verified(Attestation(device.typed, me), c, me)
    /\ attested' = [attested EXCEPT ![c] = stored]
    /\ \E marks \in {stored, device.marks} : SigningEnds(marks)
    /\ UNCHANGED <<scenario, custody, log, outbox, asked, evaluating, verdict>>

\* What the desk says of the device's case replaces what it was thought to be.
Marks == attested[device.key]

SyncStatus ==
    /\ Ready /\ Accepts(device.key)
    /\ device.marks # Marks
    /\ device' = [device EXCEPT !.marks = Marks]
    /\ UNCHANGED <<scenario, custody, log, outbox, asked, evaluating, Desk>>

-----------------------------------------------------------------------------
(* Evaluation starts by itself once both have signed.                        *)

AutoEvaluate ==
    /\ Ready
    /\ device.marks = Roles
    /\ device.result = NoCase
    /\ device.auto # device.key
    /\ device' = [device EXCEPT !.auto = device.key, !.busy = TRUE]
    /\ evaluating' = evaluating \cup {device.key}
    /\ UNCHANGED <<scenario, custody, log, outbox, asked, Desk>>

\* The desk has both signatures; its first decision on a case stands, and
\* authorizes a division or leaves the case to an operator.
Decide(c) ==
    /\ Arbitrable /\ attested[c] = Roles
    /\ \/ /\ verdict[c] \in {"none", "resolve"}
          /\ verdict' = [verdict EXCEPT ![c] = "resolve"]
          /\ \E shares \in Divisions :
               custody' = [custody EXCEPT !.shares = shares]
       \/ /\ verdict[c] \in {"none", "review"}
          /\ verdict' = [verdict EXCEPT ![c] = "review"]
          /\ UNCHANGED custody
    /\ UNCHANGED <<scenario, log, outbox, asked, attested>>

EvaluateDispute(c) ==
    /\ c \in evaluating
    /\ Accepts(c) /\ Decide(c)
    /\ evaluating' = evaluating \ {c}
    /\ device' = [device EXCEPT !.busy = FALSE, !.result = c]

Bug_AfterFailure(c) == device.auto

\* Five seconds after a failure the same case may be tried again.
AfterFailure(c) == IF device.auto = c THEN NoCase ELSE device.auto

EvaluationFails(c) ==
    /\ c \in evaluating
    /\ evaluating' = evaluating \ {c}
    /\ device' = [device EXCEPT !.busy = FALSE, !.auto = AfterFailure(c)]
    /\ UNCHANGED <<scenario, custody, log, outbox, asked, Desk>>

\* The operator's command settles a case the desk left open.
OperatorResolves(c, shares) ==
    /\ Arbitrable /\ verdict[c] = "review"
    /\ Accept([custody EXCEPT !.shares = shares])

-----------------------------------------------------------------------------
(* The peer.                                                                 *)

\* The payee's secret is known to the payer once a consent has told it.
Consented == Contains(log["consent"]["payee"], 1)
KnowsSecret == peer = "payee" \/ Consented

\* Reasons about any work, or about none; consents that count only with the secret.
PeerWrites(kind, by) ==
    CASE kind = "reason" -> 1..scenario.works + 1
      [] kind = "packet" -> {n \in Packets : NextPacket(n, by)}
      [] kind = "consent" /\ by = "payee" -> IF KnowsSecret THEN {0, 1} ELSE {0}
      [] OTHER -> {}

\* The pair's key lets the peer post under either name: senderAddress, and the
\* packet's walletAddress, are what the record says.
PeerSends(kind, by) ==
    /\ Sent(kind, by) < scenario.records[kind][by]
    /\ \E n \in PeerWrites(kind, by) : Post(Record(kind, by, n))
    /\ UNCHANGED <<scenario, custody, outbox, device, asked, evaluating, Desk>>

PeerCalls ==
    \/ Confirm(peer) \/ Dispute(peer, custody.work) \/ Release(peer)
    \/ Consented /\ Refund(peer)
    \/ Claim(peer)

\* The peer signs a case that it has discovered.
PeerSigns(c) ==
    /\ Arbitrable /\ Sanitized(c)
    /\ \A by \in Roles : Contains(log["packet"][by], c[by])
    /\ peer \notin attested[c]
    /\ attested' = [attested EXCEPT ![c] = @ \cup {peer}]
    /\ UNCHANGED <<scenario, custody, log, outbox, device, asked, evaluating, verdict>>

\* Asked by the peer, or by a page of this device that has been left.
PeerEvaluates(c) == Decide(c) /\ UNCHANGED <<device, evaluating>>

-----------------------------------------------------------------------------
Protection ==
    \/ ShareDisputeEvidence \/ AuthorizeMutualRefund
    \/ ConfirmFulfillment \/ LockDispute \/ AutoRelease
    \/ CompleteMutualRefund \/ ClaimResolution

Delivery ==
    \/ WalletPosts \/ SendConfirmed \/ SendFails
    \/ \E r \in outbox : PostLate(r)

Agent ==
    \/ SubmitEvidence
    \/ \E c \in Cases : ChallengeArrives(c) \/ ChallengeFails(c)
    \/ RetryChallenge
    \/ SignReview \/ SigningFails \/ SubmitAttestation \/ SyncStatus
    \/ AutoEvaluate
    \/ \E c \in Cases : EvaluateDispute(c) \/ EvaluationFails(c)

Peer ==
    \/ \E kind \in Kinds, by \in Roles : PeerSends(kind, by)
    \/ PeerCalls
    \/ \E c \in Cases : PeerSigns(c) \/ PeerEvaluates(c)

Next ==
    \/ Protection \/ Delivery \/ Agent \/ Peer
    \/ Discover \/ ReadCustody \/ Reload
    \/ SubmitWork \/ RequestRevision \/ ReviewWindowEnds
    \/ \E c \in Cases, shares \in Divisions : OperatorResolves(c, shares)

\* The page polls the status and starts an evaluation by itself, a request ends,
\* and of the requests that are made again and again one gets through.
Fairness ==
    /\ WF_vars(SyncStatus) /\ WF_vars(AutoEvaluate)
    /\ \A c \in Cases :
         /\ WF_vars(EvaluationFails(c))
         /\ SF_vars(EvaluateDispute(c))

Spec == Init /\ [][Next]_vars /\ Fairness

-----------------------------------------------------------------------------
(* Properties.                                                               *)

\* The wallet signs the case that is on the screen, whatever answers to earlier
\* challenges arrive meanwhile (the request key of prepareChallenge).
SignatureFits == device.signing # NoCase => device.typed = device.signing

\* The dispute the device locks commits to a reason that the log holds under the
\* device's address, about the very work the lock names, whichever of the two has
\* posted it, and a mutual refund is made only after the payee has given its secret
\* (lockDispute, completeMutualRefund): both parties can check the public commitment
\* against the log.
ActsOnRecords ==
    /\ custody.disputed /\ custody.by = me => Contains(log["reason"][me], custody.about)
    /\ custody.refunded => Consented

\* The device shows a case that both have signed, and no decision.
Awaits(c) == Ready /\ device.key = c /\ attested[c] = Roles /\ device.result = NoCase

\* A case both have signed is evaluated although requests fail, as long as the
\* device stays on it and the desk would still take it (autoEvaluation).
EvaluationRetried == \A c \in Cases : []<>(Awaits(c) => ~Accepts(c))
=============================================================================
