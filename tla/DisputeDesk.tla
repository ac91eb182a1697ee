---------------------------- MODULE DisputeDesk ----------------------------
(* The backend's dispute desk: POST /dispute/attestation and                 *)
(* POST /dispute/evaluate of backend/src/routes/dispute.ts with the tables   *)
(* of dispute/store.ts and dispute/attestationStore.ts, the policy gate, the *)
(* executor that authorizes a split on Rekber, and the operator's command    *)
(* scripts/manualDisputeResolution.ts.                                       *)
(*                                                                           *)
(* A request is a run of the evaluate handler; every await is a step         *)
(* boundary, so requests, operators, parties and the chain interleave there. *)
(* A client that retries is another request.  A claim of the evaluation uses *)
(* a fresh random lease token, and a request claims at most once, so the     *)
(* token is the request itself.                                              *)
(*                                                                           *)
(* An operator named Bug_... is a faulty variant of the definition below it; *)
(* the specification does not use it.                                        *)
EXTENDS Integers, FiniteSets

CONSTANTS
    Requests,            \* runs of the evaluate handler
    Operators,           \* runs of the operator's command
    Cases,               \* case commitments
    Custodies,           \* disputed custodies
    CustodyOf,           \* the custody a case names
    Objective,           \* cases whose custody has the external-verify policy
    Decisions,           \* what the model may answer
    NoDecision,
    NoWorker,
    Principal,           \* the amount held by a custody
    AutoResolveEnabled,
    Lease,               \* how long a pending evaluation is protected
    MaxAttempts,         \* rounds of the evaluate handler's wait loop
    MaxTime              \* bound: the last instant

Workers == Requests \cup Operators
Roles == {"payer", "payee"}
Bps == 0..10000

\* What a decision may cite: a term, a party's statement or a stronger item of its
\* evidence, and a reference that does not exist.
Grounds == {"term", "payer_statement", "payer_document", "payee_statement",
            "payee_document", "invented"}

\* A decision as it is parsed from the model's answer; exact: it repeats the
\* commitment of the case.
Decision ==
    [decision : {"payer", "payee", "split", "needs_review"},
     payerBps : Bps, payeeBps : Bps, exact : BOOLEAN, confident : BOOLEAN,
     support : SUBSET Grounds, flags : SUBSET {"evidence_conflict", "identity_uncertain"}]

ASSUME WorkersAssumption == Requests \cap Operators = {} /\ NoWorker \notin Workers
ASSUME CasesAssumption ==
    /\ Cases # {} /\ CustodyOf \in [Cases -> Custodies] /\ Objective \subseteq Cases
ASSUME DecisionsAssumption == Decisions \subseteq Decision /\ NoDecision \notin Decisions
ASSUME BoundsAssumption ==
    /\ Principal \in Nat \ {0} /\ AutoResolveEnabled \in BOOLEAN
    /\ Lease \in Nat /\ MaxAttempts \in Nat /\ MaxTime \in Nat

VARIABLES
    now,
    attested,      \* vinss_dispute_attestations: roles with a row, per case
    evaluations,   \* vinss_dispute_evaluations: the row of each case
    chain,         \* what Rekber says of each disputed custody
    tx,            \* the resolver transaction of each worker
    granted,       \* the worker whose transaction was accepted, per custody
    work           \* where each worker is, and what it has read

vars == <<now, attested, evaluations, chain, tx, granted, work>>

-----------------------------------------------------------------------------
NoRow == [state |-> "none", lease_token |-> NoWorker, started_at |-> 0,
          decision |-> NoDecision]

Resting == {"idle", "done", "failed"}

Init ==
    /\ now = 0
    /\ attested = [c \in Cases |-> {}]
    /\ evaluations = [c \in Cases |-> NoRow]
    /\ chain = [k \in Custodies |-> [consumed |-> FALSE, authorized |-> FALSE, payer |-> 0]]
    /\ tx = [w \in Workers |-> "none"]
    /\ granted = [k \in Custodies |-> NoWorker]
    /\ work = [w \in Workers |->
                 [at |-> "idle", case |-> CHOOSE c \in Cases : TRUE,
                  attempt |-> 0, claimed_at |-> 0, inCap |-> FALSE,
                  decision |-> NoDecision, bps |-> 0, status |-> "none"]]

CaseOf(w) == work[w].case
CustodyOn(w) == chain[CustodyOf[CaseOf(w)]]
RowOf(w) == evaluations[CaseOf(w)]

\* Disputed, not consumed and not resolved: a dispute is never withdrawn.
Unsettled(custody) == ~custody.consumed /\ ~custody.authorized

\* The payer's part of the principal; the payee gets the exact remainder.
PayerAmount(bps) == (Principal * bps) \div 10000

Goto(w, state) == work' = [work EXCEPT ![w].at = state]

\* The request answers its client with a status of the execution.
Finish(w, status) == work' = [work EXCEPT ![w].at = "done", ![w].status = status]

-----------------------------------------------------------------------------
(* POST /dispute/attestation.  The handler has read an unsettled custody     *)
(* before it stores the row, but the custody may be settled by then.         *)

StoreDisputeAttestation(c, roles) ==
    attested' = [attested EXCEPT ![c] = @ \cup roles]

Attest(c, role) ==
    /\ StoreDisputeAttestation(c, {role})
    /\ UNCHANGED <<now, evaluations, chain, tx, granted, work>>

-----------------------------------------------------------------------------
(* POST /dispute/evaluate, up to the claim.                                  *)

\* readAndVerifyDisputeCustody: the only read of the chain before the decision.
ReadCustody(r, c) ==
    /\ work[r].at = "idle"
    /\ work' = [work EXCEPT
         ![r].at = IF Unsettled(chain[CustodyOf[c]]) THEN "attestations" ELSE "failed",
         ![r].case = c]
    /\ UNCHANGED <<now, attested, evaluations, chain, tx, granted>>

Bug_Consented(roles) == roles # {}

\* Both parties' signatures are on file.
Consented(roles) == roles = Roles

ReadAttestations(r) ==
    /\ work[r].at = "attestations"
    /\ Goto(r, IF Consented(attested[CaseOf(r)]) THEN "value" ELSE "failed")
    /\ UNCHANGED <<now, attested, evaluations, chain, tx, granted>>

\* An old client sends both signatures along; storing one of them may fail.
BodyAttestations(r, stored) ==
    /\ work[r].at = "attestations"
    /\ StoreDisputeAttestation(CaseOf(r), stored)
    /\ Goto(r, IF stored = Roles THEN "value" ELSE "failed")
    /\ UNCHANGED <<now, evaluations, chain, tx, granted>>

\* readVerifiedPrincipalUsdMicros: the value is verified and within the cap.
ReadValue(r, inCap) ==
    /\ work[r].at = "value"
    /\ work' = [work EXCEPT ![r].at = "insert", ![r].inCap = inCap]
    /\ UNCHANGED <<now, attested, evaluations, chain, tx, granted>>

-----------------------------------------------------------------------------
(* claimDisputeEvaluation: three statements, not one transaction.            *)

TakeLease(r) ==
    /\ evaluations' = [evaluations EXCEPT
         ![CaseOf(r)] = [state |-> "pending", lease_token |-> r,
                         started_at |-> now, decision |-> NoDecision]]
    /\ work' = [work EXCEPT ![r].at = "evaluate", ![r].claimed_at = now]

InsertEvaluation(r) ==
    /\ work[r].at = "insert"
    /\ IF RowOf(r).state = "none"
         THEN TakeLease(r)
         ELSE Goto(r, "read") /\ UNCHANGED evaluations
    /\ UNCHANGED <<now, attested, chain, tx, granted>>

ReadEvaluation(r) ==
    /\ work[r].at = "read"
    /\ work' = IF RowOf(r).state = "complete"
                 THEN [work EXCEPT ![r].at = "policy",
                                   ![r].decision = RowOf(r).decision]
                 ELSE [work EXCEPT ![r].at = "reclaim"]
    /\ UNCHANGED <<now, attested, evaluations, chain, tx, granted>>

\* Only a pending row older than the lease may be taken over.
LeaseExpired(row) == row.state = "pending" /\ row.started_at + Lease < now

Bug_NextAttempt(r) == work' = [work EXCEPT ![r].at = "insert"]

\* in_progress: sleep and try again, a bounded number of times.
NextAttempt(r) ==
    work' = [work EXCEPT
       ![r].at = IF work[r].attempt + 1 < MaxAttempts THEN "insert" ELSE "failed",
       ![r].attempt = @ + 1]

ReclaimEvaluation(r) ==
    /\ work[r].at = "reclaim"
    /\ IF LeaseExpired(RowOf(r))
         THEN TakeLease(r)
         ELSE NextAttempt(r) /\ UNCHANGED evaluations
    /\ UNCHANGED <<now, attested, chain, tx, granted>>

-----------------------------------------------------------------------------
(* The evaluation and its persistence.                                       *)

\* evaluateDisputeCase: the model answers, or the call throws.
Evaluate(r) ==
    /\ work[r].at = "evaluate"
    /\ \/ \E d \in Decisions :
            work' = [work EXCEPT ![r].at = "complete", ![r].decision = d]
       \/ Goto(r, "release")
    /\ UNCHANGED <<now, attested, evaluations, chain, tx, granted>>

Bug_HoldsLease(r) == RowOf(r).state # "none"

\* The row is still pending under this request's token.
HoldsLease(r) == RowOf(r).state = "pending" /\ RowOf(r).lease_token = r

\* completeDisputeEvaluation; a lost lease, or an answer of the database that
\* never arrives, throws.
CompleteEvaluation(r) ==
    /\ work[r].at = "complete"
    /\ \/ /\ HoldsLease(r)
          /\ evaluations' = [evaluations EXCEPT
               ![CaseOf(r)].state = "complete",
               ![CaseOf(r)].decision = work[r].decision]
          /\ \/ Goto(r, "policy")
             \/ work' = [work EXCEPT ![r].at = "release", ![r].decision = NoDecision]
       \/ /\ work' = [work EXCEPT ![r].at = "release", ![r].decision = NoDecision]
          /\ UNCHANGED evaluations
    /\ UNCHANGED <<now, attested, chain, tx, granted>>

\* releaseDisputeEvaluation; its own failure is swallowed.
ReleaseEvaluation(r) ==
    /\ work[r].at = "release"
    /\ \/ /\ HoldsLease(r)
          /\ evaluations' = [evaluations EXCEPT ![CaseOf(r)] = NoRow]
       \/ UNCHANGED evaluations
    /\ Goto(r, "failed")
    /\ UNCHANGED <<now, attested, chain, tx, granted>>

-----------------------------------------------------------------------------
(* evaluateDisputePolicy and decisionForDisputeExecution.                    *)

\* decisionShapeIsConsistent.
Consistent(d) ==
    /\ d.payerBps + d.payeeBps = 10000
    /\ d.decision = "payer" => d.payerBps = 10000
    /\ d.decision = "payee" => d.payeeBps = 10000
    /\ d.decision = "split" => d.payerBps > 0 /\ d.payeeBps > 0

\* directionalSupportIsGrounded: an award needs a term, evidence of both parties,
\* and more than statements.
Grounded(d) ==
    \/ d.payerBps = 5000 /\ d.payeeBps = 5000
    \/ /\ "invented" \notin d.support
       /\ "term" \in d.support
       /\ \E e \in {"payer_statement", "payer_document"} : e \in d.support
       /\ \E e \in {"payee_statement", "payee_document"} : e \in d.support
       /\ \E e \in {"payer_document", "payee_document"} : e \in d.support

\* Reasons to execute the 50/50 that both parties signed for instead.
Fallback(d) ==
    \/ ~Grounded(d) \/ d.decision = "needs_review"
    \/ ~d.confident \/ "evidence_conflict" \in d.flags

\* The custody flags the policy tests are those ReadCustody accepted.
Rejected(d) == ~d.exact \/ ~Consistent(d)

HardStop(c, d, inCap) == c \in Objective \/ "identity_uncertain" \in d.flags \/ ~inCap

Verdict(c, d, inCap) ==
    CASE Rejected(d)                            -> "REJECTED"
      [] ~Rejected(d) /\ HardStop(c, d, inCap)  -> "NEEDS_REVIEW"
      [] ~Rejected(d) /\ ~HardStop(c, d, inCap) -> "AUTO_RESOLVE"

ExecutionBps(d) == IF Fallback(d) THEN 5000 ELSE d.payerBps

ApplyPolicy(r) ==
    LET d == work[r].decision IN
    /\ work[r].at = "policy"
    /\ IF Verdict(CaseOf(r), d, work[r].inCap) # "AUTO_RESOLVE"
         THEN Finish(r, "not_eligible")
         ELSE IF ~AutoResolveEnabled
                THEN Finish(r, "not_enabled")
                ELSE work' = [work EXCEPT ![r].at = "check",
                                          ![r].bps = ExecutionBps(d)]
    /\ UNCHANGED <<now, attested, evaluations, chain, tx, granted>>

-----------------------------------------------------------------------------
(* authorizeDisputeResolution, and the operator's command.                   *)

\* readAuthorizedSplit before and after the transaction.
ReadSplit(r) ==
    /\ work[r].at \in {"check", "recheck"}
    /\ IF CustodyOn(r).authorized
         THEN Finish(r, "already_authorized")
         ELSE Goto(r, IF work[r].at = "check" THEN "submit" ELSE "failed")
    /\ UNCHANGED <<now, attested, evaluations, chain, tx, granted>>

\* The operator chooses a split for an evaluated case bound to the custody.
Review(o, c, bps) ==
    /\ work[o].at = "idle"
    /\ evaluations[c].state = "complete"
    /\ attested[c] # {}
    /\ Unsettled(chain[CustodyOf[c]])
    /\ work' = [work EXCEPT ![o].at = "submit", ![o].case = c, ![o].bps = bps]
    /\ UNCHANGED <<now, attested, evaluations, chain, tx, granted>>

\* A failed call: the executor looks again, the operator's command gives up.
AfterError(w) == IF w \in Requests THEN "recheck" ELSE "failed"

\* execute estimates the call first, so it throws when the call would revert;
\* it may also throw although the transaction was taken.
SubmitTransaction(w) ==
    /\ work[w].at = "submit"
    /\ \/ /\ Unsettled(CustodyOn(w))
          /\ tx' = [tx EXCEPT ![w] = "pending"]
          /\ \E state \in {"wait", AfterError(w)} : Goto(w, state)
       \/ /\ Goto(w, AfterError(w))
          /\ UNCHANGED tx
    /\ UNCHANGED <<now, attested, evaluations, chain, granted>>

\* waitForTransaction returns the receipt, also that of a reverted transaction.
AwaitTransaction(w) ==
    /\ work[w].at = "wait"
    /\ tx[w] \in {"succeeded", "reverted"}
    /\ Finish(w, "authorized")
    /\ UNCHANGED <<now, attested, evaluations, chain, tx, granted>>

\* waitForTransaction throws: the node is out of reach or lost the transaction.
LoseTransaction(w) ==
    /\ work[w].at = "wait"
    /\ Goto(w, AfterError(w))
    /\ UNCHANGED <<now, attested, evaluations, chain, tx, granted>>

-----------------------------------------------------------------------------
(* The chain, the parties, time, and failures.                               *)

\* authorize_dispute_resolution, when the transaction is included in a block.
Include(w) ==
    /\ tx[w] = "pending"
    /\ IF Unsettled(CustodyOn(w))
         THEN /\ tx' = [tx EXCEPT ![w] = "succeeded"]
              /\ chain' = [chain EXCEPT ![CustodyOf[CaseOf(w)]] =
                   [@ EXCEPT !.authorized = TRUE, !.payer = PayerAmount(work[w].bps)]]
              /\ granted' = [granted EXCEPT ![CustodyOf[CaseOf(w)]] = w]
         ELSE /\ tx' = [tx EXCEPT ![w] = "reverted"]
              /\ UNCHANGED <<chain, granted>>
    /\ UNCHANGED <<now, attested, evaluations, work>>

\* The parties settle among themselves: RELEASE or MUTUAL_REFUND.
SettleMutually(k) ==
    /\ Unsettled(chain[k])
    /\ chain' = [chain EXCEPT ![k].consumed = TRUE]
    /\ UNCHANGED <<now, attested, evaluations, tx, granted, work>>

\* A worker dies, or an await outside the handler's inner try throws.
Crash(w) ==
    /\ work[w].at \notin Resting
    /\ Goto(w, "failed")
    /\ UNCHANGED <<now, attested, evaluations, chain, tx, granted>>

Tick ==
    /\ now < MaxTime
    /\ now' = now + 1
    /\ UNCHANGED <<attested, evaluations, chain, tx, granted, work>>

-----------------------------------------------------------------------------
RequestStep(r) ==
    \/ ReadAttestations(r)
    \/ \E stored \in SUBSET Roles : BodyAttestations(r, stored)
    \/ \E inCap \in BOOLEAN : ReadValue(r, inCap)
    \/ InsertEvaluation(r)
    \/ ReadEvaluation(r)
    \/ ReclaimEvaluation(r)
    \/ Evaluate(r)
    \/ CompleteEvaluation(r)
    \/ ReleaseEvaluation(r)
    \/ ApplyPolicy(r)
    \/ ReadSplit(r)

WorkerStep(w) == SubmitTransaction(w) \/ AwaitTransaction(w)

ChainStep(w) == Include(w) \/ LoseTransaction(w)

Next ==
    \/ \E c \in Cases, role \in Roles : Attest(c, role)
    \/ \E r \in Requests :
         \/ \E c \in Cases : ReadCustody(r, c)
         \/ RequestStep(r)
    \/ \E o \in Operators, c \in Cases, d \in Decisions : Review(o, c, d.payerBps)
    \/ \E w \in Workers : WorkerStep(w) \/ ChainStep(w) \/ Crash(w)
    \/ \E k \in Custodies : SettleMutually(k)
    \/ Tick

Spec == Init /\ [][Next]_vars

\* A request that was started goes on while its process lives, and the sequencer
\* includes what it was given.  Time need not pass, no party need act.
Fairness ==
    \A r \in Requests :
        /\ WF_vars(RequestStep(r) \/ WorkerStep(r))
        /\ WF_vars(Include(r))

FairSpec == Spec /\ Fairness

-----------------------------------------------------------------------------
(* Properties.                                                               *)

\* The first persisted decision of a case is never replaced or withdrawn, by
\* whatever worker, however late (no rerolling: routes/dispute.ts, store.ts).
FirstDecisionStands ==
    [][\A c \in Cases :
         evaluations[c].state = "complete" => evaluations'[c] = evaluations[c]]_vars

\* Every request that goes on to the policy acts on the persisted decision, so
\* all callers converge on one decision per case.
ActsOnPersisted ==
    \A r \in Requests :
        work[r].at \in {"policy", "check", "submit", "wait", "recheck", "done"} =>
            /\ RowOf(r).state = "complete"
            /\ RowOf(r).decision = work[r].decision

\* A split authorized through the backend belongs to a case of that custody that
\* both parties signed for and that was evaluated.  The agent's own splits follow
\* a decision about this very case and these people; one that favours a party is
\* the decision's, which is sure of it, found no conflict, and cites a term and
\* evidence of both parties (the policy gate of dispute/policy.ts).
ResolvedWithConsent ==
    \A k \in Custodies :
        chain[k].authorized =>
            LET w == granted[k]
                c == CaseOf(w)
                d == evaluations[c].decision
            IN
            /\ w \in Workers
            /\ CustodyOf[c] = k
            /\ attested[c] = Roles
            /\ evaluations[c].state = "complete"
            /\ chain[k].payer = PayerAmount(work[w].bps)
            /\ w \in Requests =>
                 /\ d.exact /\ Consistent(d)
                 /\ "identity_uncertain" \notin d.flags /\ c \notin Objective
                 /\ work[w].bps # 5000 =>
                      /\ work[w].bps = d.payerBps
                      /\ d.confident /\ "evidence_conflict" \notin d.flags
                      /\ "term" \in d.support /\ Cardinality(d.support) >= 3

\* A custody is settled once: by the parties or by one authorized split.
SettledOnce ==
    [][\A k \in Custodies :
         ~Unsettled(chain[k]) => chain'[k] = chain[k] /\ granted'[k] = granted[k]]_vars

\* While its lease runs, a request that evaluates a case owns the row of the case;
\* so no two evaluations of a case run under live leases (claimDisputeEvaluation).
LeaseExclusive ==
    \A r \in Requests :
        (work[r].at \in {"evaluate", "complete"} /\ now <= work[r].claimed_at + Lease)
            => HoldsLease(r)

\* Every request comes to an end: it never waits for another one for ever.
RequestsFinish ==
    \A r \in Requests : (work[r].at # "idle") ~> (work[r].at \in {"done", "failed"})

=============================================================================
