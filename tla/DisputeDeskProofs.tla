------------------------- MODULE DisputeDeskProofs -------------------------
(* The dispute desk for any number of requests, operators, cases and        *)
(* custodies, any answers of the model, any lease and any clock: a first    *)
(* decision stands, every caller acts on it, and what reaches Rekber has    *)
(* the consent and the grounds the policy asks for.                         *)
(*                                                                          *)
(* The two properties about decisions need each other: a request may act on *)
(* what it read from a row (ActsOnPersisted) because no complete row is     *)
(* ever written again, which holds because only the holder of a pending     *)
(* lease writes.  For the chain the invariant follows a split backwards: a  *)
(* granted custody names a worker whose transaction succeeded, a worker     *)
(* with a transaction has a mandate, and a mandate is a complete row of a   *)
(* case that both parties signed for.                                       *)
EXTENDS DisputeDesk, FiniteSetTheorems, TLAPS

Row == [state : {"none", "pending", "complete"}, lease_token : Workers \cup {NoWorker},
        started_at : Nat, decision : Decisions \cup {NoDecision}]
States == Resting \cup {"attestations", "value", "insert", "read", "reclaim", "evaluate",
                        "complete", "release", "policy", "check", "submit", "wait", "recheck"}
Work == [at : States, case : Cases, attempt : Nat, claimed_at : Nat, inCap : BOOLEAN,
         decision : Decisions \cup {NoDecision}, bps : Bps,
         status : {"none", "not_eligible", "not_enabled", "already_authorized", "authorized"}]
Custody == [consumed : BOOLEAN, authorized : BOOLEAN, payer : Nat]

TypeOK ==
  /\ now \in Nat
  /\ attested \in [Cases -> SUBSET Roles]
  /\ evaluations \in [Cases -> Row]
  /\ chain \in [Custodies -> Custody]
  /\ tx \in [Workers -> {"none", "pending", "succeeded", "reverted"}]
  /\ granted \in [Custodies -> Workers \cup {NoWorker}]
  /\ work \in [Workers -> Work]


\* Both signatures of a case are on file.
Signed(c) == attested[c] = Roles

\* A case that is being evaluated, or was, has both; a decision is an answer.
CasesSigned ==
  \A c \in Cases :
    /\ evaluations[c].state # "none" => Signed(c)
    /\ evaluations[c].state = "complete" => evaluations[c].decision \in Decisions

\* What the policy let through.
Passed(w) ==
  LET d == RowOf(w).decision IN
    /\ d.exact /\ Consistent(d)
    /\ CaseOf(w) \notin Objective /\ "identity_uncertain" \notin d.flags
    /\ work[w].bps = ExecutionBps(d)

\* Whoever is about to send a split, or has sent one, may.
Mandate(w) ==
  /\ RowOf(w).state = "complete" /\ Signed(CaseOf(w))
  /\ w \in Requests => Passed(w)

Live(r) == work[r].at \in {"evaluate", "complete"} /\ now <= work[r].claimed_at + Lease
Acting == {"policy", "check", "submit", "wait", "recheck", "done"}

\* Each worker by itself: a request holds both signatures before it claims, owns
\* the row while its lease runs, and acts on the row afterwards.
Rightful(w) ==
  /\ w \in Requests =>
       /\ work[w].at \in {"value", "insert", "read", "reclaim"} => Signed(CaseOf(w))
       /\ work[w].at = "complete" => work[w].decision \in Decisions
       /\ Live(w) => HoldsLease(w) /\ RowOf(w).started_at = work[w].claimed_at
       /\ work[w].at \in Acting => RowOf(w).state = "complete" /\ RowOf(w).decision = work[w].decision
  /\ work[w].at \in {"check", "submit", "wait", "recheck"} => Mandate(w)
  /\ tx[w] # "none" => Mandate(w) /\ work[w].at \in {"wait", "recheck", "done", "failed"}
  /\ w \in Operators => work[w].at \in {"idle", "submit", "wait", "done", "failed"}

\* A resolved custody was resolved by a transaction, as it asked.
Granted ==
  \A k \in Custodies :
    chain[k].authorized =>
      /\ granted[k] \in Workers
      /\ tx[granted[k]] = "succeeded"
      /\ CustodyOf[CaseOf(granted[k])] = k
      /\ chain[k].payer = PayerAmount(work[granted[k]].bps)

IInv == TypeOK /\ CasesSigned /\ Granted /\ \A w \in Workers : Rightful(w)

-----------------------------------------------------------------------------
LEMMA PayerAmountNat == \A b \in Bps : PayerAmount(b) \in Nat
<1> SUFFICES ASSUME NEW b \in Bps PROVE PayerAmount(b) \in Nat
  OBVIOUS
<1>1. Principal \in Nat /\ b \in Nat
  BY BoundsAssumption DEF Bps
<1>2. Principal * b \in Nat
  BY <1>1
<1> QED
  BY <1>2 DEF PayerAmount

LEMMA InitInvariant == Init => IInv
<1> SUFFICES ASSUME Init PROVE IInv
  OBVIOUS
<1> DEFINE first == CHOOSE c \in Cases : TRUE
<1>1. first \in Cases
  BY CasesAssumption
<1> DEFINE start == [at |-> "idle", case |-> first, attempt |-> 0, claimed_at |-> 0,
                     inCap |-> FALSE, decision |-> NoDecision, bps |-> 0, status |-> "none"]
<1>2. start \in Work
  BY <1>1 DEF Work, States, Resting, Bps
<1>3. work = [w \in Workers |-> start]
  BY DEF Init
<1>4. NoRow \in Row
  BY DEF NoRow, Row
<1>5. TypeOK
  <2> HIDE DEF start
  <2> QED
    BY <1>2, <1>3, <1>4 DEF Init, TypeOK, Custody
<1>6. CasesSigned /\ Granted
  BY DEF Init, CasesSigned, Granted, NoRow
<1>7. \A w \in Workers : work[w].at = "idle" /\ tx[w] = "none"
  BY <1>3 DEF Init
<1>8. \A w \in Workers : Rightful(w)
  BY <1>7 DEF Rightful, Live, Acting
<1> QED
  BY <1>5, <1>6, <1>8 DEF IInv

-----------------------------------------------------------------------------
\* A worker goes on alone; signatures may arrive, its transaction may be sent.
LEMMA Alone ==
    ASSUME IInv, NEW w \in Workers,
           work' \in [Workers -> Work], \A v \in Workers \ {w} : work'[v] = work[v],
           attested' \in [Cases -> SUBSET Roles], \A c \in Cases : Signed(c) => Signed(c)',
           tx' \in [Workers -> {"none", "pending", "succeeded", "reverted"}],
           \A v \in Workers \ {w} : tx'[v] = tx[v],
           tx[w] # "none" => /\ tx'[w] = tx[w]
                             /\ work'[w].case = work[w].case /\ work'[w].bps = work[w].bps,
           UNCHANGED <<now, evaluations, chain, granted>>,
           Rightful(w)'
    PROVE  IInv'
<1>1. TypeOK
  BY DEF IInv
<1>2. TypeOK'
  BY <1>1 DEF TypeOK
<1>3. CasesSigned'
  BY DEF IInv, CasesSigned
<1>4. Granted'
  <2> SUFFICES ASSUME NEW k \in Custodies, chain[k].authorized
               PROVE  /\ granted[k] \in Workers /\ tx'[granted[k]] = "succeeded"
                      /\ CustodyOf[work'[granted[k]].case] = k
                      /\ chain[k].payer = PayerAmount(work'[granted[k]].bps)
    BY DEF Granted, CaseOf, PayerAmount
  <2>1. /\ granted[k] \in Workers /\ tx[granted[k]] = "succeeded"
        /\ CustodyOf[work[granted[k]].case] = k
        /\ chain[k].payer = PayerAmount(work[granted[k]].bps)
    BY DEF IInv, Granted, CaseOf
  <2>2. /\ work'[granted[k]].case = work[granted[k]].case
        /\ work'[granted[k]].bps = work[granted[k]].bps
        /\ tx'[granted[k]] = "succeeded"
    BY <2>1
  <2> QED
    BY <2>1, <2>2
<1>5. ASSUME NEW v \in Workers \ {w} PROVE Rightful(v)'
  <2>1. Rightful(v) /\ work'[v] = work[v] /\ tx'[v] = tx[v] /\ CaseOf(v) \in Cases
    BY <1>1 DEF IInv, TypeOK, Work, CaseOf
  <2>2. Mandate(v) => Mandate(v)'
    BY <2>1 DEF Mandate, Passed, RowOf, CaseOf
  <2>3. Signed(CaseOf(v)) => Signed(CaseOf(v))'
    BY <2>1 DEF CaseOf
  <2> QED
    BY <2>1, <2>2, <2>3 DEF Rightful, Live, HoldsLease, RowOf, CaseOf
<1> QED
  BY <1>2, <1>3, <1>4, <1>5 DEF IInv

\* A request writes the row of its case, which is not complete and which no other
\* request holds under a live lease.
LEMMA Writes ==
    ASSUME IInv, NEW r \in Requests, NEW row \in Row,
           work' \in [Workers -> Work], \A v \in Workers \ {r} : work'[v] = work[v],
           work'[r].case = work[r].case,
           tx[r] = "none",
           evaluations' = [evaluations EXCEPT ![CaseOf(r)] = row],
           RowOf(r).state # "complete",
           row.state # "none" => Signed(CaseOf(r)),
           row.state = "complete" => row.decision \in Decisions,
           \A q \in Requests \ {r} : CaseOf(q) = CaseOf(r) => ~Live(q),
           UNCHANGED <<now, attested, chain, tx, granted>>,
           Rightful(r)'
    PROVE  IInv'
<1>1. TypeOK /\ work \in [Workers -> Work] /\ evaluations \in [Cases -> Row] /\ r \in Workers
  BY DEF IInv, TypeOK, Workers
<1>2. \A v \in Workers \ {r} : work'[v] = work[v]
  OBVIOUS
<1>3. CaseOf(r) \in Cases
  BY <1>1 DEF CaseOf, Work
<1>4. /\ evaluations'[CaseOf(r)] = row
      /\ \A c \in Cases \ {CaseOf(r)} : evaluations'[c] = evaluations[c]
  BY <1>1, <1>3
<1>5. TypeOK'
  BY <1>1, <1>3 DEF TypeOK
<1>6. CasesSigned'
  BY <1>4 DEF IInv, CasesSigned, Signed
<1>7. Granted'
  <2> SUFFICES ASSUME NEW k \in Custodies, chain[k].authorized
               PROVE  /\ granted[k] \in Workers /\ tx[granted[k]] = "succeeded"
                      /\ CustodyOf[work'[granted[k]].case] = k
                      /\ chain[k].payer = PayerAmount(work'[granted[k]].bps)
    BY DEF Granted, CaseOf, PayerAmount
  <2>1. /\ granted[k] \in Workers /\ tx[granted[k]] = "succeeded"
        /\ CustodyOf[work[granted[k]].case] = k
        /\ chain[k].payer = PayerAmount(work[granted[k]].bps)
    BY DEF IInv, Granted, CaseOf
  <2>2. granted[k] # r
    BY <2>1
  <2> QED
    BY <1>2, <2>1, <2>2
<1>8. ASSUME NEW v \in Workers \ {r} PROVE Rightful(v)'
  <2>1. Rightful(v) /\ work'[v] = work[v] /\ CaseOf(v)' = CaseOf(v) /\ CaseOf(v) \in Cases
    BY <1>1, <1>2 DEF IInv, CaseOf, Work
  <2>2. CASE CaseOf(v) # CaseOf(r)
    <3>1. RowOf(v)' = RowOf(v)
      BY <1>4, <2>1, <2>2 DEF RowOf
    <3> QED
      BY <2>1, <3>1 DEF Rightful, Mandate, Passed, Live, Signed, HoldsLease, CaseOf
  <2>3. CASE CaseOf(v) = CaseOf(r)
    <3>1. RowOf(v).state # "complete"
      BY <2>3 DEF RowOf
    <3>2. v \in Requests => ~Live(v) /\ ~Live(v)'
      BY <2>1, <2>3 DEF Live
    <3> QED
      BY <2>1, <3>1, <3>2 DEF Rightful, Mandate, Signed, CaseOf, Acting
  <2> QED
    BY <2>2, <2>3
<1> QED
  BY <1>5, <1>6, <1>7, <1>8 DEF IInv

-----------------------------------------------------------------------------
\* What holds of a request in the middle of its handler.
LEMMA Midway ==
    ASSUME IInv, NEW w \in Workers, work[w].at \notin {"wait", "recheck", "done", "failed"}
    PROVE  tx[w] = "none" /\ Rightful(w) /\ work[w] \in Work
BY DEF IInv, TypeOK, Rightful


\* Going to another state changes nothing else of a worker, and nothing of others.
Kept(w) ==
  /\ work' \in [Workers -> Work] /\ \A v \in Workers \ {w} : work'[v] = work[v]
  /\ work'[w].case = work[w].case /\ work'[w].bps = work[w].bps
  /\ work'[w].claimed_at = work[w].claimed_at
LEMMA GotoStep ==
    ASSUME TypeOK, NEW w \in Workers, NEW state \in States, Goto(w, state)
    PROVE  /\ Kept(w) /\ work'[w].at = state /\ work'[w].decision = work[w].decision
<1> DEFINE new == [work[w] EXCEPT !.at = state]
<1>1. work \in [Workers -> Work] /\ work[w] \in Work
  BY DEF TypeOK
<1>2. new \in Work /\ new.at = state /\ new.case = work[w].case /\ new.bps = work[w].bps
      /\ new.claimed_at = work[w].claimed_at /\ new.decision = work[w].decision
  BY <1>1 DEF Work
<1>3. work' = [work EXCEPT ![w] = new]
  BY DEF Goto
<1> HIDE DEF new
<1> QED
  BY <1>1, <1>2, <1>3 DEF Kept

LEMMA FinishStep ==
    ASSUME TypeOK, NEW w \in Workers,
           NEW status \in {"not_eligible", "not_enabled", "already_authorized", "authorized"},
           Finish(w, status)
    PROVE  /\ Kept(w) /\ work'[w].at = "done" /\ work'[w].decision = work[w].decision
<1> DEFINE new == [work[w] EXCEPT !.at = "done", !.status = status]
<1>1. work \in [Workers -> Work] /\ work[w] \in Work
  BY DEF TypeOK
<1>2. new \in Work /\ new.at = "done" /\ new.case = work[w].case /\ new.bps = work[w].bps
      /\ new.claimed_at = work[w].claimed_at /\ new.decision = work[w].decision
  BY <1>1 DEF Work, States, Resting
<1>3. work' = [work EXCEPT ![w] = new]
  BY DEF Finish
<1> HIDE DEF new
<1> QED
  BY <1>1, <1>2, <1>3 DEF Kept

\* The signatures of the parties only accumulate.
LEMMA AttestationStays ==
    ASSUME TypeOK, NEW c \in Cases, NEW roles \in SUBSET Roles,
           StoreDisputeAttestation(c, roles)
    PROVE  /\ attested' \in [Cases -> SUBSET Roles]
           /\ \A d \in Cases : Signed(d) => Signed(d)'
           /\ roles = Roles => Signed(c)'
BY DEF TypeOK, StoreDisputeAttestation, Signed

-----------------------------------------------------------------------------
(* Up to the claim.                                                          *)

LEMMA ReadStep ==
    ASSUME IInv, NEW r \in Requests,
           \/ \E c \in Cases : ReadCustody(r, c)
           \/ ReadAttestations(r)
           \/ \E stored \in SUBSET Roles : BodyAttestations(r, stored)
           \/ \E inCap \in BOOLEAN : ReadValue(r, inCap)
    PROVE  IInv'
<1>1. r \in Workers /\ r \notin Operators /\ TypeOK /\ work \in [Workers -> Work] /\ work[r] \in Work
      /\ attested \in [Cases -> SUBSET Roles]
      /\ tx \in [Workers -> {"none", "pending", "succeeded", "reverted"}]
  BY WorkersAssumption DEF IInv, TypeOK, Workers
<1>2. CaseOf(r) \in Cases
  BY <1>1 DEF CaseOf, Work
<1>3. work[r].at \in {"idle", "attestations", "value"}
  BY DEF ReadCustody, ReadAttestations, BodyAttestations, ReadValue
<1>4. tx[r] = "none" /\ Rightful(r)
  BY <1>1, <1>3, Midway
<1>5. CASE \E c \in Cases : ReadCustody(r, c)
  <2>1. PICK c \in Cases : ReadCustody(r, c)
    BY <1>5
  <2> DEFINE state == IF Unsettled(chain[CustodyOf[c]]) THEN "attestations" ELSE "failed"
             new == [work[r] EXCEPT !.at = state, !.case = c]
  <2>2. work' = [work EXCEPT ![r] = new]
    BY <2>1 DEF ReadCustody
  <2>3. new \in Work /\ new.at \in {"attestations", "failed"}
    BY <1>1 DEF Work, States, Resting
  <2> HIDE DEF new
  <2>4. /\ work' \in [Workers -> Work] /\ work'[r] = new
        /\ \A v \in Workers \ {r} : work'[v] = work[v]
    BY <1>1, <2>2, <2>3
  <2>5. Rightful(r)'
    BY <1>1, <1>4, <2>1, <2>3, <2>4 DEF ReadCustody, Rightful, Live, Acting
  <2> QED
    BY <1>1, <1>4, <2>1, <2>4, <2>5, Alone DEF ReadCustody, Signed
<1>6. CASE ReadAttestations(r)
  <2> DEFINE state == IF Consented(attested[CaseOf(r)]) THEN "value" ELSE "failed"
  <2>1. Kept(r) /\ work'[r].at = state
    BY <1>1, <1>6, GotoStep DEF ReadAttestations, States, Resting
  <2>2. Rightful(r)'
    BY <1>1, <1>4, <1>6, <2>1
       DEF ReadAttestations, Kept, Rightful, Live, Acting, Consented, Signed, CaseOf
  <2> QED
    BY <1>1, <1>4, <1>6, <2>1, <2>2, Alone DEF ReadAttestations, Kept, Signed
<1>7. CASE \E stored \in SUBSET Roles : BodyAttestations(r, stored)
  <2>1. PICK stored \in SUBSET Roles : BodyAttestations(r, stored)
    BY <1>7
  <2> DEFINE state == IF stored = Roles THEN "value" ELSE "failed"
  <2>2. Kept(r) /\ work'[r].at = state
    BY <1>1, <2>1, GotoStep DEF BodyAttestations, States, Resting
  <2>3. /\ attested' \in [Cases -> SUBSET Roles]
        /\ \A d \in Cases : Signed(d) => Signed(d)'
        /\ stored = Roles => Signed(CaseOf(r))'
    <3>1. StoreDisputeAttestation(CaseOf(r), stored)
      BY <2>1 DEF BodyAttestations
    <3>2. stored = Roles => attested'[CaseOf(r)] = Roles
      BY <1>1, <1>2, <3>1 DEF StoreDisputeAttestation
    <3>3. CaseOf(r)' = CaseOf(r)
      BY <2>2 DEF Kept, CaseOf
    <3> QED
      BY <1>1, <1>2, <3>1, <3>2, <3>3, AttestationStays DEF Signed
  <2>4. Rightful(r)'
    BY <1>1, <1>4, <2>1, <2>2, <2>3 DEF BodyAttestations, Kept, Rightful, Live, Acting
  <2> QED
    BY <1>1, <1>4, <2>1, <2>2, <2>3, <2>4, Alone DEF BodyAttestations, Kept
<1>8. CASE \E inCap \in BOOLEAN : ReadValue(r, inCap)
  <2>1. PICK inCap \in BOOLEAN : ReadValue(r, inCap)
    BY <1>8
  <2> DEFINE new == [work[r] EXCEPT !.at = "insert", !.inCap = inCap]
  <2>2. work' = [work EXCEPT ![r] = new]
    BY <2>1 DEF ReadValue
  <2>3. new \in Work /\ new.at = "insert" /\ new.case = work[r].case
    BY <1>1 DEF Work, States
  <2> HIDE DEF new
  <2>4. /\ work' \in [Workers -> Work] /\ work'[r] = new
        /\ \A v \in Workers \ {r} : work'[v] = work[v]
    BY <1>1, <2>2, <2>3
  <2>5. Rightful(r)'
    BY <1>1, <1>4, <2>1, <2>3, <2>4 DEF ReadValue, Rightful, Live, Acting, Signed, CaseOf
  <2> QED
    BY <1>1, <1>4, <2>1, <2>4, <2>5, Alone DEF ReadValue, Signed
<1> QED
  BY <1>5, <1>6, <1>7, <1>8

-----------------------------------------------------------------------------
(* The claim, the evaluation and its persistence: what a request writes.     *)

\* A request takes the row of its case, which nobody holds.
LEMMA TakeStep ==
    ASSUME IInv, NEW r \in Requests, TakeLease(r),
           work[r].at \in {"insert", "reclaim"},
           RowOf(r).state # "complete",
           \A q \in Requests \ {r} : CaseOf(q) = CaseOf(r) => ~Live(q),
           UNCHANGED <<now, attested, chain, tx, granted>>
    PROVE  IInv'
<1>1. r \in Workers /\ r \notin Operators /\ TypeOK /\ work \in [Workers -> Work] /\ work[r] \in Work
      /\ evaluations \in [Cases -> Row] /\ CaseOf(r) \in Cases /\ now \in Nat
  BY WorkersAssumption DEF IInv, TypeOK, Workers, Work, CaseOf
<1>2. tx[r] = "none" /\ Rightful(r) /\ Signed(CaseOf(r))
  BY <1>1, Midway DEF Rightful
<1> DEFINE row == [state |-> "pending", lease_token |-> r, started_at |-> now, decision |-> NoDecision]
           new == [work[r] EXCEPT !.at = "evaluate", !.claimed_at = now]
<1>3. row \in Row /\ row.state = "pending" /\ row.lease_token = r /\ row.started_at = now
  BY <1>1 DEF Row
<1>4. new \in Work /\ new.at = "evaluate" /\ new.claimed_at = now /\ new.case = work[r].case
  BY <1>1 DEF Work, States
<1>5. work' = [work EXCEPT ![r] = new] /\ evaluations' = [evaluations EXCEPT ![CaseOf(r)] = row]
  BY DEF TakeLease
<1> HIDE DEF row, new
<1>6. /\ work' \in [Workers -> Work] /\ work'[r] = new
      /\ \A v \in Workers \ {r} : work'[v] = work[v]
      /\ evaluations'[CaseOf(r)] = row
  BY <1>1, <1>4, <1>5
<1>7. Rightful(r)'
  <2>1. CaseOf(r)' = CaseOf(r) /\ RowOf(r)' = row
    BY <1>4, <1>6 DEF CaseOf, RowOf
  <2> QED
    BY <1>1, <1>2, <1>3, <1>4, <1>6, <2>1 DEF Rightful, HoldsLease, Acting
<1> QED
  BY <1>1, <1>2, <1>3, <1>4, <1>5, <1>6, <1>7, Writes

LEMMA ClaimStep ==
    ASSUME IInv, NEW r \in Requests,
           InsertEvaluation(r) \/ ReadEvaluation(r) \/ ReclaimEvaluation(r)
    PROVE  IInv'
<1>1. r \in Workers /\ r \notin Operators /\ TypeOK /\ work \in [Workers -> Work] /\ work[r] \in Work
      /\ evaluations \in [Cases -> Row] /\ CaseOf(r) \in Cases /\ now \in Nat
      /\ attested \in [Cases -> SUBSET Roles]
      /\ tx \in [Workers -> {"none", "pending", "succeeded", "reverted"}]
  BY WorkersAssumption DEF IInv, TypeOK, Workers, Work, CaseOf
<1>2. tx[r] = "none" /\ Rightful(r) /\ Signed(CaseOf(r))
  BY <1>1, Midway DEF InsertEvaluation, ReadEvaluation, ReclaimEvaluation, Rightful
<1>3. CASE InsertEvaluation(r)
  <2>1. CASE RowOf(r).state = "none"
    <3>1. \A q \in Requests \ {r} : CaseOf(q) = CaseOf(r) => ~Live(q)
      BY <2>1 DEF IInv, Rightful, HoldsLease, RowOf, Workers
    <3> QED
      BY <1>3, <2>1, <3>1, TakeStep DEF InsertEvaluation
  <2>2. CASE RowOf(r).state # "none"
    <3>1. Kept(r) /\ work'[r].at = "read"
      BY <1>1, <1>3, <2>2, GotoStep DEF InsertEvaluation, States
    <3>2. Rightful(r)'
      BY <1>1, <1>2, <1>3, <2>2, <3>1
         DEF InsertEvaluation, Kept, Rightful, Live, Acting, Signed, CaseOf
    <3> QED
      BY <1>1, <1>2, <1>3, <2>2, <3>1, <3>2, Alone DEF InsertEvaluation, Kept, Signed
  <2> QED
    BY <2>1, <2>2
<1>4. CASE ReadEvaluation(r)
  <2>1. CASE RowOf(r).state = "complete"
    <3> DEFINE new == [work[r] EXCEPT !.at = "policy", !.decision = RowOf(r).decision]
    <3>1. work' = [work EXCEPT ![r] = new]
      BY <1>4, <2>1 DEF ReadEvaluation
    <3>2. RowOf(r).decision \in Decisions
      BY <1>1, <2>1 DEF IInv, CasesSigned, RowOf
    <3>3. new \in Work /\ new.at = "policy" /\ new.case = work[r].case
          /\ new.decision = RowOf(r).decision
      BY <1>1, <3>2 DEF Work, States
    <3> HIDE DEF new
    <3>4. /\ work' \in [Workers -> Work] /\ work'[r] = new
          /\ \A v \in Workers \ {r} : work'[v] = work[v]
      BY <1>1, <3>1, <3>3
    <3>5. RowOf(r)' = RowOf(r)
      BY <1>4, <3>3, <3>4 DEF ReadEvaluation, RowOf, CaseOf
    <3>6. Rightful(r)'
      BY <1>1, <1>2, <1>4, <2>1, <3>3, <3>4, <3>5 DEF ReadEvaluation, Rightful, Live, Acting
    <3> QED
      BY <1>1, <1>2, <1>4, <3>4, <3>6, Alone DEF ReadEvaluation, Signed
  <2>2. CASE RowOf(r).state # "complete"
    <3> DEFINE new == [work[r] EXCEPT !.at = "reclaim"]
    <3>1. Kept(r) /\ work'[r].at = "reclaim"
      <4>1. Goto(r, "reclaim")
        BY <1>4, <2>2 DEF ReadEvaluation, Goto
      <4> QED
        BY <1>1, <4>1, GotoStep DEF States
    <3>2. Rightful(r)'
      BY <1>1, <1>2, <1>4, <3>1 DEF ReadEvaluation, Kept, Rightful, Live, Acting, Signed, CaseOf
    <3> QED
      BY <1>1, <1>2, <1>4, <3>1, <3>2, Alone DEF ReadEvaluation, Kept, Signed
  <2> QED
    BY <2>1, <2>2
<1>5. CASE ReclaimEvaluation(r)
  <2>1. CASE LeaseExpired(RowOf(r))
    <3>1. RowOf(r).state # "complete"
      BY <2>1 DEF LeaseExpired
    <3>2. ASSUME NEW q \in Requests \ {r}, CaseOf(q) = CaseOf(r) PROVE ~Live(q)
      <4>1. q \in Workers /\ RowOf(q) = RowOf(r) /\ RowOf(q).started_at \in Nat
        BY <1>1, <3>2 DEF Workers, RowOf, Row
      <4>2. Live(q) => RowOf(q).started_at = work[q].claimed_at /\ now <= work[q].claimed_at + Lease
        BY <4>1 DEF IInv, Rightful, Live
      <4> QED
        BY <1>1, <2>1, <4>1, <4>2, BoundsAssumption DEF LeaseExpired
    <3> QED
      BY <1>5, <2>1, <3>1, <3>2, TakeStep DEF ReclaimEvaluation
  <2>2. CASE ~LeaseExpired(RowOf(r))
    <3> DEFINE state == IF work[r].attempt + 1 < MaxAttempts THEN "insert" ELSE "failed"
               new == [work[r] EXCEPT !.at = state, !.attempt = work[r].attempt + 1]
    <3>1. work' = [work EXCEPT ![r] = new]
      BY <1>5, <2>2 DEF ReclaimEvaluation, NextAttempt
    <3>2. new \in Work /\ new.at \in {"insert", "failed"} /\ new.case = work[r].case
      <4>1. state \in {"insert", "failed"} /\ work[r].attempt + 1 \in Nat
        BY <1>1 DEF Work
      <4> HIDE DEF state
      <4> QED
        BY <1>1, <4>1 DEF Work, States, Resting
    <3> HIDE DEF new
    <3>3. /\ work' \in [Workers -> Work] /\ work'[r] = new
          /\ \A v \in Workers \ {r} : work'[v] = work[v]
      BY <1>1, <3>1, <3>2
    <3>4. Rightful(r)'
      BY <1>1, <1>2, <1>5, <2>2, <3>2, <3>3
         DEF ReclaimEvaluation, Rightful, Live, Acting, Signed, CaseOf
    <3> QED
      BY <1>1, <1>2, <1>5, <2>2, <3>3, <3>4, Alone DEF ReclaimEvaluation, Signed
  <2> QED
    BY <2>1, <2>2
<1> QED
  BY <1>3, <1>4, <1>5

\* The lease that a request holds keeps every other request from being live.
LEMMA HolderIsAlone ==
    ASSUME IInv, NEW r \in Requests, HoldsLease(r)
    PROVE  \A q \in Requests \ {r} : CaseOf(q) = CaseOf(r) => ~Live(q)
BY DEF IInv, Rightful, HoldsLease, RowOf, Workers

LEMMA EvaluateStep ==
    ASSUME IInv, NEW r \in Requests,
           Evaluate(r) \/ CompleteEvaluation(r) \/ ReleaseEvaluation(r)
    PROVE  IInv'
<1>1. r \in Workers /\ r \notin Operators /\ TypeOK /\ work \in [Workers -> Work] /\ work[r] \in Work
      /\ evaluations \in [Cases -> Row] /\ CaseOf(r) \in Cases /\ now \in Nat
      /\ attested \in [Cases -> SUBSET Roles]
      /\ tx \in [Workers -> {"none", "pending", "succeeded", "reverted"}]
  BY WorkersAssumption DEF IInv, TypeOK, Workers, Work, CaseOf
<1>2. tx[r] = "none" /\ Rightful(r)
  BY <1>1, Midway DEF Evaluate, CompleteEvaluation, ReleaseEvaluation
<1>3. CASE Evaluate(r)
  <2>1. CASE Goto(r, "release")
    <3>1. Kept(r) /\ work'[r].at = "release"
      BY <1>1, <2>1, GotoStep DEF States
    <3>2. Rightful(r)'
      BY <1>1, <1>2, <1>3, <3>1 DEF Evaluate, Rightful, Live, Acting
    <3> QED
      BY <1>1, <1>2, <1>3, <3>1, <3>2, Alone DEF Evaluate, Kept, Signed
  <2>2. CASE ~Goto(r, "release")
    <3>1. PICK d \in Decisions : work' = [work EXCEPT ![r].at = "complete", ![r].decision = d]
      BY <1>3, <2>2 DEF Evaluate
    <3> DEFINE new == [work[r] EXCEPT !.at = "complete", !.decision = d]
    <3>2. work' = [work EXCEPT ![r] = new]
      BY <3>1
    <3>3. new \in Work /\ new.at = "complete" /\ new.case = work[r].case /\ new.decision = d
          /\ new.claimed_at = work[r].claimed_at
      BY <1>1 DEF Work, States
    <3> HIDE DEF new
    <3>4. /\ work' \in [Workers -> Work] /\ work'[r] = new
          /\ \A v \in Workers \ {r} : work'[v] = work[v]
      BY <1>1, <3>2, <3>3
    <3>5. Rightful(r)'
      BY <1>1, <1>2, <1>3, <3>3, <3>4
         DEF Evaluate, Rightful, Live, Acting, HoldsLease, RowOf, CaseOf
    <3> QED
      BY <1>1, <1>2, <1>3, <3>4, <3>5, Alone DEF Evaluate, Signed
  <2> QED
    BY <2>1, <2>2
<1>4. CASE CompleteEvaluation(r)
  <2> DEFINE row == [RowOf(r) EXCEPT !.state = "complete", !.decision = work[r].decision]
             back == [work[r] EXCEPT !.at = "release", !.decision = NoDecision]
  <2>1. back \in Work /\ back.at = "release" /\ back.case = work[r].case
    BY <1>1 DEF Work, States
  <2>2. work[r].decision \in Decisions
    BY <1>2, <1>4 DEF CompleteEvaluation, Rightful
  <2>3. RowOf(r) \in Row
    BY <1>1 DEF RowOf
  <2>4. row \in Row /\ row.state = "complete" /\ row.decision = work[r].decision
    BY <2>2, <2>3 DEF Row
  <2>5. CASE /\ HoldsLease(r)
             /\ evaluations' = [evaluations EXCEPT ![CaseOf(r)].state = "complete",
                                                   ![CaseOf(r)].decision = work[r].decision]
             /\ Goto(r, "policy") \/ work' = [work EXCEPT ![r] = back]
    <3>1. evaluations' = [evaluations EXCEPT ![CaseOf(r)] = row]
      BY <1>1, <2>5 DEF RowOf
    <3>2. RowOf(r).state = "pending" /\ Signed(CaseOf(r))
      BY <1>1, <2>5 DEF IInv, CasesSigned, HoldsLease, RowOf
    <3> HIDE DEF row, back
    <3>3. evaluations'[CaseOf(r)] = row
      BY <1>1, <3>1
    <3>4. /\ work' \in [Workers -> Work] /\ \A v \in Workers \ {r} : work'[v] = work[v]
          /\ work'[r].case = work[r].case
          /\ \/ work'[r].at = "policy" /\ work'[r].decision = work[r].decision
             \/ work'[r].at = "release"
      <4>1. CASE Goto(r, "policy")
        BY <1>1, <4>1, GotoStep DEF Kept, States
      <4>2. CASE work' = [work EXCEPT ![r] = back]
        BY <1>1, <2>1, <4>2
      <4> QED
        BY <2>5, <4>1, <4>2
    <3>5. RowOf(r)' = row
      BY <3>3, <3>4 DEF RowOf, CaseOf
    <3>6. Rightful(r)'
      BY <1>1, <1>2, <1>4, <2>4, <3>4, <3>5 DEF CompleteEvaluation, Rightful, Live, Acting
    <3> QED
      BY <1>1, <1>2, <1>4, <2>2, <2>4, <2>5, <3>1, <3>2, <3>4, <3>6, HolderIsAlone, Writes
         DEF CompleteEvaluation
  <2>6. CASE UNCHANGED evaluations /\ work' = [work EXCEPT ![r] = back]
    <3> HIDE DEF back
    <3>1. /\ work' \in [Workers -> Work] /\ work'[r] = back
          /\ \A v \in Workers \ {r} : work'[v] = work[v]
      BY <1>1, <2>1, <2>6
    <3>2. Rightful(r)'
      BY <1>1, <1>2, <1>4, <2>1, <3>1 DEF CompleteEvaluation, Rightful, Live, Acting
    <3> QED
      BY <1>1, <1>2, <1>4, <2>6, <3>1, <3>2, Alone DEF CompleteEvaluation, Signed
  <2>7. work' = [work EXCEPT ![r].at = "release", ![r].decision = NoDecision]
        => work' = [work EXCEPT ![r] = back]
    OBVIOUS
  <2> QED
    BY <1>4, <2>5, <2>6, <2>7 DEF CompleteEvaluation
<1>5. CASE ReleaseEvaluation(r)
  <2>1. Kept(r) /\ work'[r].at = "failed"
    BY <1>1, <1>5, GotoStep DEF ReleaseEvaluation, States, Resting
  <2>2. Rightful(r)'
    BY <1>1, <1>2, <1>5, <2>1 DEF ReleaseEvaluation, Rightful, Live, Acting
  <2>3. CASE HoldsLease(r) /\ evaluations' = [evaluations EXCEPT ![CaseOf(r)] = NoRow]
    <3>1. NoRow \in Row /\ NoRow.state = "none"
      BY DEF NoRow, Row
    <3> QED
      BY <1>1, <1>2, <1>5, <2>1, <2>2, <2>3, <3>1, HolderIsAlone, Writes
         DEF ReleaseEvaluation, Kept, HoldsLease
  <2>4. CASE UNCHANGED evaluations
    BY <1>1, <1>2, <1>5, <2>1, <2>2, <2>4, Alone DEF ReleaseEvaluation, Kept, Signed
  <2> QED
    BY <1>5, <2>3, <2>4 DEF ReleaseEvaluation
<1> QED
  BY <1>3, <1>4, <1>5

-----------------------------------------------------------------------------
(* The policy, the split and the chain.                                      *)

LEMMA ExecutionBpsType == \A d \in Decisions : ExecutionBps(d) \in Bps
<1> SUFFICES ASSUME NEW d \in Decisions PROVE ExecutionBps(d) \in Bps
  OBVIOUS
<1>1. d.payerBps \in Bps
  BY DecisionsAssumption DEF Decision
<1>2. 5000 \in Bps
  BY DEF Bps
<1> QED
  BY <1>1, <1>2 DEF ExecutionBps

LEMMA PolicyStep ==
    ASSUME IInv, NEW r \in Requests, ApplyPolicy(r)
    PROVE  IInv'
<1>1. r \in Workers /\ r \notin Operators /\ TypeOK /\ work \in [Workers -> Work] /\ work[r] \in Work
      /\ CaseOf(r) \in Cases /\ attested \in [Cases -> SUBSET Roles]
      /\ tx \in [Workers -> {"none", "pending", "succeeded", "reverted"}]
  BY WorkersAssumption DEF IInv, TypeOK, Workers, Work, CaseOf
<1>2. tx[r] = "none" /\ Rightful(r)
  BY <1>1, Midway DEF ApplyPolicy
<1> DEFINE d == work[r].decision
<1>3. /\ work[r].at = "policy" /\ RowOf(r).state = "complete" /\ RowOf(r).decision = d
      /\ d \in Decisions /\ Signed(CaseOf(r))
  <2>1. work[r].at = "policy" /\ RowOf(r).state = "complete" /\ RowOf(r).decision = d
    BY <1>2 DEF ApplyPolicy, Rightful, Acting
  <2> QED
    BY <1>1, <2>1 DEF IInv, CasesSigned, RowOf
<1>4. CASE \E status \in {"not_eligible", "not_enabled"} : Finish(r, status)
  <2>1. Kept(r) /\ work'[r].at = "done" /\ work'[r].decision = d
    BY <1>1, <1>4, FinishStep
  <2>2. RowOf(r)' = RowOf(r)
    BY <2>1 DEF ApplyPolicy, Kept, RowOf, CaseOf
  <2>3. Rightful(r)'
    BY <1>1, <1>2, <1>3, <2>1, <2>2 DEF ApplyPolicy, Rightful, Live, Acting
  <2> QED
    BY <1>1, <1>2, <2>1, <2>3, Alone DEF ApplyPolicy, Kept, Signed
<1>5. CASE /\ Verdict(CaseOf(r), d, work[r].inCap) = "AUTO_RESOLVE"
           /\ work' = [work EXCEPT ![r].at = "check", ![r].bps = ExecutionBps(d)]
  <2> DEFINE new == [work[r] EXCEPT !.at = "check", !.bps = ExecutionBps(d)]
  <2>1. work' = [work EXCEPT ![r] = new]
    BY <1>5
  <2>2. ExecutionBps(d) \in Bps
    BY <1>3, ExecutionBpsType
  <2>3. new \in Work /\ new.at = "check" /\ new.case = work[r].case /\ new.decision = d
        /\ new.bps = ExecutionBps(d)
    BY <1>1, <2>2 DEF Work, States
  <2>4. /\ d.exact /\ Consistent(d)
        /\ CaseOf(r) \notin Objective /\ "identity_uncertain" \notin d.flags
    BY <1>5 DEF Verdict, Rejected, HardStop
  <2> HIDE DEF new
  <2>5. /\ work' \in [Workers -> Work] /\ work'[r] = new
        /\ \A v \in Workers \ {r} : work'[v] = work[v]
    BY <1>1, <2>1, <2>3
  <2>6. RowOf(r)' = RowOf(r) /\ CaseOf(r)' = CaseOf(r)
    BY <2>3, <2>5 DEF ApplyPolicy, RowOf, CaseOf
  <2>7. Mandate(r)'
    <3>1. Passed(r)'
      BY <1>3, <2>3, <2>4, <2>5, <2>6 DEF Passed
    <3> QED
      BY <1>3, <2>6, <3>1 DEF Mandate, ApplyPolicy, Signed
  <2>8. Rightful(r)'
    BY <1>1, <1>2, <1>3, <2>3, <2>5, <2>6, <2>7 DEF ApplyPolicy, Rightful, Live, Acting
  <2> QED
    BY <1>1, <1>2, <2>5, <2>8, Alone DEF ApplyPolicy, Signed
<1> QED
  BY <1>4, <1>5 DEF ApplyPolicy

\* A step of a worker that leaves its mandate as it is.
LEMMA MandateStays ==
    ASSUME NEW w \in Workers, Mandate(w), Kept(w),
           UNCHANGED <<attested, evaluations>>
    PROVE  Mandate(w)' /\ RowOf(w)' = RowOf(w)
BY DEF Mandate, Passed, Kept, RowOf, CaseOf, Signed

LEMMA ExecuteStep ==
    ASSUME IInv, NEW w \in Workers,
           (w \in Requests /\ ReadSplit(w)) \/ WorkerStep(w) \/ LoseTransaction(w) \/ Crash(w)
    PROVE  IInv'
<1>1. TypeOK /\ work \in [Workers -> Work] /\ work[w] \in Work /\ Rightful(w)
      /\ attested \in [Cases -> SUBSET Roles] /\ w \in Requests \cup Operators
      /\ tx \in [Workers -> {"none", "pending", "succeeded", "reverted"}]
  BY DEF IInv, TypeOK, Workers
<1>2. UNCHANGED <<now, attested, evaluations, chain, granted>>
  BY DEF ReadSplit, WorkerStep, SubmitTransaction, AwaitTransaction, LoseTransaction, Crash
<1>3. CASE w \in Requests /\ ReadSplit(w)
  <2>1. /\ Kept(w) /\ work'[w].decision = work[w].decision
        /\ work'[w].at \in {"done", "submit", "failed"}
        /\ work[w].at # "check" => work'[w].at # "submit"
    <3>1. CASE Finish(w, "already_authorized")
      BY <1>1, <1>3, <3>1, FinishStep
    <3>2. CASE \E state \in {"submit", "failed"} :
                 Goto(w, state) /\ (work[w].at # "check" => state # "submit")
      BY <1>1, <1>3, <3>2, GotoStep DEF States, Resting
    <3> QED
      BY <1>3, <3>1, <3>2 DEF ReadSplit
  <2>2. Mandate(w)' /\ RowOf(w)' = RowOf(w)
    BY <1>1, <1>2, <1>3, <2>1, MandateStays DEF ReadSplit, Rightful
  <2>3. Rightful(w)'
    BY <1>1, <1>2, <1>3, <2>1, <2>2, WorkersAssumption DEF ReadSplit, Rightful, Live, Acting
  <2> QED
    BY <1>1, <1>2, <1>3, <2>1, <2>3, Alone DEF ReadSplit, Kept, Signed
<1>4. CASE SubmitTransaction(w)
  <2>1. tx[w] = "none" /\ Mandate(w)
    BY <1>1, <1>4, Midway DEF SubmitTransaction, Rightful
  <2>2. /\ Kept(w) /\ work'[w].decision = work[w].decision
        /\ work'[w].at \in {"wait", "recheck", "failed"}
        /\ w \notin Requests => work'[w].at # "recheck"
    BY <1>1, <1>4, GotoStep DEF SubmitTransaction, AfterError, States, Resting
  <2>3. /\ tx' \in [Workers -> {"none", "pending", "succeeded", "reverted"}]
        /\ \A v \in Workers \ {w} : tx'[v] = tx[v]
    BY <1>1, <1>4 DEF SubmitTransaction
  <2>4. Mandate(w)' /\ RowOf(w)' = RowOf(w)
    BY <1>2, <2>1, <2>2, MandateStays
  <2>5. Rightful(w)'
    BY <1>1, <1>4, <2>2, <2>4, WorkersAssumption DEF SubmitTransaction, Rightful, Live, Acting
  <2> QED
    BY <1>1, <1>2, <2>1, <2>2, <2>3, <2>5, Alone DEF Kept, Signed
<1>5. CASE AwaitTransaction(w)
  <2>1. Kept(w) /\ work'[w].at = "done" /\ work'[w].decision = work[w].decision
    BY <1>1, <1>5, FinishStep DEF AwaitTransaction
  <2>2. Mandate(w)' /\ RowOf(w)' = RowOf(w)
    BY <1>1, <1>2, <1>5, <2>1, MandateStays DEF AwaitTransaction, Rightful
  <2>3. Rightful(w)'
    BY <1>1, <1>2, <1>5, <2>1, <2>2 DEF AwaitTransaction, Rightful, Live, Acting
  <2> QED
    BY <1>1, <1>2, <1>5, <2>1, <2>3, Alone DEF AwaitTransaction, Kept, Signed
<1>6. CASE LoseTransaction(w) \/ Crash(w)
  <2>1. /\ Kept(w) /\ work'[w].decision = work[w].decision /\ UNCHANGED tx
        /\ work'[w].at \in {"recheck", "failed"}
        /\ work'[w].at = "recheck" => work[w].at = "wait" /\ w \in Requests
    BY <1>1, <1>6, GotoStep DEF LoseTransaction, Crash, AfterError, States, Resting
  <2>2. Mandate(w) => Mandate(w)' /\ RowOf(w)' = RowOf(w)
    BY <1>2, <2>1, MandateStays
  <2>3. RowOf(w)' = RowOf(w)
    BY <1>2, <2>1 DEF Kept, RowOf, CaseOf
  <2>4. Rightful(w)'
    BY <1>1, <1>2, <2>1, <2>2, <2>3, WorkersAssumption DEF Rightful, Live, Acting
  <2> QED
    BY <1>1, <1>2, <2>1, <2>4, Alone DEF Kept, Signed
<1> QED
  BY <1>3, <1>4, <1>5, <1>6 DEF WorkerStep

LEMMA ReviewStep ==
    ASSUME IInv, NEW o \in Operators, NEW c \in Cases, NEW d \in Decisions,
           Review(o, c, d.payerBps)
    PROVE  IInv'
<1>1. o \in Workers /\ o \notin Requests /\ TypeOK /\ work \in [Workers -> Work] /\ work[o] \in Work
      /\ attested \in [Cases -> SUBSET Roles]
      /\ tx \in [Workers -> {"none", "pending", "succeeded", "reverted"}]
  BY WorkersAssumption DEF IInv, TypeOK, Workers
<1>2. tx[o] = "none"
  BY <1>1, Midway DEF Review
<1>3. evaluations[c].state = "complete" /\ Signed(c)
  BY DEF IInv, CasesSigned, Review
<1> DEFINE new == [work[o] EXCEPT !.at = "submit", !.case = c, !.bps = d.payerBps]
<1>4. work' = [work EXCEPT ![o] = new]
  BY DEF Review
<1>5. d.payerBps \in Bps
  BY DecisionsAssumption DEF Decision
<1>6. new \in Work /\ new.at = "submit" /\ new.case = c
  BY <1>1, <1>5 DEF Work, States
<1> HIDE DEF new
<1>7. /\ work' \in [Workers -> Work] /\ work'[o] = new
      /\ \A v \in Workers \ {o} : work'[v] = work[v]
  BY <1>1, <1>4, <1>6
<1>8. Mandate(o)'
  BY <1>1, <1>3, <1>6, <1>7 DEF Review, Mandate, RowOf, CaseOf, Signed
<1>9. Rightful(o)'
  BY <1>1, <1>2, <1>6, <1>7, <1>8 DEF Review, Rightful
<1> QED
  BY <1>1, <1>2, <1>7, <1>9, Alone DEF Review, Signed

LEMMA IncludeStep ==
    ASSUME IInv, NEW w \in Workers, Include(w)
    PROVE  IInv'
<1>1. TypeOK /\ work[w] \in Work /\ tx \in [Workers -> {"none", "pending", "succeeded", "reverted"}]
      /\ chain \in [Custodies -> Custody] /\ granted \in [Custodies -> Workers \cup {NoWorker}]
      /\ CustodyOf[CaseOf(w)] \in Custodies
  BY CasesAssumption DEF IInv, TypeOK, Work, CaseOf
<1>2. tx[w] = "pending" /\ \A v \in Workers \ {w} : tx'[v] = tx[v]
  BY <1>1 DEF Include
<1>3. CasesSigned'
  BY DEF IInv, Include, CasesSigned, Signed
<1>4. ASSUME NEW v \in Workers PROVE Rightful(v)'
  <2>1. Rightful(v) /\ (tx'[v] # "none" => tx[v] # "none")
    BY <1>2 DEF IInv
  <2>2. RowOf(v)' = RowOf(v) /\ CaseOf(v)' = CaseOf(v) /\ (Mandate(v) => Mandate(v)')
    BY DEF Include, RowOf, CaseOf, Mandate, Passed, Signed
  <2> QED
    BY <2>1, <2>2 DEF Include, Rightful, Live, HoldsLease, Signed
<1>5. CASE Unsettled(CustodyOn(w))
  <2> DEFINE custody == [CustodyOn(w) EXCEPT !.authorized = TRUE, !.payer = PayerAmount(work[w].bps)]
             k == CustodyOf[CaseOf(w)]
  <2>1. /\ tx' = [tx EXCEPT ![w] = "succeeded"] /\ chain' = [chain EXCEPT ![k] = custody]
        /\ granted' = [granted EXCEPT ![k] = w]
    BY <1>5 DEF Include, CustodyOn
  <2>2. PayerAmount(work[w].bps) \in Nat
    BY <1>1, PayerAmountNat DEF Work
  <2>3. custody \in Custody /\ custody.payer = PayerAmount(work[w].bps)
    BY <1>1, <2>2 DEF CustodyOn, Custody
  <2> HIDE DEF custody
  <2>4. TypeOK'
    BY <1>1, <2>1, <2>3 DEF TypeOK, Include
  <2>5. Granted'
    <3> SUFFICES ASSUME NEW j \in Custodies, chain'[j].authorized
                 PROVE  /\ granted'[j] \in Workers /\ tx'[granted'[j]] = "succeeded"
                        /\ CustodyOf[work[granted'[j]].case] = j
                        /\ chain'[j].payer = PayerAmount(work[granted'[j]].bps)
      BY DEF Granted, CaseOf, PayerAmount, Include
    <3>1. CASE j = k
      BY <1>1, <2>1, <2>3, <3>1 DEF CaseOf
    <3>2. CASE j # k
      <4>1. chain'[j] = chain[j] /\ granted'[j] = granted[j]
        BY <1>1, <2>1, <3>2
      <4>2. /\ granted[j] \in Workers /\ tx[granted[j]] = "succeeded"
            /\ CustodyOf[work[granted[j]].case] = j
            /\ chain[j].payer = PayerAmount(work[granted[j]].bps)
        BY <4>1 DEF IInv, Granted, CaseOf
      <4> QED
        BY <1>2, <4>1, <4>2
    <3> QED
      BY <3>1, <3>2
  <2> QED
    BY <1>3, <1>4, <2>4, <2>5 DEF IInv
<1>6. CASE ~Unsettled(CustodyOn(w))
  <2>1. tx' = [tx EXCEPT ![w] = "reverted"] /\ UNCHANGED <<chain, granted, work>>
    BY <1>6 DEF Include
  <2>2. TypeOK'
    BY <1>1, <2>1 DEF TypeOK, Include
  <2>3. Granted'
    BY <1>2, <2>1 DEF IInv, Granted, CaseOf, PayerAmount
  <2> QED
    BY <1>3, <1>4, <2>2, <2>3 DEF IInv
<1> QED
  BY <1>5, <1>6

\* A signature arrives, the parties settle, time passes, or nothing happens.
LEMMA OtherStep ==
    ASSUME IInv,
           \/ \E c \in Cases, role \in Roles : Attest(c, role)
           \/ \E k \in Custodies : SettleMutually(k)
           \/ Tick
           \/ UNCHANGED vars
    PROVE  IInv'
<1>1. TypeOK /\ UNCHANGED <<evaluations, tx, granted, work>>
  BY DEF IInv, Attest, SettleMutually, Tick, vars
<1>2. \A v \in Workers : CaseOf(v) \in Cases
  BY <1>1 DEF TypeOK, Work, CaseOf
<1>3. /\ attested' \in [Cases -> SUBSET Roles]
      /\ \A c \in Cases : Signed(c) => Signed(c)'
  <2>1. CASE \E c \in Cases, role \in Roles : Attest(c, role)
    BY <1>1, <2>1, AttestationStays DEF Attest
  <2>2. CASE attested' = attested
    BY <1>1, <2>2 DEF TypeOK, Signed
  <2> QED
    BY <2>1, <2>2 DEF SettleMutually, Tick, vars
<1>4. now' \in Nat /\ now' >= now
  <2>1. now' = now \/ now' = now + 1
    BY DEF Attest, SettleMutually, Tick, vars
  <2>2. now \in Nat
    BY <1>1 DEF TypeOK
  <2> QED
    BY <2>1, <2>2
<1>5. /\ chain' \in [Custodies -> Custody]
      /\ \A k \in Custodies : chain'[k].authorized = chain[k].authorized
                              /\ chain'[k].payer = chain[k].payer
  <2>1. CASE chain' = chain
    BY <1>1, <2>1 DEF TypeOK
  <2>2. ASSUME NEW k \in Custodies, SettleMutually(k)
        PROVE  /\ chain' \in [Custodies -> Custody]
               /\ \A j \in Custodies : chain'[j].authorized = chain[j].authorized
                                       /\ chain'[j].payer = chain[j].payer
    <3> DEFINE new == [chain[k] EXCEPT !.consumed = TRUE]
    <3>1. new \in Custody /\ new.authorized = chain[k].authorized /\ new.payer = chain[k].payer
      BY <1>1 DEF TypeOK, Custody
    <3>2. chain' = [chain EXCEPT ![k] = new] /\ chain \in [Custodies -> Custody]
      BY <1>1, <2>2 DEF SettleMutually, TypeOK
    <3> HIDE DEF new
    <3> QED
      BY <3>1, <3>2
  <2> QED
    BY <2>1, <2>2 DEF Attest, Tick, vars
<1>6. TypeOK'
  BY <1>1, <1>3, <1>4, <1>5 DEF TypeOK
<1>7. CasesSigned'
  BY <1>1, <1>3 DEF IInv, CasesSigned
<1>8. Granted'
  BY <1>1, <1>5 DEF IInv, Granted, CaseOf, PayerAmount
<1>9. ASSUME NEW v \in Workers PROVE Rightful(v)'
  <2>1. RowOf(v)' = RowOf(v) /\ CaseOf(v)' = CaseOf(v)
    BY <1>1 DEF RowOf, CaseOf
  <2>2. Mandate(v) => Mandate(v)'
    BY <1>1, <1>2, <1>3, <2>1 DEF Mandate, Passed
  <2>3. Live(v)' => Live(v)
    <3>1. work[v].claimed_at \in Nat /\ now \in Nat
      BY <1>1 DEF TypeOK, Work
    <3> QED
      BY <1>1, <1>4, <3>1, BoundsAssumption DEF Live
  <2>4. Signed(CaseOf(v)) => Signed(CaseOf(v))'
    BY <1>2, <1>3, <2>1
  <2> QED
    BY <1>1, <2>1, <2>2, <2>3, <2>4 DEF IInv, Rightful, HoldsLease
<1> QED
  BY <1>6, <1>7, <1>8, <1>9 DEF IInv

LEMMA NextInvariant == IInv /\ [Next]_vars => IInv'
<1> SUFFICES ASSUME IInv, [Next]_vars PROVE IInv'
  OBVIOUS
<1>1. ASSUME NEW r \in Requests, (\E c \in Cases : ReadCustody(r, c)) \/ RequestStep(r)
      PROVE  IInv'
  BY <1>1, ReadStep, ClaimStep, EvaluateStep, PolicyStep, ExecuteStep DEF RequestStep, Workers
<1>2. ASSUME NEW w \in Workers, WorkerStep(w) \/ ChainStep(w) \/ Crash(w)
      PROVE  IInv'
  BY <1>2, ExecuteStep, IncludeStep DEF ChainStep
<1> QED
  BY <1>1, <1>2, ReviewStep, OtherStep DEF Next

\* The desk keeps its invariant, in every state, for every value of its constants.
THEOREM Invariance == Spec => []IInv
<1> QED
  BY InitInvariant, NextInvariant, PTL DEF Spec

-----------------------------------------------------------------------------
(* What follows.                                                             *)

\* All callers converge on one decision: whoever reaches the policy holds what
\* the row holds (completeDisputeEvaluation, claimDisputeEvaluation).
THEOREM Converge == Spec => []ActsOnPersisted
<1>1. IInv => ActsOnPersisted
  BY DEF IInv, Rightful, ActsOnPersisted, Acting, Workers
<1> QED
  BY <1>1, Invariance, PTL

\* A row is written by its holder only.
LEMMA OnlyTheHolderWrites ==
    ASSUME IInv, [Next]_vars, NEW c \in Cases, evaluations[c].state = "complete"
    PROVE  evaluations'[c] = evaluations[c]
<1>1. evaluations \in [Cases -> Row]
  BY DEF IInv, TypeOK
<1>2. ASSUME NEW r \in Requests, RequestStep(r) PROVE evaluations'[c] = evaluations[c]
  <2>1. CASE evaluations' = evaluations
    BY <2>1
  <2>2. CASE TakeLease(r) /\ RowOf(r).state # "complete"
    BY <1>1, <2>2 DEF TakeLease, RowOf
  <2>3. CASE HoldsLease(r) /\ CompleteEvaluation(r)
    BY <1>1, <2>3 DEF HoldsLease, RowOf, CompleteEvaluation
  <2>4. CASE HoldsLease(r) /\ ReleaseEvaluation(r)
    BY <1>1, <2>4 DEF HoldsLease, RowOf, ReleaseEvaluation
  <2> QED
    BY <1>2, <2>1, <2>2, <2>3, <2>4
       DEF RequestStep, ReadAttestations, BodyAttestations, ReadValue, InsertEvaluation,
           ReadEvaluation, ReclaimEvaluation, LeaseExpired, Evaluate, CompleteEvaluation,
           ReleaseEvaluation, ApplyPolicy, ReadSplit
<1> QED
  BY <1>2 DEF Next, Attest, ReadCustody, Review, WorkerStep, SubmitTransaction, AwaitTransaction,
              ChainStep, Include, LoseTransaction, Crash, SettleMutually, Tick, vars

\* No rerolling: a late answer, a lost answer of the database, a clean-up or a
\* second evaluation never replaces the first persisted decision.
THEOREM NoReroll == Spec => FirstDecisionStands
<1>1. IInv /\ [Next]_vars => [\A c \in Cases : evaluations[c].state = "complete"
                                  => evaluations'[c] = evaluations[c]]_vars
  BY OnlyTheHolderWrites
<1> QED
  BY <1>1, Invariance, PTL DEF Spec, FirstDecisionStands

\* Three different grounds.
LEMMA ThreeGrounds ==
    ASSUME NEW S \in SUBSET Grounds, NEW x, NEW y, NEW z, {x, y, z} \subseteq S,
           x # y, y # z, x # z
    PROVE  Cardinality(S) >= 3
<1>1. IsFiniteSet(Grounds)
  <2>1. IsFiniteSet({"term"} \cup {"payer_statement"} \cup {"payer_document"}
                    \cup {"payee_statement"} \cup {"payee_document"} \cup {"invented"})
    BY FS_Singleton, FS_Union
  <2> QED
    BY <2>1 DEF Grounds
<1>2. IsFiniteSet(S)
  BY <1>1, FS_Subset
<1>3. IsFiniteSet({x}) /\ Cardinality({x}) = 1
  BY FS_Singleton
<1>4. IsFiniteSet({x} \cup {y}) /\ Cardinality({x} \cup {y}) = 2
  BY <1>3, FS_AddElement
<1>5. IsFiniteSet({x} \cup {y} \cup {z}) /\ Cardinality({x} \cup {y} \cup {z}) = 3
  BY <1>4, FS_AddElement
<1>6. Cardinality({x} \cup {y} \cup {z}) <= Cardinality(S)
  BY <1>2, FS_Subset
<1> QED
  BY <1>2, <1>5, <1>6, FS_CardinalityType

\* An award that is executed as the agent gave it has grounds.
LEMMA AwardIsGrounded ==
    ASSUME NEW d \in Decisions, ExecutionBps(d) # 5000
    PROVE  /\ ExecutionBps(d) = d.payerBps /\ d.confident /\ "evidence_conflict" \notin d.flags
           /\ "term" \in d.support /\ Cardinality(d.support) >= 3
<1>1. ExecutionBps(d) = d.payerBps /\ ~Fallback(d)
  BY DEF ExecutionBps
<1>2. Grounded(d) /\ d.payerBps # 5000 /\ d.confident /\ "evidence_conflict" \notin d.flags
  BY <1>1 DEF Fallback
<1>3. d.support \in SUBSET Grounds
  BY DecisionsAssumption DEF Decision
<1>4. "term" \in d.support
  BY <1>2 DEF Grounded
<1>5. PICK x \in {"payer_statement", "payer_document"} : x \in d.support
  BY <1>2 DEF Grounded
<1>6. PICK y \in {"payee_statement", "payee_document"} : y \in d.support
  BY <1>2 DEF Grounded
<1>7. "term" # x /\ "term" # y /\ x # y
  OBVIOUS
<1>8. {"term", x, y} \subseteq d.support
  BY <1>4, <1>5, <1>6
<1>9. Cardinality(d.support) >= 3
  BY <1>3, <1>7, <1>8, ThreeGrounds
<1> QED
  BY <1>1, <1>2, <1>4, <1>9

\* Whatever the model answers, a split on the chain that came through the desk
\* belongs to a case of that custody which both parties signed for, and one that
\* favours a party rests on a term and on evidence of both (policy.ts).
THEOREM Consent == Spec => []ResolvedWithConsent
<1>1. ASSUME IInv, NEW k \in Custodies, chain[k].authorized
      PROVE  LET w == granted[k]
                 c == CaseOf(w)
                 d == evaluations[c].decision
             IN /\ w \in Workers
                /\ CustodyOf[c] = k
                /\ attested[c] = Roles
                /\ evaluations[c].state = "complete"
                /\ chain[k].payer = PayerAmount(work[w].bps)
                /\ w \in Requests =>
                     /\ d.exact /\ Consistent(d)
                     /\ "identity_uncertain" \notin d.flags /\ c \notin Objective
                     /\ work[w].bps # 5000 =>
                          /\ work[w].bps = d.payerBps
                          /\ d.confident /\ "evidence_conflict" \notin d.flags
                          /\ "term" \in d.support /\ Cardinality(d.support) >= 3
  <2> DEFINE w == granted[k]
             c == CaseOf(w)
             d == evaluations[c].decision
  <2>1. /\ w \in Workers /\ tx[w] = "succeeded" /\ CustodyOf[c] = k
        /\ chain[k].payer = PayerAmount(work[w].bps)
    BY <1>1 DEF IInv, Granted
  <2>2. Mandate(w) /\ c \in Cases
    BY <1>1, <2>1 DEF IInv, Rightful, TypeOK, Work, CaseOf
  <2>3. evaluations[c].state = "complete" /\ attested[c] = Roles /\ d \in Decisions
    BY <1>1, <2>2 DEF IInv, CasesSigned, Mandate, Signed, RowOf
  <2>4. ASSUME w \in Requests
        PROVE  /\ d.exact /\ Consistent(d)
               /\ "identity_uncertain" \notin d.flags /\ c \notin Objective
               /\ work[w].bps = ExecutionBps(d)
    BY <2>2, <2>4 DEF Mandate, Passed, RowOf
  <2> HIDE DEF d, c, w
  <2>5. w \in Requests /\ work[w].bps # 5000 =>
          /\ work[w].bps = d.payerBps
          /\ d.confident /\ "evidence_conflict" \notin d.flags
          /\ "term" \in d.support /\ Cardinality(d.support) >= 3
    BY <2>3, <2>4, AwardIsGrounded
  <2> USE DEF d, c, w
  <2> QED
    BY <2>1, <2>3, <2>4, <2>5
<1>2. IInv => ResolvedWithConsent
  BY <1>1 DEF ResolvedWithConsent
<1> QED
  BY <1>2, Invariance, PTL

\* While its lease runs, a request that evaluates owns the row, so no two
\* evaluations of a case run under live leases.
THEOREM OneHolder == Spec => []LeaseExclusive
<1>1. IInv => LeaseExclusive
  BY DEF IInv, Rightful, LeaseExclusive, Live, Workers
<1> QED
  BY <1>1, Invariance, PTL

=============================================================================
