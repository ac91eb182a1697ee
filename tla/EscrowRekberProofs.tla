------------------------- MODULE EscrowRekberProofs -------------------------
(* Theorems about the custody contract, and about the public rail that uses  *)
(* it, for every value of the constants.                                     *)
EXTENDS PublicRail, TLAPS

USE DEF Payer, Payee, Roles, Revenue, Recipients

\* An unwritten slot is a record.
LEMMA UnfundedTyped == Unfunded \in Custody
  BY TokensAssumption, EvidenceAssumption DEF Unfunded, Custody, Policies,
     POLICY_SUBMISSION_REVIEW, POLICY_COUNTERPARTY_CONFIRM, POLICY_EXTERNAL_VERIFY

\* An unwritten slot is neither disputed nor resolved.
LEMMA UnfundedFlags == ~Unfunded.disputed /\ ~Unfunded.resolution_authorized
  BY DEF Unfunded

\* A step that stores a coherent record in which nothing more is let go, and
\* touches neither the tokens nor the notes, keeps the invariant.
LEMMA StoreStep ==
    ASSUME IInv, NEW c \in custody_exists, NEW r \in Custody, Store(c, r),
           r.token = custodies[c].token, r.fee_amount = custodies[c].fee_amount,
           Coherent(r), ~r.consumed,
           \A role \in Roles : DueOf(r, role) = Due(c, role)
    PROVE  IInv'
<1> USE DEF Store
<1>1. c \in Custodies
  BY DEF IInv, TypeOK
<1>2. custodies' = [custodies EXCEPT ![c] = r] /\ custodies \in [Custodies -> Custody]
  BY DEF IInv, TypeOK
<1>3. \A d \in Custodies : custodies'[d].token = custodies[d].token
  BY <1>1, <1>2
<1>4. \A d \in Custodies, role \in Roles : Due(d, role)' = Due(d, role)
  BY <1>1, <1>2 DEF Due, DueOf
<1>5. \A d \in Custodies, to \in Recipients : Uncollected(d, to)' = Uncollected(d, to)
  BY <1>3 DEF Uncollected
<1>6. TypeOK'
  BY <1>1, <1>2 DEF IInv, TypeOK
<1>7. Lifecycle'
  <2> SUFFICES ASSUME NEW d \in custody_exists' PROVE Coherent(custodies[d])'
    BY DEF Lifecycle
  <2>1. CASE d = c
    BY <1>1, <1>2, <2>1 DEF Coherent
  <2>2. CASE d # c
    <3>1. Coherent(custodies[d]) /\ custodies'[d] = custodies[d] /\ now' = now
      BY <1>2, <2>2 DEF IInv, Lifecycle, TypeOK
    <3> QED
      BY <3>1 DEF Coherent
  <2> QED
    BY <2>1, <2>2
<1>8. Solvent'
  BY DEF IInv, Solvent
<1>9. NotesBelong'
  BY <1>3 DEF IInv, NotesBelong, TypeOK
<1>10. PaidOnce'
  BY <1>5 DEF IInv, PaidOnce
<1>11. PaidAsDecided'
  <2> SUFFICES ASSUME NEW d \in custody_exists
               PROVE  /\ \A role \in Roles : (paid[d][role] + Uncollected(d, role) = Due(d, role))'
                      /\ (paid[d][Revenue] + Uncollected(d, Revenue) = custodies[d].fee_amount)'
    BY DEF PaidAsDecided
  <2>1. d \in Custodies
    BY DEF IInv, TypeOK
  <2>2. custodies'[d].fee_amount = custodies[d].fee_amount
    BY <1>1, <1>2, <2>1
  <2> QED
    BY <1>4, <1>5, <2>1, <2>2 DEF IInv, PaidAsDecided
<1>12. SettledByRight'
  <2> SUFFICES ASSUME NEW d \in custody_exists PROVE Rightful(custodies[d], consents[d])'
    BY DEF SettledByRight
  <2>1. CASE d = c
    BY <1>1, <1>2, <2>1 DEF Rightful
  <2>2. CASE d # c
    <3>1. Rightful(custodies[d], consents[d]) /\ custodies'[d] = custodies[d]
      BY <1>2, <2>2 DEF IInv, SettledByRight, TypeOK
    <3> QED
      BY <3>1 DEF Rightful
  <2> QED
    BY <2>1, <2>2
<1>13. Unwritten'
  BY <1>1, <1>2 DEF IInv, Unwritten
<1> QED
  BY <1>6, <1>7, <1>8, <1>9, <1>10, <1>11, <1>12, <1>13 DEF IInv

\* A step that lets an amount go to one party, through a note on an idle
\* allowance, keeps the invariant.
LEMMA PayoutStep ==
    ASSUME IInv, NEW c \in custody_exists, NEW s \in Custody,
           NEW to \in Roles, NEW amount \in Nat, NEW signers \in SUBSET Roles,
           PrepareOutput(c, to, amount),
           custodies' = [custodies EXCEPT ![c] = s],
           consents' = [consents EXCEPT ![c] = signers],
           UNCHANGED <<now, custody_exists, balance, paid>>,
           s.token = custodies[c].token, s.fee_amount = custodies[c].fee_amount,
           Coherent(s), Rightful(s, signers),
           Due(c, to) = 0, DueOf(s, to) = amount,
           \A role \in Roles \ {to} : DueOf(s, role) = Due(c, role)
    PROVE  IInv'
<1> DEFINE t == custodies[c].token
<1>1. c \in Custodies /\ t \in Tokens /\ custodies \in [Custodies -> Custody]
  BY DEF IInv, TypeOK, Custody
<1>2. /\ open_note[t].amount = 0 /\ amount > 0
      /\ open_note' = [open_note EXCEPT
                         ![t] = [custody |-> c, to |-> to, amount |-> amount]]
      /\ reserved_by_token[t] >= amount
      /\ reserved_by_token' = [reserved_by_token EXCEPT ![t] = @ - amount]
  BY DEF PrepareOutput, ApproveExact, NoStaleAllowance, Backed
<1>3. \A d \in Custodies : custodies'[d].token = custodies[d].token
                            /\ custodies'[d].fee_amount = custodies[d].fee_amount
  BY <1>1
<1>4. \A d \in Custodies, x \in Recipients :
         Uncollected(d, x)' = IF d = c /\ x = to THEN amount ELSE Uncollected(d, x)
  BY <1>1, <1>2, <1>3 DEF Uncollected, IInv, TypeOK, OpenNote
<1>5. \A x \in Recipients : Uncollected(c, x) = 0
  BY <1>2 DEF Uncollected
<1>6. \A d \in Custodies, role \in Roles :
         Due(d, role)' = IF d = c /\ role = to THEN amount ELSE Due(d, role)
  BY <1>1 DEF Due, DueOf
<1>7. paid[c][to] = 0
  <2>1. paid[c][to] + Uncollected(c, to) = 0 /\ paid[c][to] \in Nat
    BY <1>1 DEF IInv, PaidAsDecided, TypeOK
  <2> QED
    BY <1>5, <2>1
<1>8. TypeOK'
  <2>1. reserved_by_token' \in [Tokens -> Nat]
    BY <1>1, <1>2 DEF IInv, TypeOK
  <2>2. open_note' \in [Tokens -> OpenNote]
    BY <1>1, <1>2 DEF IInv, TypeOK, OpenNote
  <2> QED
    BY <1>1, <2>1, <2>2 DEF IInv, TypeOK
<1>9. Lifecycle'
  <2> SUFFICES ASSUME NEW d \in custody_exists PROVE Coherent(custodies[d])'
    BY DEF Lifecycle
  <2>1. CASE d = c
    BY <1>1, <2>1 DEF Coherent
  <2>2. CASE d # c
    <3>1. Coherent(custodies[d]) /\ custodies'[d] = custodies[d] /\ now' = now
      BY <2>2 DEF IInv, Lifecycle, TypeOK
    <3> QED
      BY <3>1 DEF Coherent
  <2> QED
    BY <2>1, <2>2
<1>10. Solvent'
  BY <1>1, <1>2 DEF IInv, Solvent, TypeOK, OpenNote
<1>11. NotesBelong'
  <2> SUFFICES ASSUME NEW u \in Tokens
               PROVE  (IF open_note[u].amount = 0
                         THEN open_note[u] = NoNote
                         ELSE /\ open_note[u].custody \in custody_exists
                              /\ custodies[open_note[u].custody].token = u)'
    BY DEF NotesBelong
  <2>1. CASE u = t
    BY <1>1, <1>2, <1>3, <2>1 DEF IInv, TypeOK
  <2>2. CASE u # t
    BY <1>1, <1>2, <1>3, <2>2 DEF IInv, NotesBelong, TypeOK, NoNote
  <2> QED
    BY <2>1, <2>2
<1>12. PaidOnce'
  BY <1>4, <1>7 DEF IInv, PaidOnce
<1>13. PaidAsDecided'
  <2> SUFFICES ASSUME NEW d \in custody_exists
               PROVE  /\ \A role \in Roles : (paid[d][role] + Uncollected(d, role) = Due(d, role))'
                      /\ (paid[d][Revenue] + Uncollected(d, Revenue) = custodies[d].fee_amount)'
    BY DEF PaidAsDecided
  <2>1. d \in Custodies
    BY DEF IInv, TypeOK
  <2> QED
    BY <1>3, <1>4, <1>6, <1>7, <2>1 DEF IInv, PaidAsDecided
<1>14. SettledByRight'
  <2> SUFFICES ASSUME NEW d \in custody_exists PROVE Rightful(custodies[d], consents[d])'
    BY DEF SettledByRight
  <2>1. CASE d = c
    <3>1. custodies'[d] = s /\ consents'[d] = signers
      BY <1>1, <2>1 DEF IInv, TypeOK
    <3> QED
      BY <3>1 DEF Rightful
  <2>2. CASE d # c
    <3>1. Rightful(custodies[d], consents[d]) /\ custodies'[d] = custodies[d]
          /\ consents'[d] = consents[d]
      BY <2>2 DEF IInv, SettledByRight, TypeOK
    <3> QED
      BY <3>1 DEF Rightful
  <2> QED
    BY <2>1, <2>2
<1>15. Unwritten'
  BY <1>1 DEF IInv, Unwritten
<1> QED
  BY <1>8, <1>9, <1>10, <1>11, <1>12, <1>13, <1>14, <1>15 DEF IInv

-----------------------------------------------------------------------------
(* The initial state and the environment's steps.                            *)

\* The empty contract satisfies the invariant.
LEMMA InitIInv == Init => IInv
<1> SUFFICES ASSUME Init PROVE IInv
  OBVIOUS
<1>1. Unfunded \in Custody
  BY UnfundedTyped
<1>2. NoNote \in OpenNote /\ NoNote.amount = 0 /\ NoNote.custody = NoCustody
  BY DEF NoNote, OpenNote
<1>3. TypeOK
  <2> HIDE DEF Roles, Recipients
  <2> QED
    BY <1>1, <1>2 DEF Init, TypeOK
<1>4. Lifecycle /\ PaidAsDecided /\ SettledByRight
  BY DEF Init, Lifecycle, PaidAsDecided, SettledByRight
<1>5. Solvent /\ NotesBelong
  BY <1>2 DEF Init, Solvent, NotesBelong
<1>6. PaidOnce
  BY DEF Init, PaidOnce
<1>7. Unwritten
  BY DEF Init, Unwritten
<1> QED
  BY <1>3, <1>4, <1>5, <1>6, <1>7 DEF IInv

\* The passing of time keeps it: deadlines are compared with settled times only.
LEMMA TickStep == IInv /\ Tick => IInv'
<1> SUFFICES ASSUME IInv, Tick PROVE IInv'
  OBVIOUS
<1> USE DEF Tick
<1>1. TypeOK'
  BY DEF IInv, TypeOK
<1>2. Lifecycle'
  <2> SUFFICES ASSUME NEW c \in custody_exists PROVE Coherent(custodies[c])'
    BY DEF Lifecycle
  <2>1. Coherent(custodies[c]) /\ custodies[c] \in Custody /\ now \in Nat
    BY DEF IInv, Lifecycle, TypeOK
  <2>2. custodies[c].fulfilled_at <= now'
    BY <2>1 DEF Coherent, Custody
  <2> QED
    BY <2>1, <2>2 DEF Coherent
<1>3. Solvent' /\ NotesBelong'
  BY DEF IInv, Solvent, NotesBelong
<1>4. PaidOnce' /\ PaidAsDecided'
  BY DEF IInv, PaidOnce, PaidAsDecided, Uncollected, Due, DueOf
<1>5. SettledByRight'
  BY DEF IInv, SettledByRight, Rightful
<1>6. Unwritten'
  BY DEF IInv, Unwritten
<1> QED
  BY <1>1, <1>2, <1>3, <1>4, <1>5, <1>6 DEF IInv

\* The pool moves one note from collectable to delivered.
LEMMA CollectStep ==
    ASSUME IInv, NEW t \in Tokens, PoolCollect(t)
    PROVE  IInv'
<1> DEFINE n == open_note[t]
<1>1. /\ n \in OpenNote /\ n.amount > 0 /\ n.amount \in Nat
      /\ n.custody \in custody_exists /\ n.custody \in Custodies
      /\ custodies[n.custody].token = t
      /\ n.to \in Recipients
  BY DEF PoolCollect, IInv, TypeOK, NotesBelong, OpenNote
<1>2. /\ balance[t] >= n.amount
      /\ balance' = [balance EXCEPT ![t] = @ - n.amount]
      /\ open_note' = [open_note EXCEPT ![t] = NoNote]
      /\ paid' = [paid EXCEPT ![n.custody][n.to] = @ + n.amount]
      /\ UNCHANGED <<now, custody_exists, custodies, reserved_by_token, consents>>
  BY DEF PoolCollect
<1> HIDE DEF n
<1>3. NoNote \in OpenNote /\ NoNote.amount = 0
  BY DEF NoNote, OpenNote
<1> DEFINE row == [paid[n.custody] EXCEPT ![n.to] = @ + n.amount]
<1>r. /\ row \in [Recipients -> Nat]
      /\ \A to \in Recipients : row[to] = IF to = n.to
                                           THEN paid[n.custody][to] + n.amount
                                           ELSE paid[n.custody][to]
  <2>1. paid[n.custody] \in [Recipients -> Nat]
    BY <1>1 DEF IInv, TypeOK
  <2> QED
    BY <1>1, <2>1
<1>p. paid \in [Custodies -> [Recipients -> Nat]] /\ paid' = [paid EXCEPT ![n.custody] = row]
  <2>1. paid \in [Custodies -> [Recipients -> Nat]]
    BY DEF IInv, TypeOK
  <2>2. paid' = [paid EXCEPT ![n.custody] = row]
    BY <1>2
  <2> QED
    BY <2>1, <2>2
<1> HIDE DEF row
<1>4. TypeOK'
  <2>1. balance' \in [Tokens -> Nat]
    BY <1>1, <1>2 DEF IInv, TypeOK
  <2>2. open_note' \in [Tokens -> OpenNote]
    BY <1>2, <1>3 DEF IInv, TypeOK
  <2>3. paid' \in [Custodies -> [Recipients -> Nat]]
    BY <1>1, <1>r, <1>p
  <2> QED
    BY <1>2, <2>1, <2>2, <2>3 DEF IInv, TypeOK
<1>5. Lifecycle'
  BY <1>2 DEF IInv, Lifecycle, Coherent
<1>6. Solvent'
  BY <1>1, <1>2, <1>3 DEF IInv, Solvent, TypeOK, n, OpenNote
<1>7. NotesBelong'
  BY <1>2, <1>3 DEF IInv, NotesBelong, TypeOK
<1>8. \A c \in Custodies, to \in Recipients :
         paid'[c][to] = IF c = n.custody /\ to = n.to
                          THEN paid[c][to] + n.amount ELSE paid[c][to]
  BY <1>1, <1>r, <1>p
<1>9. \A c \in Custodies, to \in Recipients :
         Uncollected(c, to)' = IF c = n.custody /\ to = n.to
                                 THEN 0 ELSE Uncollected(c, to)
  BY <1>1, <1>2, <1>3 DEF Uncollected, n, IInv, TypeOK, OpenNote, Custody
<1>10. Uncollected(n.custody, n.to) = n.amount
  BY <1>1 DEF Uncollected, n
<1>11. \A c \in Custodies, to \in Recipients :
          paid[c][to] \in Nat /\ Uncollected(c, to) \in Nat
  <2>1. \A c \in Custodies : open_note[custodies[c].token] \in OpenNote
    BY DEF IInv, TypeOK, Custody
  <2> QED
    BY <2>1 DEF IInv, TypeOK, Uncollected, OpenNote
<1>12. PaidOnce'
  BY <1>1, <1>2, <1>8, <1>9 DEF IInv, PaidOnce
<1>13. PaidAsDecided'
  <2>1. \A c \in Custodies, to \in Recipients :
           paid'[c][to] + Uncollected(c, to)' = paid[c][to] + Uncollected(c, to)
    BY <1>1, <1>8, <1>9, <1>10, <1>11
  <2>2. \A c \in Custodies, role \in Roles : Due(c, role)' = Due(c, role)
    BY <1>2 DEF Due, DueOf
  <2>3. custody_exists \subseteq Custodies
    BY DEF IInv, TypeOK
  <2> QED
    BY <1>2, <2>1, <2>2, <2>3 DEF IInv, PaidAsDecided
<1>14. SettledByRight'
  BY <1>2 DEF IInv, SettledByRight, Rightful
<1>15. Unwritten'
  BY <1>2 DEF IInv, Unwritten
<1> QED
  BY <1>4, <1>5, <1>6, <1>7, <1>12, <1>13, <1>14, <1>15 DEF IInv

-----------------------------------------------------------------------------
(* DEPOSIT.                                                                  *)

\* A valid plan gives a coherent record from which nothing was let go.
LEMMA FundedCoherent ==
    ASSUME IInv, NEW plan \in Plans, ValidPlan(plan), plan.amount <= MAX_U128
    PROVE  /\ Funded(plan) \in Custody
           /\ Funded(plan).token = plan.token
           /\ Funded(plan).fee_amount = plan.quoted_fee
           /\ ~Funded(plan).consumed
           /\ Coherent(Funded(plan))
           /\ \A role \in Roles : DueOf(Funded(plan), role) = 0
<1>1. plan \in Plan /\ now \in Nat
  BY PlansAssumption DEF IInv, TypeOK
<1>3. Unfunded \in Custody
  BY UnfundedTyped
<1>4. plan.fulfillment_rounds + 1 \in Nat /\ plan.revision_rounds + 1 \in Nat
      /\ now + plan.fulfillment_window \in Nat
  BY <1>1 DEF Plan
<1>5. Funded(plan) \in Custody
  BY <1>1, <1>3, <1>4 DEF Funded, ValidPlan, Custody, Plan
<1>6. Coherent(Funded(plan))
  BY <1>1, LimitsAssumption
     DEF Funded, ValidPlan, RoundsFit, Coherent, Unfunded, Plan
<1> QED
  BY <1>5, <1>6 DEF Funded, Unfunded, DueOf

\* A deposit enters the reserve, and its fee the idle allowance.
LEMMA DepositKeeps ==
    ASSUME IInv, NEW c \in Custodies, NEW plan \in Plans, NEW sent \in Transfers,
           Deposit(c, plan, sent)
    PROVE  IInv'
<1> DEFINE t == plan.token
           fee == plan.quoted_fee
           s == Funded(plan)
           reserved == reserved_by_token[t] + plan.amount
<1>1. /\ t \in Tokens /\ fee \in Nat /\ fee > 0 /\ sent \in Nat
      /\ plan.amount \in Nat
      /\ reserved_by_token[t] \in Nat /\ balance[t] \in Nat
  BY PlansAssumption, TransfersAssumption DEF Plan, Deposit, ValidPlan, IInv, TypeOK
<1>2. /\ s \in Custody /\ s.token = t /\ s.fee_amount = fee
      /\ Coherent(s) /\ ~s.consumed
      /\ \A role \in Roles : DueOf(s, role) = 0
  <2>1. ValidPlan(plan) /\ plan.amount <= MAX_U128
    BY <1>1, LimitsAssumption DEF Deposit
  <2> QED
    BY <2>1, FundedCoherent
<1>3. /\ c \notin custody_exists /\ custody_exists' = custody_exists \cup {c}
      /\ custodies' = [custodies EXCEPT ![c] = s]
      /\ reserved_by_token' = [reserved_by_token EXCEPT ![t] = reserved]
      /\ balance' = [balance EXCEPT ![t] = @ + sent]
      /\ balance[t] + sent >= reserved + fee
      /\ open_note[t].amount = 0
      /\ open_note' = [open_note EXCEPT
                         ![t] = [custody |-> c, to |-> Revenue, amount |-> fee]]
      /\ UNCHANGED <<now, paid, consents>>
  BY DEF Deposit, FreshCustody, FundsReceived, ApproveExact, NoStaleAllowance
<1> HIDE DEF s, t, fee, reserved
<1>4. custodies \in [Custodies -> Custody] /\ custody_exists \subseteq Custodies
  BY DEF IInv, TypeOK
<1>5. reserved \in Nat
  BY <1>1 DEF reserved
<1>6. TypeOK'
  <2>1. open_note' \in [Tokens -> OpenNote]
    BY <1>1, <1>3 DEF IInv, TypeOK, OpenNote
  <2> QED
    BY <1>1, <1>2, <1>3, <1>4, <1>5, <2>1 DEF IInv, TypeOK
<1>7. Lifecycle'
  <2> SUFFICES ASSUME NEW d \in custody_exists \cup {c} PROVE Coherent(custodies[d])'
    BY <1>3 DEF Lifecycle
  <2>1. CASE d = c
    BY <1>2, <1>3, <1>4, <2>1 DEF Coherent
  <2>2. CASE d # c
    <3>1. Coherent(custodies[d]) /\ custodies'[d] = custodies[d] /\ now' = now
      BY <1>3, <1>4, <2>2 DEF IInv, Lifecycle
    <3> QED
      BY <3>1 DEF Coherent
  <2> QED
    BY <2>1, <2>2
<1>8. Solvent'
  BY <1>1, <1>3, <1>5 DEF IInv, Solvent, TypeOK
<1>9. \A d \in custody_exists : custodies'[d] = custodies[d]
  BY <1>3, <1>4
<1>10. NotesBelong'
  BY <1>1, <1>2, <1>3, <1>4, <1>9 DEF IInv, NotesBelong, TypeOK, NoNote
<1>11. \A d \in custody_exists, x \in Recipients :
          Uncollected(d, x)' = Uncollected(d, x)
  BY <1>1, <1>3, <1>4, <1>9 DEF Uncollected, IInv, TypeOK, OpenNote
<1>12. \A x \in Recipients :
          Uncollected(c, x)' = IF x = Revenue THEN fee ELSE 0
  BY <1>1, <1>2, <1>3, <1>4 DEF Uncollected, IInv, TypeOK
<1>13. \A x \in Recipients : paid[c][x] = 0
  BY <1>3 DEF IInv, PaidOnce
<1>14. PaidOnce'
  <2> SUFFICES ASSUME NEW d \in Custodies, NEW x \in Recipients
               PROVE  (/\ d \notin custody_exists => paid[d][x] = 0
                       /\ paid[d][x] = 0 \/ Uncollected(d, x) = 0)'
    BY DEF PaidOnce
  <2> QED
    BY <1>3, <1>11, <1>13 DEF IInv, PaidOnce
<1>15. PaidAsDecided'
  <2> SUFFICES ASSUME NEW d \in custody_exists \cup {c}
               PROVE  /\ \A role \in Roles : (paid[d][role] + Uncollected(d, role) = Due(d, role))'
                      /\ (paid[d][Revenue] + Uncollected(d, Revenue) = custodies[d].fee_amount)'
    BY <1>3 DEF PaidAsDecided
  <2>1. CASE d = c
    BY <1>1, <1>2, <1>3, <1>4, <1>12, <1>13, <2>1 DEF Due, DueOf
  <2>2. CASE d # c
    BY <1>3, <1>9, <1>11, <2>2 DEF IInv, PaidAsDecided, Due, DueOf
  <2> QED
    BY <2>1, <2>2
<1>16. SettledByRight'
  <2> SUFFICES ASSUME NEW d \in custody_exists \cup {c} PROVE Rightful(custodies[d], consents[d])'
    BY <1>3 DEF SettledByRight
  <2>1. CASE d = c
    BY <1>2, <1>3, <1>4, <2>1 DEF Rightful
  <2>2. CASE d # c
    BY <1>3, <1>9, <2>2 DEF IInv, SettledByRight, Rightful
  <2> QED
    BY <2>1, <2>2
<1>17. Unwritten'
  BY <1>3, <1>4 DEF IInv, Unwritten
<1> QED
  BY <1>6, <1>7, <1>8, <1>10, <1>14, <1>15, <1>16, <1>17 DEF IInv

-----------------------------------------------------------------------------
(* The calls that only rewrite the record of an open custody.                *)

\* What the invariant says of a custody a call finds open.
LEMMA OpenFacts ==
    ASSUME IInv, NEW c \in Custodies, Open(c)
    PROVE  /\ c \in custody_exists /\ now \in Nat
           /\ custodies[c] \in Custody
           /\ Coherent(custodies[c])
           /\ ~custodies[c].consumed
  BY DEF IInv, TypeOK, Lifecycle, Open

\* Two records that agree on identity, money and outcome.
SameMoney(r, s) ==
    /\ s.token = r.token /\ s.amount = r.amount /\ s.fee_amount = r.fee_amount
    /\ s.consumed = r.consumed /\ s.refunded = r.refunded
    /\ s.resolution_authorized = r.resolution_authorized
    /\ s.resolution_amount = r.resolution_amount
    /\ s.resolution_claimed = r.resolution_claimed

\* Storing a coherent record with the same money keeps the invariant.
LEMMA SameMoneyStep ==
    ASSUME IInv, NEW c \in Custodies, Open(c), NEW s \in Custody, Store(c, s),
           SameMoney(custodies[c], s), Coherent(s)
    PROVE  IInv'
<1>1. c \in custody_exists /\ ~custodies[c].consumed
  BY OpenFacts
<1>2. ~s.consumed /\ s.token = custodies[c].token /\ s.fee_amount = custodies[c].fee_amount
  BY <1>1 DEF SameMoney
<1>3. \A role \in Roles : DueOf(s, role) = Due(c, role)
  BY DEF SameMoney, Due, DueOf
<1> QED
  BY <1>1, <1>2, <1>3, StoreStep

\* Opening the review of a coherent, submitted record leaves it coherent.
LEMMA ReviewStarted ==
    ASSUME now \in Nat, NEW r \in Custody, Coherent(r),
           r.fulfillment_submitted, ~r.revision_pending
    PROVE  /\ StartReview(r) \in Custody
           /\ Coherent(StartReview(r))
           /\ SameMoney(r, StartReview(r))
<1>1. now + r.review_window \in Nat
  BY DEF Custody
<1>2. StartReview(r) \in Custody
  BY <1>1 DEF StartReview, Custody
<1>3. Coherent(StartReview(r))
  <2>1. now + r.review_window >= r.fulfilled_at + r.review_window
    BY DEF Coherent, Custody
  <2> QED
    BY <2>1 DEF StartReview, Coherent, Custody
<1> QED
  BY <1>2, <1>3 DEF StartReview, SameMoney, Custody

\* A submission spends one round and answers a pending revision.
LEMMA SubmitKeeps ==
    ASSUME IInv, NEW c \in Custodies, NEW secret \in Nat, NEW e \in Evidence,
           SubmitFulfillment(c, secret, e)
    PROVE  IInv'
<1> DEFINE r == custodies[c]
           m == Submitted(r, secret, e)
           u == [m EXCEPT !.fulfillment_confirmed = FALSE, !.review_deadline = 0]
<1>1. /\ Open(c) /\ ~r.disputed /\ r.fulfillment_rounds_remaining > 0
      /\ r.revision_pending \/ ~r.fulfillment_submitted
      /\ secret + 1 = r.fulfillment_chain_head
      /\ Store(c, IF r.verification_policy = POLICY_SUBMISSION_REVIEW
                    THEN StartReview(m) ELSE u)
  BY DEF SubmitFulfillment, CanSubmit, SubmitInTime, ChainStep
<1>2. now \in Nat /\ r \in Custody /\ Coherent(r)
  BY <1>1, OpenFacts
<1>3. r.fulfillment_rounds_remaining - 1 \in Nat
  BY <1>1, <1>2 DEF Custody
<1>4. m \in Custody /\ m.fulfillment_submitted /\ ~m.revision_pending
  BY <1>2, <1>3 DEF Submitted, Custody
<1>5. SameMoney(r, m)
  BY <1>2 DEF Submitted, SameMoney, Custody
<1>6. Coherent(m)
  <2>1. /\ m.review_window = r.review_window /\ m.fulfilled_at = now
        /\ m.fulfillment_confirmed = r.fulfillment_confirmed
        /\ m.disputed = r.disputed
        /\ m.fulfillment_chain_head = secret
        /\ m.fulfillment_rounds_remaining = r.fulfillment_rounds_remaining - 1
        /\ m.revision_chain_head = r.revision_chain_head
        /\ m.revision_rounds_remaining = r.revision_rounds_remaining
    BY <1>2 DEF Submitted, Custody
  <2>2. ~r.fulfillment_confirmed /\ ~r.resolution_authorized
    BY <1>1, <1>2 DEF Coherent
  <2>3. /\ r.fulfillment_rounds_remaining \in Nat /\ r.revision_rounds_remaining \in Nat
        /\ r.fulfillment_chain_head \in Nat
        /\ r.revision_rounds_remaining < r.fulfillment_rounds_remaining
    BY <1>1, <1>2 DEF Coherent, Custody
  <2> HIDE DEF m
  <2>4. m.amount > 0 /\ m.amount <= MAX_U128 /\ m.review_window > 0 /\ m.fulfilled_at <= now
    BY <1>2, <1>5, <2>1 DEF Coherent, SameMoney
  <2>5. ~m.fulfillment_confirmed /\ ~m.revision_pending /\ ~m.resolution_authorized
    BY <1>4, <1>5, <2>1, <2>2 DEF SameMoney
  <2>6. /\ m.fulfillment_chain_head = m.fulfillment_rounds_remaining + 1
        /\ m.revision_chain_head = m.revision_rounds_remaining + 1
    BY <1>1, <1>2, <2>1, <2>3 DEF Coherent
  <2>7. m.revision_rounds_remaining <= m.fulfillment_rounds_remaining
    BY <2>1, <2>3
  <2> QED
    BY <1>4, <2>4, <2>5, <2>6, <2>7 DEF Coherent
<1>7. u \in Custody /\ SameMoney(m, u) /\ Coherent(u)
  BY <1>4, <1>6 DEF SameMoney, Coherent, Custody
<1>8. /\ StartReview(m) \in Custody /\ Coherent(StartReview(m))
      /\ SameMoney(m, StartReview(m))
  BY <1>2, <1>4, <1>6, ReviewStarted
<1>9. SameMoney(r, u) /\ SameMoney(r, StartReview(m))
  BY <1>5, <1>7, <1>8 DEF SameMoney
<1> HIDE DEF m, u
<1> QED
  BY <1>1, <1>7, <1>8, <1>9, SameMoneyStep

\* Starting the review of a submission that waits for its receipt.
LEMMA ConfirmKeeps ==
    ASSUME IInv, NEW c \in Custodies, NEW e, NEW policy \in Policies,
           policy # POLICY_SUBMISSION_REVIEW,
           CanConfirm(c, policy, e), Store(c, StartReview(custodies[c]))
    PROVE  IInv'
<1>1. /\ Open(c) /\ custodies[c].fulfillment_submitted
      /\ custodies[c].verification_policy # POLICY_SUBMISSION_REVIEW
  BY DEF CanConfirm
<1>2. now \in Nat /\ custodies[c] \in Custody /\ Coherent(custodies[c])
  BY <1>1, OpenFacts
<1>3. ~custodies[c].revision_pending
  BY <1>1, <1>2 DEF Coherent
<1>4. /\ StartReview(custodies[c]) \in Custody
      /\ Coherent(StartReview(custodies[c]))
      /\ SameMoney(custodies[c], StartReview(custodies[c]))
  BY <1>1, <1>2, <1>3, ReviewStarted
<1> QED
  BY <1>1, <1>4, SameMoneyStep

\* A revision spends one of each party's rounds to come.
LEMMA RevisionKeeps ==
    ASSUME IInv, NEW c \in Custodies, NEW secret \in Nat, RequestRevision(c, secret)
    PROVE  IInv'
<1> DEFINE r == custodies[c]
           s == [r EXCEPT
                  !.revision_chain_head = secret,
                  !.revision_rounds_remaining = @ - 1,
                  !.revision_pending = TRUE,
                  !.fulfillment_confirmed = FALSE,
                  !.review_deadline = 0,
                  !.revision_deadline = now + r.review_window]
<1>1. /\ Open(c) /\ r.fulfillment_submitted /\ ~r.revision_pending
      /\ r.verification_policy = POLICY_SUBMISSION_REVIEW
      /\ r.revision_rounds_remaining > 0
      /\ secret + 1 = r.revision_chain_head
      /\ Store(c, s)
  BY DEF RequestRevision, CanRequestRevision, ChainStep
<1>2. now \in Nat /\ r \in Custody /\ Coherent(r)
  BY <1>1, OpenFacts
<1>3. r.revision_rounds_remaining - 1 \in Nat /\ now + r.review_window \in Nat
  BY <1>1, <1>2 DEF Custody
<1>4. s \in Custody
  BY <1>2, <1>3 DEF Custody
<1>5. SameMoney(r, s)
  BY <1>2 DEF SameMoney, Custody
<1>6. Coherent(s)
  <2>1. /\ s.review_window = r.review_window /\ s.fulfilled_at = r.fulfilled_at
        /\ ~s.fulfillment_confirmed /\ s.revision_pending
        /\ s.fulfillment_submitted = r.fulfillment_submitted
        /\ s.verification_policy = r.verification_policy
        /\ s.disputed = r.disputed
        /\ s.fulfillment_chain_head = r.fulfillment_chain_head
        /\ s.fulfillment_rounds_remaining = r.fulfillment_rounds_remaining
        /\ s.revision_chain_head = secret
        /\ s.revision_rounds_remaining = r.revision_rounds_remaining - 1
    BY <1>2 DEF Custody
  <2>2. /\ r.fulfillment_rounds_remaining \in Nat /\ r.revision_rounds_remaining \in Nat
        /\ r.revision_chain_head \in Nat
        /\ r.revision_rounds_remaining <= r.fulfillment_rounds_remaining
    BY <1>1, <1>2 DEF Coherent, Custody
  <2> HIDE DEF s
  <2>3. s.amount > 0 /\ s.amount <= MAX_U128 /\ s.review_window > 0 /\ s.fulfilled_at <= now
    BY <1>2, <1>5, <2>1 DEF Coherent, SameMoney
  <2>4. ~s.resolution_authorized \/ r.resolution_authorized
    BY <1>5 DEF SameMoney
  <2>5. ~r.disputed /\ ~r.resolution_authorized
    BY <1>1, <1>2 DEF RequestRevision, CanRequestRevision, Coherent
  <2>6. /\ s.fulfillment_chain_head = s.fulfillment_rounds_remaining + 1
        /\ s.revision_chain_head = s.revision_rounds_remaining + 1
        /\ s.revision_rounds_remaining < s.fulfillment_rounds_remaining
    BY <1>1, <1>2, <2>1, <2>2 DEF Coherent
  <2> QED
    BY <1>1, <2>1, <2>3, <2>4, <2>5, <2>6 DEF Coherent
<1> HIDE DEF s
<1> QED
  BY <1>1, <1>4, <1>5, <1>6, SameMoneyStep

\* Opening a dispute only raises its flag.
LEMMA DisputeKeeps ==
    ASSUME IInv, NEW c \in Custodies, NEW role \in Roles, OpenDispute(c, role)
    PROVE  IInv'
<1> DEFINE r == custodies[c]
           s == [r EXCEPT !.disputed = TRUE]
<1>1. Open(c) /\ r.fulfillment_submitted /\ Store(c, s)
  BY DEF OpenDispute, CanOpenDispute
<1>2. r \in Custody /\ Coherent(r)
  BY <1>1, OpenFacts
<1>3. s \in Custody /\ Coherent(s) /\ SameMoney(r, s)
  BY <1>1, <1>2 DEF Coherent, SameMoney, Custody
<1> HIDE DEF s
<1> QED
  BY <1>1, <1>3, SameMoneyStep

\* The resolver's split adds up to the principal; a zero share counts as claimed.
LEMMA AuthorizeKeeps ==
    ASSUME IInv, NEW c \in Custodies, NEW x \in Nat, NEW y \in Nat,
           AuthorizeDisputeResolution(c, x, y)
    PROVE  IInv'
<1> DEFINE r == custodies[c]
           amounts == [role \in Roles |-> IF role = Payer THEN x ELSE y]
           claims == [role \in Roles |->
                        ZeroShareClaimed(IF role = Payer THEN x ELSE y)]
           s == [r EXCEPT !.resolution_amount = amounts,
                          !.resolution_authorized = TRUE,
                          !.resolution_claimed = claims]
<1>1. /\ Open(c) /\ r.disputed /\ ~r.resolution_authorized /\ x + y = r.amount
      /\ Store(c, s)
  BY DEF AuthorizeDisputeResolution, CanAuthorize
<1>2. c \in custody_exists /\ now \in Nat /\ r \in Custody /\ Coherent(r) /\ ~r.consumed
  BY <1>1, OpenFacts
<1>3. /\ amounts \in [Roles -> Nat] /\ claims \in [Roles -> BOOLEAN]
      /\ amounts[Payer] = x /\ amounts[Payee] = y
      /\ \A role \in Roles : claims[role] = (amounts[role] = 0)
  BY DEF ZeroShareClaimed
<1> HIDE DEF amounts, claims
<1>4. s \in Custody
  BY <1>2, <1>3 DEF Custody
<1>5. /\ s.token = r.token /\ s.fee_amount = r.fee_amount /\ ~s.consumed
      /\ s.resolution_authorized /\ s.resolution_amount = amounts
      /\ s.resolution_claimed = claims
  BY <1>2 DEF Custody
<1>6. ~(\A role \in Roles : claims[role])
  BY <1>1, <1>2, <1>3 DEF Coherent, Custody
<1>7. Coherent(s)
  <2>1. /\ s.amount = r.amount /\ s.review_window = r.review_window
        /\ s.fulfilled_at = r.fulfilled_at
        /\ s.fulfillment_submitted = r.fulfillment_submitted
        /\ s.fulfillment_confirmed = r.fulfillment_confirmed
        /\ s.review_deadline = r.review_deadline
        /\ s.revision_pending = r.revision_pending
        /\ s.verification_policy = r.verification_policy
        /\ s.disputed = r.disputed /\ s.consumed = r.consumed
        /\ s.fulfillment_chain_head = r.fulfillment_chain_head
        /\ s.fulfillment_rounds_remaining = r.fulfillment_rounds_remaining
        /\ s.revision_chain_head = r.revision_chain_head
        /\ s.revision_rounds_remaining = r.revision_rounds_remaining
    BY <1>2 DEF Custody
  <2>2. \A role \in Roles : claims[role] \/ amounts[role] > 0
    BY <1>3
  <2> HIDE DEF s
  <2>3. /\ s.amount > 0 /\ s.amount <= MAX_U128 /\ s.review_window > 0 /\ s.fulfilled_at <= now
        /\ s.fulfillment_chain_head = s.fulfillment_rounds_remaining + 1
        /\ s.revision_chain_head = s.revision_rounds_remaining + 1
    BY <1>2, <2>1 DEF Coherent
  <2>4. /\ s.disputed => s.fulfillment_submitted
        /\ s.revision_pending => s.fulfillment_submitted
             /\ s.verification_policy = POLICY_SUBMISSION_REVIEW
        /\ s.fulfillment_confirmed =>
             /\ s.fulfillment_submitted /\ ~s.revision_pending
             /\ s.review_deadline >= s.fulfilled_at + s.review_window
        /\ IF s.fulfillment_submitted /\ ~s.revision_pending
             THEN s.revision_rounds_remaining <= s.fulfillment_rounds_remaining
             ELSE s.revision_rounds_remaining < s.fulfillment_rounds_remaining
    BY <1>2, <2>1 DEF Coherent
  <2>5. /\ s.resolution_amount[Payer] + s.resolution_amount[Payee] = s.amount
        /\ \A role \in Roles :
             s.resolution_claimed[role] \/ s.resolution_amount[role] > 0
        /\ s.consumed = (\A role \in Roles : s.resolution_claimed[role])
    <3>1. s.consumed = FALSE
      BY <1>2, <2>1 DEF Custody
    <3> QED
      BY <1>1, <1>3, <1>5, <1>6, <2>1, <2>2, <3>1
  <2> QED
    BY <1>1, <1>5, <2>1, <2>3, <2>4, <2>5 DEF Coherent
<1>8. \A role \in Roles : DueOf(s, role) = 0 /\ Due(c, role) = 0
  BY <1>1, <1>2, <1>3, <1>5 DEF DueOf, Due
<1> HIDE DEF s
<1> QED
  BY <1>1, <1>2, <1>4, <1>5, <1>7, <1>8, StoreStep

-----------------------------------------------------------------------------
(* The calls that let principal go.                                          *)

\* The whole principal leaves an open, unresolved custody.
LEMMA FinalizeKeeps ==
    ASSUME IInv, NEW c \in Custodies, Open(c), ~custodies[c].resolution_authorized,
           NEW isRefund \in BOOLEAN, NEW signers \in SUBSET Roles,
           FinalizeFullOutput(c, isRefund, signers),
           \/ signers = Roles
           \/ /\ signers = {Payer} /\ isRefund
              /\ ~custodies[c].fulfillment_submitted
              /\ now >= custodies[c].fulfillment_deadline
           \/ /\ signers = {Payee} /\ ~isRefund
              /\ custodies[c].fulfillment_confirmed /\ ~custodies[c].disputed
              /\ now >= custodies[c].review_deadline
    PROVE  IInv'
<1> DEFINE r == custodies[c]
           s == [r EXCEPT !.consumed = TRUE, !.refunded = isRefund, !.settled_at = now]
           to == IF isRefund THEN Payer ELSE Payee
<1>1. c \in custody_exists /\ now \in Nat /\ r \in Custody /\ Coherent(r) /\ ~r.consumed
  BY OpenFacts
<1>2. /\ PrepareOutput(c, to, r.amount)
      /\ custodies' = [custodies EXCEPT ![c] = s]
      /\ consents' = [consents EXCEPT ![c] = signers]
      /\ UNCHANGED <<now, custody_exists, balance, paid>>
  BY DEF FinalizeFullOutput
<1>3. s \in Custody /\ Coherent(s)
  BY <1>1 DEF Coherent, Custody
<1>4. /\ s.token = r.token /\ s.fee_amount = r.fee_amount /\ s.amount = r.amount
      /\ s.consumed /\ s.refunded = isRefund /\ s.settled_at = now
      /\ s.fulfillment_submitted = r.fulfillment_submitted
      /\ s.fulfillment_deadline = r.fulfillment_deadline
      /\ s.fulfillment_confirmed = r.fulfillment_confirmed
      /\ s.disputed = r.disputed
      /\ s.fulfilled_at = r.fulfilled_at /\ s.review_window = r.review_window
      /\ ~s.resolution_authorized
  BY <1>1 DEF Custody
<1>5. r.fulfillment_confirmed =>
         (now >= r.review_deadline => now >= r.fulfilled_at + r.review_window)
  BY <1>1 DEF Coherent, Custody
<1> HIDE DEF s
<1>6. Rightful(s, signers)
  BY <1>4, <1>5 DEF Rightful
<1>7. to \in Roles /\ r.amount \in Nat
  BY <1>1 DEF Custody
<1>8. \A role \in Roles : Due(c, role) = 0
  BY <1>1 DEF Due, DueOf
<1>9. DueOf(s, to) = r.amount /\ \A role \in Roles \ {to} : DueOf(s, role) = 0
  BY <1>1, <1>4 DEF DueOf
<1> HIDE DEF to
<1> QED
  BY <1>1, <1>2, <1>3, <1>4, <1>6, <1>7, <1>8, <1>9, PayoutStep

\* Without a dispute there is no resolution.
LEMMA UndisputedUnresolved ==
    ASSUME IInv, NEW c \in Custodies, Open(c), ~custodies[c].disputed
    PROVE  ~custodies[c].resolution_authorized
  BY OpenFacts DEF Coherent

\* A mutual release is signed by both parties.
LEMMA ReleaseKeeps ==
    ASSUME IInv, NEW c \in Custodies, NEW signers \in SUBSET Roles,
           ReleaseCustody(c, signers)
    PROVE  IInv'
<1>1. /\ Open(c) /\ ~custodies[c].resolution_authorized /\ signers = Roles
      /\ FinalizeFullOutput(c, FALSE, signers)
  BY DEF ReleaseCustody, CanRelease, NoResolution
<1> QED
  BY <1>1, FinalizeKeeps

\* So is a mutual refund.
LEMMA MutualRefundKeeps ==
    ASSUME IInv, NEW c \in Custodies, NEW signers \in SUBSET Roles,
           MutualRefund(c, signers)
    PROVE  IInv'
<1>1. /\ Open(c) /\ ~custodies[c].resolution_authorized /\ signers = Roles
      /\ FinalizeFullOutput(c, TRUE, signers)
  BY DEF MutualRefund, CanMutualRefund, NoResolution
<1> QED
  BY <1>1, FinalizeKeeps

\* The payee alone, after an undisputed fulfillment and its review window.
LEMMA AutoReleaseKeeps ==
    ASSUME IInv, NEW c \in Custodies, NEW signers \in SUBSET Roles,
           AutoRelease(c, signers)
    PROVE  IInv'
<1>1. /\ Open(c) /\ ~custodies[c].disputed /\ custodies[c].fulfillment_confirmed
      /\ now >= custodies[c].review_deadline
      /\ Payee \in signers /\ FinalizeFullOutput(c, FALSE, signers)
  BY DEF AutoRelease, CanAutoRelease, Reviewable
<1>2. ~custodies[c].resolution_authorized
  BY <1>1, UndisputedUnresolved
<1>3. signers = Roles \/ signers = {Payee}
  BY <1>1
<1> QED
  BY <1>1, <1>2, <1>3, FinalizeKeeps

\* The payer alone, after a deadline nothing was submitted by.
LEMMA RefundKeeps ==
    ASSUME IInv, NEW c \in Custodies, NEW signers \in SUBSET Roles,
           RefundNoFulfillment(c, signers)
    PROVE  IInv'
<1>1. /\ Open(c) /\ ~custodies[c].disputed /\ ~custodies[c].fulfillment_submitted
      /\ now >= custodies[c].fulfillment_deadline
      /\ Payer \in signers /\ FinalizeFullOutput(c, TRUE, signers)
  BY DEF RefundNoFulfillment, CanRefund
<1>2. ~custodies[c].resolution_authorized
  BY <1>1, UndisputedUnresolved
<1>3. signers = Roles \/ signers = {Payer}
  BY <1>1
<1> QED
  BY <1>1, <1>2, <1>3, FinalizeKeeps

\* A claim lets one awarded share go, and the last one closes the custody.
LEMMA ClaimKeeps ==
    ASSUME IInv, NEW c \in Custodies, NEW role \in Roles, NEW signers \in SUBSET Roles,
           ClaimResolution(c, role, signers)
    PROVE  IInv'
<1> DEFINE r == custodies[c]
           claimed == [r.resolution_claimed EXCEPT ![role] = TRUE]
           marked == [r EXCEPT !.resolution_claimed = claimed]
           closed == [marked EXCEPT !.consumed = TRUE,
                                    !.refunded = (r.resolution_amount[Payee] = 0),
                                    !.settled_at = now]
           s == IF claimed[Payer] /\ claimed[Payee] THEN closed ELSE marked
           share == r.resolution_amount[role]
<1>1. /\ Open(c) /\ r.resolution_authorized /\ ~r.resolution_claimed[role]
      /\ share > 0 /\ PrepareOutput(c, role, share)
      /\ custodies' = [custodies EXCEPT ![c] = s]
      /\ UNCHANGED <<now, custody_exists, balance, paid, consents>>
  BY DEF ClaimResolution, CanClaim
<1>2. c \in custody_exists /\ now \in Nat /\ r \in Custody /\ Coherent(r) /\ ~r.consumed
  BY <1>1, OpenFacts
<1>3. /\ r.resolution_claimed \in [Roles -> BOOLEAN]
      /\ r.resolution_amount \in [Roles -> Nat] /\ share \in Nat
  BY <1>2 DEF Custody
<1>4. /\ claimed \in [Roles -> BOOLEAN] /\ claimed[role]
      /\ \A x \in Roles \ {role} : claimed[x] = r.resolution_claimed[x]
  BY <1>3
<1> HIDE DEF claimed
<1>5. marked \in Custody /\ closed \in Custody
  BY <1>2, <1>4 DEF Custody
<1>6. s \in Custody
  BY <1>5
<1>7. /\ s.token = r.token /\ s.fee_amount = r.fee_amount /\ s.amount = r.amount
      /\ s.review_window = r.review_window /\ s.fulfilled_at = r.fulfilled_at
      /\ s.fulfillment_submitted = r.fulfillment_submitted
      /\ s.fulfillment_confirmed = r.fulfillment_confirmed
      /\ s.review_deadline = r.review_deadline
      /\ s.revision_pending = r.revision_pending
      /\ s.verification_policy = r.verification_policy
      /\ s.disputed = r.disputed
      /\ s.resolution_authorized = r.resolution_authorized
      /\ s.resolution_amount = r.resolution_amount
      /\ s.resolution_claimed = claimed
      /\ s.fulfillment_chain_head = r.fulfillment_chain_head
      /\ s.fulfillment_rounds_remaining = r.fulfillment_rounds_remaining
      /\ s.revision_chain_head = r.revision_chain_head
      /\ s.revision_rounds_remaining = r.revision_rounds_remaining
  BY <1>2 DEF Custody
<1>8. s.consumed = (\A x \in Roles : s.resolution_claimed[x])
  <2>1. CASE claimed[Payer] /\ claimed[Payee]
    BY <1>2, <1>7, <2>1 DEF Custody
  <2>2. CASE ~(claimed[Payer] /\ claimed[Payee])
    <3>1. s.consumed = FALSE
      BY <1>2, <2>2 DEF Custody
    <3> QED
      BY <1>7, <2>2, <3>1
  <2> QED
    BY <2>1, <2>2
<1> HIDE DEF s
<1>9. Coherent(s)
  <2>1. \A x \in Roles : s.resolution_claimed[x] \/ s.resolution_amount[x] > 0
    BY <1>1, <1>2, <1>4, <1>7 DEF Coherent
  <2> QED
    BY <1>1, <1>2, <1>7, <1>8, <2>1 DEF Coherent
<1>10. Rightful(s, consents[c])
  BY <1>1, <1>7 DEF Rightful
<1>11. consents' = [consents EXCEPT ![c] = consents[c]] /\ consents[c] \in SUBSET Roles
  BY <1>1 DEF IInv, TypeOK
<1>12. /\ Due(c, role) = 0 /\ DueOf(s, role) = share
       /\ \A x \in Roles \ {role} : DueOf(s, x) = Due(c, x)
  BY <1>1, <1>4, <1>7 DEF Due, DueOf
<1> HIDE DEF share
<1> QED
  BY <1>1, <1>2, <1>3, <1>6, <1>7, <1>9, <1>10, <1>11, <1>12, PayoutStep

-----------------------------------------------------------------------------
(* The invariant.                                                            *)

\* The invariant is inductive.
LEMMA NextKeeps == IInv /\ [Next]_vars => IInv'
<1> SUFFICES ASSUME IInv, [Next]_vars PROVE IInv'
  OBVIOUS
<1>1. ASSUME NEW c \in Custodies, CustodyNext(c) PROVE IInv'
  <2>1. CASE DepositStep(c)
    BY <2>1, DepositKeeps DEF DepositStep
  <2>2. CASE SubmitStep(c)
    BY <2>2, SubmitKeeps, LimitsAssumption DEF SubmitStep
  <2>3. CASE ConfirmStep(c)
    BY <2>3, ConfirmKeeps DEF ConfirmStep, ConfirmFulfillment, Policies,
       POLICY_SUBMISSION_REVIEW, POLICY_COUNTERPARTY_CONFIRM
  <2>4. CASE VerifyStep(c)
    BY <2>4, ConfirmKeeps DEF VerifyStep, ConfirmExternalFulfillment, Policies,
       POLICY_SUBMISSION_REVIEW, POLICY_EXTERNAL_VERIFY
  <2>5. CASE RevisionStep(c)
    BY <2>5, RevisionKeeps, LimitsAssumption DEF RevisionStep
  <2>6. CASE DisputeStep(c)
    BY <2>6, DisputeKeeps DEF DisputeStep
  <2>7. CASE ResolveStep(c)
    BY <2>7, AuthorizeKeeps, LimitsAssumption DEF ResolveStep
  <2>8. CASE ReleaseStep(c)
    BY <2>8, ReleaseKeeps DEF ReleaseStep
  <2>9. CASE AutoReleaseStep(c)
    BY <2>9, AutoReleaseKeeps DEF AutoReleaseStep
  <2>10. CASE RefundStep(c)
    BY <2>10, RefundKeeps DEF RefundStep
  <2>11. CASE MutualRefundStep(c)
    BY <2>11, MutualRefundKeeps DEF MutualRefundStep
  <2>12. CASE \E role \in Roles : ClaimStep(c, role)
    BY <2>12, ClaimKeeps DEF ClaimStep
  <2> QED
    BY <1>1, <2>1, <2>2, <2>3, <2>4, <2>5, <2>6, <2>7, <2>8, <2>9, <2>10,
       <2>11, <2>12 DEF CustodyNext
<1>2. CASE \E t \in Tokens : PoolCollect(t)
  BY <1>2, CollectStep
<1>3. CASE Tick
  BY <1>3, TickStep
<1>4. CASE UNCHANGED vars
  <2> USE <1>4 DEF vars
  <2>1. TypeOK'
    BY DEF IInv, TypeOK
  <2>2. Lifecycle'
    BY DEF IInv, Lifecycle, Coherent
  <2>3. Solvent' /\ NotesBelong'
    BY DEF IInv, Solvent, NotesBelong
  <2>4. PaidOnce' /\ PaidAsDecided'
    BY DEF IInv, PaidOnce, PaidAsDecided, Uncollected, Due, DueOf
  <2>5. SettledByRight'
    BY DEF IInv, SettledByRight, Rightful
  <2>6. Unwritten'
    BY DEF IInv, Unwritten
  <2> QED
    BY <2>1, <2>2, <2>3, <2>4, <2>5, <2>6 DEF IInv
<1> QED
  BY <1>1, <1>2, <1>3, <1>4 DEF Next

\* IInv holds in every reachable state: the inductive invariant all the theorems
\* below follow from.
THEOREM Invariance == Spec => []IInv
<1>1. Init => IInv
  BY InitIInv
<1>2. IInv /\ [Next]_vars => IInv'
  BY NextKeeps
<1> QED
  BY <1>1, <1>2, PTL DEF Spec

\* Every record, counter and note keeps its type.
THEOREM TypeCorrect == Spec => []TypeOK
<1>1. IInv => TypeOK
  BY DEF IInv
<1> QED
  BY <1>1, Invariance, PTL

\* The balance covers the reserve and the outstanding allowance of every token,
\* in every interleaving of calls and collections.
THEOREM Solvency == Spec => []Solvent
<1>1. IInv => Solvent
  BY DEF IInv
<1> QED
  BY <1>1, Invariance, PTL

\* Payer, payee and revenue notes receive exactly what each custody decided.
THEOREM PaymentsExact == Spec => []PaidAsDecided
<1>1. IInv => PaidAsDecided
  BY DEF IInv
<1> QED
  BY <1>1, Invariance, PTL

\* No party ever takes a principal alone but by the timeout that protects it.
THEOREM NoUnilateralSettlement == Spec => []SettledByRight
<1>1. IInv => SettledByRight
  BY DEF IInv
<1> QED
  BY <1>1, Invariance, PTL

\* A right and the timeout that ends it are never open at the same timestamp.
THEOREM ExclusiveTimeouts == Spec => []TimeoutsExclusive
<1>1. IInv => TimeoutsExclusive
  <2> SUFFICES ASSUME IInv, NEW c \in Custodies
               PROVE  /\ ~(CanSubmit(c) /\ CanRefund(c))
                      /\ ~(CanRequestRevision(c) /\ CanAutoRelease(c))
                      /\ ~(CanOpenDispute(c) /\ CanAutoRelease(c))
    BY DEF TimeoutsExclusive
  <2>1. Open(c) => /\ custodies[c] \in Custody /\ now \in Nat
                   /\ custodies[c].revision_pending => custodies[c].fulfillment_submitted
    BY OpenFacts DEF Coherent
  <2>2. ~(CanSubmit(c) /\ CanRefund(c))
    BY <2>1 DEF CanSubmit, CanRefund, SubmitInTime, Custody
  <2>3. /\ ~(CanRequestRevision(c) /\ CanAutoRelease(c))
        /\ ~(CanOpenDispute(c) /\ CanAutoRelease(c))
    BY <2>1 DEF CanRequestRevision, CanOpenDispute, CanAutoRelease, Reviewable, Custody
  <2> QED
    BY <2>2, <2>3
<1> QED
  BY <1>1, Invariance, PTL

\* Every open custody has a way out: a timeout, a dispute, a resolution, a claim.
THEOREM AlwaysAnExit == Spec => []NoDeadEnd
<1>1. IInv => NoDeadEnd
  <2> SUFFICES ASSUME IInv, NEW c \in Custodies, Open(c)
               PROVE  \/ CanRefund(c)
                      \/ ~custodies[c].fulfillment_submitted /\ now < custodies[c].fulfillment_deadline
                      \/ CanAutoRelease(c)
                      \/ CanOpenDispute(c)
                      \/ CanAuthorize(c)
                      \/ \E role \in Roles : CanClaim(c, role)
    BY DEF NoDeadEnd
  <2> DEFINE r == custodies[c]
  <2>1. r \in Custody /\ now \in Nat /\ Coherent(r) /\ ~r.consumed
    BY OpenFacts
  <2>2. CASE ~r.fulfillment_submitted
    BY <2>1, <2>2 DEF CanRefund, Coherent, Custody
  <2>3. CASE r.fulfillment_submitted /\ ~r.disputed
    <3>1. r.fulfillment_confirmed => r.review_deadline # 0 /\ ~r.revision_pending
      BY <2>1 DEF Coherent, Custody
    <3> QED
      BY <2>1, <2>3, <3>1 DEF CanAutoRelease, CanOpenDispute, Reviewable, Custody
  <2>4. CASE r.disputed /\ ~r.resolution_authorized
    BY <2>4 DEF CanAuthorize
  <2>5. CASE r.disputed /\ r.resolution_authorized
    <3>1. \E role \in Roles : ~r.resolution_claimed[role] /\ r.resolution_amount[role] > 0
      BY <2>1, <2>5 DEF Coherent
    <3> QED
      BY <2>5, <3>1 DEF CanClaim
  <2> QED
    BY <2>2, <2>3, <2>4, <2>5
<1> QED
  BY <1>1, Invariance, PTL

\* A revision the plan promises can always be answered.
THEOREM RevisionsBacked == Spec => []RevisionsAnswerable
<1>1. IInv => RevisionsAnswerable
  <2> SUFFICES ASSUME IInv, NEW c \in custody_exists
               PROVE  LET r == custodies[c] IN
                      /\ r.fulfillment_submitted =>
                           r.revision_rounds_remaining <= r.fulfillment_rounds_remaining
                      /\ r.revision_pending =>
                           r.revision_rounds_remaining < r.fulfillment_rounds_remaining
    BY DEF RevisionsAnswerable
  <2>1. custodies[c] \in Custody /\ Coherent(custodies[c])
    BY DEF IInv, Lifecycle, TypeOK
  <2> QED
    BY <2>1 DEF Coherent, Custody
<1> QED
  BY <1>1, Invariance, PTL

\* The one-way chains advance with the round counters: no secret works twice.
THEOREM NoSecretTwice == Spec => []SecretsInStep
<1>1. IInv => SecretsInStep
  BY DEF IInv, Lifecycle, Coherent, SecretsInStep
<1> QED
  BY <1>1, Invariance, PTL

-----------------------------------------------------------------------------
(* Action properties.                                                        *)

\* What a step may do to a record under dispute.
Kept(r, s) ==
    /\ r.disputed => s.disputed /\ Facts(s) = Facts(r)
    /\ r.resolution_authorized =>
         /\ s.resolution_authorized
         /\ s.resolution_amount = r.resolution_amount
         /\ \A role \in Roles : r.resolution_claimed[role] => s.resolution_claimed[role]

\* What every step keeps of a disputed and of a resolved record.
LEMMA StepKeepsDispute ==
    ASSUME IInv, [Next]_vars, NEW d \in Custodies
    PROVE  /\ Kept(custodies[d], custodies'[d])
           /\ custodies[d].resolution_authorized => consents'[d] = consents[d]
<1> USE DEF Kept
<1>t. /\ custodies \in [Custodies -> Custody] /\ consents \in [Custodies -> SUBSET Roles]
      /\ custodies[d] \in Custody
  BY DEF IInv, TypeOK
<1>1. ASSUME NEW c \in Custodies, CustodyNext(c)
      PROVE  /\ Kept(custodies[d], custodies'[d])
             /\ custodies[d].resolution_authorized => consents'[d] = consents[d]
  <2>1. CASE d # c
    <3>1. custodies'[d] = custodies[d] /\ consents'[d] = consents[d]
      <4> USE <1>t, <2>1 DEF Store, FinalizeFullOutput
      <4>1. CASE DepositStep(c) \/ SubmitStep(c) \/ ConfirmStep(c) \/ VerifyStep(c)
        BY <4>1 DEF DepositStep, SubmitStep, ConfirmStep, VerifyStep, Deposit,
           SubmitFulfillment, ConfirmFulfillment, ConfirmExternalFulfillment
      <4>2. CASE RevisionStep(c) \/ DisputeStep(c) \/ ResolveStep(c)
        BY <4>2 DEF RevisionStep, DisputeStep, ResolveStep, RequestRevision,
           OpenDispute, AuthorizeDisputeResolution
      <4>3. CASE \/ ReleaseStep(c) \/ AutoReleaseStep(c)
                 \/ RefundStep(c) \/ MutualRefundStep(c)
        BY <4>3 DEF ReleaseStep, AutoReleaseStep, RefundStep, MutualRefundStep,
           ReleaseCustody, AutoRelease, RefundNoFulfillment, MutualRefund
      <4>4. CASE \E role \in Roles : ClaimStep(c, role)
        BY <4>4 DEF ClaimStep, ClaimResolution
      <4> QED
        BY <1>1, <4>1, <4>2, <4>3, <4>4 DEF CustodyNext
    <3> QED
      BY <3>1
  <2>2. CASE d = c /\ ~custodies[c].disputed
    <3>1. ~custodies[c].resolution_authorized
      <4>1. CASE c \in custody_exists
        BY <2>2, <4>1 DEF IInv, Lifecycle, Coherent
      <4>2. CASE c \notin custody_exists
        BY <4>2, UnfundedFlags DEF IInv, Unwritten
      <4> QED
        BY <4>1, <4>2
    <3> QED
      BY <2>2, <3>1
  <2>3. CASE d = c /\ custodies[c].disputed
    <3> DEFINE r == custodies[c]
    <3>1. c \in custody_exists
      BY <2>3, UnfundedFlags DEF IInv, Unwritten
    <3>2. r \in Custody
      BY <1>t
    <3>3. CASE \/ DepositStep(c) \/ SubmitStep(c) \/ ConfirmStep(c) \/ VerifyStep(c)
               \/ RevisionStep(c) \/ DisputeStep(c) \/ AutoReleaseStep(c) \/ RefundStep(c)
      BY <2>3, <3>1, <3>3 DEF DepositStep, Deposit, FreshCustody, SubmitStep,
         SubmitFulfillment, CanSubmit, ConfirmStep, ConfirmFulfillment, VerifyStep,
         ConfirmExternalFulfillment, CanConfirm, RevisionStep, RequestRevision,
         CanRequestRevision, DisputeStep, OpenDispute, CanOpenDispute,
         AutoReleaseStep, AutoRelease, CanAutoRelease, RefundStep,
         RefundNoFulfillment, CanRefund
    <3>4. CASE ResolveStep(c)
      <4>1. PICK x, y \in 0..MAX_U128 : AuthorizeDisputeResolution(c, x, y)
        BY <3>4 DEF ResolveStep
      <4>2. ~r.resolution_authorized
        BY <4>1 DEF AuthorizeDisputeResolution, CanAuthorize
      <4>3. Facts(custodies'[c]) = Facts(r) /\ custodies'[c].disputed = r.disputed
        BY <1>t, <3>2, <4>1 DEF AuthorizeDisputeResolution, Store, Facts, Custody
      <4> QED
        BY <2>3, <4>2, <4>3
    <3>5. CASE ReleaseStep(c) \/ MutualRefundStep(c)
      <4>1. PICK signers \in SUBSET Roles, isRefund \in BOOLEAN :
                   NoResolution(c) /\ FinalizeFullOutput(c, isRefund, signers)
        BY <3>5 DEF ReleaseStep, MutualRefundStep, ReleaseCustody, CanRelease,
           MutualRefund, CanMutualRefund
      <4>2. ~r.resolution_authorized
        BY <4>1 DEF NoResolution
      <4>3. Facts(custodies'[c]) = Facts(r) /\ custodies'[c].disputed = r.disputed
        BY <1>t, <3>2, <4>1 DEF FinalizeFullOutput, Facts, Custody
      <4> QED
        BY <2>3, <4>2, <4>3
    <3>6. CASE \E role \in Roles : ClaimStep(c, role)
      <4>1. PICK role \in Roles, signers \in SUBSET Roles : ClaimResolution(c, role, signers)
        BY <3>6 DEF ClaimStep
      <4> DEFINE claimed == [r.resolution_claimed EXCEPT ![role] = TRUE]
      <4>2. /\ Facts(custodies'[c]) = Facts(r)
            /\ custodies'[c].disputed = r.disputed
            /\ custodies'[c].resolution_authorized = r.resolution_authorized
            /\ custodies'[c].resolution_amount = r.resolution_amount
            /\ custodies'[c].resolution_claimed = claimed
            /\ consents' = consents
        BY <1>t, <3>2, <4>1 DEF ClaimResolution, Facts, Custody
      <4>3. r.resolution_claimed \in [Roles -> BOOLEAN]
        BY <3>2 DEF Custody
      <4>4. \A x \in Roles : r.resolution_claimed[x] => claimed[x]
        BY <4>3
      <4> HIDE DEF claimed
      <4> QED
        BY <2>3, <4>2, <4>4
    <3> QED
      BY <1>1, <3>3, <3>4, <3>5, <3>6 DEF CustodyNext
  <2> QED
    BY <2>1, <2>2, <2>3
<1>2. CASE (\E t \in Tokens : PoolCollect(t)) \/ Tick \/ UNCHANGED vars
  BY <1>2 DEF PoolCollect, Tick, vars, Facts
<1> QED
  BY <1>1, <1>2 DEF Next

\* A dispute freezes the facts it is about.
THEOREM DisputeIsFrozen == Spec => DisputeFreezes
<1>1. IInv /\ [Next]_vars =>
        [\A c \in Custodies :
           custodies[c].disputed =>
              /\ custodies'[c].disputed
              /\ Facts(custodies'[c]) = Facts(custodies[c])]_vars
  BY StepKeepsDispute DEF Kept
<1> QED
  BY <1>1, Invariance, PTL DEF Spec, DisputeFreezes

\* A resolution is final.
THEOREM ResolutionIsFinal == Spec => ResolutionFinal
<1>1. IInv /\ [Next]_vars =>
        [\A c \in Custodies :
           LET r == custodies[c]
               s == custodies'[c]
           IN
           r.resolution_authorized =>
              /\ s.resolution_authorized
              /\ s.resolution_amount = r.resolution_amount
              /\ \A role \in Roles :
                   r.resolution_claimed[role] => s.resolution_claimed[role]
              /\ consents'[c] = consents[c]]_vars
  BY StepKeepsDispute DEF Kept
<1> QED
  BY <1>1, Invariance, PTL DEF Spec, ResolutionFinal

---------------------------------------------------------------------------
(* The custody contract implements CustodyPromise: its initial states map to  *)
(* the promise's, and every step maps to a step of the promise or leaves its  *)
(* variables alone.                                                           *)

principalBar == [c \in Custodies |-> custodies[c].amount]
shareBar == [c \in Custodies |-> Division(c)]
deliveredBar == [c \in Custodies |-> [role \in Roles |-> paid[c][role]]]
barVars == <<principalBar, shareBar, deliveredBar>>

\* The division recorded in a custody record.
DivisionOf(r) ==
    IF r.resolution_authorized
      THEN r.resolution_amount
      ELSE [role \in Roles |->
              IF r.consumed /\ r.refunded = (role = Payer) THEN r.amount ELSE 0]

NoDivision == [role \in Roles |-> 0]

\* A step that changes no payment and no other record, and leaves the principal
\* and the division of c alone, is hidden from the promise.
LEMMA HiddenStep ==
    ASSUME IInv, NEW c \in Custodies, NEW s \in Custody,
           custodies' = [custodies EXCEPT ![c] = s], UNCHANGED paid,
           s.amount = custodies[c].amount, DivisionOf(s) = DivisionOf(custodies[c])
    PROVE  UNCHANGED barVars
<1>1. custodies \in [Custodies -> Custody]
  BY DEF IInv, TypeOK
<1>2. \A d \in Custodies : /\ custodies'[d].amount = custodies[d].amount
                           /\ DivisionOf(custodies[d])' = DivisionOf(custodies[d])
  BY <1>1 DEF DivisionOf
<1>3. \A d \in Custodies : Division(d)' = Division(d)
  BY <1>2 DEF Division, DivisionOf
<1> QED
  BY <1>2, <1>3 DEF barVars, principalBar, shareBar, deliveredBar

\* A step that fixes the division of an open, undivided custody is Divide.
LEMMA DivideStep ==
    ASSUME IInv, NEW c \in Custodies, Open(c), NEW s \in Custody,
           custodies' = [custodies EXCEPT ![c] = s], UNCHANGED paid,
           s.amount = custodies[c].amount,
           ~custodies[c].resolution_authorized,
           NEW division \in [Roles -> Nat], DivisionOf(s) = division,
           division[Payer] + division[Payee] = s.amount
    PROVE  Promise!Divide(c)
<1> DEFINE r == custodies[c]
<1>1. custodies \in [Custodies -> Custody] /\ r \in Custody /\ Coherent(r) /\ ~r.consumed
  BY OpenFacts DEF IInv, TypeOK
<1>2. \A d \in Custodies : Division(d)' = IF d = c THEN division ELSE Division(d)
  BY <1>1 DEF Division, DivisionOf
<1>3. shareBar' = [shareBar EXCEPT ![c] = division]
  BY <1>2 DEF shareBar
<1>4. principalBar' = principalBar /\ deliveredBar' = deliveredBar
  BY <1>1 DEF principalBar, deliveredBar
<1>5. principalBar[c] # 0 /\ principalBar[c] = s.amount
  BY <1>1 DEF principalBar, Coherent, Custody
<1>6. shareBar[c] = NoDivision
  BY <1>1 DEF shareBar, Division, NoDivision
<1>7. division \in [Roles -> 0..MAX_U128]
  <2>1. /\ s.amount \in Nat /\ s.amount <= MAX_U128 /\ MAX_U128 \in Nat
        /\ division[Payer] \in Nat /\ division[Payee] \in Nat
    BY <1>1, LimitsAssumption DEF Coherent, Custody
  <2>2. division[Payer] \in 0..MAX_U128 /\ division[Payee] \in 0..MAX_U128
    BY <2>1
  <2> QED
    BY <2>2
<1>8. Promise!Undivided = NoDivision
  BY DEF Promise!Undivided, Promise!Parties, NoDivision
<1>9. /\ division \in [Promise!Parties -> 0..MAX_U128]
      /\ division["payer"] + division["payee"] = principalBar[c]
  BY <1>5, <1>7 DEF Promise!Parties
<1> QED
  BY <1>3, <1>4, <1>5, <1>6, <1>8, <1>9
     DEF Promise!Divide, principalBar, shareBar, deliveredBar

\* A deposit is the promise's Fund.
LEMMA FundStep ==
    ASSUME IInv, NEW c \in Custodies, DepositStep(c)
    PROVE  Promise!Fund(c)
<1>1. PICK plan \in Plans, sent \in Transfers : Deposit(c, plan, sent)
  BY DEF DepositStep
<1>2. /\ c \notin custody_exists /\ ValidPlan(plan) /\ UNCHANGED paid
      /\ custodies' = [custodies EXCEPT ![c] = Funded(plan)]
      /\ reserved_by_token[plan.token] + plan.amount <= MAX_U128
  BY <1>1 DEF Deposit, FreshCustody
<1>3. plan.amount \in 1..MAX_U128
  BY <1>2, PlansAssumption, LimitsAssumption DEF Plan, ValidPlan, IInv, TypeOK
<1>4. custodies[c] = Unfunded /\ custodies \in [Custodies -> Custody]
  BY <1>2 DEF IInv, TypeOK, Unwritten
<1>5. /\ Unfunded.amount = 0 /\ DivisionOf(Unfunded) = NoDivision
      /\ Funded(plan).amount = plan.amount /\ DivisionOf(Funded(plan)) = NoDivision
  BY DEF Unfunded, Funded, DivisionOf, NoDivision
<1> DEFINE funded == Funded(plan)
<1> HIDE DEF funded
<1>6. custodies' = [custodies EXCEPT ![c] = funded] /\ funded.amount = plan.amount
      /\ DivisionOf(funded) = NoDivision
  BY <1>2, <1>5 DEF funded
<1>7. \A d \in Custodies : /\ DivisionOf(custodies'[d]) = DivisionOf(custodies[d])
                           /\ custodies'[d].amount = IF d = c THEN plan.amount
                                                             ELSE custodies[d].amount
  BY <1>4, <1>5, <1>6
<1>8. \A d \in Custodies : Division(d)' = Division(d)
  BY <1>7 DEF Division, DivisionOf
<1>9. principalBar[c] = 0 /\ principalBar' = [principalBar EXCEPT ![c] = plan.amount]
  BY <1>4, <1>5, <1>7 DEF principalBar
<1>10. shareBar' = shareBar /\ deliveredBar' = deliveredBar
  BY <1>2, <1>8 DEF shareBar, deliveredBar
<1> QED
  BY <1>3, <1>9, <1>10
     DEF Promise!Fund, Promise!Principals, principalBar, shareBar, deliveredBar

\* A party's note is collected: the promise's Deliver.  The fee's note is not
\* the promise's concern.
LEMMA DeliverStep ==
    ASSUME IInv, NEW t \in Tokens, PoolCollect(t)
    PROVE  \/ UNCHANGED barVars
           \/ \E c \in Custodies, party \in Promise!Parties : Promise!Deliver(c, party)
<1>1. /\ open_note[t] \in OpenNote /\ open_note[t].amount > 0
      /\ open_note[t].custody \in custody_exists
      /\ custodies[open_note[t].custody].token = t
      /\ custody_exists \subseteq Custodies
  BY DEF PoolCollect, IInv, TypeOK, NotesBelong, OpenNote
<1>2. PICK c \in Custodies, to \in Recipients, amount \in Nat :
            /\ c = open_note[t].custody /\ to = open_note[t].to
            /\ amount = open_note[t].amount
  BY <1>1 DEF OpenNote
<1>3. c \in custody_exists /\ amount > 0 /\ custodies[c].token = t
  BY <1>1, <1>2
<1>4. /\ paid' = [paid EXCEPT ![c][to] = @ + amount]
      /\ UNCHANGED custodies
      /\ paid \in [Custodies -> [Recipients -> Nat]]
  BY <1>2 DEF PoolCollect, IInv, TypeOK
<1>5. Uncollected(c, to) = amount
  BY <1>2, <1>3 DEF Uncollected
<1>6. paid[c][to] = 0
  BY <1>3, <1>5 DEF IInv, PaidOnce
<1>7. \A d \in Custodies, x \in Recipients :
         paid'[d][x] = IF d = c /\ x = to THEN amount ELSE paid[d][x]
  BY <1>4, <1>6
<1>8. principalBar' = principalBar /\ shareBar' = shareBar
  BY <1>4 DEF principalBar, shareBar, Division
<1>9. CASE to = Revenue
  BY <1>7, <1>8, <1>9 DEF barVars, deliveredBar
<1>10. CASE to \in Roles
  <2>1. paid[c][to] + Uncollected(c, to) = Due(c, to)
    BY <1>3, <1>10 DEF IInv, PaidAsDecided
  <2>2. Division(c)[to] = amount
    BY <1>3, <1>5, <1>6, <1>10, <2>1 DEF Due, DueOf, Division
  <2>3. shareBar[c][to] = amount /\ deliveredBar[c][to] = 0
    BY <1>6, <1>10, <2>2 DEF shareBar, deliveredBar
  <2>4. deliveredBar' = [deliveredBar EXCEPT ![c][to] = amount]
    <3>1. deliveredBar \in [Custodies -> [Roles -> Nat]]
      BY <1>4 DEF deliveredBar
    <3>2. deliveredBar' = [d \in Custodies |-> [role \in Roles |-> paid'[d][role]]]
      BY DEF deliveredBar
    <3>3. \A d \in Custodies :
             [role \in Roles |-> paid'[d][role]] =
             IF d = c THEN [deliveredBar[c] EXCEPT ![to] = amount] ELSE deliveredBar[d]
      BY <1>7, <1>10 DEF deliveredBar
    <3>4. deliveredBar' = [d \in Custodies |->
             IF d = c THEN [deliveredBar[c] EXCEPT ![to] = amount] ELSE deliveredBar[d]]
      BY <3>2, <3>3
    <3> QED
      BY <3>1, <3>4
  <2>5. Promise!Deliver(c, to)
    <3>1. deliveredBar' = [deliveredBar EXCEPT ![c][to] = shareBar[c][to]]
      BY <2>3, <2>4
    <3>2. shareBar[c][to] # 0 /\ deliveredBar[c][to] = 0
      BY <1>3, <2>3
    <3> QED
      BY <1>8, <3>1, <3>2, Zenon
         DEF Promise!Deliver, principalBar, shareBar, deliveredBar
  <2> QED
    BY <1>10, <2>5 DEF Promise!Parties
<1> QED
  BY <1>9, <1>10

-----------------------------------------------------------------------------
\* Every entry point is a step of the promise or hidden from it.
LEMMA CallStep ==
    ASSUME IInv, NEW c \in Custodies, CustodyNext(c)
    PROVE  UNCHANGED barVars \/ Promise!Fund(c) \/ Promise!Divide(c)
<1> DEFINE r == custodies[c]
<1>1. CASE DepositStep(c)
  BY <1>1, FundStep
<1>2. CASE \/ SubmitStep(c) \/ ConfirmStep(c) \/ VerifyStep(c)
           \/ RevisionStep(c) \/ DisputeStep(c)
  <2>1. Open(c)
    BY <1>2 DEF SubmitStep, SubmitFulfillment, CanSubmit, ConfirmStep,
       ConfirmFulfillment, VerifyStep, ConfirmExternalFulfillment, CanConfirm,
       RevisionStep, RequestRevision, CanRequestRevision, DisputeStep,
       OpenDispute, CanOpenDispute
  <2>2. r \in Custody /\ custodies \in [Custodies -> Custody]
    BY <2>1, OpenFacts DEF IInv, TypeOK
  <2>3. UNCHANGED paid /\ custodies'[c].amount = r.amount
        /\ custodies'[c].resolution_authorized = r.resolution_authorized
        /\ custodies'[c].resolution_amount = r.resolution_amount
        /\ custodies'[c].consumed = r.consumed /\ custodies'[c].refunded = r.refunded
        /\ \A d \in Custodies \ {c} : custodies'[d] = custodies[d]
    <3> USE <2>2 DEF Store, Custody
    <3>1. CASE SubmitStep(c)
      <4>1. PICK secret \in 1..MAX_FULFILLMENT_ROUNDS, e \in Evidence :
                   SubmitFulfillment(c, secret, e)
        BY <3>1 DEF SubmitStep
      <4> DEFINE m == Submitted(r, secret, e)
                 u == [m EXCEPT !.fulfillment_confirmed = FALSE, !.review_deadline = 0]
      <4>2. m.amount = r.amount /\ m.resolution_authorized = r.resolution_authorized
            /\ m.resolution_amount = r.resolution_amount
            /\ m.consumed = r.consumed /\ m.refunded = r.refunded
        BY DEF Submitted
      <4>3. UNCHANGED paid /\ (\/ custodies' = [custodies EXCEPT ![c] = StartReview(m)]
                               \/ custodies' = [custodies EXCEPT ![c] = u])
        BY <4>1 DEF SubmitFulfillment
      <4>4. m \in Custody
        <5>1. r.fulfillment_rounds_remaining - 1 \in Nat
          BY <4>1 DEF SubmitFulfillment, CanSubmit
        <5>2. secret \in Nat /\ e \in Evidence /\ now \in Nat
          BY <4>1, LimitsAssumption DEF IInv, TypeOK
        <5> QED
          BY <5>1, <5>2 DEF Submitted
      <4> HIDE DEF m
      <4>5. CASE custodies' = [custodies EXCEPT ![c] = StartReview(m)]
        BY <4>2, <4>3, <4>4, <4>5 DEF StartReview
      <4>6. CASE custodies' = [custodies EXCEPT ![c] = u]
        BY <4>2, <4>3, <4>4, <4>6
      <4> QED
        BY <4>3, <4>5, <4>6
    <3>2. CASE ConfirmStep(c) \/ VerifyStep(c)
      <4>1. UNCHANGED paid /\ custodies' = [custodies EXCEPT ![c] = StartReview(r)]
        BY <3>2 DEF ConfirmStep, ConfirmFulfillment, VerifyStep,
           ConfirmExternalFulfillment
      <4> QED
        BY <4>1 DEF StartReview
    <3>3. CASE RevisionStep(c)
      BY <3>3 DEF RevisionStep, RequestRevision
    <3>4. CASE DisputeStep(c)
      BY <3>4 DEF DisputeStep, OpenDispute
    <3> QED
      BY <1>2, <3>1, <3>2, <3>3, <3>4
  <2>4. \A d \in Custodies : /\ custodies'[d].amount = custodies[d].amount
                             /\ Division(d)' = Division(d)
    BY <2>3 DEF Division
  <2> QED
    BY <2>3, <2>4 DEF barVars, principalBar, shareBar, deliveredBar
<1>3. CASE ResolveStep(c)
  <2>1. PICK x, y \in 0..MAX_U128 : AuthorizeDisputeResolution(c, x, y)
    BY <1>3 DEF ResolveStep
  <2> DEFINE division == [role \in Roles |-> IF role = Payer THEN x ELSE y]
             claims == [role \in Roles |->
                          ZeroShareClaimed(IF role = Payer THEN x ELSE y)]
             s == [r EXCEPT !.resolution_amount = division,
                            !.resolution_authorized = TRUE,
                            !.resolution_claimed = claims]
  <2>2. /\ Open(c) /\ ~r.resolution_authorized /\ x + y = r.amount
        /\ custodies' = [custodies EXCEPT ![c] = s] /\ UNCHANGED paid
    BY <2>1 DEF AuthorizeDisputeResolution, CanAuthorize, Store
  <2>3. /\ division \in [Roles -> Nat] /\ claims \in [Roles -> BOOLEAN]
        /\ division[Payer] + division[Payee] = r.amount
    BY <2>2, LimitsAssumption DEF ZeroShareClaimed
  <2>4. r \in Custody
    BY <2>2, OpenFacts
  <2> HIDE DEF division, claims
  <2>5. s \in Custody /\ s.amount = r.amount /\ DivisionOf(s) = division
    BY <2>3, <2>4 DEF Custody, DivisionOf
  <2> HIDE DEF s
  <2> QED
    BY <2>2, <2>3, <2>5, DivideStep
<1>4. ASSUME NEW isRefund \in BOOLEAN, NEW signers \in SUBSET Roles,
             Open(c), ~r.resolution_authorized,
             FinalizeFullOutput(c, isRefund, signers)
      PROVE  Promise!Divide(c)
  <2> DEFINE s == [r EXCEPT !.consumed = TRUE, !.refunded = isRefund, !.settled_at = now]
             division == [role \in Roles |->
                            IF isRefund = (role = Payer) THEN r.amount ELSE 0]
  <2>1. custodies' = [custodies EXCEPT ![c] = s] /\ UNCHANGED paid
    BY <1>4 DEF FinalizeFullOutput
  <2>2. r \in Custody /\ now \in Nat
    BY <1>4, OpenFacts
  <2>3. s \in Custody /\ s.amount = r.amount /\ DivisionOf(s) = division
    BY <1>4, <2>2 DEF Custody, DivisionOf
  <2>4. /\ division \in [Roles -> Nat]
        /\ division[Payer] + division[Payee] = r.amount
    BY <2>2 DEF Custody
  <2> HIDE DEF s, division
  <2> QED
    BY <1>4, <2>1, <2>3, <2>4, DivideStep
<1>5. CASE ReleaseStep(c) \/ MutualRefundStep(c)
  BY <1>4, <1>5 DEF ReleaseStep, ReleaseCustody, CanRelease, MutualRefundStep,
     MutualRefund, CanMutualRefund, NoResolution
<1>6. CASE AutoReleaseStep(c) \/ RefundStep(c)
  <2>1. Open(c) /\ ~r.disputed
    BY <1>6 DEF AutoReleaseStep, AutoRelease, CanAutoRelease, RefundStep,
       RefundNoFulfillment, CanRefund
  <2>2. ~r.resolution_authorized
    BY <2>1, UndisputedUnresolved
  <2> QED
    BY <1>4, <1>6, <2>1, <2>2 DEF AutoReleaseStep, AutoRelease, RefundStep,
       RefundNoFulfillment
<1>7. CASE \E role \in Roles : ClaimStep(c, role)
  <2>1. PICK role \in Roles, signers \in SUBSET Roles : ClaimResolution(c, role, signers)
    BY <1>7 DEF ClaimStep
  <2>2. r \in Custody /\ custodies \in [Custodies -> Custody] /\ r.resolution_authorized
    BY <2>1 DEF ClaimResolution, CanClaim, IInv, TypeOK
  <2>3. UNCHANGED paid /\ custodies'[c].amount = r.amount
        /\ custodies'[c].resolution_authorized
        /\ custodies'[c].resolution_amount = r.resolution_amount
        /\ \A d \in Custodies \ {c} : custodies'[d] = custodies[d]
    BY <2>1, <2>2 DEF ClaimResolution, Custody
  <2>4. \A d \in Custodies : /\ custodies'[d].amount = custodies[d].amount
                             /\ Division(d)' = Division(d)
    BY <2>2, <2>3 DEF Division
  <2> QED
    BY <2>3, <2>4 DEF barVars, principalBar, shareBar, deliveredBar
<1> QED
  BY <1>1, <1>2, <1>3, <1>5, <1>6, <1>7 DEF CustodyNext

\* The contract keeps the promise: a principal is divided once and each party is
\* delivered its share once, whatever the order of calls and collections.
THEOREM PromiseKept == Spec => KeepsPromise
<1>1. Init => Promise!Init
  BY DEF Init, Promise!Init, Promise!Undivided, Promise!Parties, Unfunded, Division
<1>2. IInv /\ [Next]_vars => [Promise!Next]_(Promise!vars)
  <2> SUFFICES ASSUME IInv, [Next]_vars PROVE Promise!Next \/ UNCHANGED barVars
    BY DEF Promise!vars, barVars, principalBar, shareBar, deliveredBar
  <2>1. ASSUME NEW c \in Custodies, CustodyNext(c)
        PROVE  Promise!Next \/ UNCHANGED barVars
    BY <2>1, CallStep DEF Promise!Next
  <2>2. ASSUME NEW t \in Tokens, PoolCollect(t)
        PROVE  Promise!Next \/ UNCHANGED barVars
    BY <2>2, DeliverStep DEF Promise!Next
  <2>3. CASE Tick \/ UNCHANGED vars
    BY <2>3 DEF Tick, vars, barVars, principalBar, shareBar, deliveredBar, Division
  <2> QED
    BY <2>1, <2>2, <2>3 DEF Next
<1> QED
  BY <1>1, <1>2, Invariance, PTL DEF Spec, KeepsPromise, Promise!Safe

-----------------------------------------------------------------------------
(* The public rail.  It uses the contract as the specification of the        *)
(* contract allows, so what is proved above holds under the rail; its own    *)
(* properties follow from what relates the drain it owes to the helper's     *)
(* open note.                                                                *)

\* Every step of the rail is a step of the custody contract or leaves it alone.
LEMMA RailStepIsEscrowStep ==
    ASSUME TypeOK, RailTypeOK, RailNext PROVE Next \/ UNCHANGED vars
<1>1. CASE \E a \in Accounts : BeginTx(a)
  BY <1>1 DEF BeginTx
<1>2. CASE EndTx \/ PostMessage
  BY <1>2 DEF EndTx, PostMessage
<1>3. ASSUME NEW c \in Custodies, NEW payee \in Accounts, NEW plan \in Plans,
             NEW recipients \in [Roles -> Accounts],
             FundCustody(c, payee, plan, recipients)
      PROVE  Next
  <2>1. DepositStep(c)
    BY <1>3 DEF FundCustody, DepositStep
  <2> QED
    BY <2>1 DEF CustodyNext, Next
<1>4. ASSUME NEW c \in Custodies, NEW op \in Operations, NEW role \in Roles,
             ActCustody(c, op, role)
      PROVE  Next
  <2>1. HelperCall(c, op, role)
    BY <1>4 DEF ActCustody
  <2>2. CustodyNext(c)
    BY <2>1 DEF HelperCall, CustodyNext, DisputeStep
  <2> QED
    BY <2>2 DEF Next
<1>5. CASE Drain
  <2>1. PoolCollect(custodies[call.custody].token)
    BY <1>5 DEF Drain
  <2>2. custodies[call.custody].token \in Tokens
    BY <1>5 DEF Drain, RailTypeOK, Call, TypeOK, Custody
  <2> QED
    BY <2>1, <2>2 DEF Next
<1>6. CASE \E c \in Custodies, role \in Roles : ClaimCertificate(c, role)
  BY <1>6 DEF ClaimCertificate
<1>7. CASE Outside
  BY <1>7 DEF Outside, Next, CustodyNext
<1> QED
  BY <1>1, <1>2, <1>3, <1>4, <1>5, <1>6, <1>7 DEF RailNext

-----------------------------------------------------------------------------
(* What the helper's calls do to notes and payments.                         *)

\* A funded custody keeps its token, a settled one its whole record.
RecordsKept ==
    \A d \in Custodies :
        /\ d \in custody_exists => custodies'[d].token = custodies[d].token
        /\ custodies[d].consumed => custodies'[d] = custodies[d]

\* A call that touches no note and no payment.
QuietStep ==
    /\ custody_exists' = custody_exists /\ paid' = paid /\ open_note' = open_note
    /\ RecordsKept

LEMMA StoreIsQuiet ==
    ASSUME IInv, NEW c \in Custodies, NEW r, Store(c, r), Open(c),
           r.token = custodies[c].token
    PROVE  QuietStep
  BY DEF IInv, TypeOK, Store, Open, QuietStep, RecordsKept

\* A helper call with an output opens one note, for the role that calls and the
\* amount the rail computed from the record before.
LEMMA OutputOpensNote ==
    ASSUME IInv, NEW c \in Custodies, NEW op \in Operations, NEW role \in RolesOf(op),
           HasOutput(op), HelperCall(c, op, role)
    PROVE  /\ c \in custody_exists
           /\ custody_exists' = custody_exists
           /\ paid' = paid
           /\ Amount(c, op, role) \in Nat \ {0}
           /\ open_note' = [open_note EXCEPT ![custodies[c].token] =
                  [custody |-> c, to |-> role, amount |-> Amount(c, op, role)]]
           /\ RecordsKept
<1> DEFINE r == custodies[c]
           Opens == open_note' = [open_note EXCEPT ![custodies[c].token] =
                     [custody |-> c, to |-> role, amount |-> Amount(c, op, role)]]
<1>1. /\ custodies \in [Custodies -> Custody] /\ r \in Custody
      /\ r.amount \in Nat
      /\ \A role1 \in Roles : r.resolution_amount[role1] \in Nat
  BY DEF IInv, TypeOK, Custody
<1>2. ASSUME NEW isRefund \in BOOLEAN, NEW s, FinalizeFullOutput(c, isRefund, s), Open(c),
             op # "claim", role = (IF isRefund THEN Payer ELSE Payee)
      PROVE  /\ c \in custody_exists
             /\ custody_exists' = custody_exists
             /\ paid' = paid
             /\ Amount(c, op, role) \in Nat \ {0}
             /\ Opens
             /\ RecordsKept
  <2>1. Amount(c, op, role) = r.amount
    BY <1>2 DEF Amount
  <2>2. RecordsKept
    BY <1>1, <1>2 DEF FinalizeFullOutput, RecordsKept, Open, Custody
  <2> QED
    BY <1>1, <1>2, <2>1, <2>2 DEF FinalizeFullOutput, PrepareOutput, ApproveExact, Open
<1>3. CASE op = "release"
  BY <1>2, <1>3 DEF HelperCall, ReleaseStep, ReleaseCustody, CanRelease, RolesOf
<1>4. CASE op = "refund"
  BY <1>2, <1>4 DEF HelperCall, RefundStep, RefundNoFulfillment, CanRefund, RolesOf
<1>5. CASE op = "auto_release"
  BY <1>2, <1>5 DEF HelperCall, AutoReleaseStep, AutoRelease, CanAutoRelease, RolesOf
<1>6. CASE op = "mutual_refund"
  BY <1>2, <1>6 DEF HelperCall, MutualRefundStep, MutualRefund, CanMutualRefund, RolesOf
<1>7. CASE op = "claim"
  <2>1. PICK s \in SUBSET Roles : ClaimResolution(c, role, s)
    BY <1>7 DEF HelperCall, ClaimStep
  <2>2. role \in Roles
    BY <1>7 DEF RolesOf
  <2>3. RecordsKept
    BY <1>1, <2>1 DEF ClaimResolution, CanClaim, RecordsKept, Open, Custody
  <2>4. Amount(c, op, role) = r.resolution_amount[role]
    BY <1>7 DEF Amount
  <2> QED
    BY <1>1, <2>1, <2>2, <2>3, <2>4
    DEF ClaimResolution, CanClaim, Open, PrepareOutput, ApproveExact
<1> QED
  BY <1>3, <1>4, <1>5, <1>6, <1>7 DEF HasOutput

\* The other calls of a party are quiet.
LEMMA QuietCall ==
    ASSUME IInv, NEW c \in Custodies, NEW op \in Operations, NEW role \in RolesOf(op),
           ~HasOutput(op), HelperCall(c, op, role)
    PROVE  QuietStep
<1>1. custodies[c] \in Custody
  BY DEF IInv, TypeOK
<1>2. CASE op = "submit"
  <2>1. PICK secret \in 1..MAX_FULFILLMENT_ROUNDS, e \in Evidence :
            SubmitFulfillment(c, secret, e)
    BY <1>2 DEF HelperCall, SubmitStep
  <2>2. /\ Submitted(custodies[c], secret, e).token = custodies[c].token
        /\ StartReview(Submitted(custodies[c], secret, e)).token = custodies[c].token
    BY <1>1 DEF Submitted, StartReview, Custody
  <2> QED
    BY <1>1, <2>1, <2>2, StoreIsQuiet DEF SubmitFulfillment, CanSubmit, Submitted, Custody
<1>3. CASE op = "request_revision"
  BY <1>1, <1>3, StoreIsQuiet
  DEF HelperCall, RevisionStep, RequestRevision, CanRequestRevision, Custody
<1>4. CASE op = "open_dispute"
  BY <1>1, <1>4, StoreIsQuiet DEF HelperCall, OpenDispute, CanOpenDispute, Custody
<1>5. CASE op = "confirm"
  BY <1>1, <1>5, StoreIsQuiet
  DEF HelperCall, ConfirmStep, ConfirmFulfillment, CanConfirm, StartReview, Custody
<1> QED
  BY <1>2, <1>3, <1>4, <1>5 DEF HelperCall, HasOutput

\* So are the verifier, the resolver and the clock.
LEMMA OutsideIsQuiet ==
    ASSUME IInv, Outside PROVE QuietStep
<1>1. CASE Tick
  BY <1>1 DEF Tick, QuietStep, RecordsKept
<1>2. ASSUME NEW c \in Custodies, VerifyStep(c) PROVE QuietStep
  <2>1. custodies[c] \in Custody
    BY DEF IInv, TypeOK
  <2> QED
    BY <1>2, <2>1, StoreIsQuiet
    DEF VerifyStep, ConfirmExternalFulfillment, CanConfirm, StartReview, Custody
<1>3. ASSUME NEW c \in Custodies, ResolveStep(c) PROVE QuietStep
  <2>1. custodies[c] \in Custody
    BY DEF IInv, TypeOK
  <2> QED
    BY <1>3, <2>1, StoreIsQuiet
    DEF ResolveStep, AuthorizeDisputeResolution, CanAuthorize, Custody
<1> QED
  BY <1>1, <1>2, <1>3 DEF Outside

\* A deposit opens one note, for the treasury and the fee.
LEMMA DepositOpensNote ==
    ASSUME IInv, NEW c \in Custodies, NEW plan \in Plans, NEW sent, Deposit(c, plan, sent)
    PROVE  /\ c \notin custody_exists
           /\ custody_exists' = custody_exists \cup {c}
           /\ paid' = paid
           /\ plan.quoted_fee \in Nat \ {0}
           /\ plan.token \in Tokens
           /\ custodies'[c].token = plan.token
           /\ open_note' = [open_note EXCEPT ![plan.token] =
                  [custody |-> c, to |-> Revenue, amount |-> plan.quoted_fee]]
           /\ RecordsKept
<1>1. /\ plan \in Plan /\ plan.quoted_fee \in Nat /\ plan.token \in Tokens
      /\ custodies \in [Custodies -> Custody]
  BY PlansAssumption DEF Plan, IInv, TypeOK
<1>2. c \notin custody_exists /\ custodies[c] = Unfunded
  BY DEF Deposit, FreshCustody, IInv, Unwritten
<1>3. Funded(plan).token = plan.token /\ ~Unfunded.consumed
  BY DEF Funded, Unfunded
<1>4. plan.quoted_fee # 0
  BY DEF Deposit, ValidPlan
<1> QED
  BY <1>1, <1>2, <1>3, <1>4 DEF Deposit, ApproveExact, RecordsKept

-----------------------------------------------------------------------------
(* The invariant that relates the rail to the helper's notes.                *)

\* The binding of a custody is made with its record, to two accounts.
BoundTogether ==
    \A c \in Custodies :
        IF c \in custody_exists
          THEN payers[c] \in Accounts /\ payees[c] \in Accounts /\ payers[c] # payees[c]
          ELSE payers[c] = NoAccount /\ payees[c] = NoAccount

\* The only open note is the one the running call is about to drain, and it is for
\* the account that will get it.
NoteIsOwed ==
    /\ \A t \in Tokens :
         open_note[t].amount # 0 =>
            call # Idle /\ t = custodies[call.custody].token
    /\ call # Idle =>
         LET note == open_note[custodies[call.custody].token] IN
         /\ call.custody \in custody_exists
         /\ note.custody = call.custody /\ note.amount = call.amount
         /\ IF note.to = Revenue THEN call.to = NoAccount
                                 ELSE call.to = PartyOf(call.custody, note.to)

RailInv == RailTypeOK /\ BoundTogether /\ NoteIsOwed /\ HandedAsDecided

\* Initially nothing is bound, owed or handed.
LEMMA RailInitInv == RailInit => RailInv
<1> SUFFICES ASSUME RailInit PROVE RailInv
  OBVIOUS
<1>1. RailTypeOK
  BY DEF RailInit, RailTypeOK, Party, MessageTimes
<1>2. BoundTogether /\ NoteIsOwed
  BY DEF RailInit, Init, BoundTogether, NoteIsOwed, NoNote
<1>3. HandedAsDecided
  BY AccountsAssumption DEF RailInit, Init, HandedAsDecided
<1> QED
  BY <1>1, <1>2, <1>3 DEF RailInv

\* A step of the rail alone, or a quiet one of the helper, keeps the relation.
LEMMA QuietKeepsNotes ==
    ASSUME IInv, RailInv, QuietStep, UNCHANGED <<payers, payees, call, handed>>
    PROVE  BoundTogether' /\ NoteIsOwed' /\ HandedAsDecided'
<1>1. BoundTogether'
  BY DEF RailInv, BoundTogether, QuietStep
<1>2. NoteIsOwed'
  <2>1. call # Idle => /\ call.custody \in custody_exists /\ call.custody \in Custodies
                       /\ custodies'[call.custody].token = custodies[call.custody].token
    BY DEF RailInv, NoteIsOwed, QuietStep, RecordsKept, IInv, TypeOK
  <2> QED
    BY <2>1 DEF RailInv, NoteIsOwed, QuietStep, PartyOf, Idle
<1>3. HandedAsDecided'
  BY DEF RailInv, HandedAsDecided, QuietStep
<1> QED
  BY <1>1, <1>2, <1>3

\* An unchanged helper is quiet.
LEMMA UnchangedIsQuiet == UNCHANGED vars => QuietStep
  BY DEF vars, QuietStep, RecordsKept

\* fund_custody binds the accounts and owes the fee to the treasury.
LEMMA FundKeeps ==
    ASSUME IInv, RailInv, NEW c \in Custodies, NEW payee \in Accounts, NEW plan \in Plans,
           NEW recipients \in [Roles -> Accounts], FundCustody(c, payee, plan, recipients)
    PROVE  RailInv'
<1>1. /\ tx \in Accounts /\ payee # tx /\ call = Idle /\ payers[c] = NoAccount
      /\ Deposit(c, plan, plan.amount + plan.quoted_fee)
      /\ payers' = [payers EXCEPT ![c] = tx] /\ payees' = [payees EXCEPT ![c] = payee]
      /\ call' = [custody |-> c, amount |-> plan.quoted_fee, to |-> NoAccount,
                  workflow_fee |-> FALSE]
      /\ handed' = handed
  BY DEF FundCustody, Enter, Bindable, RailInv, RailTypeOK, Party
<1>2. /\ c \notin custody_exists
      /\ custody_exists' = custody_exists \cup {c}
      /\ paid' = paid
      /\ plan.quoted_fee \in Nat \ {0}
      /\ plan.token \in Tokens
      /\ custodies'[c].token = plan.token
      /\ open_note' = [open_note EXCEPT ![plan.token] =
             [custody |-> c, to |-> Revenue, amount |-> plan.quoted_fee]]
  BY <1>1, DepositOpensNote
<1>3. RailTypeOK'
  <2>1. call' \in Call
    BY <1>1, <1>2 DEF Call, Party
  <2> QED
    BY <1>1, <2>1 DEF FundCustody, RailInv, RailTypeOK, Party
<1>4. BoundTogether'
  BY <1>1, <1>2, AccountsAssumption DEF RailInv, BoundTogether, RailTypeOK
<1>5. NoteIsOwed'
  <2>1. call' # Idle
    BY <1>1, NoCustodyAssumption DEF Idle
  <2>2. \A t \in Tokens : open_note[t].amount = 0
    BY <1>1 DEF RailInv, NoteIsOwed
  <2>3. open_note \in [Tokens -> OpenNote]
    BY DEF IInv, TypeOK
  <2> QED
    BY <1>1, <1>2, <2>1, <2>2, <2>3 DEF NoteIsOwed
<1>6. HandedAsDecided'
  <2>1. payees[c] = NoAccount
    BY <1>2 DEF RailInv, BoundTogether
  <2>2. paid[c][Payer] = 0 /\ paid[c][Payee] = 0
    BY <1>2 DEF IInv, PaidOnce
  <2>3. \A a \in Accounts : handed[c][a] = 0
    BY <1>1, <2>1, <2>2, AccountsAssumption DEF RailInv, HandedAsDecided
  <2>4. \A d \in Custodies : d # c =>
            /\ payers'[d] = payers[d] /\ payees'[d] = payees[d]
            /\ d \in custody_exists' => d \in custody_exists
    BY <1>1, <1>2
  <2>5. payers'[c] = tx /\ payees'[c] = payee
    BY <1>1 DEF RailInv, RailTypeOK
  <2> QED
    BY <1>1, <1>2, <2>2, <2>3, <2>4, <2>5, AccountsAssumption DEF RailInv, HandedAsDecided
<1> QED
  BY <1>3, <1>4, <1>5, <1>6 DEF RailInv

\* act_custody with an output owes it to the account that calls.
LEMMA ActWithOutputKeeps ==
    ASSUME IInv, RailInv, NEW c \in Custodies, NEW op \in Operations, NEW role \in Roles,
           ActCustody(c, op, role), HasOutput(op)
    PROVE  RailInv'
<1>1. /\ tx \in Accounts /\ call = Idle /\ payers[c] # NoAccount
      /\ role \in RolesOf(op) /\ tx = PartyOf(c, role) /\ HelperCall(c, op, role)
      /\ call' = [custody |-> c, amount |-> Amount(c, op, role), to |-> tx,
                  workflow_fee |-> OwesWorkflowFee(tx, op)]
      /\ UNCHANGED <<payers, payees, certificate_to, certificates, last_message_tx, tx,
                     charged, handed>>
      /\ acted' = (acted \/ Chargeable(op))
  BY DEF ActCustody, Enter, RailInv, RailTypeOK, Party
<1>2. /\ c \in custody_exists /\ custody_exists' = custody_exists
      /\ paid' = paid
      /\ Amount(c, op, role) \in Nat \ {0}
      /\ open_note' = [open_note EXCEPT ![custodies[c].token] =
             [custody |-> c, to |-> role, amount |-> Amount(c, op, role)]]
      /\ RecordsKept
  BY <1>1, OutputOpensNote
<1>3. custodies'[c].token = custodies[c].token /\ custodies[c].token \in Tokens
  BY <1>2 DEF RecordsKept, IInv, TypeOK, Custody
<1>4. RailTypeOK'
  <2>1. OwesWorkflowFee(tx, op) \in BOOLEAN /\ Chargeable(op) \in BOOLEAN
    BY DEF OwesWorkflowFee, Chargeable
  <2>2. call' \in Call
    BY <1>1, <1>2, <2>1 DEF Call, Party
  <2>3. acted' \in BOOLEAN
    BY <1>1, <2>1 DEF RailInv, RailTypeOK
  <2> QED
    BY <1>1, <2>2, <2>3 DEF RailInv, RailTypeOK
<1>5. BoundTogether'
  BY <1>1, <1>2 DEF RailInv, BoundTogether
<1>6. NoteIsOwed'
  <2>1. call' # Idle
    BY <1>1, NoCustodyAssumption DEF Idle
  <2>2. \A t \in Tokens : open_note[t].amount = 0
    BY <1>1 DEF RailInv, NoteIsOwed
  <2>3. open_note \in [Tokens -> OpenNote]
    BY DEF IInv, TypeOK
  <2>4. PartyOf(c, role)' = PartyOf(c, role) /\ role # Revenue
    BY <1>1 DEF PartyOf
  <2> QED
    BY <1>1, <1>2, <1>3, <2>1, <2>2, <2>3, <2>4 DEF NoteIsOwed
<1>7. HandedAsDecided'
  BY <1>1, <1>2 DEF RailInv, HandedAsDecided
<1> QED
  BY <1>4, <1>5, <1>6, <1>7 DEF RailInv

\* act_custody without an output leaves notes and bindings alone.
LEMMA ActQuietKeeps ==
    ASSUME IInv, RailInv, NEW c \in Custodies, NEW op \in Operations, NEW role \in Roles,
           ActCustody(c, op, role), ~HasOutput(op)
    PROVE  RailInv'
<1>1. /\ role \in RolesOf(op) /\ HelperCall(c, op, role)
      /\ UNCHANGED <<payers, payees, certificate_to, certificates, last_message_tx, tx,
                     call, handed>>
      /\ acted' = (acted \/ Chargeable(op))
      /\ charged' = (charged \/ OwesWorkflowFee(tx, op))
  BY DEF ActCustody
<1>2. QuietStep
  BY <1>1, QuietCall
<1>3. RailTypeOK'
  BY <1>1 DEF RailInv, RailTypeOK, OwesWorkflowFee, Chargeable
<1> QED
  BY <1>1, <1>2, <1>3, QuietKeepsNotes DEF RailInv

\* The drain closes the note and hands its amount to the account it is owed to.
LEMMA DrainKeeps ==
    ASSUME IInv, RailInv, Drain, NEW c, c = call.custody,
           NEW t, t = custodies[c].token, NEW note, note = open_note[t]
    PROVE  RailInv'
<1>1. /\ call # Idle /\ PoolCollect(t) /\ call' = Idle
      /\ handed' = IF call.to = NoAccount THEN handed
                     ELSE [handed EXCEPT ![c][call.to] = @ + call.amount]
      /\ charged' = (charged \/ call.workflow_fee)
      /\ UNCHANGED <<payers, payees, certificate_to, certificates, last_message_tx, tx,
                     acted>>
  BY DEF Drain
<1>2. call \in Call /\ c \in Custodies /\ c \in custody_exists /\ t \in Tokens
  BY <1>1 DEF RailInv, RailTypeOK, Call, NoteIsOwed, IInv, TypeOK, Custody
<1>3. /\ note.custody = c /\ note.amount = call.amount
      /\ IF note.to = Revenue THEN call.to = NoAccount ELSE call.to = PartyOf(c, note.to)
      /\ note.to \in Recipients
  BY <1>1, <1>2 DEF RailInv, NoteIsOwed, IInv, TypeOK, OpenNote
<1>4. /\ open_note' = [open_note EXCEPT ![t] = NoNote]
      /\ paid' = [paid EXCEPT ![c][note.to] = @ + call.amount]
      /\ UNCHANGED <<custody_exists, custodies>>
  BY <1>1, <1>3 DEF PoolCollect
<1>5. payers[c] \in Accounts /\ payees[c] \in Accounts /\ payers[c] # payees[c]
  BY <1>2 DEF RailInv, BoundTogether
<1>6. RailTypeOK'
  <2>1. handed' \in [Custodies -> [Accounts -> Nat]]
    <3>1. call.to \in Accounts \cup {NoAccount} /\ call.amount \in Nat
      BY <1>2 DEF Call, Party
    <3>2. handed \in [Custodies -> [Accounts -> Nat]]
      BY DEF RailInv, RailTypeOK
    <3>3. \A a \in Accounts : handed[c][a] + call.amount \in Nat
      BY <1>2, <3>1, <3>2
    <3> QED
      BY <1>1, <1>2, <3>1, <3>2, <3>3
  <2>2. charged' \in BOOLEAN
    BY <1>1, <1>2 DEF RailInv, RailTypeOK, Call
  <2> QED
    BY <1>1, <2>1, <2>2 DEF RailInv, RailTypeOK
<1>7. BoundTogether'
  BY <1>1, <1>4 DEF RailInv, BoundTogether
<1>8. NoteIsOwed'
  BY <1>1, <1>2, <1>4 DEF RailInv, NoteIsOwed, NoNote, IInv, TypeOK
<1>9. HandedAsDecided'
  <2>1. ASSUME NEW d \in Custodies, NEW a \in Accounts
        PROVE  handed'[d][a] = (IF a = payers'[d] THEN paid'[d][Payer] ELSE 0)
                             + (IF a = payees'[d] THEN paid'[d][Payee] ELSE 0)
    <3>1. handed[d][a] = (IF a = payers[d] THEN paid[d][Payer] ELSE 0)
                       + (IF a = payees[d] THEN paid[d][Payee] ELSE 0)
      BY DEF RailInv, HandedAsDecided
    <3>2. /\ handed \in [Custodies -> [Accounts -> Nat]] /\ call.amount \in Nat
          /\ paid \in [Custodies -> [Recipients -> Nat]]
      BY <1>2 DEF RailInv, RailTypeOK, IInv, TypeOK, Call
    <3>3. payers' = payers /\ payees' = payees
      BY <1>1
    <3>4. CASE d # c
      BY <1>1, <1>2, <1>4, <3>1, <3>2, <3>3, <3>4
    <3>5. CASE d = c /\ note.to = Revenue
      BY <1>1, <1>2, <1>3, <1>4, <3>1, <3>2, <3>3, <3>5
    <3>6. CASE d = c /\ note.to = Payer
      <4>1. call.to = payers[c] /\ call.to # NoAccount
        BY <1>3, <1>5, <3>6, AccountsAssumption DEF PartyOf
      <4>2. paid'[c][Payer] = paid[c][Payer] + call.amount /\ paid'[c][Payee] = paid[c][Payee]
        BY <1>2, <1>4, <3>2, <3>6
      <4>3. handed'[c][a] = IF a = payers[c] THEN handed[c][a] + call.amount ELSE handed[c][a]
        BY <1>1, <1>2, <3>2, <4>1
      <4> QED
        BY <1>2, <1>5, <3>1, <3>2, <3>3, <3>6, <4>2, <4>3
    <3>7. CASE d = c /\ note.to = Payee
      <4>1. call.to = payees[c] /\ call.to # NoAccount
        BY <1>3, <1>5, <3>7, AccountsAssumption DEF PartyOf
      <4>2. paid'[c][Payee] = paid[c][Payee] + call.amount /\ paid'[c][Payer] = paid[c][Payer]
        BY <1>2, <1>4, <3>2, <3>7
      <4>3. handed'[c][a] = IF a = payees[c] THEN handed[c][a] + call.amount ELSE handed[c][a]
        BY <1>1, <1>2, <3>2, <4>1
      <4> QED
        BY <1>2, <1>5, <3>1, <3>2, <3>3, <3>7, <4>2, <4>3
    <3> QED
      BY <1>3, <3>4, <3>5, <3>6, <3>7
  <2> QED
    BY <1>1, <1>4, <2>1 DEF RailInv, HandedAsDecided
<1> QED
  BY <1>6, <1>7, <1>8, <1>9 DEF RailInv

\* Every step keeps the rail's invariant, given the helper's.
LEMMA RailNextKeeps ==
    ASSUME IInv, RailInv, [RailNext]_<<vars, railVars>>
    PROVE  RailInv'
<1>1. ASSUME UNCHANGED vars, UNCHANGED <<payers, payees, call, handed>>, RailTypeOK'
      PROVE  RailInv'
  BY <1>1, UnchangedIsQuiet, QuietKeepsNotes DEF RailInv
<1>2. ASSUME NEW a \in Accounts, BeginTx(a) PROVE RailInv'
  BY <1>1, <1>2 DEF BeginTx, RailInv, RailTypeOK, MessageTimes, Party
<1>3. CASE EndTx
  BY <1>1, <1>3 DEF EndTx, RailInv, RailTypeOK, Party
<1>4. CASE PostMessage
  BY <1>1, <1>4 DEF PostMessage, RailInv, RailTypeOK, MessageTimes
<1>5. ASSUME NEW c \in Custodies, NEW payee \in Accounts, NEW plan \in Plans,
             NEW recipients \in [Roles -> Accounts],
             FundCustody(c, payee, plan, recipients)
      PROVE  RailInv'
  BY <1>5, FundKeeps
<1>6. ASSUME NEW c \in Custodies, NEW op \in Operations, NEW role \in Roles,
             ActCustody(c, op, role)
      PROVE  RailInv'
  BY <1>6, ActWithOutputKeeps, ActQuietKeeps
<1>7. CASE Drain
  <2>1. PICK c : c = call.custody
    OBVIOUS
  <2>2. PICK t : t = custodies[c].token
    OBVIOUS
  <2>3. PICK note : note = open_note[t]
    OBVIOUS
  <2> QED
    BY <1>7, <2>1, <2>2, <2>3, DrainKeeps
<1>8. ASSUME NEW c \in Custodies, NEW role \in Roles, ClaimCertificate(c, role)
      PROVE  RailInv'
  BY <1>1, <1>8 DEF ClaimCertificate, RailInv, RailTypeOK, Enter
<1>9. CASE Outside
  <2>1. QuietStep /\ UNCHANGED railVars
    BY <1>9, OutsideIsQuiet DEF Outside
  <2>2. RailTypeOK'
    BY <2>1 DEF railVars, RailInv, RailTypeOK
  <2> QED
    BY <2>1, <2>2, QuietKeepsNotes DEF railVars, RailInv
<1>10. CASE UNCHANGED <<vars, railVars>>
  BY <1>1, <1>10 DEF railVars, RailInv, RailTypeOK
<1> QED
  BY <1>2, <1>3, <1>4, <1>5, <1>6, <1>7, <1>8, <1>9, <1>10 DEF RailNext

-----------------------------------------------------------------------------
(* Theorems.                                                                 *)

\* The helper's invariant and the rail's hold together in every reachable state.
THEOREM RailInvariance == RailSpec => [](IInv /\ RailInv)
<1>1. RailInit => IInv /\ RailInv
  BY InitIInv, RailInitInv DEF RailInit
<1>2. IInv /\ RailInv /\ [RailNext]_<<vars, railVars>> => (IInv /\ RailInv)'
  <2> SUFFICES ASSUME IInv, RailInv, [RailNext]_<<vars, railVars>>
               PROVE  IInv' /\ RailInv'
    OBVIOUS
  <2>1. [Next]_vars
    BY RailStepIsEscrowStep DEF IInv, RailInv
  <2> QED
    BY <2>1, NextKeeps, RailNextKeeps
<1> QED
  BY <1>1, <1>2, PTL DEF RailSpec

\* The rail uses the custody contract only as its specification allows: what holds
\* of the contract alone holds of the contract behind the rail.
THEOREM RailUsesEscrow == RailSpec => Spec
<1>1. RailInit => Init
  BY DEF RailInit
<1>2. IInv /\ RailInv /\ [RailNext]_<<vars, railVars>> => [Next]_vars
  <2> SUFFICES ASSUME IInv, RailInv, [RailNext]_<<vars, railVars>> PROVE [Next]_vars
    OBVIOUS
  <2> QED
    BY RailStepIsEscrowStep DEF IInv, RailInv
<1> QED
  BY <1>1, <1>2, RailInvariance, PTL DEF RailSpec, Spec

\* Every variable of the rail keeps its type, and no drain is owed for nothing.
THEOREM RailTypeCorrect == RailSpec => []RailTypeOK
<1>1. IInv /\ RailInv => RailTypeOK
  BY DEF RailInv
<1> QED
  BY <1>1, RailInvariance, PTL

\* What the rail hands to an account is what the helper paid to its role.
THEOREM HandedRightly == RailSpec => []HandedAsDecided
<1>1. IInv /\ RailInv => HandedAsDecided
  BY DEF RailInv
<1> QED
  BY <1>1, RailInvariance, PTL

\* The checks of drain never refuse an accepted call, and no allowance stays open.
THEOREM DrainsNeverFail == RailSpec => []DrainsMatch
<1>1. IInv /\ RailInv => DrainsMatch
  BY DEF RailInv, RailTypeOK, Call, NoteIsOwed, DrainsMatch, OutputMatches
<1> QED
  BY <1>1, RailInvariance, PTL

-----------------------------------------------------------------------------
(* Fees and certificates.                                                    *)

\* What was done has been paid, or will be by the drain that is owed; a message of
\* the running transaction has been paid.
FeeInv ==
    /\ acted => charged \/ (call # Idle /\ call.workflow_fee)
    /\ (tx # NoAccount /\ last_message_tx[tx] = "now") => charged

LEMMA FeeKeeps ==
    ASSUME RailInv, FeeInv, [RailNext]_<<vars, railVars>>
    PROVE  FeeInv'
<1>1. /\ tx \in Party /\ last_message_tx \in [Accounts -> MessageTimes]
  BY DEF RailInv, RailTypeOK
<1>2. ASSUME NEW a \in Accounts, BeginTx(a) PROVE FeeInv'
  BY <1>1, <1>2 DEF BeginTx, FeeInv, MessageTimes
<1>3. CASE EndTx
  BY <1>3 DEF EndTx, FeeInv
<1>4. CASE PostMessage
  BY <1>4 DEF PostMessage, FeeInv
<1>5. ASSUME NEW c \in Custodies, NEW payee \in Accounts, NEW plan \in Plans,
             NEW recipients \in [Roles -> Accounts],
             FundCustody(c, payee, plan, recipients)
      PROVE  FeeInv'
  BY <1>5 DEF FundCustody, Enter, FeeInv
<1>6. ASSUME NEW c \in Custodies, NEW op \in Operations, NEW role \in Roles,
             ActCustody(c, op, role)
      PROVE  FeeInv'
  <2>1. /\ tx # NoAccount /\ call = Idle /\ tx' = tx /\ last_message_tx' = last_message_tx
        /\ acted' = (acted \/ Chargeable(op))
        /\ Chargeable(op) => OwesWorkflowFee(tx, op) \/ last_message_tx[tx] = "now"
    BY <1>6 DEF ActCustody, Enter, Chargeable, OwesWorkflowFee, MessagePaid
  <2>2. CASE HasOutput(op)
    <3>1. /\ call' = [custody |-> c, amount |-> Amount(c, op, role), to |-> tx,
                      workflow_fee |-> OwesWorkflowFee(tx, op)]
          /\ charged' = charged
      BY <1>6, <2>2 DEF ActCustody
    <3>2. call' # Idle /\ call'.workflow_fee = OwesWorkflowFee(tx, op)
      BY <3>1, NoCustodyAssumption DEF Idle
    <3> QED
      BY <2>1, <3>1, <3>2 DEF FeeInv
  <2>3. CASE ~HasOutput(op)
    <3>1. charged' = (charged \/ OwesWorkflowFee(tx, op)) /\ call' = call
      BY <1>6, <2>3 DEF ActCustody
    <3> QED
      BY <2>1, <3>1 DEF FeeInv
  <2> QED
    BY <2>2, <2>3
<1>7. CASE Drain
  BY <1>7 DEF Drain, FeeInv
<1>8. ASSUME NEW c \in Custodies, NEW role \in Roles, ClaimCertificate(c, role)
      PROVE  FeeInv'
  BY <1>8 DEF ClaimCertificate, FeeInv
<1>9. CASE Outside \/ UNCHANGED <<vars, railVars>>
  BY <1>9 DEF Outside, railVars, FeeInv
<1> QED
  BY <1>2, <1>3, <1>4, <1>5, <1>6, <1>7, <1>8, <1>9 DEF RailNext

\* No chargeable operation is free: a fee or a message of the same transaction.
THEOREM EveryActionPaid == RailSpec => []NoFreeAction
<1>1. RailInit => FeeInv
  BY DEF RailInit, FeeInv
<1>2. RailInv /\ FeeInv /\ [RailNext]_<<vars, railVars>> => FeeInv'
  BY FeeKeeps
<1>3. FeeInv => NoFreeAction
  BY DEF FeeInv, NoFreeAction
<1> QED
  BY <1>1, <1>2, <1>3, RailInvariance, PTL DEF RailSpec

\* Certificates are for funded, cleanly settled custodies and the account named.
CertInv ==
    \A c \in Custodies, role \in Roles :
        certificates[c][role] # NoAccount =>
            /\ certificates[c][role] = certificate_to[c][role]
            /\ c \in custody_exists
            /\ CleanlySettled(c)

\* A step that keeps the records and the certificates keeps CertInv.
LEMMA SameCertificates ==
    ASSUME CertInv, RecordsKept, custody_exists \subseteq custody_exists',
           UNCHANGED <<certificates, certificate_to>>
    PROVE  CertInv'
  BY DEF CertInv, RecordsKept, CleanlySettled

LEMMA CertKeeps ==
    ASSUME IInv, RailInv, CertInv, [RailNext]_<<vars, railVars>>
    PROVE  CertInv'
<1>1. ASSUME UNCHANGED vars, UNCHANGED <<certificates, certificate_to>> PROVE CertInv'
  BY <1>1 DEF vars, CertInv, CleanlySettled
<1>2. CASE (\E a \in Accounts : BeginTx(a)) \/ EndTx \/ PostMessage
  BY <1>1, <1>2 DEF BeginTx, EndTx, PostMessage
<1>3. ASSUME NEW c \in Custodies, NEW payee \in Accounts, NEW plan \in Plans,
             NEW recipients \in [Roles -> Accounts],
             FundCustody(c, payee, plan, recipients)
      PROVE  CertInv'
  <2>1. /\ c \notin custody_exists /\ custody_exists' = custody_exists \cup {c}
        /\ RecordsKept
    BY <1>3, DepositOpensNote DEF FundCustody
  <2>2. /\ certificates' = certificates
        /\ certificate_to' = [certificate_to EXCEPT ![c] = recipients]
    BY <1>3 DEF FundCustody
  <2> QED
    BY <2>1, <2>2 DEF CertInv, RecordsKept, CleanlySettled
<1>4. ASSUME NEW c \in Custodies, NEW op \in Operations, NEW role \in Roles,
             ActCustody(c, op, role)
      PROVE  CertInv'
  <2>1. /\ role \in RolesOf(op) /\ HelperCall(c, op, role)
        /\ UNCHANGED <<certificates, certificate_to>>
    BY <1>4 DEF ActCustody
  <2>2. RecordsKept /\ custody_exists' = custody_exists
    BY <2>1, OutputOpensNote, QuietCall DEF QuietStep
  <2> QED
    BY <2>1, <2>2, SameCertificates
<1>5. CASE Drain
  BY <1>5, SameCertificates DEF Drain, PoolCollect, RecordsKept
<1>6. ASSUME NEW c \in Custodies, NEW role \in Roles, ClaimCertificate(c, role)
      PROVE  CertInv'
  <2>1. c \in custody_exists
    <3>1. custodies[c].consumed
      BY <1>6 DEF ClaimCertificate, CleanlySettled
    <3>2. ~Unfunded.consumed
      BY DEF Unfunded
    <3> QED
      BY <3>1, <3>2 DEF IInv, Unwritten
  <2> QED
    BY <1>6, <2>1 DEF ClaimCertificate, vars, CertInv, CleanlySettled, RailInv, RailTypeOK
<1>7. CASE Outside
  BY <1>7, OutsideIsQuiet, SameCertificates DEF Outside, railVars, QuietStep
<1>8. CASE UNCHANGED <<vars, railVars>>
  BY <1>1, <1>8 DEF railVars
<1> QED
  BY <1>2, <1>3, <1>4, <1>5, <1>6, <1>7, <1>8 DEF RailNext

\* A certificate's custody stays settled in full for the payee, and undisputed.
LEMMA CertifiedPaid ==
    ASSUME IInv, RailInv, CertInv PROVE CertifiedIsClean
<1> SUFFICES ASSUME NEW c \in Custodies, NEW role \in Roles,
                    certificates[c][role] # NoAccount
             PROVE  /\ certificates[c][role] = certificate_to[c][role]
                    /\ ~custodies[c].disputed
                    /\ call = Idle => handed[c][payees[c]] = custodies[c].amount
  BY DEF CertifiedIsClean
<1>1. /\ certificates[c][role] = certificate_to[c][role] /\ c \in custody_exists
      /\ custodies[c].consumed /\ ~custodies[c].refunded /\ ~custodies[c].disputed
  BY DEF CertInv, CleanlySettled
<1>2. ~custodies[c].resolution_authorized
  BY <1>1 DEF IInv, Lifecycle, Coherent
<1>3. Due(c, Payee) = custodies[c].amount
  <2>1. custodies[c] \in Custody
    BY DEF IInv, TypeOK
  <2>2. custodies[c].refunded = FALSE
    BY <1>1, <2>1 DEF Custody
  <2> QED
    BY <1>1, <1>2, <2>2 DEF Due, DueOf
<1>4. call = Idle => Uncollected(c, Payee) = 0
  BY DEF RailInv, NoteIsOwed, Uncollected, IInv, TypeOK, Custody
<1>5. call = Idle => paid[c][Payee] = custodies[c].amount
  BY <1>1, <1>3, <1>4 DEF IInv, PaidAsDecided, TypeOK
<1>6. payees[c] \in Accounts /\ payers[c] # payees[c]
  BY <1>1 DEF RailInv, BoundTogether
<1>7. handed[c][payees[c]] = paid[c][Payee]
  BY <1>6 DEF RailInv, HandedAsDecided, IInv, TypeOK
<1> QED
  BY <1>1, <1>5, <1>7

\* A settlement certificate always stands for a clean and complete settlement.
THEOREM CertificatesAreClean == RailSpec => []CertifiedIsClean
<1>1. RailInit => CertInv
  BY DEF RailInit, CertInv
<1>2. IInv /\ RailInv /\ CertInv /\ [RailNext]_<<vars, railVars>> => CertInv'
  BY CertKeeps
<1>3. IInv /\ RailInv /\ CertInv => CertifiedIsClean
  BY CertifiedPaid
<1> QED
  BY <1>1, <1>2, <1>3, RailInvariance, PTL DEF RailSpec
=============================================================================
