-------------------------- MODULE OfferThreadProofs --------------------------
(***************************************************************************)
(* Agreement of the two parties, for any rails, terms, deviant parties and *)
(* numbers of records, polls and turns.                                    *)
(*                                                                         *)
(* A client decides over whatever set of records a poll of one rail found. *)
(* Two facts about the rule it applies carry the proofs: what the rule     *)
(* accepts in a set it accepts in every larger one (LifecycleGrows), and   *)
(* what it accepts hangs by signed records on an original offer with the   *)
(* same plan (LifecycleRoots). The rest is that locators are fresh, so     *)
(* that a flag set by one poll means the same record at every later one.   *)
(***************************************************************************)
EXTENDS OfferThread, TLAPS, FiniteSetTheorems

\* Records that are published or wait in a wallet have locators of their own.
Published == chain \union prompts

Identified ==
  /\ made \in Nat
  /\ \A r \in Published : r.id \in 1 .. made /\ r.from \in Parties
  /\ \A r, q \in Published : r.id = q.id => r = q

\* Cards and what a poll carries were found on chain, the latter on one rail.
Found ==
  /\ cards \in [Parties -> SUBSET chain]
  /\ polls \in [Parties -> SUBSET [rail : Rails, found : SUBSET chain]]
  /\ \A c \in Parties : \A s \in polls[c] : s.found \subseteq On(s.rail)

\* What was verified when a poll landed is valid on its rail ever after.
FlagKept ==
  /\ flag \in [Parties -> SUBSET Nat]
  /\ \A c \in Parties : \A i \in flag[c] : \E r \in chain : r.id = i /\ r \in Lifecycle(On(r.rail))

IInv ==
  /\ mode \in [Parties -> Rails]
  /\ Identified /\ Found /\ FlagKept

-----------------------------------------------------------------------------
(* The rule of the lifecycle.                                              *)

LEMMA VisitMonotone ==
    ASSUME NEW V, NEW W, V \subseteq W, NEW r, visit(r, V)
    PROVE  visit(r, W)
BY DEF visit

\* What the rule accepts is not taken back when more records are found.
LEMMA LifecycleGrows ==
    ASSUME NEW S, NEW T, S \subseteq T
    PROVE  Lifecycle(S) \subseteq Lifecycle(T)
<1> SUFFICES ASSUME NEW r \in Lifecycle(S), NEW V \in Closed(T) PROVE r \in V
  BY DEF Lifecycle
<1>1. V \intersect S \in Closed(S)
  <2> SUFFICES ASSUME NEW q \in S \ V, visit(q, V \intersect S) PROVE FALSE
    BY DEF Closed
  <2>1. visit(q, V)
    BY VisitMonotone, V \intersect S \subseteq V
  <2> QED
    BY <2>1 DEF Closed
<1> QED
  BY <1>1 DEF Lifecycle

\* The least closed set is a fixed point: what it holds, the rule derives from it.
LEMMA LifecycleVisits ==
    ASSUME NEW S, NEW r \in Lifecycle(S)
    PROVE  r \in S /\ visit(r, Lifecycle(S))
<1> DEFINE V == {q \in Lifecycle(S) : visit(q, Lifecycle(S))}
<1>1. V \in Closed(S)
  <2> SUFFICES ASSUME NEW q \in S \ V, visit(q, V) PROVE FALSE
    BY DEF Closed, Lifecycle
  <2>1. visit(q, Lifecycle(S))
    BY VisitMonotone, V \subseteq Lifecycle(S)
  <2>2. q \in Lifecycle(S)
    <3> SUFFICES ASSUME NEW W \in Closed(S) PROVE q \in W
      BY DEF Lifecycle
    <3>1. V \subseteq W
      BY DEF Lifecycle
    <3> QED
      BY <3>1, VisitMonotone DEF Closed
  <2> QED
    BY <2>1, <2>2
<1> QED
  BY <1>1 DEF Lifecycle

\* The original offer of a record, with the record's plan.
HasOrigin(S, r) == \E o \in S : o.kind = "create" /\ o.id = Root(r) /\ o.plan = r.plan

\* An offer or a counter that the rule accepts keeps the plan of its original.
LEMMA LifecycleRoots ==
    ASSUME NEW S, \A q \in S : q.id # 0,
           NEW r \in Lifecycle(S), r.kind \in {"create", "counter"}
    PROVE  HasOrigin(S, r)
<1> DEFINE V == {q \in S : q.kind \in {"create", "counter"} => HasOrigin(S, q)}
<1>1. V \in Closed(S)
  <2> SUFFICES ASSUME NEW q \in S, visit(q, V), q.kind \in {"create", "counter"} PROVE HasOrigin(S, q)
    BY DEF Closed
  <2>1. CASE q.kind = "create"
    BY <2>1 DEF visit, HasOrigin, Root
  <2>2. CASE q.kind = "counter"
    <3>1. PICK p \in V : Follows(q, p)
      BY <2>2 DEF visit
    <3>2. PICK o \in S : o.kind = "create" /\ o.id = Root(p) /\ o.plan = p.plan
      BY <3>1 DEF Follows, HasOrigin
    <3>3. q.root = Root(p) /\ q.plan = p.plan
      BY <2>2, <3>1 DEF Follows, SameTerms
    <3>4. Root(q) = o.id
      BY <3>2, <3>3 DEF Root
    <3> QED
      BY <3>2, <3>3, <3>4 DEF HasOrigin
  <2> QED
    BY <2>1, <2>2
<1> QED
  BY <1>1 DEF Lifecycle

-----------------------------------------------------------------------------
(* The parties.                                                            *)

LEMMA TheOther ==
    ASSUME NEW c \in Parties, NEW d \in Parties, d # c
    PROVE  d = Other(c)
<1>1. IsFiniteSet(Parties) /\ Cardinality(Parties) = 2
  BY ThreadAssumption
<1>2. IsFiniteSet(Parties \ {c}) /\ Cardinality(Parties \ {c}) = 1
  BY <1>1, FS_RemoveElement
<1>3. PICK e : Parties \ {c} = {e}
  BY <1>2, FS_Singleton
<1> QED
  BY <1>3 DEF Other

-----------------------------------------------------------------------------
(* Steps.                                                                  *)

LEMMA InitInvariant == Init => IInv
BY ThreadAssumption DEF Init, IInv, Identified, Published, Found, FlagKept, On

\* Records are only added, so every rail keeps what it had.
LEMMA FlagStays ==
    ASSUME FlagKept, chain \subseteq chain', flag' \in [Parties -> SUBSET Nat],
           \A c \in Parties : flag'[c] \subseteq flag[c]
    PROVE  FlagKept'
<1> SUFFICES ASSUME NEW c \in Parties, NEW i \in flag[c]
             PROVE  \E r \in chain' : r.id = i /\ r \in Lifecycle(On(r.rail)')
  BY DEF FlagKept
<1>1. PICK r \in chain : r.id = i /\ r \in Lifecycle(On(r.rail))
  BY DEF FlagKept
<1>2. On(r.rail) \subseteq On(r.rail)'
  BY DEF On
<1>3. r \in Lifecycle(On(r.rail)')
  BY <1>1, <1>2, LifecycleGrows
<1> QED
  BY <1>1, <1>3

\* A poll that lands: what it verifies is valid on the rail it looked at.
LEMMA DiscoveredStep ==
    ASSUME IInv, NEW c \in Parties, NEW rail \in Rails, NEW found \in SUBSET On(rail), Discovered(c, found),
           chain' = chain
    PROVE  cards' \in [Parties -> SUBSET chain] /\ FlagKept'
<1>1. cards' \in [Parties -> SUBSET chain]
  BY DEF Discovered, IInv, Found, On
<1>2. flag' = [flag EXCEPT ![c] = validOfferLifecycle(found)] /\ flag \in [Parties -> SUBSET Nat]
  BY DEF Discovered, IInv, FlagKept
<1>3. \A i \in validOfferLifecycle(found) : i \in Nat /\ \E r \in chain : r.id = i /\ r \in Lifecycle(On(r.rail))
  <2> SUFFICES ASSUME NEW r \in Lifecycle(found)
               PROVE  r.id \in Nat /\ r \in chain /\ r \in Lifecycle(On(r.rail))
    BY DEF validOfferLifecycle
  <2>1. r \in found
    BY LifecycleVisits
  <2>2. r \in chain /\ r.rail = rail
    BY <2>1 DEF On
  <2>3. r \in Lifecycle(On(rail))
    BY LifecycleGrows
  <2>4. r.id \in Nat
    BY <2>2 DEF IInv, Identified, Published
  <2> QED
    BY <2>2, <2>3, <2>4
<1>4. flag' \in [Parties -> SUBSET Nat]
  BY <1>2, <1>3
<1>5. \A d \in Parties : \A i \in flag'[d] : \E r \in chain : r.id = i /\ r \in Lifecycle(On(r.rail))
  BY <1>2, <1>3 DEF IInv, FlagKept
<1>6. \A r : (On(r.rail))' = On(r.rail)
  BY DEF On
<1> QED
  BY <1>1, <1>4, <1>5, <1>6 DEF FlagKept

\* A record prepared for the wallet, or posted past it, has a fresh locator.
LEMMA FreshStep ==
    ASSUME IInv, NEW r, r.id = made + 1, r.from \in Parties, made' = made + 1,
           Published' = Published \union {r}
    PROVE  Identified'
BY DEF IInv, Identified

LEMMA SendStep ==
    ASSUME IInv, NEW c \in Parties, NEW kind, NEW source, NEW terms, NEW plan,
           sendOfferAction(c, kind, source, terms, plan), chain' = chain
    PROVE  Identified'
<1> DEFINE r == [id |-> made + 1, kind |-> kind, from |-> c, rail |-> mode[c], signed |-> TRUE,
                 parent |-> source.id, root |-> IF source.id = 0 THEN 0 ELSE Root(source),
                 terms |-> terms, plan |-> plan]
<1>1. made' = made + 1 /\ prompts' = prompts \union {r} /\ r.id = made + 1 /\ r.from = c
  BY DEF sendOfferAction
<1> HIDE DEF r
<1>2. Published' = Published \union {r}
  BY <1>1 DEF Published
<1> QED
  BY <1>1, <1>2, FreshStep

\* Steps that leave the chain alone and show and verify no more.
LEMMA QuietStep ==
    ASSUME IInv, chain' = chain, Identified', mode' \in [Parties -> Rails],
           cards' \in [Parties -> SUBSET chain], flag' \in [Parties -> SUBSET Nat],
           \A c \in Parties : flag'[c] \subseteq flag[c],
           polls' \in [Parties -> SUBSET [rail : Rails, found : SUBSET chain]],
           \A c \in Parties : \A s \in polls'[c] : s.found \subseteq On(s.rail)
    PROVE  IInv'
<1>1. FlagKept'
  BY FlagStays DEF IInv
<1>2. Found'
  BY DEF Found, On
<1> QED
  BY <1>1, <1>2 DEF IInv

LEMMA IdentifiedStays ==
    ASSUME IInv, made' = made, Published' \subseteq Published
    PROVE  Identified'
BY DEF IInv, Identified

-----------------------------------------------------------------------------
LEMMA CreateStep ==
    ASSUME IInv, NEW c \in Parties, NEW t, createDirectOffer(c, t)
    PROVE  IInv'
<1>1. Identified'
  BY SendStep DEF createDirectOffer
<1> QED
  BY <1>1, QuietStep DEF createDirectOffer, viewVars, IInv, Found, FlagKept

LEMMA ReplyStep ==
    ASSUME IInv, NEW c \in Parties, NEW source \in cards[c], NEW kind, NEW t, Reply(c, source, kind, t)
    PROVE  IInv'
<1>1. UNCHANGED <<chain, mode, polls>>
  BY DEF Reply
<1>2. Identified'
  <2>1. CASE sendOfferAction(c, kind, source, t, source.plan)
    BY <1>1, <2>1, SendStep
  <2>2. CASE UNCHANGED <<made, prompts>>
    BY <1>1, <2>2, IdentifiedStays DEF Published
  <2> QED
    BY <2>1, <2>2 DEF Reply
<1>3. cards' \in [Parties -> SUBSET chain] /\ FlagKept'
  <2>1. CASE UNCHANGED viewVars
    BY <1>1, <2>1, FlagStays DEF viewVars, IInv, Found, FlagKept
  <2>2. ASSUME NEW found \in SUBSET On(mode[c]), Discovered(c, found)
        PROVE  cards' \in [Parties -> SUBSET chain] /\ FlagKept'
    BY <1>1, <2>2, DiscoveredStep DEF IInv
  <2> QED
    BY <2>1, <2>2 DEF Reply, resolveReplyContext
<1>4. Found'
  BY <1>1, <1>3 DEF IInv, Found, On
<1> QED
  BY <1>1, <1>2, <1>3, <1>4 DEF IInv

LEMMA PollSteps ==
    ASSUME IInv, NEW c \in Parties,
           discoverOfferActions(c) \/ \E rail \in Rails : handleOfferRefresh(c, rail)
    PROVE  IInv'
<1>1. UNCHANGED <<chain, made, prompts, mode>>
  BY DEF discoverOfferActions, handleOfferRefresh
<1>2. Identified'
  BY <1>1, IdentifiedStays DEF Published
<1>3. CASE discoverOfferActions(c)
  <2>0. PICK found \in SUBSET On(mode[c]) :
           polls' = [polls EXCEPT ![c] = polls[c] \union {[rail |-> mode[c], found |-> found]}]
    BY <1>3 DEF discoverOfferActions
  <2>1. [rail |-> mode[c], found |-> found] \in [rail : Rails, found : SUBSET chain]
    BY DEF IInv, On
  <2>2. polls' = [polls EXCEPT ![c] = polls[c] \union {[rail |-> mode[c], found |-> found]}]
    BY <2>0
  <2>3. /\ polls' \in [Parties -> SUBSET [rail : Rails, found : SUBSET chain]]
        /\ \A d \in Parties : \A s \in polls'[d] : s.found \subseteq On(s.rail)
    BY <2>1, <2>2 DEF IInv, Found
  <2> QED
    BY <1>1, <1>2, <1>3, <2>3, QuietStep DEF discoverOfferActions, viewVars, IInv, Found, FlagKept
<1>4. ASSUME NEW rail \in Rails, handleOfferRefresh(c, rail) PROVE IInv'
  <2>1. PICK s \in polls[c] : /\ s.rail = rail /\ polls' = [polls EXCEPT ![c] = polls[c] \ {s}]
                              /\ Discovered(c, s.found)
    BY <1>4 DEF handleOfferRefresh
  <2>2. s.found \in SUBSET On(rail)
    BY <2>1 DEF IInv, Found
  <2>3. cards' \in [Parties -> SUBSET chain] /\ FlagKept'
    BY <1>1, <2>1, <2>2, DiscoveredStep
  <2>4. Found'
    BY <1>1, <2>1, <2>3 DEF IInv, Found, On
  <2> QED
    BY <1>1, <1>2, <2>3, <2>4 DEF IInv
<1> QED
  BY <1>3, <1>4

LEMMA OwnSteps ==
    ASSUME IInv, NEW c \in Parties,
           \/ appendLocalOffer(c) \/ GiveUp(c) \/ changeMode(c) \/ Reload(c)
           \/ \E r \in late[c] : LateAppend(c, r)
    PROVE  IInv'
<1> USE DEF viewVars, IInv, Found, FlagKept
<1>0. UNCHANGED <<chain, made>> /\ prompts' \subseteq prompts
  BY DEF appendLocalOffer, LateAppend, GiveUp, changeMode, Reload
<1>1. Identified'
  BY <1>0, IdentifiedStays DEF Published
<1>2. CASE appendLocalOffer(c)
  BY <1>0, <1>1, <1>2, QuietStep DEF appendLocalOffer, Shown
<1>3. CASE GiveUp(c)
  BY <1>0, <1>1, <1>3, QuietStep DEF GiveUp
<1>4. CASE changeMode(c)
  BY <1>0, <1>1, <1>4, QuietStep DEF changeMode
<1>5. CASE Reload(c)
  BY <1>0, <1>1, <1>5, QuietStep DEF Reload
<1>6. ASSUME NEW r \in late[c], LateAppend(c, r) PROVE IInv'
  BY <1>0, <1>1, <1>6, QuietStep DEF LateAppend, Shown
<1> QED
  BY <1>2, <1>3, <1>4, <1>5, <1>6

\* A record that reaches the chain.
LEMMA PublishStep ==
    ASSUME IInv, chain \subseteq chain', Identified', UNCHANGED <<mode, polls, viewVars>>
    PROVE  IInv'
<1>1. FlagKept'
  BY FlagStays DEF viewVars, IInv, FlagKept
<1>2. Found'
  BY DEF viewVars, IInv, Found, On
<1> QED
  BY <1>1, <1>2 DEF IInv

LEMMA ChainSteps ==
    ASSUME IInv, (\E r \in prompts : Approve(r)) \/ \E d \in Deviants : Forge(d)
    PROVE  IInv'
<1>1. CASE \E r \in prompts : Approve(r)
  <2>1. chain \subseteq chain' /\ UNCHANGED <<made, mode, polls, viewVars>>
    BY <1>1 DEF Approve
  <2>2. Published' \subseteq Published
    BY <1>1 DEF Approve, Published
  <2> QED
    BY <2>1, <2>2, IdentifiedStays, PublishStep
<1>2. CASE \E d \in Deviants : Forge(d)
  <2>1. PICK d \in Deviants : Forge(d)
    BY <1>2
  <2>2. PICK r : /\ r.id = made + 1 /\ r.from = d /\ chain' = chain \union {r} /\ made' = made + 1
                 /\ UNCHANGED <<prompts, mode, polls, viewVars>>
    BY <2>1 DEF Forge
  <2>3. Published' = Published \union {r} /\ d \in Parties
    BY <2>1, <2>2, ThreadAssumption DEF Published
  <2>4. Identified'
    BY <2>2, <2>3, FreshStep
  <2> QED
    BY <2>2, <2>4, PublishStep
<1> QED
  BY <1>1, <1>2

-----------------------------------------------------------------------------
\* The invariant holds in every reachable state.
THEOREM Invariance == Spec => []IInv
<1>1. Init => IInv
  BY InitInvariant
<1>2. IInv /\ [Next]_vars => IInv'
  <2> SUFFICES ASSUME IInv, [Next]_vars PROVE IInv'
    OBVIOUS
  <2>1. ASSUME NEW c \in Parties,
               \/ \E t \in Terms : createDirectOffer(c, t)
               \/ \E r \in cards[c] : \/ \E t \in Terms : counterDirectOffer(c, r, t)
                                      \/ acceptDirectOffer(c, r)
                                      \/ rejectDirectOffer(c, r)
               \/ discoverOfferActions(c) \/ \E rail \in Rails : handleOfferRefresh(c, rail)
               \/ appendLocalOffer(c) \/ GiveUp(c) \/ changeMode(c) \/ Reload(c)
               \/ \E r \in late[c] : LateAppend(c, r)
        PROVE  IInv'
    BY <2>1, CreateStep, ReplyStep, PollSteps, OwnSteps
       DEF counterDirectOffer, acceptDirectOffer, rejectDirectOffer
  <2>2. CASE (\E r \in prompts : Approve(r)) \/ \E d \in Deviants : Forge(d)
    BY <2>2, ChainSteps
  <2>3. CASE UNCHANGED vars
    <3>1. Identified'
      BY <2>3, IdentifiedStays DEF vars, Published
    <3> QED
      BY <2>3, <3>1, PublishStep DEF vars, viewVars
  <2> QED
    BY <2>1, <2>2, <2>3 DEF Next
<1> QED
  BY <1>1, <1>2, PTL DEF Spec

\* What is shown as agreed is in the lifecycle of its rail.
LEMMA DealIsValid ==
    ASSUME IInv, NEW c \in Parties, NEW r \in Deals(c)
    PROVE  r \in chain /\ r.kind = "accept" /\ r \in Lifecycle(On(r.rail))
<1>1. r \in cards[c] /\ r.kind = "accept" /\ r.id \in flag[c]
  BY DEF Deals
<1>2. PICK q \in chain : q.id = r.id /\ q \in Lifecycle(On(q.rail))
  BY <1>1 DEF IInv, FlagKept
<1>3. r \in chain /\ q = r
  BY <1>1, <1>2 DEF IInv, Found, Identified, Published
<1> QED
  BY <1>1, <1>2, <1>3

\* What one client shows as agreed the other verifies when it next discovers
\* that rail, whatever was published since.
THEOREM DealsAgree == Spec => []SameDeals
<1>1. IInv => SameDeals
  BY DealIsValid DEF SameDeals, validOfferLifecycle
<1> QED
  BY <1>1, Invariance, PTL

\* An acceptance shown as verified carries terms that the other party signed
\* and published, and the plan of the thread's original offer, whatever a
\* deviant party publishes.
THEOREM Consented == Spec => []Consent
<1>1. IInv => Consent
  <2> SUFFICES ASSUME IInv, NEW c \in Parties, NEW r \in Deals(c)
               PROVE  \E p, o \in chain :
                        /\ p.id = r.parent /\ p.from = Other(r.from) /\ p.signed /\ p.terms = r.terms
                        /\ o.id = r.root /\ o.kind = "create" /\ o.plan = r.plan
    BY DEF Consent
  <2> DEFINE S == On(r.rail)
  <2>1. r \in chain /\ r.kind = "accept" /\ r \in Lifecycle(S)
    BY DealIsValid
  <2>2. S \subseteq chain /\ \A q \in S : q.id # 0
    BY DEF On, IInv, Identified, Published
  <2> HIDE DEF S
  <2>3. PICK p \in Lifecycle(S) : Follows(r, p)
    BY <2>1, LifecycleVisits DEF visit
  <2>4. p \in chain /\ p.signed
    BY <2>2, <2>3, LifecycleVisits DEF visit, Authored
  <2>5. /\ p.kind \in {"create", "counter"} /\ r.parent = p.id /\ r.root = Root(p) /\ r.from # p.from
        /\ r.terms = p.terms /\ r.plan = p.plan
    BY <2>1, <2>3 DEF Follows, SameTerms
  <2>6. PICK o \in S : o.kind = "create" /\ o.id = Root(p) /\ o.plan = p.plan
    BY <2>2, <2>5, LifecycleRoots DEF HasOrigin
  <2>7. p.from = Other(r.from)
    BY <2>1, <2>4, <2>5, TheOther DEF IInv, Identified, Published
  <2> QED
    BY <2>2, <2>4, <2>5, <2>6, <2>7
<1> QED
  BY <1>1, Invariance, PTL
=============================================================================
