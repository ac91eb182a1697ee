----------------------------- MODULE OfferThread -----------------------------
(***************************************************************************)
(* Two parties negotiate: offers, counters, acceptances and rejections as  *)
(* immutable signed records (offers.ts), the rule by which each client     *)
(* tells a valid lifecycle from the rest (offerLifecycle.ts), and the card *)
(* controls that follow from it (useRoomOffers.ts, OfferCard.tsx).         *)
(*                                                                         *)
(* A wallet answers late or never, a poll carries some of the records of   *)
(* the rail on which it began, and a deviant party posts what it likes     *)
(* under its own signature or under none. Expiry and its clock are left    *)
(* out.                                                                    *)
(***************************************************************************)
EXTENDS Naturals, FiniteSets

CONSTANTS Parties,     \* the two wallets of the room
          Deviants,    \* those who post by other means than this app as well
          Rails,       \* transaction modes
          FirstRail,   \* the one the room was made for
          Terms,       \* asset, amount, payment terms, conditions, deal type
          ForgedKinds, \* bound: the kinds of record they post so
          MaxRecords,  \* bound: records prepared
          MaxPolls,    \* bound: discoveries under way
          MaxTurns     \* bound: changes of mode, reloads, records posted so, partial
                       \* discoveries, actions that outlast the page's patience

ASSUME ThreadAssumption ==
  /\ IsFiniteSet(Parties) /\ Cardinality(Parties) = 2 /\ Deviants \subseteq Parties /\ FirstRail \in Rails
  /\ MaxRecords \in Nat /\ MaxPolls \in Nat /\ MaxTurns \in Nat

VARIABLES
  chain,     \* records published
  made,      \* records prepared so far: the locators in use
  prompts,   \* wallet requests that are open
  mode,      \* the room's transaction mode, on each device
  turns,     \* what MaxTurns bounds, so far
  op,        \* the action that holds the page busy
  late,      \* records of actions the page stopped waiting for, which go on
  polls,     \* discoveries under way
  cards,     \* offerEntries
  flag,      \* of these, offerAuthorshipVerified
  route      \* matchedOfferRoutesRef

viewVars == <<cards, flag, route>>
vars == <<chain, made, prompts, mode, turns, op, late, polls, viewVars>>

Idle == [kind |-> "none"]
Other(c) == CHOOSE d \in Parties : d # c

\* The original offer fixes its sender as the payer.
buildOfferSettlementPlan(c) == [payer |-> c, payee |-> Other(c)]
Plans == {buildOfferSettlementPlan(c) : c \in Parties}

Init ==
  /\ chain = {} /\ made = 0 /\ prompts = {}
  /\ mode = [c \in Parties |-> FirstRail] /\ turns = 0
  /\ op = [c \in Parties |-> Idle] /\ late = [c \in Parties |-> {}]
  /\ polls = [c \in Parties |-> {}]
  /\ cards = [c \in Parties |-> {}] /\ flag = cards /\ route = cards

-----------------------------------------------------------------------------
(* validOfferLifecycle, as the least set closed under its rule.            *)

Root(p) == IF p.root = 0 THEN p.id ELSE p.root

Bug_SameTerms(r, p) == r.kind = "accept" => r.terms = p.terms
Bug_validOfferLifecycle(S) ==
  {r.id : r \in {s \in S : s.signed /\ ~\E o \in S : o.signed /\ o # s /\ o.parent = s.parent /\ o.parent # 0}}

\* Counter may negotiate terms, but never silently swap custody roles.
SameTerms(r, p) ==
  /\ r.kind = "counter" => r.plan = p.plan
  /\ r.kind = "accept" => r.terms = p.terms /\ r.plan = p.plan

Follows(r, p) ==
  /\ p.kind \in {"create", "counter"} /\ r.parent = p.id
  /\ r.root = Root(p)
  /\ IF r.kind = "cancel" THEN r.from = p.from
     ELSE r.kind \in {"counter", "accept", "reject"} /\ r.from # p.from
  /\ SameTerms(r, p)

\* buildOfferTypedData, signed by the sender's account and verified by it.
Authored(r) == r.signed

visit(r, valid) ==
  /\ Authored(r)
  /\ IF r.kind = "create" THEN r.parent = 0 /\ r.root = 0 ELSE \E p \in valid : Follows(r, p)

Closed(S) == {V \in SUBSET S : \A r \in S \ V : ~visit(r, V)}
Lifecycle(S) == LET closed == Closed(S) IN {r \in S : \A V \in closed : r \in V}
validOfferLifecycle(S) == {r.id : r \in Lifecycle(S)}

On(rail) == {r \in chain : r.rail = rail}

-----------------------------------------------------------------------------
(* The view of a client.                                                   *)

\* Unsigned history cannot supersede a verified parent's controls.
supersededOfferParents(c) == {r.parent : r \in {s \in cards[c] : s.id \in flag[c]}}

Actionable(c, r) ==
  /\ r \in cards[c] /\ r.kind \in {"create", "counter"} /\ r.from # c
  /\ r.id \in flag[c] /\ r.id \notin supersededOfferParents(c)

\* Records found on a rail replace what is verified and join what is shown.
Discovered(c, found) ==
  /\ cards' = [cards EXCEPT ![c] = @ \union found]
  /\ flag' = [flag EXCEPT ![c] = validOfferLifecycle(found)]
  /\ route' = [route EXCEPT ![c] = validOfferLifecycle(found)]

\* A record that cannot be read or verified just now is passed over, so that a
\* discovery finds any part of a rail.
Finds(c, found) ==
  \/ found = On(mode[c]) /\ UNCHANGED turns
  \/ /\ turns < MaxTurns /\ turns' = turns + 1
     /\ found \in SUBSET On(mode[c]) \ {On(mode[c])}

discoverOfferActions(c) ==
  /\ Cardinality(UNION {polls[d] : d \in Parties}) < MaxPolls
  /\ \E found \in SUBSET On(mode[c]) :
       /\ Finds(c, found)
       /\ polls' = [polls EXCEPT ![c] = @ \union {[rail |-> mode[c], found |-> found]}]
  /\ UNCHANGED <<chain, made, prompts, mode, op, late, viewVars>>

\* A poll that began before a change of mode lands like any other.
handleOfferRefresh(c, rail) ==
  \E s \in polls[c] :
    /\ s.rail = rail
    /\ polls' = [polls EXCEPT ![c] = @ \ {s}]
    /\ Discovered(c, s.found)
    /\ UNCHANGED <<chain, made, prompts, mode, turns, op, late>>

-----------------------------------------------------------------------------
(* The four actions of the app.                                            *)

Free(c) == op[c] = Idle /\ made < MaxRecords

\* Signed, and handed to the wallet.
sendOfferAction(c, kind, source, terms, plan) ==
  LET r == [id |-> made + 1, kind |-> kind, from |-> c, rail |-> mode[c], signed |-> TRUE,
            parent |-> source.id, root |-> IF source.id = 0 THEN 0 ELSE Root(source),
            terms |-> terms, plan |-> plan] IN
    /\ made' = made + 1
    /\ prompts' = prompts \union {r}
    /\ op' = [op EXCEPT ![c] = [kind |-> "wallet", record |-> r]]

NoSource == [id |-> 0, root |-> 0]

createDirectOffer(c, t) ==
  /\ Free(c)
  /\ sendOfferAction(c, "create", NoSource, t, buildOfferSettlementPlan(c))
  /\ UNCHANGED <<chain, mode, turns, late, polls, viewVars>>

\* A reply needs a parent that discovery has authenticated; one more discovery
\* is made for a card that is shown but not authenticated yet.
resolveReplyContext(c, source) ==
  \/ source.id \in route[c] /\ UNCHANGED <<turns, viewVars>>
  \/ /\ source.id \notin route[c]
     /\ \E found \in SUBSET On(mode[c]) : Finds(c, found) /\ Discovered(c, found)

Authenticated(c, source) == source.id \in route'[c]

Reply(c, source, kind, t) ==
  /\ Free(c) /\ Actionable(c, source)
  /\ resolveReplyContext(c, source)
  /\ IF Authenticated(c, source)
       THEN sendOfferAction(c, kind, source, t, source.plan)
       ELSE UNCHANGED <<made, prompts, op>>
  /\ UNCHANGED <<chain, mode, late, polls>>

counterDirectOffer(c, source, t) == Reply(c, source, "counter", t)
acceptDirectOffer(c, source) == Reply(c, source, "accept", source.terms)
rejectDirectOffer(c, source) == Reply(c, source, "reject", source.terms)

-----------------------------------------------------------------------------
(* The wallet, the chain, and how an action ends.                          *)

\* A request is approved at any time, also when the page has given it up.
Approve(r) ==
  /\ r \in prompts
  /\ prompts' = prompts \ {r}
  /\ chain' = chain \union {r}
  /\ UNCHANGED <<made, mode, turns, op, late, polls, viewVars>>

\* The wallet returned: the card is shown, not verified before discovery.
Shown(c, r) ==
  /\ cards' = [cards EXCEPT ![c] = @ \union {r}]
  /\ flag' = [flag EXCEPT ![c] = @ \ {r.id}]

appendLocalOffer(c) ==
  /\ op[c] # Idle /\ op[c].record \in chain
  /\ op' = [op EXCEPT ![c] = Idle]
  /\ Shown(c, op[c].record)
  /\ UNCHANGED <<chain, made, prompts, mode, turns, late, polls, route>>

\* The page waits no longer, and the action has its answer after all.
LateAppend(c, r) ==
  /\ r \in late[c] \intersect chain
  /\ late' = [late EXCEPT ![c] = @ \ {r}]
  /\ Shown(c, r)
  /\ UNCHANGED <<chain, made, prompts, mode, turns, op, polls, route>>

\* Refused, failed with the request left open, or no answer for 25 seconds, after
\* which the action goes on without the page.
GiveUp(c) ==
  /\ op[c] # Idle
  /\ op' = [op EXCEPT ![c] = Idle]
  /\ \/ /\ op[c].record \in prompts /\ prompts' = prompts \ {op[c].record}
        /\ UNCHANGED <<turns, late>>
     \/ UNCHANGED <<prompts, turns, late>>
     \/ /\ turns < MaxTurns /\ turns' = turns + 1
        /\ late' = [late EXCEPT ![c] = @ \union {op[c].record}]
        /\ UNCHANGED prompts
  /\ UNCHANGED <<chain, made, mode, polls, viewVars>>

\* The other rail has another backend: what was authenticated is forgotten, the
\* cards stay as they are until the next discovery.
changeMode(c) ==
  /\ op[c] = Idle /\ turns < MaxTurns /\ turns' = turns + 1
  /\ \E rail \in Rails \ {mode[c]} : mode' = [mode EXCEPT ![c] = rail]
  /\ route' = [route EXCEPT ![c] = {}]
  /\ UNCHANGED <<chain, made, prompts, op, late, polls, cards, flag>>

\* The cards come back from the device's history, none of them verified.
Reload(c) ==
  /\ turns < MaxTurns /\ turns' = turns + 1
  /\ op' = [op EXCEPT ![c] = Idle] /\ late' = [late EXCEPT ![c] = {}]
  /\ polls' = [polls EXCEPT ![c] = {}]
  /\ flag' = [flag EXCEPT ![c] = {}] /\ route' = [route EXCEPT ![c] = {}]
  /\ UNCHANGED <<chain, made, prompts, mode, cards>>

\* Another program posts any record in its user's name, on any earlier one or on
\* none, naming its thread or not, signed or not.
Forge(d) ==
  /\ made < MaxRecords /\ turns < MaxTurns
  /\ made' = made + 1 /\ turns' = turns + 1
  /\ \E kind \in ForgedKinds, p \in On(mode[d]) \union {NoSource}, t \in Terms, plan \in Plans, signed \in BOOLEAN :
       \E root \in {Root(p), 0} :
         chain' = chain \union {[id |-> made + 1, kind |-> kind, from |-> d, rail |-> mode[d], signed |-> signed,
                                 parent |-> p.id, root |-> root, terms |-> t, plan |-> plan]}
  /\ UNCHANGED <<prompts, mode, op, late, polls, viewVars>>

-----------------------------------------------------------------------------
Next ==
  \/ \E c \in Parties :
       \/ \E t \in Terms : createDirectOffer(c, t)
       \/ \E r \in cards[c] : \/ \E t \in Terms : counterDirectOffer(c, r, t)
                              \/ acceptDirectOffer(c, r)
                              \/ rejectDirectOffer(c, r)
       \/ discoverOfferActions(c) \/ \E rail \in Rails : handleOfferRefresh(c, rail)
       \/ appendLocalOffer(c) \/ GiveUp(c) \/ changeMode(c) \/ Reload(c)
       \/ \E r \in late[c] : LateAppend(c, r)
  \/ \E r \in prompts : Approve(r)
  \/ \E d \in Deviants : Forge(d)

Spec == Init /\ [][Next]_vars

-----------------------------------------------------------------------------
(* Properties.                                                             *)

\* What a client presents as agreed: an acceptance it has verified.
Deals(c) == {r \in cards[c] : r.kind = "accept" /\ r.id \in flag[c]}

\* O13-O15: an acceptance shown as verified carries terms that the other party
\* has signed and published, and the payer of the thread's original offer,
\* whatever a deviant party publishes.
Consent ==
  \A c \in Parties : \A r \in Deals(c) :
    \E p, o \in chain :
      /\ p.id = r.parent /\ p.from = Other(r.from) /\ p.signed /\ p.terms = r.terms
      /\ o.id = r.root /\ o.kind = "create" /\ o.plan = r.plan

\* What one client shows as agreed, however old its discovery, the other client
\* verifies when it next discovers that rail: no later record of either party,
\* a second answer included, takes a deal away from one of them.
SameDeals ==
  \A c \in Parties : \A r \in Deals(c) : r.id \in validOfferLifecycle(On(r.rail))

=============================================================================
