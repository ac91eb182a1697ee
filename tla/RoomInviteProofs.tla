-------------------------- MODULE RoomInviteProofs --------------------------
(***************************************************************************)
(* Invitations for any number of guests, groups, links and turns.          *)
(*                                                                         *)
(* That a ready link is on the chain is not inductive: checkInvites looks  *)
(* for the link of the panel and marks the one the device keeps. The two   *)
(* agree for the private chat (InStep), which every handler preserves      *)
(* because its slot does not depend on the group that is shown; for the    *)
(* groups they may differ. Chat access needs that what a device has used   *)
(* was made for one slot once and for all (Named).                         *)
(***************************************************************************)
EXTENDS RoomInvite, TLAPS

Statuses == {"none", "pending", "ready"}
Shown == [id : {0} \union Ids, status : Statuses]
Invite == [slot : Slots, rail : Rails]
RoomState == [mode : Rails \union {None}, chat : BOOLEAN, groups : SUBSET Groups]
PageState == [id : {0} \union Ids,
              step : {"none", "reading", "asking", "handed", "waiting"}]

TypeOK ==
  /\ entry \in [Ids -> {"absent", "open", "consumed"}]
  /\ made \in [Ids -> {None} \union Invite]
  /\ making \in [Ids -> {"idle", "preparing", "waiting"}]
  /\ group \in Groups /\ mode \in Rails
  /\ ui \in [Scopes -> Shown] /\ saved \in [Slots -> Shown]
  /\ shared \subseteq Ids
  /\ page \in [Guests -> PageState]
  /\ used \in [Guests -> SUBSET Ids]
  /\ room \in [Guests -> RoomState]

\* Whatever has an id was made.
Made == {i \in Ids : made[i] # None}
Named ==
  /\ \A i \in Ids : making[i] # "idle" => i \in Made
  /\ \A s \in Scopes : ui[s].id \in {0} \union Made
  /\ \A k \in Slots : saved[k].id \in {0} \union Made
  /\ shared \subseteq Made
  /\ \A w \in Guests :
       /\ page[w].step # "none" => page[w].id \in Made
       /\ used[w] \subseteq Made

\* The panel and the device agree on the private chat's link.
InStep == ui["direct"] = saved[direct]

\* No link is no ready link.
ReadyHasId ==
  /\ \A s \in Scopes : ui[s].id = 0 => ui[s].status = "none"
  /\ \A k \in Slots : saved[k].id = 0 => saved[k].status = "none"

IInv == TypeOK /\ Named /\ InStep /\ ReadyHasId /\ ReadyIsMade /\ ChatAccessKept

-----------------------------------------------------------------------------
LEMMA Separate == direct \notin Groups /\ None \notin Invite /\ MaxInvites \in Nat /\ 0 \notin Ids
BY InviteAssumption DEF Invite, Slots, Ids

LEMMA NoLinkShown == NoLink \in Shown /\ NoLink.id = 0 /\ NoLink.status = "none"
BY DEF NoLink, Shown, Statuses

LEMMA LinkShown ==
    ASSUME NEW i \in Ids, NEW status \in Statuses
    PROVE  Link(i, status) \in Shown /\ Link(i, status).id = i /\ Link(i, status).status = status
BY DEF Link, Shown

LEMMA InitInvariant == Init => IInv
<1> SUFFICES ASSUME Init PROVE IInv
  OBVIOUS
<1>1. NoPage \in PageState /\ NoPage.step = "none"
  BY DEF NoPage, PageState
<1>2. NoRoom \in RoomState
  BY DEF NoRoom, RoomState
<1>3. group \in Groups
  BY InviteAssumption DEF Init
<1>4. TypeOK
  BY <1>1, <1>2, <1>3, NoLinkShown DEF Init, TypeOK
<1>5. Named /\ InStep /\ ReadyHasId
  BY <1>1, NoLinkShown DEF Init, Named, InStep, ReadyHasId, Scopes, Slots
<1>6. ReadyIsMade /\ ChatAccessKept
  BY NoLinkShown DEF Init, ReadyIsMade, ChatAccessKept, Scopes, Slots
<1> QED
  BY <1>4, <1>5, <1>6 DEF IInv

\* The contract only opens and consumes.
LEMMA NeverAbsentAgain ==
    ASSUME TypeOK, NEW i \in Ids,
           Created(i) \/ \E w \in Guests : Consumable(i) /\ Consumed(i, w)
    PROVE  /\ entry' \in [Ids -> {"absent", "open", "consumed"}]
           /\ \A j \in Ids : entry[j] # "absent" => entry'[j] # "absent"
BY DEF TypeOK, Created, Consumable, Consumed

\* A step outside the panel that makes or uses nothing.
LEMMA Outside ==
    ASSUME IInv,
           UNCHANGED <<made, ui, saved, group, used, room>>,
           entry' \in [Ids -> {"absent", "open", "consumed"}],
           \A i \in Ids : entry[i] # "absent" => entry'[i] # "absent",
           making' \in [Ids -> {"idle", "preparing", "waiting"}],
           \A i \in Ids : making'[i] # "idle" => i \in Made,
           mode' \in Rails, shared' \subseteq Made,
           page' \in [Guests -> PageState],
           \A w \in Guests : page'[w].step # "none" => page'[w].id \in Made
    PROVE  IInv'
<1>1. TypeOK'
  BY DEF IInv, TypeOK, Made
<1>2. Named' /\ InStep' /\ ReadyHasId'
  BY DEF IInv, Named, InStep, ReadyHasId, Made
<1>3. ReadyIsMade'
  <2> SUFFICES ASSUME NEW l \in {ui["direct"], saved[direct]}, l.status = "ready"
               PROVE  entry'[l.id] # "absent"
    BY DEF ReadyIsMade
  <2>1. entry[l.id] # "absent" /\ l.id \in Ids
    <3>1. l = ui["direct"]
      BY DEF IInv, InStep
    <3>2. l.id \in {0} \union Ids /\ l.id # 0
      BY <3>1 DEF IInv, TypeOK, Named, Made, Scopes, ReadyHasId
    <3> QED
      BY <3>2 DEF IInv, ReadyIsMade
  <2> QED
    BY <2>1
<1>4. ChatAccessKept'
  BY DEF IInv, ChatAccessKept
<1> QED
  BY <1>1, <1>2, <1>3, <1>4 DEF IInv

\* A step of the panel: of a slot and the scope it is shown in, or of all of them.
LEMMA Panel ==
    ASSUME IInv,
           UNCHANGED <<entry, made, mode, shared, page, used, room>>,
           making' \in [Ids -> {"idle", "preparing", "waiting"}],
           \A i \in Ids : making'[i] # "idle" => i \in Made,
           group' \in Groups,
           ui' \in [Scopes -> Shown], saved' \in [Slots -> Shown],
           \A s \in Scopes : ui'[s].id \in {0} \union Made,
           \A k \in Slots : saved'[k].id \in {0} \union Made,
           \A s \in Scopes : ui'[s].id = 0 => ui'[s].status = "none",
           \A k \in Slots : saved'[k].id = 0 => saved'[k].status = "none",
           ui'["direct"] = saved'[direct],
           ui'["direct"].status = "ready" => entry[ui'["direct"].id] # "absent"
    PROVE  IInv'
<1>1. TypeOK'
  BY DEF IInv, TypeOK
<1>2. Named' /\ InStep' /\ ReadyHasId'
  BY DEF IInv, Named, InStep, ReadyHasId, Made
<1>3. ReadyIsMade' /\ ChatAccessKept'
  BY DEF IInv, ReadyIsMade, ChatAccessKept
<1> QED
  BY <1>1, <1>2, <1>3 DEF IInv

\* One slot takes a link, on the panel and on the device.
LEMMA Takes ==
    ASSUME IInv, NEW k \in Slots, NEW l \in Shown,
           l.id \in {0} \union Made, l.id = 0 => l.status = "none",
           l.status = "ready" => entry[l.id] # "absent",
           ui' = [ui EXCEPT ![Scope(k)] = l], saved' = [saved EXCEPT ![k] = l]
    PROVE  /\ ui' \in [Scopes -> Shown] /\ saved' \in [Slots -> Shown]
           /\ \A s \in Scopes : ui'[s].id \in {0} \union Made
           /\ \A j \in Slots : saved'[j].id \in {0} \union Made
           /\ \A s \in Scopes : ui'[s].id = 0 => ui'[s].status = "none"
           /\ \A j \in Slots : saved'[j].id = 0 => saved'[j].status = "none"
           /\ ui'["direct"] = saved'[direct]
           /\ ui'["direct"].status = "ready" => entry[ui'["direct"].id] # "absent"
<1>1. ui \in [Scopes -> Shown] /\ saved \in [Slots -> Shown] /\ "direct" \in Scopes /\ direct \in Slots
  BY DEF IInv, TypeOK, Scopes, Slots
<1>2. Scope(k) \in Scopes /\ (Scope(k) = "direct" <=> k = direct)
  BY DEF Scope, Scopes
<1>3. /\ ui'[Scope(k)] = l /\ \A s \in Scopes \ {Scope(k)} : ui'[s] = ui[s]
      /\ saved'[k] = l /\ \A j \in Slots \ {k} : saved'[j] = saved[j]
      /\ ui' \in [Scopes -> Shown] /\ saved' \in [Slots -> Shown]
  BY <1>1, <1>2
<1>4. /\ \A s \in Scopes : ui[s].id \in {0} \union Made
      /\ \A j \in Slots : saved[j].id \in {0} \union Made
      /\ \A s \in Scopes : ui[s].id = 0 => ui[s].status = "none"
      /\ \A j \in Slots : saved[j].id = 0 => saved[j].status = "none"
  BY DEF IInv, Named, ReadyHasId
<1>5. ui'["direct"] = saved'[direct]
  BY <1>1, <1>2, <1>3 DEF IInv, InStep
<1>6. ui'["direct"].status = "ready" => entry[ui'["direct"].id] # "absent"
  BY <1>1, <1>2, <1>3 DEF IInv, ReadyIsMade
<1> QED
  BY <1>3, <1>4, <1>5, <1>6

-----------------------------------------------------------------------------
(* The inviter.                                                            *)

\* A new link: what was made stays as it is.
LEMMA CreateStep ==
    ASSUME IInv, NEW k \in Slots, createInviteLink(k)
    PROVE  IInv'
<1>1. TypeOK /\ made \in [Ids -> {None} \union Invite] /\ mode \in Rails
      /\ making \in [Ids -> {"idle", "preparing", "waiting"}]
  BY DEF IInv, TypeOK
<1>2. PICK i \in Ids : /\ made[i] = None
                       /\ made' = [made EXCEPT ![i] = [slot |-> k, rail |-> mode]]
                       /\ making' = [making EXCEPT ![i] = "preparing"]
                       /\ ui' = [ui EXCEPT ![Scope(k)] = NoLink]
                       /\ saved' = [saved EXCEPT ![k] = NoLink]
  BY DEF createInviteLink
<1> DEFINE new == [slot |-> k, rail |-> mode]
<1>3. new \in Invite /\ new # None
  BY <1>1, Separate DEF Invite
<1> HIDE DEF new
<1>4. /\ made' \in [Ids -> {None} \union Invite] /\ i \in Made'
      /\ \A j \in Made : j \in Made' /\ made'[j] = made[j]
  BY <1>1, <1>2, <1>3 DEF new, Made
<1>5. /\ ui' \in [Scopes -> Shown] /\ saved' \in [Slots -> Shown]
      /\ \A s \in Scopes : ui'[s].id \in {0} \union Made
      /\ \A j \in Slots : saved'[j].id \in {0} \union Made
      /\ \A s \in Scopes : ui'[s].id = 0 => ui'[s].status = "none"
      /\ \A j \in Slots : saved'[j].id = 0 => saved'[j].status = "none"
      /\ ui'["direct"] = saved'[direct]
      /\ ui'["direct"].status = "ready" => entry[ui'["direct"].id] # "absent"
  BY <1>2, NoLinkShown, Takes
<1>6. UNCHANGED <<entry, group, mode, shared, page, used, room>>
  BY DEF createInviteLink, chain, guest
<1>7. TypeOK'
  BY <1>1, <1>2, <1>4, <1>5, <1>6 DEF TypeOK
<1>8. Named'
  <2>1. \A j \in Ids : making'[j] # "idle" => j \in Made'
    BY <1>1, <1>2, <1>4 DEF IInv, Named
  <2> QED
    BY <1>4, <1>5, <1>6, <2>1 DEF IInv, Named
<1>9. InStep' /\ ReadyHasId' /\ ReadyIsMade'
  BY <1>5, <1>6 DEF InStep, ReadyHasId, ReadyIsMade
<1>10. ChatAccessKept'
  BY <1>4, <1>6 DEF IInv, Named, ChatAccessKept
<1> QED
  BY <1>7, <1>8, <1>9, <1>10 DEF IInv

LEMMA MakingStep ==
    ASSUME IInv, NEW i \in Ids, onPrepared(i) \/ CreateReady(i) \/ CreateFails(i)
    PROVE  IInv'
<1>1. TypeOK /\ making \in [Ids -> {"idle", "preparing", "waiting"}] /\ group \in Groups
  BY DEF IInv, TypeOK
<1>2. i \in Made /\ made[i] \in Invite /\ made[i].slot \in Slots
  <2>1. making[i] # "idle"
    BY DEF onPrepared, CreateReady, CreateFails, Ended
  <2> QED
    BY <1>1, <2>1 DEF IInv, Named, Made, TypeOK, Invite
<1>3. /\ UNCHANGED <<entry, made, mode, group, shared, page, used, room>>
      /\ making' \in [Ids -> {"idle", "preparing", "waiting"}]
      /\ \A j \in Ids \ {i} : making'[j] = making[j]
  BY <1>1 DEF onPrepared, CreateReady, CreateFails, Ended, chain, guest
<1>4. \A j \in Ids : making'[j] # "idle" => j \in Made
  BY <1>2, <1>3 DEF IInv, Named
<1>5. CASE onPrepared(i)
  <2> DEFINE l == Link(i, "pending")
  <2>1. l \in Shown /\ l.id = i /\ l.status = "pending" /\ i # 0
    BY LinkShown, Separate DEF Statuses
  <2>2. ui' = [ui EXCEPT ![Scope(made[i].slot)] = l] /\ saved' = [saved EXCEPT ![made[i].slot] = l]
    BY <1>5 DEF onPrepared
  <2> HIDE DEF l
  <2> QED
    BY <1>1, <1>2, <1>3, <1>4, <2>1, <2>2, Takes, Panel
<1>6. CASE CreateReady(i)
  <2> DEFINE l == Link(i, "ready")
  <2>1. l \in Shown /\ l.id = i /\ l.status = "ready" /\ i # 0 /\ entry[i] # "absent"
    BY <1>6, LinkShown, Separate DEF Statuses, CreateReady, waitForInviteOnchain
  <2>2. ui' = [ui EXCEPT ![Scope(made[i].slot)] = l] /\ saved' = [saved EXCEPT ![made[i].slot] = l]
    BY <1>6 DEF CreateReady
  <2> HIDE DEF l
  <2> QED
    BY <1>1, <1>2, <1>3, <1>4, <2>1, <2>2, Takes, Panel
<1>7. CASE CreateFails(i)
  BY <1>1, <1>2, <1>3, <1>4, <1>7, NoLinkShown, Takes, Panel DEF CreateFails
<1> QED
  BY <1>5, <1>6, <1>7

\* The only step that looks for one link and marks what may be another.
LEMMA CheckStep ==
    ASSUME IInv, NEW s \in Scopes, checkInvites(s)
    PROVE  IInv'
<1> DEFINE i == ui[s].id
           key == Key(s, group)
<1>1. TypeOK /\ making \in [Ids -> {"idle", "preparing", "waiting"}] /\ group \in Groups
      /\ ui \in [Scopes -> Shown] /\ saved \in [Slots -> Shown]
  BY DEF IInv, TypeOK
<1>2. key \in Slots /\ (key = direct <=> s = "direct") /\ Scope(key) = s
  BY <1>1, Separate DEF Key, Slots, Scopes, Scope
<1>3. i \in Ids /\ i \in Made /\ entry[i] # "absent"
  BY <1>1 DEF IInv, Named, Made, checkInvites
<1>4. /\ UNCHANGED <<entry, made, making, mode, group, shared, page, used, room>>
      /\ \A j \in Ids : making'[j] # "idle" => j \in Made
  BY DEF checkInvites, chain, guest, IInv, Named
<1>5. CASE Retire(s, i)
  BY <1>1, <1>2, <1>4, <1>5, NoLinkShown, Takes, Panel DEF checkInvites
<1>6. CASE ~Retire(s, i)
  <2> DEFINE mine == [ui[s] EXCEPT !.status = "ready"]
             kept == IF saved[key].id = 0 THEN saved[key] ELSE Link(saved[key].id, "ready")
  <2>1. ui' = [ui EXCEPT ![s] = mine] /\ saved' = [saved EXCEPT ![key] = kept]
    BY <1>6 DEF checkInvites
  <2>2. mine \in Shown /\ mine.id = i /\ mine.status = "ready"
    BY <1>1 DEF Shown, Statuses
  <2>3. /\ kept \in Shown /\ kept.id = saved[key].id /\ kept.id \in {0} \union Made
        /\ kept.id = 0 => kept.status = "none"
    BY <1>1, <1>2, LinkShown DEF Shown, Statuses, IInv, Named, ReadyHasId
  <2>4. s = "direct" => kept = mine
    <3>1. s = "direct" => ui[s] = saved[key]
      BY <1>2 DEF IInv, InStep
    <3>2. ui[s] = [id |-> i, status |-> ui[s].status] /\ mine = [id |-> i, status |-> "ready"]
      BY <1>1 DEF Shown
    <3>3. i # 0
      BY <1>3, Separate
    <3> QED
      BY <3>1, <3>2, <3>3 DEF Link
  <2> HIDE DEF mine, kept, key, i
  <2>5. /\ ui' \in [Scopes -> Shown] /\ saved' \in [Slots -> Shown]
        /\ ui'[s] = mine /\ saved'[key] = kept
        /\ \A t \in Scopes \ {s} : ui'[t] = ui[t]
        /\ \A k \in Slots \ {key} : saved'[k] = saved[k]
    BY <1>1, <1>2, <2>1, <2>2, <2>3
  <2>6. /\ \A t \in Scopes : ui'[t].id \in {0} \union Made
        /\ \A k \in Slots : saved'[k].id \in {0} \union Made
        /\ \A t \in Scopes : ui'[t].id = 0 => ui'[t].status = "none"
        /\ \A k \in Slots : saved'[k].id = 0 => saved'[k].status = "none"
    BY <1>3, <2>2, <2>3, <2>5, Separate DEF IInv, Named, ReadyHasId
  <2>7. "direct" \in Scopes /\ direct \in Slots
    BY DEF Scopes, Slots
  <2>8. ui'["direct"] = saved'[direct]
    BY <1>2, <2>4, <2>5, <2>7 DEF IInv, InStep
  <2>9. ui'["direct"].status = "ready" => entry[ui'["direct"].id] # "absent"
    BY <1>3, <2>2, <2>5, <2>7 DEF IInv, ReadyIsMade
  <2> QED
    BY <1>1, <1>4, <2>5, <2>6, <2>8, <2>9, Panel
<1> QED
  BY <1>5, <1>6

\* The device's links come back to the panel.
LEMMA RestoreStep ==
    ASSUME IInv, ReloadRoom \/ \E g \in Groups : SelectGroup(g)
    PROVE  IInv'
<1>1. PICK g \in Groups : group' = g /\ ui' = Restored(g) /\ saved' = Swept(g)
  BY DEF ReloadRoom, SelectGroup, IInv, TypeOK
<1>2. /\ UNCHANGED <<entry, made, mode, shared, page, used, room>>
      /\ making' \in [Ids -> {"idle", "preparing", "waiting"}]
      /\ \A i \in Ids : making'[i] # "idle" => i \in Made
  BY DEF ReloadRoom, SelectGroup, IInv, TypeOK, Named, chain, guest
<1>3. saved \in [Slots -> Shown] /\ \A k \in Slots : saved[k].id \in {0} \union Made
  BY DEF IInv, TypeOK, Named
<1>4. \A s \in Scopes : Key(s, g) \in Slots
  BY DEF Key, Slots
<1>5. ui' \in [Scopes -> Shown] /\ saved' \in [Slots -> Shown]
  BY <1>1, <1>3, <1>4, NoLinkShown DEF Restored, Swept
<1>6. /\ \A s \in Scopes : ui'[s] \in {NoLink, saved[Key(s, g)]}
      /\ \A k \in Slots : saved'[k] \in {NoLink, saved[k]}
  BY <1>1 DEF Restored, Swept
<1>7. /\ \A s \in Scopes : ui'[s].id \in {0} \union Made
      /\ \A k \in Slots : saved'[k].id \in {0} \union Made
  BY <1>3, <1>4, <1>6, NoLinkShown
<1>8. ui'["direct"] = saved'[direct] /\ ui'["direct"] \in {NoLink, ui["direct"]}
  <2>1. "direct" \in Scopes /\ direct \in Slots /\ Key("direct", g) = direct
    BY DEF Scopes, Slots, Key
  <2> QED
    BY <1>1, <2>1 DEF Restored, Swept, IInv, InStep
<1>9. ui'["direct"].status = "ready" => entry[ui'["direct"].id] # "absent"
  BY <1>8, NoLinkShown DEF IInv, ReadyIsMade
<1>10. /\ \A s \in Scopes : ui'[s].id = 0 => ui'[s].status = "none"
       /\ \A k \in Slots : saved'[k].id = 0 => saved'[k].status = "none"
  BY <1>4, <1>6, NoLinkShown DEF IInv, ReadyHasId
<1> QED
  BY <1>1, <1>2, <1>5, <1>7, <1>8, <1>9, <1>10, Panel

-----------------------------------------------------------------------------
(* Everything else.                                                        *)

\* A wallet's answer, time, the mode, a copied link.
LEMMA AroundStep ==
    ASSUME IInv,
           \/ \E i \in Ids : ApproveCreate(i) \/ DeclineCreate(i) \/ Expire(i)
           \/ \E m \in Rails : changeMode(m)
           \/ \E s \in Scopes : shareInviteLink(s)
           \/ UNCHANGED vars
    PROVE  IInv'
<1>1. /\ UNCHANGED <<made, making, ui, saved, group, page, used, room>>
      /\ TypeOK /\ Named
  BY DEF IInv, ApproveCreate, DeclineCreate, Expire, changeMode, shareInviteLink,
         vars, chain, panel, guest
<1>2. /\ entry' \in [Ids -> {"absent", "open", "consumed"}]
      /\ \A j \in Ids : entry[j] # "absent" => entry'[j] # "absent"
  <2>1. CASE UNCHANGED entry
    BY <1>1, <2>1 DEF TypeOK
  <2>2. CASE \E i \in Ids : Created(i)
    BY <1>1, <2>2, NeverAbsentAgain
  <2> QED
    BY <2>1, <2>2 DEF ApproveCreate, DeclineCreate, Expire, changeMode, shareInviteLink,
         vars, chain, panel, guest
<1>3. mode' \in Rails
  BY <1>1 DEF TypeOK, ApproveCreate, DeclineCreate, Expire, changeMode, shareInviteLink,
         vars, chain, panel, guest
<1>4. shared' \subseteq Made
  <2>1. CASE shared' = shared
    BY <1>1, <2>1 DEF Named
  <2>2. ASSUME NEW s \in Scopes, shareInviteLink(s) PROVE shared' \subseteq Made
    <3>1. ui[s].id \in Made
      BY <1>1, <2>2 DEF shareInviteLink, Named, IInv, ReadyHasId
    <3> QED
      BY <1>1, <2>2, <3>1 DEF shareInviteLink, Named
  <2> QED
    BY <2>1, <2>2 DEF ApproveCreate, DeclineCreate, Expire, changeMode, vars, chain, panel, guest
<1> QED
  BY <1>1, <1>2, <1>3, <1>4, Outside DEF TypeOK, Named

\* Where a guest's page may go: away, to a link that was copied, or on with its own.
PageMoves(w) ==
  \/ UNCHANGED page
  \/ Leave(w)
  \/ \E i \in shared : page' = [page EXCEPT ![w] = [id |-> i, step |-> "reading"]]
  \/ page[w].step # "none" /\ \E step \in {"asking", "handed", "waiting"} : ToStep(w, step)

LEMMA PageKeepsIds ==
    ASSUME TypeOK, Named, NEW w \in Guests, PageMoves(w)
    PROVE  /\ page' \in [Guests -> PageState]
           /\ \A v \in Guests : page'[v].step # "none" => page'[v].id \in Made
<1> SUFFICES ASSUME NEW new \in PageState, new.step # "none" => new.id \in Made,
                    page' = [page EXCEPT ![w] = new]
             PROVE  /\ page' \in [Guests -> PageState]
                    /\ \A v \in Guests : page'[v].step # "none" => page'[v].id \in Made
  <2>1. page \in [Guests -> PageState] /\ page[w] \in PageState
    BY DEF TypeOK
  <2>2. CASE UNCHANGED page
    BY <2>2 DEF TypeOK, Named
  <2>3. CASE Leave(w)
    <3>1. NoPage \in PageState /\ NoPage.step = "none"
      BY DEF NoPage, PageState
    <3> QED
      BY <2>3, <3>1 DEF Leave
  <2>4. ASSUME NEW i \in shared, page' = [page EXCEPT ![w] = [id |-> i, step |-> "reading"]]
        PROVE  \E new \in PageState : /\ new.step # "none" => new.id \in Made
                                      /\ page' = [page EXCEPT ![w] = new]
    <3> DEFINE new == [id |-> i, step |-> "reading"]
    <3>1. new \in PageState /\ new.id \in Made
      BY DEF TypeOK, Named, PageState, Made
    <3> QED
      BY <2>4, <3>1
  <2>5. ASSUME page[w].step # "none", NEW step \in {"asking", "handed", "waiting"}, ToStep(w, step)
        PROVE  \E new \in PageState : /\ new.step # "none" => new.id \in Made
                                      /\ page' = [page EXCEPT ![w] = new]
    <3> DEFINE new == [page[w] EXCEPT !.step = step]
    <3>1. new \in PageState /\ new.id \in Made
      BY <2>1, <2>5 DEF Named, PageState
    <3>2. page' = [page EXCEPT ![w] = new]
      BY <2>5 DEF ToStep
    <3> QED
      BY <3>1, <3>2
  <2> QED
    BY <2>2, <2>3, <2>4, <2>5 DEF PageMoves
<1>1. page \in [Guests -> PageState]
  BY DEF TypeOK
<1> QED
  BY <1>1 DEF Named

\* A guest joins with the link of the page: what the device had stays.
LEMMA JoinStep ==
    ASSUME IInv, NEW w \in Guests, page[w].step # "none", Join(w, page[w].id)
    PROVE  IInv'
<1> DEFINE i == page[w].id
           new == Stored(room[w], made[i].rail, made[i].slot)
<1>1. /\ TypeOK /\ Named /\ i \in Made /\ i \in Ids /\ made[i] \in Invite
      /\ room \in [Guests -> RoomState] /\ used \in [Guests -> SUBSET Ids]
  BY DEF IInv, TypeOK, Named, Made
<1>2. /\ made[i].slot \in Slots /\ made[i].rail \in Rails
  BY <1>1 DEF Invite
<1>3. /\ new \in RoomState
      /\ new.chat = (room[w].chat \/ made[i].slot = direct)
  <2>1. room[w] \in RoomState
    BY <1>1
  <2>2. {made[i].slot} \ {direct} \subseteq Groups
    BY <1>2 DEF Slots
  <2> QED
    BY <1>2, <2>1, <2>2 DEF Stored, RoomState
<1>4. room' = [room EXCEPT ![w] = new] /\ used' = [used EXCEPT ![w] = @ \union {i}]
  BY DEF Join
<1> HIDE DEF new
<1>5. /\ room' \in [Guests -> RoomState] /\ used' \in [Guests -> SUBSET Ids]
      /\ room'[w] = new /\ used'[w] = used[w] \union {i}
      /\ \A v \in Guests \ {w} : room'[v] = room[v] /\ used'[v] = used[v]
  BY <1>1, <1>3, <1>4
<1>6. UNCHANGED <<entry, made, making, mode, group, ui, saved, shared>>
  BY DEF Join, chain, panel
<1>7. /\ page' \in [Guests -> PageState]
      /\ \A v \in Guests : page'[v].step # "none" => page'[v].id \in Made
  BY <1>1, PageKeepsIds DEF Join, PageMoves
<1>8. TypeOK'
  BY <1>1, <1>5, <1>6, <1>7 DEF TypeOK
<1>9. Named'
  BY <1>1, <1>5, <1>6, <1>7 DEF Named, Made
<1>10. InStep' /\ ReadyHasId' /\ ReadyIsMade'
  BY <1>6 DEF IInv, InStep, ReadyHasId, ReadyIsMade
<1>11. ChatAccessKept'
  <2> SUFFICES ASSUME NEW v \in Guests, NEW j \in used'[v], made[j].slot = direct
               PROVE  room'[v].chat
    BY <1>6 DEF ChatAccessKept
  <2>1. CASE v # w
    BY <1>5, <2>1 DEF IInv, ChatAccessKept
  <2>2. CASE v = w
    <3>1. j \in used[w] => room[w].chat
      BY <2>2 DEF IInv, ChatAccessKept
    <3> QED
      BY <1>3, <1>5, <2>2, <3>1
  <2> QED
    BY <2>1, <2>2
<1> QED
  BY <1>8, <1>9, <1>10, <1>11 DEF IInv

\* A guest changes the mode of its room, and nothing else of it.
LEMMA GuestModeStep ==
    ASSUME IInv, NEW w \in Guests, NEW m \in Rails, changeGuestMode(w, m)
    PROVE  IInv'
<1>1. /\ UNCHANGED <<entry, made, making, mode, group, ui, saved, shared, page, used>>
      /\ room' = [room EXCEPT ![w].mode = m]
      /\ room \in [Guests -> RoomState]
  BY DEF changeGuestMode, chain, panel, IInv, TypeOK
<1>2. room' \in [Guests -> RoomState] /\ \A v \in Guests : room'[v].chat = room[v].chat
  BY <1>1 DEF RoomState
<1>3. TypeOK' /\ Named'
  BY <1>1, <1>2 DEF IInv, TypeOK, Named, Made
<1>4. InStep' /\ ReadyHasId' /\ ReadyIsMade'
  BY <1>1 DEF IInv, InStep, ReadyHasId, ReadyIsMade
<1>5. ChatAccessKept'
  BY <1>1, <1>2 DEF IInv, ChatAccessKept
<1> QED
  BY <1>3, <1>4, <1>5 DEF IInv

\* The guest's page and transaction otherwise.
LEMMA GuestStep ==
    ASSUME IInv, NEW w \in Guests,
           \/ ensureInviteConsumed(w) \/ Refused(w) \/ HandedOver(w) \/ ConsumeFails(w)
           \/ waitConsumed(w) \/ NotConsumed(w) \/ LeavePage(w)
           \/ \E i \in Ids : \/ OpenInvite(w, i) \/ consumeInviteOnchain(w, i) \/ Execute(w, i)
                             \/ RecoveryTooOld(w, i)
    PROVE  IInv'
<1> DEFINE Joins == page[w].step # "none" /\ Join(w, page[w].id)
           Moves == /\ PageMoves(w)
                    /\ UNCHANGED <<made, making, mode, group, ui, saved, shared, used, room>>
                    /\ UNCHANGED entry \/ \E i \in Ids : Consumable(i) /\ Consumed(i, w)
<1>1. Joins \/ Moves
  <2>1. CASE ensureInviteConsumed(w)
    BY <2>1 DEF ensureInviteConsumed, At, PageMoves, chain, panel
  <2>2. CASE HandedOver(w) \/ waitConsumed(w)
    BY <2>2 DEF HandedOver, waitConsumed, At
  <2>3. CASE Refused(w) \/ NotConsumed(w) \/ LeavePage(w)
    BY <2>3 DEF Refused, NotConsumed, LeavePage, PageMoves, chain, panel
  <2>4. CASE ConsumeFails(w)
    BY <2>4 DEF ConsumeFails, At, PageMoves, chain, panel
  <2>5. ASSUME NEW i \in Ids, OpenInvite(w, i) PROVE Moves
    BY <2>5 DEF OpenInvite, Openable, PageMoves, chain, panel
  <2>6. ASSUME NEW i \in Ids, consumeInviteOnchain(w, i) PROVE Moves
    BY <2>6 DEF consumeInviteOnchain, PageMoves, chain, panel
  <2>7. ASSUME NEW i \in Ids, Execute(w, i) PROVE Moves
    BY <2>7 DEF Execute, PageMoves, panel
  <2>8. ASSUME NEW i \in Ids, RecoveryTooOld(w, i) PROVE Moves
    BY <2>8 DEF RecoveryTooOld, PageMoves, chain, panel
  <2> QED
    BY <2>1, <2>2, <2>3, <2>4, <2>5, <2>6, <2>7, <2>8
<1>2. CASE Joins
  BY <1>2, JoinStep
<1>3. CASE Moves
  <2>1. TypeOK /\ Named
    BY DEF IInv
  <2>2. /\ entry' \in [Ids -> {"absent", "open", "consumed"}]
        /\ \A j \in Ids : entry[j] # "absent" => entry'[j] # "absent"
    BY <1>3, <2>1, NeverAbsentAgain DEF TypeOK
  <2>3. /\ page' \in [Guests -> PageState]
        /\ \A v \in Guests : page'[v].step # "none" => page'[v].id \in Made
    BY <1>3, <2>1, PageKeepsIds
  <2> QED
    BY <1>3, <2>1, <2>2, <2>3, Outside DEF TypeOK, Named
<1> QED
  BY <1>1, <1>2, <1>3

LEMMA NextInvariant == IInv /\ [Next]_vars => IInv'
BY CreateStep, MakingStep, CheckStep, RestoreStep, AroundStep, GuestModeStep, GuestStep DEF Next

THEOREM Invariance == Spec => []IInv
<1> QED
  BY InitInvariant, NextInvariant, PTL DEF Spec

\* A private chat link that may be shared is on the chain, for any number of links
\* made at once, whatever the wallet does and however often groups are switched
\* (createInviteLink, checkInvites).
THEOREM ReadyLinksExist == Spec => []ReadyIsMade
<1> QED
  BY Invariance, PTL DEF IInv

\* Chat access once given is kept by every later invite (page.tsx, Stored).
THEOREM ChatStays == Spec => []ChatAccessKept
<1> QED
  BY Invariance, PTL DEF IInv

=============================================================================
