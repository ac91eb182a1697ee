------------------------------ MODULE RoomInvite ------------------------------
(***************************************************************************)
(* An invitation from its link to the room it opens: the inviter's panel   *)
(* (useRoomInvitation.ts, invitation.ts), the Invite contract and its      *)
(* public rail (vinss_invite.cairo, vinss_public_rail.cairo), and the page *)
(* on which the invited wallet consumes it (app/invite/[token]/page.tsx).  *)
(*                                                                         *)
(* The room belongs to one inviter, who may invite to its private chat and *)
(* to each of her groups. A wallet answers late or never, a transaction    *)
(* that was handed over may still revert, pages are loaded again, and a    *)
(* link may be forwarded to any wallet. The bytes of a link are left out.  *)
(***************************************************************************)
EXTENDS Naturals, FiniteSets

CONSTANTS Guests,      \* the wallets a link may reach, a device each
          Groups,      \* the inviter's groups in the room
          Rails,       \* transaction modes the room is used in
          MaxInvites,  \* bound: links made
          MaxTurns     \* bound: pages left, groups switched, changes of mode, times run out

CONSTANTS direct, None

ASSUME InviteAssumption ==
  /\ direct \notin Groups /\ None \notin Groups \union Guests \union Rails
  /\ Groups # {} /\ None \notin [slot : {direct} \union Groups, rail : Rails]
  /\ Rails \subseteq {"shield", "unshield"}
  /\ MaxInvites \in Nat /\ MaxTurns \in Nat

VARIABLES
  \* The chain.
  entry,     \* per invite: absent, open or consumed
  consumer,  \* who consumed it; the public rail keeps this, the contract does not
  expired,   \* the invites whose time is over
  \* The inviter's device.
  made,      \* per invite: slot and rail, None before it is prepared
  making,    \* per invite: where createInviteLink stands, preparing or waiting
  offers,    \* open wallet requests to create one
  mode,      \* the room's mode
  group,     \* the group her page shows
  ui,        \* per scope: the link her panel shows
  watch,     \* the rail on which her panel looks for them
  saved,     \* per slot: the link her device keeps
  turns,
  \* The guests' devices.
  shared,    \* links that have left her device
  page,      \* the invite page of each guest
  recovery,  \* pairs for which a consumption was begun
  asks,      \* open wallet requests to consume
  sent,      \* transactions handed over and not yet executed
  used,      \* invites each device counts as used
  room       \* per guest: the room as stored on the device

chain == <<entry, consumer, expired>>
panel == <<made, making, offers, mode, group, ui, watch, saved>>
guest == <<shared, page, recovery, asks, sent, used, room>>
vars == <<chain, panel, turns, guest>>

Ids == 1 .. MaxInvites
Slots == {direct} \union Groups
Scopes == {"direct", "group"}
Scope(slot) == IF slot = direct THEN "direct" ELSE "group"

\* inviteStorageKey for the group that is shown now.
Key(scope, g) == IF scope = "direct" THEN direct ELSE g

NoLink == [id |-> 0, status |-> "none"]
Link(i, status) == [id |-> i, status |-> status]
NoRoom == [mode |-> None, chat |-> FALSE, groups |-> {}]
NoPage == [id |-> 0, step |-> "none"]

Init ==
  /\ entry = [i \in Ids |-> "absent"] /\ consumer = [i \in Ids |-> None] /\ expired = {}
  /\ made = [i \in Ids |-> None] /\ making = [i \in Ids |-> "idle"] /\ offers = {}
  /\ mode \in Rails /\ watch = mode /\ group = CHOOSE g \in Groups : TRUE
  /\ ui = [s \in Scopes |-> NoLink] /\ saved = [k \in Slots |-> NoLink]
  /\ turns = 0 /\ shared = {}
  /\ page = [w \in Guests |-> NoPage]
  /\ recovery = {} /\ asks = {} /\ sent = {}
  /\ used = [w \in Guests |-> {}] /\ room = [w \in Guests |-> NoRoom]

-----------------------------------------------------------------------------
(* The contract.                                                           *)

Created(i) ==
  /\ entry[i] = "absent" /\ i \notin expired
  /\ entry' = [entry EXCEPT ![i] = "open"]

\* The shielded contract takes the secret from anyone; the public rail takes the
\* caller's own signature and records the caller.
Consumable(i) == entry[i] = "open" /\ i \notin expired

Consumed(i, w) ==
  /\ entry' = [entry EXCEPT ![i] = "consumed"]
  /\ consumer' = [consumer EXCEPT ![i] = w]

Expire(i) ==
  /\ turns < MaxTurns /\ turns' = turns + 1
  /\ made[i] # None /\ i \notin expired
  /\ expired' = expired \union {i}
  /\ UNCHANGED <<entry, consumer, panel, guest>>

publicInviteConsumedBy(i, w) == consumer[i] = w

-----------------------------------------------------------------------------
(* The inviter.                                                            *)

\* The effect that looks for the links starts anew when a link or the group has
\* changed, and keeps the account it started with: a change of mode alone leaves
\* it on the rail of before.
Watches == watch' = IF ui' # ui \/ group' # group THEN mode ELSE watch

\* The old link goes first; the new one is kept before the wallet opens. An
\* earlier creation may still be under way.
createInviteLink(slot) ==
  /\ slot \in {direct, group}
  /\ \E i \in Ids :
       /\ made[i] = None /\ \A j \in Ids : j < i => made[j] # None
       /\ made' = [made EXCEPT ![i] = [slot |-> slot, rail |-> mode]]
       /\ making' = [making EXCEPT ![i] = "preparing"]
       /\ ui' = [ui EXCEPT ![Scope(slot)] = NoLink]
       /\ saved' = [saved EXCEPT ![slot] = NoLink]
  /\ UNCHANGED <<chain, offers, mode, group, turns, guest>>
  /\ Watches

\* createInviteToken has its keys: the panel, whatever group it shows now, and
\* the device take the link, and the wallet is asked.
onPrepared(i) ==
  /\ making[i] = "preparing" /\ making' = [making EXCEPT ![i] = "waiting"]
  /\ ui' = [ui EXCEPT ![Scope(made[i].slot)] = Link(i, "pending")]
  /\ saved' = [saved EXCEPT ![made[i].slot] = Link(i, "pending")]
  /\ offers' = offers \union {i}
  /\ UNCHANGED <<chain, made, mode, group, turns, guest>>
  /\ Watches

\* The wallet is answered at any time, also after the page gave up.
ApproveCreate(i) ==
  /\ i \in offers /\ offers' = offers \ {i}
  /\ Created(i)
  /\ UNCHANGED <<consumer, expired, made, making, mode, group, ui, watch, saved, turns, guest>>

DeclineCreate(i) ==
  /\ i \in offers /\ offers' = offers \ {i}
  /\ UNCHANGED <<chain, made, making, mode, group, ui, watch, saved, turns, guest>>

\* createInviteLink ends. What it shows as ready it has seen on the chain, in
\* createInviteToken or, after an error, by looking once itself.
Bug_waitForInviteOnchain(i) == i \notin offers
waitForInviteOnchain(i) == entry[i] # "absent"

Ended(i) ==
  /\ making[i] # "idle" /\ making' = [making EXCEPT ![i] = "idle"]
  /\ UNCHANGED <<chain, made, offers, mode, group, turns, guest>>

CreateReady(i) ==
  /\ Ended(i) /\ making[i] = "waiting" /\ waitForInviteOnchain(i)
  /\ ui' = [ui EXCEPT ![Scope(made[i].slot)] = Link(i, "ready")]
  /\ saved' = [saved EXCEPT ![made[i].slot] = Link(i, "ready")]
  /\ Watches

\* Preparing failed, the wallet refused, or nothing was seen in time.
CreateFails(i) ==
  /\ Ended(i)
  /\ ui' = [ui EXCEPT ![Scope(made[i].slot)] = NoLink]
  /\ saved' = [saved EXCEPT ![made[i].slot] = NoLink]
  /\ Watches

\* Every 2.5 seconds the panel looks for the links it shows, among the invites of
\* the rail its effect started with.
Bug_Retire(s, i) == entry[i] = "consumed" /\ ui[s].status = "pending"
Retire(s, i) == entry[i] = "consumed"

checkInvites(s) ==
  LET i == ui[s].id  key == Key(s, group) IN
    /\ i # 0 /\ i \notin expired /\ made[i].rail = watch /\ entry[i] # "absent"
    /\ IF Retire(s, i)
         THEN /\ ui' = [ui EXCEPT ![s] = NoLink]
              /\ saved' = [saved EXCEPT ![key] = NoLink]
         ELSE /\ ui[s].status = "pending"
              /\ ui' = [ui EXCEPT ![s].status = "ready"]
              /\ saved' = [saved EXCEPT ![key] = IF @.id = 0 THEN @ ELSE Link(@.id, "ready")]
    /\ UNCHANGED <<chain, made, making, offers, mode, group, turns, guest>>
    /\ Watches

\* What the device kept, unless its time is over.
Restored(g) ==
  [s \in Scopes |-> LET l == saved[Key(s, g)] IN IF l.id \in expired THEN NoLink ELSE l]
Swept(g) ==
  [k \in Slots |-> IF k \in {direct, g} /\ saved[k].id \in expired THEN NoLink ELSE saved[k]]

\* Another group is opened; what is under way goes on.
SelectGroup(g) ==
  /\ turns < MaxTurns /\ turns' = turns + 1
  /\ g # group /\ group' = g
  /\ ui' = Restored(g) /\ saved' = Swept(g) /\ Watches
  /\ UNCHANGED <<chain, made, making, offers, mode, guest>>

\* The effect may start before the session is there, and an account that is not
\* there yet counts as shielded.
ReloadRoom ==
  /\ turns < MaxTurns /\ turns' = turns + 1
  /\ making' = [i \in Ids |-> "idle"]
  /\ ui' = Restored(group) /\ saved' = Swept(group)
  /\ watch' \in {mode, "shield"}
  /\ UNCHANGED <<chain, made, offers, mode, group, guest>>

changeMode(m) ==
  /\ turns < MaxTurns /\ turns' = turns + 1
  /\ m # mode /\ mode' = m
  /\ UNCHANGED <<chain, made, making, offers, group, ui, watch, saved, guest>>

\* Copied, shared or shown as a code: not while it is pending or expired.
shareInviteLink(s) ==
  /\ ui[s].status = "ready" /\ ui[s].id \notin expired \union shared
  /\ shared' = shared \union {ui[s].id}
  /\ UNCHANGED <<chain, panel, turns, page, recovery, asks, sent, used, room>>

-----------------------------------------------------------------------------
(* A guest.                                                                *)

\* decodeInviteToken takes no link whose time is over, the page none that was
\* used on this device.
Openable(w, i) == i \in shared \ (expired \union used[w])

OpenInvite(w, i) ==
  /\ page[w] = NoPage /\ Openable(w, i)
  /\ page' = [page EXCEPT ![w] = [id |-> i, step |-> "reading"]]
  /\ UNCHANGED <<chain, panel, turns, shared, recovery, asks, sent, used, room>>

At(w, step) == page[w].step = step
ToStep(w, step) == page' = [page EXCEPT ![w].step = step]
Leave(w) == page' = [page EXCEPT ![w] = NoPage]

\* The guest changes the mode of the room on the device, the lock goes with it.
changeGuestMode(w, m) ==
  /\ turns < MaxTurns /\ turns' = turns + 1
  /\ room[w].mode \notin {None, m}
  /\ room' = [room EXCEPT ![w].mode = m]
  /\ UNCHANGED <<chain, panel, shared, page, recovery, asks, sent, used>>

\* A room of the same mode, or none, is on the device.
SameRail(w, i) == room[w].mode \in {None, made[i].rail}

\* What ensureInviteConsumed lets in without a consumption of its own.
Admitted(w, i) ==
  /\ entry[i] = "consumed"
  /\ IF made[i].rail = "unshield" THEN publicInviteConsumedBy(i, w) ELSE <<w, i>> \in recovery

\* What the device knows of the room afterwards: the invite's rail, its group or
\* its chat, and what it had.
Bug_Stored(old, rail, slot) ==
  [mode |-> rail, chat |-> slot = direct, groups |-> old.groups \union ({slot} \ {direct})]
Stored(old, rail, slot) ==
  [mode |-> rail, chat |-> old.chat \/ slot = direct, groups |-> old.groups \union ({slot} \ {direct})]

Join(w, i) ==
  /\ room' = [room EXCEPT ![w] = Stored(@, made[i].rail, made[i].slot)]
  /\ used' = [used EXCEPT ![w] = @ \union {i}]
  /\ recovery' = recovery \ {<<w, i>>}
  /\ Leave(w)
  /\ UNCHANGED <<chain, panel, turns, shared, asks, sent>>

ensureInviteConsumed(w) ==
  LET i == page[w].id IN
    /\ At(w, "reading") /\ SameRail(w, i)
    /\ \/ Admitted(w, i) /\ Join(w, i)
       \/ /\ entry[i] = "open"
          /\ recovery' = recovery \union {<<w, i>>}
          /\ asks' = asks \union {<<w, i>>}
          /\ ToStep(w, "asking")
          /\ UNCHANGED <<chain, panel, turns, shared, sent, used, room>>

\* The other rail, no such invite, used by somebody else, or no answer.
Refused(w) ==
  /\ At(w, "reading") /\ Leave(w)
  /\ UNCHANGED <<chain, panel, turns, shared, recovery, asks, sent, used, room>>

\* The wallet hands the transaction over; the page, if it still waits, has its
\* hash and goes on.
consumeInviteOnchain(w, i) ==
  /\ <<w, i>> \in asks /\ asks' = asks \ {<<w, i>>}
  /\ sent' = sent \union {<<w, i>>}
  /\ IF page[w] = [id |-> i, step |-> "asking"] THEN ToStep(w, "handed") ELSE UNCHANGED page
  /\ UNCHANGED <<chain, panel, turns, shared, recovery, used, room>>

Execute(w, i) ==
  /\ <<w, i>> \in sent /\ sent' = sent \ {<<w, i>>}
  /\ IF Consumable(i) THEN Consumed(i, w) ELSE UNCHANGED <<entry, consumer>>
  /\ UNCHANGED <<expired, panel, turns, shared, page, recovery, asks, used, room>>

HandedOver(w) == At(w, "handed") /\ Join(w, page[w].id)

\* Refused by the user, or an error that leaves the request open.
ConsumeFails(w) ==
  /\ At(w, "asking") /\ ToStep(w, "waiting")
  /\ asks' \in {asks, asks \ {<<w, page[w].id>>}}
  /\ UNCHANGED <<chain, panel, turns, shared, recovery, sent, used, room>>

\* After an error the page looks ten times: on the shielded rail for any
\* consumption, on the public rail for its own.
waitConsumed(w) ==
  LET i == page[w].id IN
    /\ At(w, "waiting") /\ entry[i] = "consumed"
    /\ made[i].rail = "unshield" => publicInviteConsumedBy(i, w)
    /\ Join(w, i)

NotConsumed(w) ==
  /\ At(w, "waiting") /\ Leave(w)
  /\ recovery' = recovery \ {<<w, page[w].id>>}
  /\ UNCHANGED <<chain, panel, turns, shared, asks, sent, used, room>>

\* The page is closed; the wallet's request may stay open.
LeavePage(w) ==
  /\ turns < MaxTurns /\ turns' = turns + 1
  /\ page[w] # NoPage /\ Leave(w)
  /\ UNCHANGED <<chain, panel, shared, recovery, asks, sent, used, room>>

\* An hour later loadRecovery drops it.
RecoveryTooOld(w, i) ==
  /\ <<w, i>> \in recovery /\ page[w] = NoPage
  /\ recovery' = recovery \ {<<w, i>>}
  /\ UNCHANGED <<chain, panel, turns, shared, page, asks, sent, used, room>>

-----------------------------------------------------------------------------
Next ==
  \/ \E k \in Slots : createInviteLink(k)
  \/ \E i \in Ids : \/ onPrepared(i) \/ ApproveCreate(i) \/ DeclineCreate(i)
                    \/ CreateReady(i) \/ CreateFails(i) \/ Expire(i)
  \/ \E s \in Scopes : checkInvites(s) \/ shareInviteLink(s)
  \/ \E g \in Groups : SelectGroup(g)
  \/ ReloadRoom \/ \E m \in Rails : changeMode(m)
  \/ \E w \in Guests :
       \/ ensureInviteConsumed(w) \/ Refused(w) \/ HandedOver(w) \/ ConsumeFails(w)
       \/ waitConsumed(w) \/ NotConsumed(w) \/ LeavePage(w)
       \/ \E m \in Rails : changeGuestMode(w, m)
       \/ \E i \in Ids : \/ OpenInvite(w, i) \/ consumeInviteOnchain(w, i) \/ Execute(w, i)
                        \/ RecoveryTooOld(w, i)

\* The panel polls while the room is open.
Fairness == \A s \in Scopes : WF_vars(checkInvites(s))

Spec == Init /\ [][Next]_vars /\ Fairness

-----------------------------------------------------------------------------
(* Properties.                                                             *)

\* R5, I15: a private chat link that the panel lets the inviter share, or that
\* her device keeps as ready, is on the chain, whatever else is under way.
ReadyIsMade ==
  \A l \in {ui["direct"], saved[direct]} : l.status = "ready" => entry[l.id] # "absent"

\* R7: a private chat link that was used does not stay on the inviter's panel as
\* long as it counts down and the panel looks on its rail. After a change of mode
\* (room/[roomId]/page.tsx:546), or a reload in which the session comes late, the
\* panel looks on the other rail until one of its links or the group changes.
UsedLinkRetired ==
  \A i \in Ids :
    entry[i] = "consumed"
      ~> ui["direct"].id # i \/ i \in expired \/ watch # made[i].rail

\* I16: no invite, to a group or to the chat, and in no order, takes away chat
\* access that the device had.
ChatAccessKept ==
  \A w \in Guests : (\E i \in used[w] : made[i].slot = direct) => room[w].chat

=============================================================================
