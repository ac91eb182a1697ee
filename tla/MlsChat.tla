------------------------------- MODULE MlsChat -------------------------------
(***************************************************************************)
(* The end-to-end encrypted direct chat of the frontend: two wallets, each *)
(* with one device whose OpenMLS state lives in one IndexedDB checkpoint,  *)
(* and any number of sessions (tabs, or controllers left behind by a       *)
(* switch of peer or rail) that work on a copy of it.  Packets travel as   *)
(* frames, one transaction each, over two rails.                           *)
(*                                                                         *)
(* A session changes its copy and saves it in one step: the change is      *)
(* local, and what counts is the moment of the database transaction, which *)
(* compares the revision.  Every error discards the session's copy; the    *)
(* next operation loads the checkpoint again.                              *)
(*                                                                         *)
(* An operator named Bug_... is a faulty variant of a definition below it; *)
(* the specification does not use it.                                      *)
(***************************************************************************)
EXTENDS Integers, Sequences, FiniteSets

CONSTANTS
  Inviter, Joiner,   \* the two devices; the lower address invites
  Sessions,          \* tabs and controllers
  NoSession,
  Home,              \* the device a session runs on
  Rails,             \* the transaction modes
  Modes,             \* those the user of a session ever selects
  FrameCount,        \* number of frames of a packet, per kind
  MaxKeyPackages,    \* bound on the key packages a device makes
  MaxTexts,          \* bound on the texts each device encrypts
  Aging,             \* packages and Welcomes whose validity runs down
  MaxPackets,        \* packets one discovery reassembles (128 in the code)
  Tolerance          \* how far behind its ratchet OpenMLS still decrypts

Devices == {Inviter, Joiner}
Kinds == {"key_package", "welcome", "application"}

ASSUME ChatAssumption ==
  /\ Inviter # Joiner /\ NoSession \notin Sessions
  /\ Home \in [Sessions -> Devices]
  /\ IsFiniteSet(Rails) /\ Rails # {} /\ Modes \in [Sessions -> (SUBSET Rails) \ {{}}]
  /\ FrameCount \in [Kinds -> Nat \ {0}]
  /\ MaxTexts \in [Devices -> Nat]
  /\ {MaxKeyPackages, MaxPackets, Tolerance} \subseteq Nat

Secrets == 1..(MaxTexts[Inviter] + MaxTexts[Joiner])
Peer(d) == IF d = Inviter THEN Joiner ELSE Inviter

---------------------------------------------------------------------------
(* Packets and the checkpoint *)

\* A group is named by the session that created it and the key package of
\* the peer its Welcome is encrypted to (0 before a member is added).
Groups == [by : Sessions \cup {NoSession}, key : 0..MaxKeyPackages]
NoGroup == [by |-> NoSession, key |-> 0]

KeyPackage(d, n) == [kind |-> "key_package", from |-> d, n |-> n]
Welcome(g) == [kind |-> "welcome", from |-> Inviter, group |-> g]
\* The session that encrypts a text stands for its content and packet id.
Text(s, g, i) ==
  [kind |-> "application", from |-> Home[s], group |-> g, secret |-> i, by |-> s]

KeyPackages == [kind : {"key_package"}, from : Devices, n : 1..MaxKeyPackages]
Welcomes == [kind : {"welcome"}, from : {Inviter}, group : Groups]
Texts == [kind : {"application"}, from : Devices, group : Groups,
          secret : Secrets, by : Sessions]
Packets == KeyPackages \cup Welcomes \cup Texts
NoPacket == [kind |-> "none"]

Frames(p) == 1..FrameCount[p.kind]

\* pendingTransport: the frames with a prepared locator, and those with a
\* receipt.
NewPlan(p, r) ==
  [packet |-> p, rail |-> r, approved |-> FALSE, prepared |-> {}, receipts |-> {}]
NoPlan == NewPlan(NoPacket, CHOOSE r \in Rails : TRUE)
Plans ==
  [packet : Packets \cup {NoPacket}, rail : Rails, approved : BOOLEAN,
   prepared : SUBSET Nat, receipts : SUBSET Nat]

\* A group of the checkpoint: none, created without its peer, with a pending
\* commit that adds it, joined by a Welcome but not hydrated, hydrated.
Stages == {"none", "alone", "adding", "joined", "ready"}
Checkpoint ==
  [made : 0..MaxKeyPackages,             \* key packages made so far
   keys : SUBSET (1..MaxKeyPackages),    \* their private keys still held
   published : 0..MaxKeyPackages,        \* keyPackagePublished: the last one
   stage : Stages, group : Groups,       \* the MLS group
   sent : Nat,                           \* secrets of the own ratchet used
   app : Texts \cup {NoPacket},          \* pendingApplication
   plan : Plans,                         \* pendingTransport
   inbox : SUBSET Texts]
Blank ==
  [made |-> 0, keys |-> {}, published |-> 0, stage |-> "none", group |-> NoGroup,
   sent |-> 0, app |-> NoPacket, plan |-> NoPlan, inbox |-> {}]

Perishable == KeyPackages \cup Welcomes

ASSUME AgingAssumption == Aging \subseteq Perishable

VARIABLES
  disk,     \* the checkpoint of each device
  mem,      \* the copy each session works on
  synced,   \* sessions whose copy has the revision of the checkpoint
  at,       \* where each session's operation waits
  rail,     \* the rail of each session's account
  peerkey,  \* the peer package an invitation has read
  prompts,  \* frames the wallets hold and may still send
  chain,    \* the frames on chain, in block order
  life      \* validity of packages and Welcomes: 2, 1 (the last minutes), 0

vars == <<disk, mem, synced, at, rail, peerkey, prompts, chain, life>>
local == <<rail, peerkey>>
net == <<prompts, chain>>

Steps == {"closed", "idle", "sign_key", "group", "sign_welcome", "plan",
          "approve", "frame", "poll", "hydrate"}
SentFrames == [packet : Packets, frame : Nat, rail : Rails]

Init ==
  /\ disk = [d \in Devices |-> Blank]
  /\ mem = [s \in Sessions |-> Blank]
  /\ synced = {}
  /\ at = [s \in Sessions |-> "closed"]
  /\ rail = [s \in Sessions |-> NoPlan.rail]
  /\ peerkey = [s \in Sessions |-> 0]
  /\ prompts = {}
  /\ chain = << >>
  /\ life = [p \in Perishable |-> IF p.kind = "key_package" THEN 2 ELSE 1]

---------------------------------------------------------------------------
(* The checkpoint *)

\* The revision comparison of putCheckpoint.
Current(s) == s \in synced

\* load: the decrypted checkpoint of the device; save: the encrypted one takes
\* its place, and every other copy has an old revision.
Loaded(s) == disk[Home[s]]

Stored(s, new) ==
  /\ disk' = [disk EXCEPT ![Home[s]] = new]
  /\ synced' = {t \in synced : Home[t] = Home[s] => t = s}

\* The session's copy is gone: an error of the operation, a reload, a crash.
Discard(s) ==
  /\ at' = [at EXCEPT ![s] = "closed"]
  /\ mem' = [mem EXCEPT ![s] = Blank]
  /\ synced' = synced \ {s}
  /\ UNCHANGED disk

\* Saves the new copy and goes on, or fails because another session has
\* saved in the meantime.
Save(s, new, next) ==
  IF Current(s)
  THEN /\ Stored(s, new)
       /\ mem' = [mem EXCEPT ![s] = new]
       /\ at' = [at EXCEPT ![s] = next]
  ELSE Discard(s)

\* Goes on without saving.
Goto(s, next) ==
  /\ at' = [at EXCEPT ![s] = next]
  /\ UNCHANGED <<disk, mem, synced>>

\* A tab is opened, or the next operation after an error loads the state.
Open(s, r) ==
  /\ at[s] = "closed"
  /\ at' = [at EXCEPT ![s] = "idle"]
  /\ mem' = [mem EXCEPT ![s] = Loaded(s)]
  /\ synced' = synced \cup {s}
  /\ rail' = [rail EXCEPT ![s] = r]
  /\ UNCHANGED <<disk, peerkey, net, life>>

\* The operation throws (a prompt declined, no proof in time, the wrong rail,
\* no peer package), or the tab is closed while it runs.
Fail(s) ==
  /\ at[s] \notin {"closed", "idle"}
  /\ Discard(s)
  /\ UNCHANGED <<local, net, life>>

CloseTab(s) ==
  /\ at[s] = "idle"
  /\ Discard(s)
  /\ UNCHANGED <<local, net, life>>

---------------------------------------------------------------------------
(* What a session sees of the chain *)

Bug_Visible(rails) == {i \in DOMAIN chain : chain[i].rail = NoPlan.rail}

\* Where the frames of the rails whose discovery answers are, in block order.
Visible(rails) == {i \in DOMAIN chain : chain[i].rail \in rails}

\* reassembleStarknetMlsFrames: the packets of which every frame is there,
\* among the first MaxPackets in the order in which they begin.
Begins(seen) ==
  {i \in seen : \A j \in seen : chain[j].packet = chain[i].packet => i <= j}
Kept(begins) == {i \in begins : Cardinality({j \in begins : j <= i}) <= MaxPackets}
Complete(rails) ==
  LET seen == Visible(rails) IN
  {p \in {chain[i].packet : i \in Kept(Begins(seen))} :
     \A k \in Frames(p) : \E i \in seen : chain[i].packet = p /\ chain[i].frame = k}

\* Packets in the order in which they begin.
FirstFrame(seen, p) == CHOOSE i \in Begins(seen) : chain[i].packet = p
Before(p, q) == FirstFrame(DOMAIN chain, p) < FirstFrame(DOMAIN chain, q)
Newest(S) == CHOOSE p \in S : \A q \in S \ {p} : Before(q, p)
Oldest(S) == CHOOSE p \in S : \A q \in S \ {p} : Before(p, q)

\* The packages of device d that can be read and are still valid.
Valid(p) == life[p] > 0
LivePackages(d, rails) ==
  {p \in Complete(rails) : p.kind = "key_package" /\ p.from = d /\ Valid(p)}
LiveWelcomes(rails) == {p \in Complete(rails) : p.kind = "welcome" /\ Valid(p)}

Views == (SUBSET Rails) \ {{}}

---------------------------------------------------------------------------
(* Starting an operation *)

\* What must be finished before another kind of packet is begun.
Pending(c) ==
  IF c.plan # NoPlan THEN c.plan.packet.kind
  ELSE IF c.app # NoPacket THEN "application"
  ELSE IF c.stage = "adding" THEN "welcome" ELSE "none"

MayStart(s, kind) == at[s] = "idle" /\ Pending(mem[s]) \in {"none", kind}

\* resumePending, and the same operation started again, with a framed packet
\* or an encrypted text at hand.
Resume(s) ==
  /\ at[s] = "idle"
  /\ mem[s].plan # NoPlan \/ mem[s].app # NoPacket
  /\ Goto(s, IF mem[s].plan # NoPlan THEN "approve" ELSE "plan")
  /\ UNCHANGED <<local, net, life>>

\* publishKeyPackage: a new package, unless the last one is good for more
\* than five minutes.
WithKeyPackage(c) == [c EXCEPT !.made = @ + 1, !.keys = @ \cup {c.made + 1}]

CreateKeyPackage(s) ==
  LET c == mem[s] IN
  /\ MayStart(s, "key_package") /\ c.plan = NoPlan
  /\ c.published # 0 => life[KeyPackage(Home[s], c.published)] < 2
  /\ c.made < MaxKeyPackages
  /\ Save(s, WithKeyPackage(c), "sign_key")
  /\ UNCHANGED <<local, net, life>>

SignKeyPackage(s) ==
  LET c == mem[s] IN
  /\ at[s] = "sign_key"
  /\ Save(s, [c EXCEPT !.plan = NewPlan(KeyPackage(Home[s], c.made), rail[s])],
          "approve")
  /\ UNCHANGED <<local, net, life>>

\* invitePeer reads the peer's package, also to sign a Welcome prepared before.
ReadPeerPackage(s, view) ==
  LET c == mem[s] IN
  /\ Home[s] = Inviter
  /\ MayStart(s, "welcome") /\ c.plan = NoPlan
  /\ c.stage # "ready" /\ c.published # 0
  /\ LivePackages(Joiner, view) # {}
  /\ peerkey' = [peerkey EXCEPT ![s] = Newest(LivePackages(Joiner, view)).n]
  /\ Goto(s, IF c.stage = "adding" THEN "sign_welcome" ELSE "group")
  /\ UNCHANGED <<rail, net, life>>

CreateGroup(s) ==
  LET c == mem[s] IN
  /\ at[s] = "group" /\ c.stage = "none"
  /\ Save(s, [c EXCEPT !.stage = "alone", !.group.by = s], "group")
  /\ UNCHANGED <<local, net, life>>

\* A pending commit that adds the owner of the peer's key package.
WithMember(c, key) == [c EXCEPT !.stage = "adding", !.group.key = key]

PrepareAddMember(s) ==
  LET c == mem[s] IN
  /\ at[s] = "group" /\ c.stage = "alone"
  /\ Valid(KeyPackage(Joiner, peerkey[s]))
  /\ Save(s, WithMember(c, peerkey[s]), "sign_welcome")
  /\ UNCHANGED <<local, net, life>>

SignWelcome(s) ==
  LET c == mem[s] IN
  /\ at[s] = "sign_welcome"
  /\ Save(s, [c EXCEPT !.plan = NewPlan(Welcome(c.group), rail[s])], "approve")
  /\ UNCHANGED <<local, net, life>>

\* The ratchet has moved on and the ciphertext is pending.
WithPending(c, t) == [c EXCEPT !.sent = @ + 1, !.app = t]

Bug_Encrypt(s) ==
  LET c == mem[s]
      new == WithPending(c, Text(s, c.group, c.sent + 1)) IN
  /\ MayStart(s, "application") /\ c.plan = NoPlan /\ c.app = NoPacket
  /\ c.stage = "ready" /\ c.sent < MaxTexts[Home[s]]
  /\ disk' = [disk EXCEPT ![Home[s]] = new]
  /\ mem' = [mem EXCEPT ![s] = new]
  /\ synced' = {t \in synced : Home[t] = Home[s] => t = s} \cup {s}
  /\ at' = [at EXCEPT ![s] = "plan"]
  /\ UNCHANGED <<local, net, life>>

\* sendText: the ratchet advances and the ciphertext is kept in one save.
Encrypt(s) ==
  LET c == mem[s] IN
  /\ MayStart(s, "application") /\ c.plan = NoPlan /\ c.app = NoPacket
  /\ c.stage = "ready" /\ c.sent < MaxTexts[Home[s]]
  /\ Save(s, WithPending(c, Text(s, c.group, c.sent + 1)), "plan")
  /\ UNCHANGED <<local, net, life>>

PlanText(s) ==
  LET c == mem[s] IN
  /\ at[s] = "plan"
  /\ Save(s, [c EXCEPT !.plan = NewPlan(c.app, rail[s])], "approve")
  /\ UNCHANGED <<local, net, life>>

---------------------------------------------------------------------------
(* sendStarknetMlsOnchain *)

Approve(s) ==
  LET c == mem[s] IN
  /\ at[s] = "approve" /\ c.plan.rail = rail[s]
  /\ IF c.plan.approved
     THEN Goto(s, "frame")
     ELSE Save(s, [c EXCEPT !.plan.approved = TRUE], "frame")
  /\ UNCHANGED <<local, net, life>>

Missing(c) == Frames(c.plan.packet) \ c.plan.receipts
NextFrame(c) == CHOOSE i \in Missing(c) : \A j \in Missing(c) : i <= j
Bug_IsPrepared(c) == FALSE
IsPrepared(c) == NextFrame(c) \in c.plan.prepared

\* The locator is saved before the wallet is asked; then the code polls for
\* the proof, whatever the wallet answers.
PrepareFrame(s) ==
  LET c == mem[s] IN
  /\ at[s] = "frame" /\ Missing(c) # {} /\ ~IsPrepared(c)
  /\ Save(s, [c EXCEPT !.plan.prepared = @ \cup {NextFrame(c)}], "poll")
  /\ prompts' = IF Current(s)
                THEN prompts \cup {[packet |-> c.plan.packet, frame |-> NextFrame(c),
                                    rail |-> rail[s]]}
                ELSE prompts
  /\ UNCHANGED <<local, chain, life>>

\* The user approves and the transaction is included, perhaps long after the
\* operation gave up or its tab was closed.  A prompt that is declined, or
\* lost with the tab, is one that is never approved.
Submit(f) ==
  /\ prompts' = prompts \ {f}
  /\ chain' = Append(chain, f)
  /\ UNCHANGED <<disk, mem, synced, at, local, life>>

Bug_FindReceipt(s, view) ==
  LET c == mem[s] IN
  /\ \/ at[s] = "poll"
     \/ at[s] = "frame" /\ Missing(c) # {} /\ IsPrepared(c)
  /\ view \subseteq Rails
  /\ Save(s, [c EXCEPT !.plan.receipts = @ \cup {NextFrame(c)}], "frame")
  /\ UNCHANGED <<local, net, life>>

\* The proof of the prepared frame is found by its locator.
FindReceipt(s, view) ==
  LET c == mem[s] IN
  /\ \/ at[s] = "poll"
     \/ at[s] = "frame" /\ Missing(c) # {} /\ IsPrepared(c)
  /\ \E i \in DOMAIN chain : /\ chain[i].packet = c.plan.packet
                             /\ chain[i].frame = NextFrame(c)
                             /\ chain[i].rail \in view
  /\ Save(s, [c EXCEPT !.plan.receipts = @ \cup {NextFrame(c)}], "frame")
  /\ UNCHANGED <<local, net, life>>

Published(s, kind) ==
  at[s] = "frame" /\ mem[s].plan.packet.kind = kind /\ Missing(mem[s]) = {}

WithPublished(c) == [c EXCEPT !.published = c.plan.packet.n, !.plan = NoPlan]

FinishKeyPackage(s) ==
  LET c == mem[s] IN
  /\ Published(s, "key_package")
  /\ Save(s, WithPublished(c), "idle")
  /\ UNCHANGED <<local, net, life>>

\* The commit is merged only once its Welcome is on chain; a crash before the
\* plan is cleared is made good by the next two actions.
MergePendingCommit(s) ==
  LET c == mem[s] IN
  /\ Published(s, "welcome") /\ c.stage = "adding"
  /\ Save(s, [c EXCEPT !.stage = "ready"], "frame")
  /\ UNCHANGED <<local, net, life>>

FinishWelcome(s) ==
  LET c == mem[s] IN
  /\ Published(s, "welcome") /\ c.stage = "ready"
  /\ Save(s, [c EXCEPT !.plan = NoPlan], "idle")
  /\ UNCHANGED <<local, net, life>>

\* The own text joins the inbox, and nothing is pending any more.
WithSent(c) == [c EXCEPT !.inbox = @ \cup {c.app}, !.app = NoPacket, !.plan = NoPlan]

FinishText(s) ==
  LET c == mem[s] IN
  /\ Published(s, "application")
  /\ Save(s, WithSent(c), "idle")
  /\ UNCHANGED <<local, net, life>>

---------------------------------------------------------------------------
(* Joining and receiving *)

Bug_KeyFirst(s, view, again) ==
  LET c == mem[s]
      g == Newest(LiveWelcomes(again)).group
  IN
  /\ at[s] = "idle" /\ Home[s] = Joiner /\ c.stage = "none"
  /\ LivePackages(Inviter, view) # {} /\ LiveWelcomes(again) # {}
  /\ g.key \in c.keys
  /\ Save(s, [c EXCEPT !.keys = @ \ {g.key}], "hydrate")
  /\ UNCHANGED <<local, net, life>>

Bug_JoinOnce(s, view, again) ==
  LET c == mem[s]
      g == Newest(LiveWelcomes(again)).group
  IN
  /\ at[s] = "idle" /\ Home[s] = Joiner /\ c.stage = "none"
  /\ LivePackages(Inviter, view) # {} /\ LiveWelcomes(again) # {}
  /\ g.key \in c.keys
  /\ Save(s, [c EXCEPT !.stage = "joined", !.group = g, !.keys = @ \ {g.key}],
          "hydrate")
  /\ UNCHANGED <<local, net, life>>

\* joinFromWelcome: a device without a group that holds the private key of the
\* Welcome joins and gives the key up.
JoinedBefore(c, g) == c.stage = "joined" /\ c.group = g
MayJoin(c, g) == c.stage = "none" /\ g.key \in c.keys
JoinFromWelcome(c, g) ==
  [c EXCEPT !.stage = "joined", !.group = g, !.keys = @ \ {g.key}]

\* joinFromPeerWelcome: the newest valid Welcome, while the inviter's package
\* is valid.  A group joined before a crash is only completed.
Join(s, view, again) ==
  LET c == mem[s]
      g == Newest(LiveWelcomes(again)).group
  IN
  /\ at[s] = "idle" /\ Home[s] = Joiner /\ c.stage # "ready"
  /\ LivePackages(Inviter, view) # {} /\ LiveWelcomes(again) # {}
  /\ \/ JoinedBefore(c, g) /\ Goto(s, "hydrate")
     \/ MayJoin(c, g) /\ Save(s, JoinFromWelcome(c, g), "hydrate")
  /\ UNCHANGED <<local, net, life>>

ApplyGroupSnapshot(s) ==
  /\ at[s] = "hydrate"
  /\ Save(s, [mem[s] EXCEPT !.stage = "ready"], "idle")
  /\ UNCHANGED <<local, net, life>>

Received(c, d) == {p \in c.inbox : p.from = Peer(d)}
LastSecret(c, d) ==
  IF Received(c, d) = {} THEN 0
  ELSE CHOOSE i \in Secrets :
         /\ \E p \in Received(c, d) : p.secret = i
         /\ \A p \in Received(c, d) : p.secret <= i

\* What OpenMLS can still decrypt with the checkpoint c of device d.
Decryptable(c, d, p) ==
  /\ p.group = c.group
  /\ \A q \in Received(c, d) : q.secret # p.secret
  /\ LastSecret(c, d) - p.secret < Tolerance

\* decryptApplicationMessage: the ratchet and the inbox are saved together.
WithText(c, p) == [c EXCEPT !.inbox = @ \cup {p}]

\* One packet of receiveTexts, the oldest that is new;
\* packets that do not decrypt are passed over.
Receive(s, view) ==
  LET c == mem[s]
      new == {p \in Complete(view) : /\ p.kind = "application" /\ p.from = Peer(Home[s])
                                     /\ p \notin c.inbox /\ Decryptable(c, Home[s], p)}
  IN
  /\ at[s] = "idle" /\ c.stage = "ready"
  /\ new # {}
  /\ Save(s, WithText(c, Oldest(new)), "idle")
  /\ UNCHANGED <<local, net, life>>

\* Time passes for a package or a Welcome from its signature on.
Signed(p) ==
  \/ \E d \in Devices : disk[d].plan.packet = p
  \/ \E i \in DOMAIN chain : chain[i].packet = p

Age(p) ==
  /\ Signed(p)
  /\ \E left \in 0..life[p] - 1 : life' = [life EXCEPT ![p] = left]
  /\ UNCHANGED <<disk, mem, synced, at, local, net>>

Publish(s) ==
  \/ Approve(s) \/ PrepareFrame(s)
  \/ \E view \in Views : FindReceipt(s, view)
  \/ FinishKeyPackage(s) \/ MergePendingCommit(s) \/ FinishWelcome(s) \/ FinishText(s)

Next ==
  \/ \E s \in Sessions :
       \/ \E r \in Modes[s] : Open(s, r)
       \/ Fail(s) \/ CloseTab(s) \/ Resume(s)
       \/ CreateKeyPackage(s) \/ SignKeyPackage(s)
       \/ \E view \in Views : ReadPeerPackage(s, view)
       \/ CreateGroup(s) \/ PrepareAddMember(s) \/ SignWelcome(s)
       \/ Encrypt(s) \/ PlanText(s)
       \/ Publish(s)
       \/ \E view, again \in Views : Join(s, view, again)
       \/ ApplyGroupSnapshot(s)
       \/ \E view \in Views : Receive(s, view)
  \/ \E f \in prompts : Submit(f)
  \/ \E p \in Aging : Age(p)

Spec == Init /\ [][Next]_vars

\* What the frontend schedules: an operation ends, an open page loads its state
\* and polls whenever it is idle, and all rails answer at some of these polls.
FairSpec ==
  /\ Spec
  /\ \A s \in Sessions :
       WF_vars(Fail(s) \/ \E r \in Modes[s] : Open(s, r)) /\ SF_vars(Receive(s, Rails))
  /\ \A s \in {s \in Sessions : Home[s] = Joiner} :
       SF_vars(Join(s, Rails, Rails)) /\ SF_vars(ApplyGroupSnapshot(s))

---------------------------------------------------------------------------
(* Properties *)

OnChain(p) == \A k \in Frames(p) :
  \E i \in DOMAIN chain : chain[i].packet = p /\ chain[i].frame = k

\* Every variable keeps its type: a session that has the revision of the
\* checkpoint has its content, and the copy of a closed one is gone.
TypeOK ==
  /\ disk \in [Devices -> Checkpoint] /\ mem \in [Sessions -> Checkpoint]
  /\ synced \subseteq Sessions
  /\ at \in [Sessions -> Steps] /\ rail \in [Sessions -> Rails]
  /\ peerkey \in [Sessions -> 0..MaxKeyPackages]
  /\ prompts \subseteq SentFrames /\ chain \in Seq(SentFrames) /\ life \in [Perishable -> 0..2]
  /\ \A s \in synced : at[s] # "closed" /\ mem[s] = disk[Home[s]]

\* No frame is ever submitted twice, whatever tabs, crashes and unknown wallet
\* outcomes do: each is a transaction with its own fee
\* (starknet-onchain-transport.ts:104, "never silently resubmitted").
PostedOnce ==
  \A i, j \in DOMAIN chain :
    chain[i].packet = chain[j].packet /\ chain[i].frame = chain[j].frame => i = j

\* A secret of the ratchet protects one text only: two tabs, or a crash
\* between encryption and publication, never put two ciphertexts under one
\* secret on chain.
OneTextPerSecret ==
  \A i, j \in DOMAIN chain :
    LET p == chain[i].packet
        q == chain[j].packet
    IN p.kind = "application" /\ q.kind = "application" /\ p.from = q.from
         /\ p.group = q.group /\ p.secret = q.secret => p = q

\* The pair is never split: whatever Welcome is on chain names the inviter's
\* own group, and its recipient still holds the key to open it or has joined
\* that very group; and the inviter calls the chat ready only when all of the
\* Welcome can be read.
OneGroup ==
  LET i == disk[Inviter]
      j == disk[Joiner]
  IN
  /\ \A f \in DOMAIN chain :
       chain[f].packet.kind = "welcome" =>
         LET g == chain[f].packet.group IN
         /\ i.group = g /\ i.stage \in {"adding", "ready"}
         /\ IF j.stage = "none" THEN g.key \in j.keys ELSE j.group = g
  /\ i.stage = "ready" => OnChain(Welcome(i.group))
  /\ j.stage # "none" => i.stage \in {"adding", "ready"}

SentOver(p, r) == \E i \in DOMAIN chain : chain[i].packet = p /\ chain[i].rail = r

\* OpenMLS gives up a text when one sent Tolerance or more after it was read
\* first; that takes two rails, one of which did not answer.
GivenUp(d, p) ==
  \E q \in Received(disk[d], d) :
    /\ q.secret >= p.secret + Tolerance
    /\ \E r1, r2 \in Rails : r1 # r2 /\ SentOver(p, r1) /\ SentOver(q, r2)

\* A text that is on chain is in its reader's durable inbox or its reader can
\* still decrypt it, although every decryption destroys its secret, except for
\* one overtaken on the other rail.  And what a reader has in the inbox is on
\* chain.
NothingLost ==
  \A d \in Devices :
    /\ \A p \in {chain[i].packet : i \in DOMAIN chain} :
         p.kind = "application" /\ p.from = Peer(d) /\ disk[d].stage = "ready" =>
           \/ p \in disk[d].inbox
           \/ Decryptable(disk[d], d, p) \/ GivenUp(d, p)
    /\ \A p \in disk[d].inbox : OnChain(p)

Ready(d) == disk[d].stage = "ready"

\* A Welcome on chain is taken by its recipient, while it and the inviter's
\* package stay valid. The chain keeps it, so this is asked again and again.
JoinsEventually ==
  []<>(OnChain(Welcome(disk[Inviter].group)) /\ Ready(Inviter) =>
        \/ Ready(Joiner)
        \/ life[Welcome(disk[Inviter].group)] = 0
        \/ \A n \in 1..MaxKeyPackages :
             OnChain(KeyPackage(Inviter, n)) => life[KeyPackage(Inviter, n)] = 0)

\* Again and again a reader has every text that is on chain for it.
AllRead(d) ==
  \A p \in {chain[i].packet : i \in DOMAIN chain} :
    p.kind = "application" /\ p.from = Peer(d) /\ OnChain(p) =>
      p \in disk[d].inbox \/ GivenUp(d, p)

DeliversEventually == \A d \in Devices : []<>(Ready(d) => AllRead(d))
=============================================================================
