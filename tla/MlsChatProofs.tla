--------------------------- MODULE MlsChatProofs ---------------------------
(***************************************************************************)
(* Proofs about MlsChat, for any sessions of the two devices, any rails,   *)
(* numbers of frames, key packages and texts, and any tolerance.           *)
(*                                                                         *)
(* A session that has the revision of the checkpoint has its content, so   *)
(* everything that matters is said of the checkpoint.  Asked are the       *)
(* frames a wallet holds or has submitted.  Each is backed by the          *)
(* checkpoint of its sender: its locator is on disk while its packet is    *)
(* pending, and once the packet is finished no later one is the same.      *)
(***************************************************************************)
EXTENDS MlsChat, FiniteSetTheorems, TLAPS

---------------------------------------------------------------------------
(* The inductive invariant *)

Asked == prompts \cup {chain[i] : i \in DOMAIN chain}
Same(f, g) == f.packet = g.packet /\ f.frame = g.frame

\* What a wallet still holds is neither held twice nor on chain.
Prompted ==
  /\ \A f, g \in prompts : Same(f, g) => f = g
  /\ \A f \in prompts, i \in DOMAIN chain : ~Same(f, chain[i])

\* The frame f against the checkpoint c of its sender.
FrameBacked(f, c) ==
  LET p == f.packet
  IN /\ f.frame \in Frames(p)
     /\ c.plan.packet = p => f.frame \in c.plan.prepared
     /\ p.kind = "key_package" => p = c.plan.packet \/ p.n <= c.published
     /\ p.kind = "welcome" =>
          /\ p.group = c.group /\ c.stage \in {"adding", "ready"}
          /\ c.stage = "adding" => c.plan.packet = p
     /\ p.kind = "application" =>
          /\ p.group = c.group /\ c.stage = "ready"
          /\ IF p = c.app THEN c.plan.packet = p
             ELSE /\ OnChain(p)
                  /\ IF c.app = NoPacket THEN p.secret <= c.sent ELSE p.secret < c.sent
Backed(d, c) == \A f \in Asked : f.packet.from = d => FrameBacked(f, c)

\* The pending packet of device d, and the receipts it has.
PlanOk(d, c) ==
  LET p == c.plan.packet
  IN /\ p = NoPacket => c.plan = NoPlan
     /\ p # NoPacket =>
          /\ p.from = d
          /\ p.kind = "key_package" => p.n = c.made /\ c.published < c.made
          /\ p.kind = "welcome" => p.group = c.group /\ c.stage \in {"adding", "ready"}
          /\ p.kind = "application" => p = c.app
          /\ \A k \in c.plan.receipts :
               \E i \in DOMAIN chain : chain[i].packet = p /\ chain[i].frame = k

\* Its encrypted text and its inbox.
TextsOk(d, c) ==
  /\ c.published <= c.made
  /\ c.app # NoPacket =>
       c.stage = "ready" /\ c.app.from = d /\ c.app.group = c.group /\ c.app.secret = c.sent
  /\ c.stage # "ready" => c.inbox = {}
  /\ \A p \in c.inbox : OnChain(p)

Fits(d, c) == Backed(d, c) /\ PlanOk(d, c) /\ TextsOk(d, c)
DisksFit == \A d \in Devices : Fits(d, disk[d])

\* The checkpoints i of the inviter and j of the joiner.
PairOk(i, j) ==
  /\ j.stage = "none" => 1..j.made \subseteq j.keys
  /\ j.stage # "none" => j.group = i.group /\ i.stage \in {"adding", "ready"}
  /\ i.stage \in {"adding", "ready"} /\ j.stage = "none" => i.group.key \in j.keys
  /\ i.stage = "ready" => OnChain(Welcome(i.group))
Paired == PairOk(disk[Inviter], disk[Joiner])

\* Asked texts of one sender with one secret are one text.
Distinct ==
  \A f, g \in Asked :
    LET p == f.packet
        q == g.packet
    IN p.kind = "application" /\ q.kind = "application" /\ p.from = q.from
         /\ p.secret = q.secret => p = q

\* The texts of a sender are on chain in the order of their secrets.
InOrder ==
  \A i, j \in DOMAIN chain :
    LET p == chain[i].packet
        q == chain[j].packet
    IN p.kind = "application" /\ q.kind = "application" /\ p.from = q.from
         /\ p.secret < q.secret => i < j

\* What holds where the operation of session s waits, of its checkpoint c.
Waits(s, step, c) ==
  /\ step \in {"sign_key", "group", "sign_welcome", "plan"} => c.plan = NoPlan
  /\ step = "sign_key" => c.published < c.made
  /\ step \in {"group", "sign_welcome"} =>
       Home[s] = Inviter /\ peerkey[s] \in 1..disk[Joiner].made
  /\ step = "sign_welcome" => c.stage = "adding"
  /\ step = "plan" => c.app # NoPacket
  /\ step \in {"approve", "frame", "poll"} => c.plan # NoPlan
  /\ step = "hydrate" => Home[s] = Joiner /\ c.stage = "joined"
InPlace == \A s \in synced : Waits(s, at[s], disk[Home[s]])

\* What the reader d of an unread text p has passed does not rule p out.
Readable(d, p) == \A q \in Received(disk[d], d) : q.secret < p.secret + Tolerance
KeptFor(d) ==
  \A i \in DOMAIN chain :
    LET p == chain[i].packet IN
    p.kind = "application" /\ p.from = Peer(d) /\ disk[d].stage = "ready" =>
      p \in disk[d].inbox \/ Readable(d, p) \/ GivenUp(d, p)
Unlost == \A d \in Devices : KeptFor(d)

Net == Prompted /\ PostedOnce /\ Distinct /\ InOrder
IInv == TypeOK /\ Net /\ DisksFit /\ Paired /\ InPlace /\ Unlost

---------------------------------------------------------------------------
(* Numbers *)

LEMMA Least ==
  ASSUME NEW S \in SUBSET Nat, S # {}
  PROVE  \E m \in S : \A n \in S : m <= n
  <1>1. PICK m \in S : \A n \in S : <<n, m>> \notin OpToRel(<, Nat)
    BY WFMin, NatLessThanWellFounded
  <1>2. \A n \in S : ~(n < m)
    BY <1>1 DEF OpToRel
  <1> QED BY <1>2

LEMMA Greatest ==
  ASSUME NEW b \in Nat, NEW S \in SUBSET (0..b), S # {}
  PROVE  \E m \in S : \A n \in S : n <= m
  <1> DEFINE R == {k \in 0..b : b - k \in S}
  <1>1. PICK n0 \in S : TRUE
    OBVIOUS
  <1>2. b - n0 \in 0..b /\ b - (b - n0) = n0
    OBVIOUS
  <1>3. R \in SUBSET Nat /\ R # {}
    BY <1>1, <1>2
  <1>4. PICK r \in R : \A x \in R : r <= x
    <2> HIDE DEF R
    <2> QED BY <1>3, Least
  <1>5. ASSUME NEW n \in S PROVE n <= b - r
    <2>1. b - n \in R
      <3>1. b - n \in 0..b /\ b - (b - n) = n
        OBVIOUS
      <3> QED BY <3>1
    <2>2. r <= b - n
      BY <1>4, <2>1
    <2> QED BY <2>2, <1>4
  <1> QED BY <1>4, <1>5

---------------------------------------------------------------------------
(* Packets and checkpoints *)

LEMMA PacketFacts ==
  /\ NoPacket \notin Packets
  /\ \A p \in Packets : p.kind \in Kinds /\ p.from \in Devices /\ p # NoPacket
  /\ \A p \in Packets : p.kind = "key_package" => p.n \in 1..MaxKeyPackages
  /\ \A p \in Packets : p.kind = "welcome" =>
       p.from = Inviter /\ p.group \in Groups /\ p = Welcome(p.group)
  /\ \A p \in Packets : p.kind = "application" =>
       p \in Texts /\ p.group \in Groups /\ p.secret \in Secrets
  BY DEF Packets, KeyPackages, Welcomes, Texts, NoPacket, Kinds, Devices, Welcome

LEMMA MadePackets ==
  /\ \A d \in Devices, n \in 1..MaxKeyPackages :
       /\ KeyPackage(d, n) \in Packets
       /\ KeyPackage(d, n).kind = "key_package"
       /\ KeyPackage(d, n).from = d /\ KeyPackage(d, n).n = n
  /\ \A g \in Groups :
       /\ Welcome(g) \in Packets
       /\ Welcome(g).kind = "welcome" /\ Welcome(g).from = Inviter /\ Welcome(g).group = g
  /\ \A s \in Sessions, g \in Groups, i \in Secrets :
       /\ Text(s, g, i) \in Texts /\ Text(s, g, i) \in Packets
       /\ Text(s, g, i).kind = "application" /\ Text(s, g, i).from = Home[s]
       /\ Text(s, g, i).group = g /\ Text(s, g, i).secret = i
  BY ChatAssumption
  DEF Packets, KeyPackages, Welcomes, Texts, Devices, KeyPackage, Welcome, Text

LEMMA FrameNumbers ==
  \A p \in Packets : /\ FrameCount[p.kind] \in Nat \ {0} /\ Frames(p) = 1..FrameCount[p.kind]
                     /\ Frames(p) \subseteq Nat /\ 1 \in Frames(p)
  BY ChatAssumption, PacketFacts DEF Frames

LEMMA NewPlans ==
  /\ \A p \in Packets \cup {NoPacket}, r \in Rails :
       /\ NewPlan(p, r) \in Plans /\ NewPlan(p, r).packet = p
       /\ NewPlan(p, r).prepared = {} /\ NewPlan(p, r).receipts = {}
       /\ NewPlan(p, r).rail = r /\ NewPlan(p, r).approved = FALSE
  /\ NoPlan \in Plans /\ NoPlan.packet = NoPacket /\ NoPlan.rail \in Rails
  <1>1. \A p \in Packets \cup {NoPacket}, r \in Rails :
       /\ NewPlan(p, r) \in Plans /\ NewPlan(p, r).packet = p
       /\ NewPlan(p, r).prepared = {} /\ NewPlan(p, r).receipts = {}
       /\ NewPlan(p, r).rail = r /\ NewPlan(p, r).approved = FALSE
    BY DEF NewPlan, Plans
  <1>2. (CHOOSE r \in Rails : TRUE) \in Rails
    BY ChatAssumption
  <1> QED BY <1>1, <1>2 DEF NoPlan

LEMMA BlankOk == Blank \in Checkpoint
  <1>1. NoGroup \in Groups
    BY ChatAssumption DEF NoGroup, Groups
  <1> QED BY <1>1, NewPlans, ChatAssumption DEF Blank, Checkpoint, Stages

---------------------------------------------------------------------------
(* Updates of a checkpoint, field by field *)

SameKeys(c, n) == n.made = c.made /\ n.keys = c.keys /\ n.published = c.published
SameGroup(c, n) == n.stage = c.stage /\ n.group = c.group
SameTexts(c, n) == n.sent = c.sent /\ n.app = c.app /\ n.inbox = c.inbox
SameFrames(c, n) == n.plan.packet = c.plan.packet /\ n.plan.prepared = c.plan.prepared

LEMMA Fields ==
  ASSUME NEW c \in Checkpoint
  PROVE  /\ c.made \in 0..MaxKeyPackages /\ c.keys \subseteq 1..MaxKeyPackages
         /\ c.published \in 0..MaxKeyPackages
         /\ c.stage \in Stages /\ c.group \in Groups
         /\ c.sent \in Nat /\ c.app \in Texts \cup {NoPacket} /\ c.inbox \subseteq Texts
         /\ c.plan \in Plans /\ c.plan.packet \in Packets \cup {NoPacket} /\ c.plan.rail \in Rails
         /\ c.plan.prepared \subseteq Nat /\ c.plan.receipts \subseteq Nat
  BY DEF Checkpoint, Plans

Copy(c) ==
  [made |-> c.made, keys |-> c.keys, published |-> c.published, stage |-> c.stage,
   group |-> c.group, sent |-> c.sent, app |-> c.app, plan |-> c.plan, inbox |-> c.inbox]

LEMMA Whole == \A c \in Checkpoint : c = Copy(c)
  BY DEF Checkpoint, Copy

LEMMA WithKeyPackageFields ==
  ASSUME NEW c \in Checkpoint, c.made < MaxKeyPackages,
         NEW n, n = WithKeyPackage(c)
  PROVE  /\ n \in Checkpoint /\ SameGroup(c, n) /\ SameTexts(c, n) /\ n.plan = c.plan
         /\ n.made = c.made + 1 /\ n.keys = c.keys \cup {c.made + 1} /\ n.published = c.published
  <1>0. c = Copy(c)
    BY Whole
  <1>1. n = [made |-> c.made + 1, keys |-> c.keys \cup {c.made + 1}, published |-> c.published,
             stage |-> c.stage, group |-> c.group, sent |-> c.sent, app |-> c.app,
             plan |-> c.plan, inbox |-> c.inbox]
    BY <1>0, Zenon DEF Copy, WithKeyPackage
  <1> QED BY <1>1, Fields, ChatAssumption DEF Checkpoint, SameGroup, SameTexts

LEMMA PlannedFields ==
  ASSUME NEW c \in Checkpoint, NEW p \in Plans, NEW n, n = [c EXCEPT !.plan = p]
  PROVE  n \in Checkpoint /\ SameKeys(c, n) /\ SameGroup(c, n) /\ SameTexts(c, n) /\ n.plan = p
  BY DEF Checkpoint, SameKeys, SameGroup, SameTexts

LEMMA CreatedFields ==
  ASSUME NEW c \in Checkpoint, NEW s \in Sessions,
         NEW n, n = [c EXCEPT !.stage = "alone", !.group.by = s]
  PROVE  /\ n \in Checkpoint /\ SameKeys(c, n) /\ SameTexts(c, n) /\ n.plan = c.plan
         /\ n.stage = "alone"
  <1> DEFINE g == [c.group EXCEPT !.by = s]
  <1>0. c = Copy(c)
    BY Whole
  <1>1. n = [made |-> c.made, keys |-> c.keys, published |-> c.published,
             stage |-> "alone", group |-> g, sent |-> c.sent, app |-> c.app,
             plan |-> c.plan, inbox |-> c.inbox]
    BY <1>0, Zenon DEF Copy
  <1>2. g \in Groups
    <2>1. c.group \in Groups
      BY Fields
    <2> QED BY <2>1 DEF Groups
  <1> HIDE DEF g
  <1> QED BY <1>1, <1>2, Fields DEF Checkpoint, Stages, SameKeys, SameTexts

LEMMA AddingFields ==
  ASSUME NEW c \in Checkpoint, NEW k \in 0..MaxKeyPackages,
         NEW n, n = WithMember(c, k)
  PROVE  /\ n \in Checkpoint /\ SameKeys(c, n) /\ SameTexts(c, n) /\ n.plan = c.plan
         /\ n.stage = "adding" /\ n.group.key = k
  <1> DEFINE g == [c.group EXCEPT !.key = k]
  <1>0. c = Copy(c)
    BY Whole
  <1>1. n = [made |-> c.made, keys |-> c.keys, published |-> c.published,
             stage |-> "adding", group |-> g, sent |-> c.sent, app |-> c.app,
             plan |-> c.plan, inbox |-> c.inbox]
    BY <1>0, Zenon DEF Copy, WithMember
  <1>2. g \in Groups /\ g.key = k
    <2>1. c.group \in Groups
      BY Fields
    <2> QED BY <2>1 DEF Groups
  <1> HIDE DEF g
  <1> QED BY <1>1, <1>2, Fields DEF Checkpoint, Stages, SameKeys, SameTexts

LEMMA EncryptedFields ==
  ASSUME NEW c \in Checkpoint, NEW t \in Texts,
         NEW n, n = WithPending(c, t)
  PROVE  /\ n \in Checkpoint /\ SameKeys(c, n) /\ SameGroup(c, n) /\ n.plan = c.plan
         /\ n.sent = c.sent + 1 /\ n.app = t /\ n.inbox = c.inbox
  <1>0. c = Copy(c)
    BY Whole
  <1>1. n = [made |-> c.made, keys |-> c.keys, published |-> c.published,
             stage |-> c.stage, group |-> c.group, sent |-> c.sent + 1, app |-> t,
             plan |-> c.plan, inbox |-> c.inbox]
    BY <1>0, Zenon DEF Copy, WithPending
  <1> QED BY <1>1, Fields DEF Checkpoint, SameKeys, SameGroup

LEMMA ApprovedFields ==
  ASSUME NEW c \in Checkpoint, NEW n, n = [c EXCEPT !.plan.approved = TRUE]
  PROVE  /\ n \in Checkpoint /\ SameKeys(c, n) /\ SameGroup(c, n) /\ SameTexts(c, n)
         /\ SameFrames(c, n) /\ n.plan.receipts = c.plan.receipts
  BY DEF Checkpoint, Plans, SameKeys, SameGroup, SameTexts, SameFrames

LEMMA PreparedFields ==
  ASSUME NEW c \in Checkpoint, NEW k \in Nat,
         NEW n, n = [c EXCEPT !.plan.prepared = @ \cup {k}]
  PROVE  /\ n \in Checkpoint /\ SameKeys(c, n) /\ SameGroup(c, n) /\ SameTexts(c, n)
         /\ n.plan.packet = c.plan.packet /\ n.plan.receipts = c.plan.receipts
         /\ n.plan.prepared = c.plan.prepared \cup {k}
  BY DEF Checkpoint, Plans, SameKeys, SameGroup, SameTexts

LEMMA ReceivedFields ==
  ASSUME NEW c \in Checkpoint, NEW k \in Nat,
         NEW n, n = [c EXCEPT !.plan.receipts = @ \cup {k}]
  PROVE  /\ n \in Checkpoint /\ SameKeys(c, n) /\ SameGroup(c, n) /\ SameTexts(c, n)
         /\ SameFrames(c, n) /\ n.plan.receipts = c.plan.receipts \cup {k}
  BY DEF Checkpoint, Plans, SameKeys, SameGroup, SameTexts, SameFrames

LEMMA PublishedFields ==
  ASSUME NEW c \in Checkpoint, NEW k \in 0..MaxKeyPackages,
         k = c.plan.packet.n, NEW n, n = WithPublished(c)
  PROVE  /\ n \in Checkpoint /\ SameGroup(c, n) /\ SameTexts(c, n) /\ n.plan = NoPlan
         /\ n.made = c.made /\ n.keys = c.keys /\ n.published = k
  <1>0. c = Copy(c)
    BY Whole
  <1>1. n = [made |-> c.made, keys |-> c.keys, published |-> k,
             stage |-> c.stage, group |-> c.group, sent |-> c.sent, app |-> c.app,
             plan |-> NoPlan, inbox |-> c.inbox]
    BY <1>0, Zenon DEF Copy, WithPublished
  <1> QED BY <1>1, Fields, NewPlans DEF Checkpoint, SameGroup, SameTexts

LEMMA StageFields ==
  ASSUME NEW c \in Checkpoint, NEW n, n = [c EXCEPT !.stage = "ready"]
  PROVE  /\ n \in Checkpoint /\ SameKeys(c, n) /\ SameTexts(c, n) /\ n.plan = c.plan
         /\ n.stage = "ready" /\ n.group = c.group
  BY DEF Checkpoint, Stages, SameKeys, SameTexts

LEMMA FinishedFields ==
  ASSUME NEW c \in Checkpoint, c.app \in Texts,
         NEW n, n = WithSent(c)
  PROVE  /\ n \in Checkpoint /\ SameKeys(c, n) /\ SameGroup(c, n) /\ n.plan = NoPlan
         /\ n.sent = c.sent /\ n.app = NoPacket /\ n.inbox = c.inbox \cup {c.app}
  <1>0. c = Copy(c)
    BY Whole
  <1>1. n = [made |-> c.made, keys |-> c.keys, published |-> c.published,
             stage |-> c.stage, group |-> c.group, sent |-> c.sent, app |-> NoPacket,
             plan |-> NoPlan, inbox |-> c.inbox \cup {c.app}]
    BY <1>0, Zenon DEF Copy, WithSent
  <1> QED BY <1>1, Fields, NewPlans DEF Checkpoint, SameKeys, SameGroup

LEMMA JoinedFields ==
  ASSUME NEW c \in Checkpoint, NEW g \in Groups, NEW n, n = JoinFromWelcome(c, g)
  PROVE  /\ n \in Checkpoint /\ SameTexts(c, n) /\ n.plan = c.plan
         /\ n.stage = "joined" /\ n.group = g
         /\ n.made = c.made /\ n.keys = c.keys \ {g.key} /\ n.published = c.published
  <1>0. c = Copy(c)
    BY Whole
  <1>1. n = [made |-> c.made, keys |-> c.keys \ {g.key}, published |-> c.published,
             stage |-> "joined", group |-> g, sent |-> c.sent, app |-> c.app,
             plan |-> c.plan, inbox |-> c.inbox]
    BY <1>0, Zenon DEF Copy, JoinFromWelcome
  <1> QED BY <1>1, Fields DEF Checkpoint, Stages, SameTexts

LEMMA WithTextFields ==
  ASSUME NEW c \in Checkpoint, NEW p \in Texts, NEW n, n = WithText(c, p)
  PROVE  /\ n \in Checkpoint /\ SameKeys(c, n) /\ SameGroup(c, n) /\ n.plan = c.plan
         /\ n.sent = c.sent /\ n.app = c.app /\ n.inbox = c.inbox \cup {p}
  BY DEF WithText, Checkpoint, SameKeys, SameGroup

---------------------------------------------------------------------------
(* Each update keeps the checkpoint in step with the frames asked for *)

AskedTyped == \A f \in Asked : f.packet \in Packets /\ f.frame \in Nat

\* Nothing changed that the frames of the device are held against.
LEMMA KeyFits ==
  ASSUME NEW d \in Devices, NEW c \in Checkpoint, NEW n \in Checkpoint, Fits(d, c),
         SameGroup(c, n), SameTexts(c, n), n.plan = c.plan, n.plan = NoPlan,
         n.made = c.made + 1, n.published = c.published
  PROVE  Fits(d, n)
  <1>1. Backed(d, n)
    BY DEF Fits, Backed, FrameBacked, SameGroup, SameTexts
  <1>2. PlanOk(d, n)
    BY NewPlans DEF PlanOk
  <1>3. TextsOk(d, n)
    BY Fields DEF Fits, TextsOk, SameGroup, SameTexts
  <1> QED BY <1>1, <1>2, <1>3 DEF Fits

\* A plan is made of a packet of which no frame was asked for.
LEMMA SignKeyFits ==
  ASSUME AskedTyped, NEW d \in Devices, NEW c \in Checkpoint, NEW n \in Checkpoint, Fits(d, c),
         SameKeys(c, n), SameGroup(c, n), SameTexts(c, n),
         c.plan = NoPlan, c.published < c.made,
         n.plan.packet = KeyPackage(d, c.made), n.plan.receipts = {}
  PROVE  Fits(d, n)
  <1>0. /\ n.plan.packet.kind = "key_package" /\ n.plan.packet.from = d
        /\ n.plan.packet.n = c.made /\ n.plan.packet # NoPacket
    <2>1. c.made \in 1..MaxKeyPackages
      BY Fields, ChatAssumption
    <2> QED BY <2>1, MadePackets, PacketFacts
  <1>1. ASSUME NEW f \in Asked, f.packet.from = d PROVE FrameBacked(f, n)
    <2>1. FrameBacked(f, c) /\ f.packet \in Packets /\ f.packet # c.plan.packet
      BY <1>1, PacketFacts, NewPlans DEF Fits, Backed, AskedTyped
    <2>2. f.packet # n.plan.packet
      BY <2>1, <1>0, Fields DEF FrameBacked
    <2> QED BY <2>1, <2>2 DEF FrameBacked, SameKeys, SameGroup, SameTexts
  <1>2. PlanOk(d, n)
    BY <1>0 DEF PlanOk, SameKeys
  <1>3. TextsOk(d, n)
    BY DEF Fits, TextsOk, SameKeys, SameGroup, SameTexts
  <1> QED BY <1>1, <1>2, <1>3 DEF Fits, Backed

LEMMA SignWelcomeFits ==
  ASSUME AskedTyped, NEW c \in Checkpoint, NEW n \in Checkpoint, Fits(Inviter, c),
         SameKeys(c, n), SameGroup(c, n), SameTexts(c, n),
         c.plan = NoPlan, c.stage = "adding",
         n.plan.packet = Welcome(c.group), n.plan.receipts = {}
  PROVE  Fits(Inviter, n)
  <1>0. /\ n.plan.packet.kind = "welcome" /\ n.plan.packet.from = Inviter
        /\ n.plan.packet.group = c.group /\ n.plan.packet # NoPacket
    BY Fields, MadePackets, PacketFacts
  <1>1. ASSUME NEW f \in Asked, f.packet.from = Inviter PROVE FrameBacked(f, n)
    <2>1. FrameBacked(f, c) /\ f.packet \in Packets /\ f.packet # c.plan.packet
      BY <1>1, PacketFacts, NewPlans DEF Fits, Backed, AskedTyped
    <2>2. f.packet # n.plan.packet
      BY <2>1, <1>0 DEF FrameBacked
    <2> QED BY <2>1, <2>2 DEF FrameBacked, SameKeys, SameGroup, SameTexts
  <1>2. PlanOk(Inviter, n)
    BY <1>0 DEF PlanOk, SameGroup
  <1>3. TextsOk(Inviter, n)
    BY DEF Fits, TextsOk, SameKeys, SameGroup, SameTexts
  <1> QED BY <1>1, <1>2, <1>3 DEF Fits, Backed

LEMMA PlanTextFits ==
  ASSUME AskedTyped, NEW d \in Devices, NEW c \in Checkpoint, NEW n \in Checkpoint, Fits(d, c),
         SameKeys(c, n), SameGroup(c, n), SameTexts(c, n),
         c.plan = NoPlan, c.app # NoPacket, n.plan.packet = c.app, n.plan.receipts = {}
  PROVE  Fits(d, n)
  <1>0. n.plan.packet.kind = "application" /\ n.plan.packet.from = d
    BY Fields DEF Fits, TextsOk, Texts
  <1>1. ASSUME NEW f \in Asked, f.packet.from = d PROVE FrameBacked(f, n)
    <2>1. FrameBacked(f, c) /\ f.packet \in Packets /\ f.packet # c.plan.packet
      BY <1>1, PacketFacts, NewPlans DEF Fits, Backed, AskedTyped
    <2>2. f.packet # n.plan.packet
      BY <2>1, <1>0 DEF FrameBacked
    <2> QED BY <2>1, <2>2 DEF FrameBacked, SameKeys, SameGroup, SameTexts
  <1>2. PlanOk(d, n)
    BY <1>0 DEF PlanOk, SameTexts
  <1>3. TextsOk(d, n)
    BY DEF Fits, TextsOk, SameKeys, SameGroup, SameTexts
  <1> QED BY <1>1, <1>2, <1>3 DEF Fits, Backed

\* Before there is a peer there is neither a Welcome nor a text.
LEMMA GroupFits ==
  ASSUME AskedTyped, NEW d \in Devices, NEW c \in Checkpoint, NEW n \in Checkpoint, Fits(d, c),
         c.stage \in {"none", "alone"}, n.stage # "ready",
         SameTexts(c, n), n.plan = c.plan, c.plan = NoPlan,
         n.made = c.made, n.published = c.published
  PROVE  Fits(d, n)
  <1>1. ASSUME NEW f \in Asked, f.packet.from = d PROVE FrameBacked(f, n)
    <2>1. FrameBacked(f, c) /\ f.packet \in Packets /\ f.packet # c.plan.packet
      BY <1>1, PacketFacts, NewPlans DEF Fits, Backed, AskedTyped
    <2> QED BY <2>1 DEF FrameBacked
  <1>2. PlanOk(d, n)
    BY NewPlans DEF PlanOk
  <1>3. TextsOk(d, n)
    BY DEF Fits, TextsOk, SameTexts
  <1> QED BY <1>1, <1>2, <1>3 DEF Fits, Backed

\* A fresh secret: every text asked for before is on chain and older.
LEMMA EncryptFits ==
  ASSUME AskedTyped, NEW d \in Devices, NEW c \in Checkpoint, NEW n \in Checkpoint, Fits(d, c),
         SameKeys(c, n), SameGroup(c, n), n.plan = c.plan, c.plan = NoPlan,
         c.app = NoPacket, c.stage = "ready", n.inbox = c.inbox,
         n.sent = c.sent + 1, n.app \in Texts,
         n.app.from = d, n.app.group = c.group, n.app.secret = c.sent + 1
  PROVE  Fits(d, n)
  <1>0. n.app # NoPacket
    BY DEF Texts, NoPacket
  <1>1. ASSUME NEW f \in Asked, f.packet.from = d PROVE FrameBacked(f, n)
    <2>1. FrameBacked(f, c) /\ f.packet \in Packets /\ f.packet # NoPacket
      BY <1>1, PacketFacts DEF Fits, Backed, AskedTyped
    <2>2. CASE f.packet.kind = "application"
      <3>1. f.packet.secret \in Nat /\ f.packet.secret <= c.sent /\ OnChain(f.packet)
        BY <2>1, <2>2, PacketFacts, ChatAssumption DEF FrameBacked, Secrets, Devices
      <3>2. f.packet # n.app
        BY <3>1, Fields
      <3> QED BY <2>1, <2>2, <3>1, <3>2, <1>0, Fields DEF FrameBacked, SameKeys, SameGroup
    <2>3. CASE f.packet.kind # "application"
      BY <2>1, <2>3 DEF FrameBacked, SameKeys, SameGroup
    <2> QED BY <2>2, <2>3
  <1>2. PlanOk(d, n)
    BY NewPlans DEF PlanOk
  <1>3. TextsOk(d, n)
    BY DEF Fits, TextsOk, SameKeys, SameGroup
  <1> QED BY <1>1, <1>2, <1>3 DEF Fits, Backed

LEMMA ReceiptFits ==
  ASSUME NEW d \in Devices, NEW c \in Checkpoint, NEW n \in Checkpoint, Fits(d, c),
         SameKeys(c, n), SameGroup(c, n), SameTexts(c, n), SameFrames(c, n), c.plan # NoPlan,
         \A k \in n.plan.receipts \ c.plan.receipts :
           \E i \in DOMAIN chain : chain[i].packet = c.plan.packet /\ chain[i].frame = k
  PROVE  Fits(d, n)
  <1>1. Backed(d, n)
    BY DEF Fits, Backed, FrameBacked, SameKeys, SameGroup, SameTexts, SameFrames
  <1>2. PlanOk(d, n)
    BY DEF Fits, PlanOk, SameKeys, SameGroup, SameTexts, SameFrames
  <1>3. TextsOk(d, n)
    BY DEF Fits, TextsOk, SameKeys, SameGroup, SameTexts
  <1> QED BY <1>1, <1>2, <1>3 DEF Fits

\* A packet whose receipts are complete is on chain.
LEMMA Receipts ==
  ASSUME NEW d \in Devices, NEW c \in Checkpoint, PlanOk(d, c), c.plan.packet # NoPacket,
         Missing(c) = {}
  PROVE  OnChain(c.plan.packet)
  BY DEF PlanOk, Missing, OnChain

LEMMA PublishedFits ==
  ASSUME AskedTyped, NEW d \in Devices, NEW c \in Checkpoint, NEW n \in Checkpoint, Fits(d, c),
         c.plan.packet.kind = "key_package", c.plan.packet # NoPacket,
         SameGroup(c, n), SameTexts(c, n), n.plan = NoPlan,
         n.made = c.made, n.published = c.plan.packet.n
  PROVE  Fits(d, n)
  <1>0. n.published = c.made /\ c.published < c.made
    BY DEF Fits, PlanOk
  <1>1. ASSUME NEW f \in Asked, f.packet.from = d PROVE FrameBacked(f, n)
    <2>1. FrameBacked(f, c) /\ f.packet \in Packets /\ f.packet # n.plan.packet
      BY <1>1, PacketFacts, NewPlans DEF Fits, Backed, AskedTyped
    <2>2. f.packet.kind = "key_package" => f.packet.n <= n.published
      <3>1. c.published \in Nat /\ c.made \in Nat
        BY Fields, ChatAssumption
      <3>2. f.packet.kind = "key_package" => f.packet.n \in Nat
        BY <2>1, PacketFacts, ChatAssumption
      <3>3. f.packet.kind = "key_package" => f.packet = c.plan.packet \/ f.packet.n <= c.published
        BY <2>1, Zenon DEF FrameBacked
      <3>4. f.packet = c.plan.packet => f.packet.n = n.published
        OBVIOUS
      <3> QED BY <3>1, <3>2, <3>3, <3>4, <1>0
    <2> QED BY <2>1, <2>2 DEF FrameBacked, SameGroup, SameTexts
  <1>2. PlanOk(d, n)
    BY NewPlans DEF PlanOk
  <1>3. TextsOk(d, n)
    BY <1>0, Fields DEF Fits, TextsOk, SameGroup, SameTexts
  <1> QED BY <1>1, <1>2, <1>3 DEF Fits, Backed

LEMMA MergeFits ==
  ASSUME NEW d \in Devices, NEW c \in Checkpoint, NEW n \in Checkpoint, Fits(d, c),
         c.stage = "adding", n.stage = "ready", n.group = c.group,
         SameKeys(c, n), SameTexts(c, n), n.plan = c.plan
  PROVE  Fits(d, n)
  <1>1. Backed(d, n)
    BY DEF Fits, Backed, FrameBacked, SameKeys, SameTexts
  <1>2. PlanOk(d, n)
    BY DEF Fits, PlanOk, SameKeys, SameTexts
  <1>3. TextsOk(d, n)
    BY DEF Fits, TextsOk, SameKeys, SameTexts
  <1> QED BY <1>1, <1>2, <1>3 DEF Fits

LEMMA FinishWelcomeFits ==
  ASSUME AskedTyped, NEW d \in Devices, NEW c \in Checkpoint, NEW n \in Checkpoint, Fits(d, c),
         c.plan.packet.kind = "welcome", c.plan.packet # NoPacket, c.stage = "ready",
         SameKeys(c, n), SameGroup(c, n), SameTexts(c, n), n.plan = NoPlan
  PROVE  Fits(d, n)
  <1>1. ASSUME NEW f \in Asked, f.packet.from = d PROVE FrameBacked(f, n)
    <2>1. FrameBacked(f, c) /\ f.packet \in Packets /\ f.packet # n.plan.packet
      BY <1>1, PacketFacts, NewPlans DEF Fits, Backed, AskedTyped
    <2> QED BY <2>1 DEF FrameBacked, SameKeys, SameGroup, SameTexts
  <1>2. PlanOk(d, n)
    BY NewPlans DEF PlanOk
  <1>3. TextsOk(d, n)
    BY DEF Fits, TextsOk, SameKeys, SameGroup, SameTexts
  <1> QED BY <1>1, <1>2, <1>3 DEF Fits, Backed

LEMMA FinishTextFits ==
  ASSUME AskedTyped, NEW d \in Devices, NEW c \in Checkpoint, NEW n \in Checkpoint, Fits(d, c),
         c.plan.packet = c.app, c.app # NoPacket, OnChain(c.app),
         SameKeys(c, n), SameGroup(c, n), n.sent = c.sent, n.app = NoPacket,
         n.plan = NoPlan, n.inbox = c.inbox \cup {c.app}
  PROVE  Fits(d, n)
  <1>0. c.app.kind = "application" /\ c.app.secret = c.sent /\ c.stage = "ready" /\ c.sent \in Nat
    BY Fields DEF Fits, TextsOk, Texts
  <1>1. ASSUME NEW f \in Asked, f.packet.from = d PROVE FrameBacked(f, n)
    <2>1. FrameBacked(f, c) /\ f.packet \in Packets /\ f.packet # n.plan.packet /\ f.packet # n.app
      BY <1>1, PacketFacts, NewPlans DEF Fits, Backed, AskedTyped
    <2>2. CASE f.packet.kind = "application"
      <3>1. f.packet.secret \in Nat
        BY <2>1, <2>2, PacketFacts, ChatAssumption DEF Secrets, Devices
      <3>2. f.packet.secret <= n.sent /\ OnChain(f.packet)
        BY <2>1, <2>2, <3>1, <1>0 DEF FrameBacked
      <3> QED BY <2>1, <2>2, <3>2, <1>0 DEF FrameBacked, SameKeys, SameGroup
    <2>3. CASE f.packet.kind # "application"
      BY <2>1, <2>3, <1>0 DEF FrameBacked, SameKeys, SameGroup
    <2> QED BY <2>2, <2>3
  <1>2. PlanOk(d, n)
    BY NewPlans DEF PlanOk
  <1>3. TextsOk(d, n)
    BY <1>0 DEF Fits, TextsOk, SameKeys, SameGroup
  <1> QED BY <1>1, <1>2, <1>3 DEF Fits, Backed

\* The joiner sends neither Welcomes nor, before it is ready, texts.
LEMMA JoinFits ==
  ASSUME AskedTyped, NEW c \in Checkpoint, NEW n \in Checkpoint, Fits(Joiner, c),
         c.stage \in {"none", "joined"}, n.stage \in {"joined", "ready"},
         SameTexts(c, n), n.plan = c.plan, n.made = c.made, n.published = c.published
  PROVE  Fits(Joiner, n)
  <1>0. Joiner \in Devices /\ Joiner # Inviter
    BY ChatAssumption DEF Devices
  <1>1. ASSUME NEW f \in Asked, f.packet.from = Joiner PROVE FrameBacked(f, n)
    <2>1. FrameBacked(f, c) /\ f.packet.kind # "welcome" /\ f.packet.kind # "application"
      BY <1>0, <1>1, PacketFacts DEF Fits, Backed, AskedTyped, FrameBacked
    <2> QED BY <2>1 DEF FrameBacked
  <1>2. PlanOk(Joiner, n)
    <2>1. c.plan.packet # NoPacket => c.plan.packet.kind # "welcome"
      BY <1>0, PacketFacts, Fields DEF Fits, PlanOk
    <2> QED BY <2>1 DEF Fits, PlanOk, SameTexts
  <1>3. TextsOk(Joiner, n)
    BY DEF Fits, TextsOk, SameTexts
  <1> QED BY <1>1, <1>2, <1>3 DEF Fits, Backed

LEMMA WithTextFits ==
  ASSUME NEW d \in Devices, NEW c \in Checkpoint, NEW n \in Checkpoint, Fits(d, c),
         SameKeys(c, n), SameGroup(c, n), n.plan = c.plan, n.sent = c.sent, n.app = c.app,
         c.stage = "ready", NEW p, OnChain(p), n.inbox = c.inbox \cup {p}
  PROVE  Fits(d, n)
  <1>1. Backed(d, n)
    BY DEF Fits, Backed, FrameBacked, SameKeys, SameGroup
  <1>2. PlanOk(d, n)
    BY DEF Fits, PlanOk, SameKeys, SameGroup
  <1>3. TextsOk(d, n)
    BY DEF Fits, TextsOk, SameKeys, SameGroup
  <1> QED BY <1>1, <1>2, <1>3 DEF Fits

---------------------------------------------------------------------------
(* Steps that leave the frames alone *)

LEMMA Typed ==
  ASSUME TypeOK
  PROVE  /\ AskedTyped
         /\ Len(chain) \in Nat /\ DOMAIN chain = 1..Len(chain)
         /\ \A i \in DOMAIN chain : chain[i] \in SentFrames
  <1>1. chain \in Seq(SentFrames) /\ prompts \subseteq SentFrames
    BY DEF TypeOK
  <1>2. /\ Len(chain) \in Nat /\ DOMAIN chain = 1..Len(chain)
        /\ \A i \in DOMAIN chain : chain[i] \in SentFrames
    BY <1>1
  <1>3. \A f \in Asked : f \in SentFrames
    BY <1>1, <1>2 DEF Asked
  <1> QED BY <1>2, <1>3 DEF AskedTyped, SentFrames

LEMMA SyncedFacts ==
  ASSUME IInv, NEW s \in synced
  PROVE  /\ s \in Sessions /\ Home[s] \in Devices
         /\ mem[s] = disk[Home[s]] /\ mem[s] \in Checkpoint /\ at[s] # "closed"
         /\ Fits(Home[s], mem[s]) /\ Waits(s, at[s], mem[s])
         /\ rail[s] \in Rails /\ AskedTyped
  <1>1. TypeOK /\ DisksFit /\ InPlace
    BY DEF IInv
  <1>2. s \in Sessions /\ Home[s] \in Devices /\ mem[s] = disk[Home[s]] /\ at[s] # "closed"
    BY <1>1, ChatAssumption DEF TypeOK
  <1>3. mem[s] \in Checkpoint /\ rail[s] \in Rails
    BY <1>1, <1>2 DEF TypeOK
  <1>4. Fits(Home[s], mem[s]) /\ Waits(s, at[s], mem[s])
    BY <1>1, <1>2 DEF DisksFit, InPlace
  <1> QED BY <1>1, <1>2, <1>3, <1>4, Typed

LEMMA FitsSame ==
  ASSUME UNCHANGED net, NEW d, NEW c, Fits(d, c)
  PROVE  Fits(d, c)'
  BY DEF net, Fits, Backed, FrameBacked, PlanOk, TextsOk, Asked, OnChain

LEMMA PairSame ==
  ASSUME UNCHANGED chain, NEW i, NEW j, PairOk(i, j)
  PROVE  PairOk(i, j)'
  BY DEF PairOk, OnChain

LEMMA NetSame ==
  ASSUME UNCHANGED net, Net
  PROVE  Net'
  BY DEF net, Net, Prompted, PostedOnce, Distinct, InOrder, Asked, Same

\* What a device that goes on reading as before can still read.
LEMMA KeptSame ==
  ASSUME NEW d, KeptFor(d), UNCHANGED chain,
         \/ /\ disk'[d].stage = "ready" => disk[d].stage = "ready"
            /\ disk[d].inbox \subseteq disk'[d].inbox
            /\ Received(disk[d], d)' = Received(disk[d], d)
         \/ Received(disk[d], d)' = {}
  PROVE  KeptFor(d)'
  <1> SUFFICES ASSUME NEW i \in DOMAIN chain,
                      chain[i].packet.kind = "application", chain[i].packet.from = Peer(d),
                      disk'[d].stage = "ready"
               PROVE  \/ chain[i].packet \in disk'[d].inbox
                      \/ Readable(d, chain[i].packet)'
                      \/ GivenUp(d, chain[i].packet)'
    BY DEF KeptFor
  <1>1. CASE Received(disk[d], d)' = {}
    BY <1>1 DEF Readable
  <1>2. CASE /\ disk'[d].stage = "ready" => disk[d].stage = "ready"
             /\ disk[d].inbox \subseteq disk'[d].inbox
             /\ Received(disk[d], d)' = Received(disk[d], d)
    <2>1. \/ chain[i].packet \in disk[d].inbox
          \/ Readable(d, chain[i].packet)
          \/ GivenUp(d, chain[i].packet)
      BY <1>2 DEF KeptFor
    <2> QED BY <1>2, <2>1 DEF Readable, GivenUp, SentOver
  <1> QED BY <1>1, <1>2

\* The checkpoints and the frames stay; sessions wait where they did, or start.
LEMMA QuietStep ==
  ASSUME IInv, UNCHANGED <<disk, net>>, TypeOK',
         \A s \in synced' : \/ s \in synced /\ at'[s] = at[s] /\ peerkey'[s] = peerkey[s]
                            \/ Waits(s, at[s], disk[Home[s]])'
  PROVE  IInv'
  <1>1. Net'
    BY NetSame DEF IInv
  <1>2. DisksFit'
    BY FitsSame DEF IInv, DisksFit
  <1>3. Paired'
    BY PairSame DEF IInv, Paired, net
  <1>4. InPlace'
    BY DEF IInv, InPlace, Waits
  <1>5. Unlost'
    BY KeptSame DEF IInv, Unlost, Received, net
  <1> QED BY <1>1, <1>2, <1>3, <1>4, <1>5 DEF IInv

LEMMA DiscardStep ==
  ASSUME IInv, NEW s \in Sessions, Discard(s), UNCHANGED <<local, net, life>>
  PROVE  IInv'
  <1>1. TypeOK'
    <2>1. /\ disk' \in [Devices -> Checkpoint] /\ synced' \subseteq Sessions
          /\ rail' \in [Sessions -> Rails] /\ peerkey' \in [Sessions -> 0..MaxKeyPackages]
          /\ prompts' \subseteq SentFrames /\ chain' \in Seq(SentFrames)
          /\ life' \in [Perishable -> 0..2]
      BY DEF IInv, TypeOK, Discard, local, net
    <2>2. mem' \in [Sessions -> Checkpoint]
      BY BlankOk DEF IInv, TypeOK, Discard
    <2>3. at' \in [Sessions -> Steps]
      BY DEF IInv, TypeOK, Discard, Steps
    <2>4. \A t \in synced' : at'[t] # "closed" /\ mem'[t] = disk'[Home[t]]
      BY DEF IInv, TypeOK, Discard
    <2> QED BY <2>1, <2>2, <2>3, <2>4 DEF TypeOK
  <1>2. \A t \in synced' : t \in synced /\ at'[t] = at[t] /\ peerkey'[t] = peerkey[t]
    BY DEF IInv, TypeOK, Discard, local
  <1> QED BY <1>1, <1>2, QuietStep DEF Discard

LEMMA GotoStep ==
  ASSUME IInv, NEW s \in Sessions, NEW next \in Steps, next # "closed", Goto(s, next),
         NEW k \in 0..MaxKeyPackages, peerkey' = [peerkey EXCEPT ![s] = k],
         UNCHANGED <<rail, net, life>>,
         s \in synced => /\ next \in {"approve", "frame", "poll"} => mem[s].plan # NoPlan
                         /\ next \in {"sign_key", "group", "sign_welcome", "plan"} =>
                              mem[s].plan = NoPlan
                         /\ next = "sign_key" => mem[s].published < mem[s].made
                         /\ next \in {"group", "sign_welcome"} =>
                              Home[s] = Inviter /\ k \in 1..disk[Joiner].made
                         /\ next = "sign_welcome" => mem[s].stage = "adding"
                         /\ next = "plan" => mem[s].app # NoPacket
                         /\ next = "hydrate" => Home[s] = Joiner /\ mem[s].stage = "joined"
  PROVE  IInv'
  <1>1. TypeOK'
    <2>1. /\ disk' \in [Devices -> Checkpoint] /\ synced' \subseteq Sessions
          /\ mem' \in [Sessions -> Checkpoint] /\ rail' \in [Sessions -> Rails]
          /\ prompts' \subseteq SentFrames /\ chain' \in Seq(SentFrames)
          /\ life' \in [Perishable -> 0..2]
      BY DEF IInv, TypeOK, Goto, net
    <2>2. at' \in [Sessions -> Steps] /\ peerkey' \in [Sessions -> 0..MaxKeyPackages]
      BY DEF IInv, TypeOK, Goto
    <2>3. \A t \in synced' : at'[t] # "closed" /\ mem'[t] = disk'[Home[t]]
      BY DEF IInv, TypeOK, Goto
    <2> QED BY <2>1, <2>2, <2>3 DEF TypeOK
  <1>2. ASSUME NEW t \in synced'
        PROVE  \/ t \in synced /\ at'[t] = at[t] /\ peerkey'[t] = peerkey[t]
               \/ Waits(t, at[t], disk[Home[t]])'
    <2>1. t \in synced /\ t \in Sessions
      BY DEF IInv, TypeOK, Goto
    <2>2. CASE t # s
      BY <2>1, <2>2 DEF IInv, TypeOK, Goto
    <2>3. CASE t = s
      <3>1. at'[s] = next /\ peerkey'[s] = k /\ disk' = disk /\ mem[s] = disk[Home[s]]
        BY <2>1, <2>3 DEF IInv, TypeOK, Goto
      <3> QED BY <2>1, <2>3, <3>1 DEF Waits
    <2> QED BY <2>2, <2>3
  <1> QED BY <1>1, <1>2, QuietStep DEF Goto

\* A session that has the revision saves the checkpoint n and goes on.
Writes(s, n, next) ==
  /\ s \in synced
  /\ Stored(s, n)
  /\ mem' = [mem EXCEPT ![s] = n]
  /\ at' = [at EXCEPT ![s] = next]

LEMMA SaveCases ==
  ASSUME NEW s, NEW n, NEW next, Save(s, n, next)
  PROVE  (s \in synced /\ Writes(s, n, next)) \/ Discard(s)
  BY DEF Save, Current, Writes

LEMMA WriteTypes ==
  ASSUME IInv, NEW s \in Sessions, NEW n \in Checkpoint, NEW next \in Steps, next # "closed",
         Writes(s, n, next), UNCHANGED <<local, life>>,
         prompts' \subseteq SentFrames, chain' \in Seq(SentFrames)
  PROVE  /\ TypeOK' /\ disk'[Home[s]] = n
         /\ \A d \in Devices : d # Home[s] => disk'[d] = disk[d]
         /\ \A t \in synced' : \/ t = s
                               \/ t \in synced /\ Home[t] # Home[s] /\ at'[t] = at[t]
  <1>0. Home[s] \in Devices
    BY ChatAssumption
  <1>1. /\ disk'[Home[s]] = n /\ disk' \in [Devices -> Checkpoint]
        /\ \A d \in Devices : d # Home[s] => disk'[d] = disk[d]
    BY <1>0 DEF IInv, TypeOK, Writes, Stored
  <1>2. \A t \in synced' : \/ t = s
                           \/ t \in synced /\ Home[t] # Home[s] /\ at'[t] = at[t] /\ mem'[t] = mem[t]
    BY DEF IInv, TypeOK, Writes, Stored
  <1>3. /\ mem' \in [Sessions -> Checkpoint] /\ mem'[s] = n
        /\ at' \in [Sessions -> Steps] /\ at'[s] = next
    BY DEF IInv, TypeOK, Writes
  <1>4. /\ synced' \subseteq Sessions /\ rail' \in [Sessions -> Rails]
        /\ peerkey' \in [Sessions -> 0..MaxKeyPackages] /\ life' \in [Perishable -> 0..2]
    BY DEF IInv, TypeOK, Writes, Stored, local
  <1>5. \A t \in synced' : at'[t] # "closed" /\ mem'[t] = disk'[Home[t]]
    <2> TAKE t \in synced'
    <2>1. CASE t = s
      BY <2>1, <1>1, <1>3
    <2>2. CASE t # s
      <3>1. t \in synced /\ t \in Sessions /\ Home[t] \in Devices
        BY <2>2, <1>2, ChatAssumption DEF IInv, TypeOK
      <3>2. at[t] # "closed" /\ mem[t] = disk[Home[t]]
        BY <3>1, SyncedFacts
      <3>3. at'[t] = at[t] /\ mem'[t] = mem[t] /\ disk'[Home[t]] = disk[Home[t]]
        BY <2>2, <3>1, <1>1, <1>2
      <3> QED BY <3>2, <3>3
    <2> QED BY <2>1, <2>2
  <1> QED BY <1>1, <1>2, <1>3, <1>4, <1>5 DEF TypeOK

LEMMA WriteRest ==
  ASSUME IInv, NEW s \in Sessions, NEW n \in Checkpoint, NEW next \in Steps, next # "closed",
         Writes(s, n, next), UNCHANGED <<local, chain, life>>, prompts' \subseteq SentFrames,
         n.made >= mem[s].made, Waits(s, next, n),
         Home[s] = Inviter => PairOk(n, disk[Joiner]),
         Home[s] = Joiner => PairOk(disk[Inviter], n),
         KeptFor(Home[s])'
  PROVE  TypeOK' /\ Paired' /\ InPlace' /\ Unlost'
  <1>0. s \in synced /\ mem[s] = disk[Home[s]] /\ Home[s] \in Devices
    BY SyncedFacts DEF Writes
  <1>1. chain' \in Seq(SentFrames)
    BY DEF IInv, TypeOK
  <1>2. /\ TypeOK' /\ disk'[Home[s]] = n
        /\ \A d \in Devices : d # Home[s] => disk'[d] = disk[d]
        /\ \A t \in synced' : \/ t = s
                              \/ t \in synced /\ Home[t] # Home[s] /\ at'[t] = at[t]
    BY <1>1, WriteTypes
  <1>3. Paired'
    <2>1. CASE Home[s] = Inviter
      <3>1. disk'[Inviter] = n /\ disk'[Joiner] = disk[Joiner]
        BY <2>1, <1>2, ChatAssumption DEF Devices
      <3> QED BY <2>1, <3>1, PairSame DEF Paired
    <2>2. CASE Home[s] = Joiner
      <3>1. disk'[Joiner] = n /\ disk'[Inviter] = disk[Inviter]
        BY <2>2, <1>2, ChatAssumption DEF Devices
      <3> QED BY <2>2, <3>1, PairSame DEF Paired
    <2> QED BY <2>1, <2>2, <1>0 DEF Devices
  <1>4. InPlace'
    <2> SUFFICES ASSUME NEW t \in synced' PROVE Waits(t, at[t], disk[Home[t]])'
      BY DEF InPlace
    <2>0. /\ disk'[Joiner].made >= disk[Joiner].made
          /\ disk[Joiner].made \in Nat /\ disk'[Joiner].made \in Nat
      <3>1. disk[Joiner] \in Checkpoint /\ disk'[Joiner] \in Checkpoint
        BY <1>2 DEF IInv, TypeOK, Devices
      <3>2. disk[Joiner].made \in Nat /\ disk'[Joiner].made \in Nat
        BY <3>1, Fields, ChatAssumption
      <3> QED BY <3>2, <1>0, <1>2 DEF Devices
    <2>1. CASE t = s
      <3>1. at'[t] = next /\ disk'[Home[t]] = n /\ peerkey'[t] = peerkey[t]
        BY <2>1, <1>2 DEF IInv, TypeOK, Writes, local
      <3> QED BY <2>0, <2>1, <3>1 DEF Waits
    <2>2. CASE t # s
      <3>1. /\ t \in synced /\ at'[t] = at[t] /\ disk'[Home[t]] = disk[Home[t]]
            /\ peerkey'[t] = peerkey[t]
        BY <2>2, <1>2, ChatAssumption DEF IInv, TypeOK, local
      <3> QED BY <2>0, <3>1 DEF IInv, InPlace, Waits
    <2> QED BY <2>1, <2>2
  <1>5. Unlost'
    <2> SUFFICES ASSUME NEW d \in Devices PROVE KeptFor(d)'
      BY DEF Unlost
    <2>1. CASE d # Home[s]
      BY <2>1, <1>2, KeptSame DEF IInv, Unlost, Received
    <2> QED BY <2>1
  <1> QED BY <1>2, <1>3, <1>4, <1>5

LEMMA WriteStep ==
  ASSUME IInv, NEW s \in Sessions, NEW n \in Checkpoint, NEW next \in Steps, next # "closed",
         Writes(s, n, next), UNCHANGED <<local, net, life>>,
         Fits(Home[s], n), n.made >= mem[s].made, Waits(s, next, n),
         Home[s] = Inviter => PairOk(n, disk[Joiner]),
         Home[s] = Joiner => PairOk(disk[Inviter], n),
         KeptFor(Home[s])'
  PROVE  IInv'
  <1>0. prompts' \subseteq SentFrames /\ chain' \in Seq(SentFrames) /\ UNCHANGED chain
    BY DEF IInv, TypeOK, net
  <1>1. TypeOK' /\ Paired' /\ InPlace' /\ Unlost'
    BY <1>0, WriteRest
  <1>2. Net'
    BY NetSame DEF IInv
  <1>3. DisksFit'
    <2>0. /\ disk'[Home[s]] = n
          /\ \A d \in Devices : d # Home[s] => disk'[d] = disk[d]
      BY <1>0, WriteTypes
    <2> SUFFICES ASSUME NEW d \in Devices PROVE Fits(d, disk[d])'
      BY DEF DisksFit
    <2>1. CASE d = Home[s]
      BY <2>0, <2>1, FitsSame
    <2>2. CASE d # Home[s]
      BY <2>0, <2>2, FitsSame DEF IInv, DisksFit
    <2> QED BY <2>1, <2>2
  <1> QED BY <1>1, <1>2, <1>3 DEF IInv

---------------------------------------------------------------------------
(* Discovery *)

LEMMA FirstFrames ==
  ASSUME TypeOK, NEW seen \in SUBSET DOMAIN chain, NEW p, \E i \in seen : chain[i].packet = p
  PROVE  /\ FirstFrame(seen, p) \in Begins(seen) /\ FirstFrame(seen, p) \in seen
         /\ chain[FirstFrame(seen, p)].packet = p
  <1> DEFINE S == {i \in seen : chain[i].packet = p}
  <1>1. S \in SUBSET Nat /\ S # {}
    BY Typed
  <1>2. PICK m \in S : \A j \in S : m <= j
    <2> HIDE DEF S
    <2> QED BY <1>1, Least
  <1>3. \E i \in Begins(seen) : chain[i].packet = p
    BY <1>2 DEF Begins
  <1>4. FirstFrame(seen, p) \in Begins(seen) /\ chain[FirstFrame(seen, p)].packet = p
    BY <1>3, Zenon DEF FirstFrame
  <1> QED BY <1>4 DEF Begins

Begun(S) == \A p \in S : \E i \in DOMAIN chain : chain[i].packet = p

LEMMA Positions ==
  ASSUME TypeOK, NEW S, Begun(S)
  PROVE  /\ \A p \in S : /\ FirstFrame(DOMAIN chain, p) \in 1..Len(chain)
                         /\ chain[FirstFrame(DOMAIN chain, p)].packet = p
         /\ \A p, q \in S : p # q => FirstFrame(DOMAIN chain, p) # FirstFrame(DOMAIN chain, q)
  <1>1. \A p \in S : /\ FirstFrame(DOMAIN chain, p) \in DOMAIN chain
                     /\ chain[FirstFrame(DOMAIN chain, p)].packet = p
    BY FirstFrames DEF Begun
  <1>2. DOMAIN chain = 1..Len(chain)
    BY Typed
  <1>3. \A p, q \in S : p # q => FirstFrame(DOMAIN chain, p) # FirstFrame(DOMAIN chain, q)
    BY <1>1, Zenon
  <1> QED BY <1>1, <1>2, <1>3

LEMMA NewestIn ==
  ASSUME TypeOK, NEW S, S # {}, Begun(S)
  PROVE  Newest(S) \in S
  <1> DEFINE At(p) == FirstFrame(DOMAIN chain, p)
             P == {i \in 1..Len(chain) : \E p \in S : i = At(p)}
  <1>0. /\ \A p \in S : At(p) \in 1..Len(chain)
        /\ \A p, q \in S : p # q => At(p) # At(q)
        /\ Len(chain) \in Nat
    BY Positions, Typed
  <1> HIDE DEF At
  <1>1. P \in SUBSET (0..Len(chain)) /\ P # {}
    BY <1>0
  <1>2. PICK m \in P : \A i \in P : i <= m
    <2> HIDE DEF P
    <2> QED BY <1>0, <1>1, Greatest
  <1>3. PICK p \in S : m = At(p)
    OBVIOUS
  <1>4. \A q \in S \ {p} : At(q) < At(p)
    <2> TAKE q \in S \ {p}
    <2>1. At(q) \in P /\ At(q) # At(p) /\ At(q) \in 1..Len(chain) /\ At(p) \in 1..Len(chain)
      BY <1>0, <1>3
    <2> QED BY <1>2, <1>3, <2>1
  <1>5. \E x \in S : \A q \in S \ {x} : Before(q, x)
    BY <1>4 DEF Before, At
  <1> QED BY <1>5, Zenon DEF Newest

LEMMA OldestIn ==
  ASSUME TypeOK, NEW S, S # {}, Begun(S)
  PROVE  Oldest(S) \in S /\ \A q \in S \ {Oldest(S)} : Before(Oldest(S), q)
  <1> DEFINE At(p) == FirstFrame(DOMAIN chain, p)
             P == {i \in 1..Len(chain) : \E p \in S : i = At(p)}
  <1>0. /\ \A p \in S : At(p) \in 1..Len(chain)
        /\ \A p, q \in S : p # q => At(p) # At(q)
        /\ Len(chain) \in Nat
    BY Positions, Typed
  <1> HIDE DEF At
  <1>1. P \in SUBSET Nat /\ P # {}
    BY <1>0
  <1>2. PICK m \in P : \A i \in P : m <= i
    <2> HIDE DEF P
    <2> QED BY <1>1, Least
  <1>3. PICK p \in S : m = At(p)
    OBVIOUS
  <1>4. \A q \in S \ {p} : At(p) < At(q)
    <2> TAKE q \in S \ {p}
    <2>1. At(q) \in P /\ At(q) # At(p) /\ At(q) \in 1..Len(chain) /\ At(p) \in 1..Len(chain)
      BY <1>0, <1>3
    <2> QED BY <1>2, <1>3, <2>1
  <1>5. \E x \in S : \A q \in S \ {x} : Before(x, q)
    BY <1>4 DEF Before, At
  <1> QED BY <1>5, Zenon DEF Oldest

LEMMA CompleteOnChain ==
  ASSUME NEW view, NEW p \in Complete(view)
  PROVE  /\ OnChain(p)
         /\ \E i \in DOMAIN chain : chain[i].packet = p /\ chain[i].rail \in view
  BY DEF Complete, Kept, Begins, Visible, OnChain

\* A frame on chain is backed by the checkpoint of its sender.
LEMMA ChainBacked ==
  ASSUME IInv, NEW i \in DOMAIN chain
  PROVE  /\ chain[i].packet \in Packets /\ chain[i].packet.from \in Devices
         /\ FrameBacked(chain[i], disk[chain[i].packet.from])
  <1>1. chain[i] \in Asked /\ chain[i].packet \in Packets
    BY Typed DEF IInv, Asked, AskedTyped
  <1>2. chain[i].packet.from \in Devices
    BY <1>1, PacketFacts
  <1> QED BY <1>1, <1>2 DEF IInv, DisksFit, Fits, Backed

LEMMA NewestWelcome ==
  ASSUME IInv, NEW view, LiveWelcomes(view) # {}
  PROVE  /\ Newest(LiveWelcomes(view)).group \in Groups
         /\ Newest(LiveWelcomes(view)).group = disk[Inviter].group
         /\ disk[Inviter].stage \in {"adding", "ready"}
  <1> DEFINE w == Newest(LiveWelcomes(view))
  <1>1. Begun(LiveWelcomes(view))
    BY CompleteOnChain DEF Begun, LiveWelcomes
  <1>2. w \in LiveWelcomes(view)
    BY <1>1, NewestIn DEF IInv
  <1> HIDE DEF w
  <1>3. PICK i \in DOMAIN chain : chain[i].packet = w
    BY <1>1, <1>2 DEF Begun
  <1>4. w.kind = "welcome"
    BY <1>2 DEF LiveWelcomes
  <1>5. w \in Packets /\ FrameBacked(chain[i], disk[chain[i].packet.from])
    BY <1>3, ChainBacked
  <1>6. w.from = Inviter /\ w.group \in Groups
    BY <1>4, <1>5, PacketFacts
  <1> QED BY <1>3, <1>4, <1>5, <1>6 DEF FrameBacked, w

LEMMA NewestPackage ==
  ASSUME IInv, NEW d \in Devices, NEW view, LivePackages(d, view) # {}
  PROVE  Newest(LivePackages(d, view)).n \in 1..disk[d].made
  <1> DEFINE w == Newest(LivePackages(d, view))
  <1>1. Begun(LivePackages(d, view))
    BY CompleteOnChain DEF Begun, LivePackages
  <1>2. w \in LivePackages(d, view)
    BY <1>1, NewestIn DEF IInv
  <1> HIDE DEF w
  <1>3. PICK i \in DOMAIN chain : chain[i].packet = w
    BY <1>1, <1>2 DEF Begun
  <1>4. w.kind = "key_package" /\ w.from = d
    BY <1>2 DEF LivePackages
  <1>5. w \in Packets /\ FrameBacked(chain[i], disk[d])
    BY <1>3, <1>4, ChainBacked
  <1>6. w.n \in 1..MaxKeyPackages /\ w # NoPacket
    BY <1>4, <1>5, PacketFacts
  <1>7. disk[d] \in Checkpoint /\ PlanOk(d, disk[d]) /\ TextsOk(d, disk[d])
    BY DEF IInv, TypeOK, DisksFit, Fits
  <1>8. disk[d].made \in Nat /\ disk[d].published \in Nat
    BY <1>7, Fields, ChatAssumption
  <1>9. w = disk[d].plan.packet \/ w.n <= disk[d].published
    BY <1>3, <1>4, <1>5, Zenon DEF FrameBacked
  <1>10. w.n <= disk[d].made
    BY <1>4, <1>6, <1>7, <1>8, <1>9 DEF PlanOk, TextsOk
  <1> QED BY <1>6, <1>8, <1>10 DEF w

---------------------------------------------------------------------------
(* What a save must show *)

LEMMA KeptWrite ==
  ASSUME IInv, NEW s \in synced, NEW n, UNCHANGED chain,
         disk'[Home[s]] = n,
         n.stage = "ready" => mem[s].stage = "ready" \/ n.inbox = {},
         mem[s].inbox \subseteq n.inbox,
         \A p \in n.inbox \ mem[s].inbox : p.from = Home[s]
  PROVE  KeptFor(Home[s])'
  <1> DEFINE d == Home[s]
  <1>0. d \in Devices /\ mem[s] = disk[d]
    BY SyncedFacts
  <1>1. Received(disk[d], d)' = {p \in n.inbox : p.from = Peer(d)}
    BY DEF Received
  <1>2. Peer(d) # d
    BY <1>0, ChatAssumption DEF Peer, Devices
  <1>3. Received(disk[d], d)' = Received(disk[d], d)
    BY <1>0, <1>1, <1>2 DEF Received
  <1>4. n.inbox = {} => Received(disk[d], d)' = {}
    BY <1>1
  <1>5. KeptFor(d)
    BY <1>0 DEF IInv, Unlost
  <1> QED BY <1>0, <1>3, <1>4, <1>5, KeptSame

LEMMA PairWrite ==
  ASSUME IInv, NEW s \in synced, NEW n, SameGroup(mem[s], n),
         \/ n.made = mem[s].made /\ n.keys = mem[s].keys
         \/ n.made = mem[s].made + 1 /\ n.keys = mem[s].keys \cup {mem[s].made + 1}
  PROVE  /\ Home[s] = Inviter => PairOk(n, disk[Joiner])
         /\ Home[s] = Joiner => PairOk(disk[Inviter], n)
  <1>0. mem[s] = disk[Home[s]] /\ mem[s] \in Checkpoint
    BY SyncedFacts
  <1>1. PairOk(disk[Inviter], disk[Joiner])
    BY DEF IInv, Paired
  <1>2. Home[s] = Inviter => PairOk(n, disk[Joiner])
    BY <1>0, <1>1 DEF PairOk, SameGroup
  <1>3. ASSUME Home[s] = Joiner PROVE PairOk(disk[Inviter], n)
    <2>0. mem[s].made \in Nat
      BY <1>0, Fields, ChatAssumption
    <2>1. n.stage = "none" => 1..n.made \subseteq n.keys
      BY <1>0, <1>1, <1>3, <2>0 DEF PairOk, SameGroup
    <2> QED BY <1>0, <1>1, <1>3, <2>1 DEF PairOk, SameGroup
  <1> QED BY <1>2, <1>3

\* A save that changes neither group nor texts nor keys.
LEMMA PlainWrite ==
  ASSUME IInv, NEW s \in Sessions, NEW n \in Checkpoint, NEW next \in Steps, next # "closed",
         Writes(s, n, next), UNCHANGED <<local, net, life>>,
         Fits(Home[s], n), Waits(s, next, n), SameGroup(mem[s], n), SameTexts(mem[s], n),
         \/ n.made = mem[s].made /\ n.keys = mem[s].keys
         \/ n.made = mem[s].made + 1 /\ n.keys = mem[s].keys \cup {mem[s].made + 1}
  PROVE  IInv'
  <1>0. s \in synced /\ mem[s] \in Checkpoint
    BY SyncedFacts DEF Writes
  <1>1. disk'[Home[s]] = n
    BY WriteTypes DEF IInv, TypeOK, net
  <1>2. KeptFor(Home[s])'
    BY <1>0, <1>1, KeptWrite DEF SameGroup, SameTexts, net
  <1>3. n.made >= mem[s].made
    <2>1. mem[s].made \in Nat
      BY <1>0, Fields, ChatAssumption
    <2> QED BY <2>1
  <1> QED BY <1>0, <1>2, <1>3, PairWrite, WriteStep

---------------------------------------------------------------------------
(* Steps that leave the frames alone, one by one *)

LEMMA StaySteps ==
  ASSUME IInv, NEW s \in Sessions
  PROVE  /\ Fail(s) => IInv'
         /\ CloseTab(s) => IInv'
         /\ \A r \in Modes[s] : Open(s, r) => IInv'
         /\ Resume(s) => IInv'
  <1>1. Fail(s) => IInv'
    BY DiscardStep DEF Fail
  <1>2. CloseTab(s) => IInv'
    BY DiscardStep DEF CloseTab
  <1>3. ASSUME NEW r \in Modes[s], Open(s, r) PROVE IInv'
    <2>0. Home[s] \in Devices /\ r \in Rails
      BY ChatAssumption
    <2>1. TypeOK'
      <3>1. /\ disk' \in [Devices -> Checkpoint] /\ synced' \subseteq Sessions
            /\ peerkey' \in [Sessions -> 0..MaxKeyPackages]
            /\ prompts' \subseteq SentFrames /\ chain' \in Seq(SentFrames)
            /\ life' \in [Perishable -> 0..2]
        BY <1>3 DEF IInv, TypeOK, Open, net
      <3>2. mem' \in [Sessions -> Checkpoint] /\ rail' \in [Sessions -> Rails]
        BY <1>3, <2>0 DEF IInv, TypeOK, Open, Loaded
      <3>3. at' \in [Sessions -> Steps]
        BY <1>3 DEF IInv, TypeOK, Open, Steps
      <3>4. \A t \in synced' : at'[t] # "closed" /\ mem'[t] = disk'[Home[t]]
        BY <1>3 DEF IInv, TypeOK, Open, Loaded
      <3> QED BY <3>1, <3>2, <3>3, <3>4 DEF TypeOK
    <2>2. ASSUME NEW t \in synced'
          PROVE  \/ t \in synced /\ at'[t] = at[t] /\ peerkey'[t] = peerkey[t]
                 \/ Waits(t, at[t], disk[Home[t]])'
      <3>1. CASE t # s
        BY <1>3, <3>1 DEF IInv, TypeOK, Open
      <3>2. CASE t = s
        <4>1. at'[t] = "idle"
          BY <1>3, <3>2 DEF IInv, TypeOK, Open
        <4> QED BY <4>1 DEF Waits
      <3> QED BY <3>1, <3>2
    <2> QED BY <1>3, <2>1, <2>2, QuietStep DEF Open
  <1>4. ASSUME Resume(s) PROVE IInv'
    <2> DEFINE next == IF mem[s].plan # NoPlan THEN "approve" ELSE "plan"
    <2>1. next \in Steps /\ next # "closed" /\ Goto(s, next) /\ UNCHANGED <<local, net, life>>
      BY <1>4 DEF Resume, Steps
    <2>2. /\ peerkey[s] \in 0..MaxKeyPackages
          /\ peerkey' = [peerkey EXCEPT ![s] = peerkey[s]] /\ UNCHANGED rail
      BY <2>1 DEF IInv, TypeOK, local
    <2>3. /\ next \in {"approve", "plan"}
          /\ next = "approve" => mem[s].plan # NoPlan
          /\ next = "plan" => mem[s].plan = NoPlan /\ mem[s].app # NoPacket
      BY <1>4 DEF Resume
    <2> HIDE DEF next
    <2> QED BY <2>1, <2>2, <2>3, GotoStep
  <1> QED BY <1>1, <1>2, <1>3, <1>4

LEMMA CreateKeyPackageStep ==
  ASSUME IInv, NEW s \in Sessions, CreateKeyPackage(s)
  PROVE  IInv'
  <1> DEFINE n == WithKeyPackage(mem[s])
  <1>1. CASE Discard(s)
    BY <1>1, DiscardStep DEF CreateKeyPackage
  <1>2. CASE s \in synced /\ Writes(s, n, "sign_key")
    <2>0. /\ mem[s] \in Checkpoint /\ Home[s] \in Devices /\ Fits(Home[s], mem[s])
          /\ mem[s].plan = NoPlan /\ mem[s].made < MaxKeyPackages
      BY <1>2, SyncedFacts DEF CreateKeyPackage
    <2>1. /\ n \in Checkpoint /\ SameGroup(mem[s], n) /\ SameTexts(mem[s], n)
          /\ n.plan = mem[s].plan /\ n.made = mem[s].made + 1
          /\ n.keys = mem[s].keys \cup {mem[s].made + 1} /\ n.published = mem[s].published
      BY <2>0, WithKeyPackageFields
    <2> HIDE DEF n
    <2>2. Fits(Home[s], n)
      BY <2>0, <2>1, KeyFits
    <2>3. Waits(s, "sign_key", n)
      <3>1. n.published <= mem[s].made /\ n.published \in Nat /\ mem[s].made \in Nat
        BY <2>0, <2>1, Fields, ChatAssumption DEF Fits, TextsOk
      <3> QED BY <2>0, <2>1, <3>1 DEF Waits
    <2> QED BY <1>2, <2>1, <2>2, <2>3, PlainWrite DEF CreateKeyPackage, Steps
  <1> QED BY <1>1, <1>2, SaveCases DEF CreateKeyPackage

LEMMA SignKeyPackageStep ==
  ASSUME IInv, NEW s \in Sessions, SignKeyPackage(s)
  PROVE  IInv'
  <1> DEFINE p == KeyPackage(Home[s], mem[s].made)
             n == [mem[s] EXCEPT !.plan = NewPlan(p, rail[s])]
  <1>1. CASE Discard(s)
    BY <1>1, DiscardStep DEF SignKeyPackage
  <1>2. CASE s \in synced /\ Writes(s, n, "approve")
    <2>0. /\ mem[s] \in Checkpoint /\ Home[s] \in Devices /\ Fits(Home[s], mem[s])
          /\ rail[s] \in Rails /\ AskedTyped
          /\ mem[s].plan = NoPlan /\ mem[s].published < mem[s].made
      BY <1>2, SyncedFacts DEF SignKeyPackage, Waits
    <2>1. p \in Packets /\ p # NoPacket
      <3>1. mem[s].made \in 1..MaxKeyPackages
        BY <2>0, Fields, ChatAssumption
      <3> QED BY <2>0, <3>1, MadePackets, PacketFacts
    <2>2. /\ NewPlan(p, rail[s]) \in Plans /\ NewPlan(p, rail[s]).packet = p
          /\ NewPlan(p, rail[s]).receipts = {}
      BY <2>0, <2>1, NewPlans
    <2>3. /\ n \in Checkpoint /\ SameKeys(mem[s], n) /\ SameGroup(mem[s], n)
          /\ SameTexts(mem[s], n) /\ n.plan = NewPlan(p, rail[s])
      BY <2>0, <2>2, PlannedFields
    <2> HIDE DEF n
    <2>4. Fits(Home[s], n)
      BY <2>0, <2>2, <2>3, SignKeyFits
    <2>5. Waits(s, "approve", n)
      BY <2>1, <2>2, <2>3, NewPlans DEF Waits
    <2> QED BY <1>2, <2>3, <2>4, <2>5, PlainWrite DEF SignKeyPackage, SameKeys, Steps
  <1> QED BY <1>1, <1>2, SaveCases DEF SignKeyPackage

LEMMA ReadPeerPackageStep ==
  ASSUME IInv, NEW s \in Sessions, NEW view, ReadPeerPackage(s, view)
  PROVE  IInv'
  <1> DEFINE k == Newest(LivePackages(Joiner, view)).n
             next == IF mem[s].stage = "adding" THEN "sign_welcome" ELSE "group"
  <1>1. k \in 1..disk[Joiner].made
    BY NewestPackage DEF ReadPeerPackage, Devices
  <1>2. k \in 0..MaxKeyPackages
    <2>1. disk[Joiner] \in Checkpoint
      BY DEF IInv, TypeOK, Devices
    <2>2. disk[Joiner].made \in 0..MaxKeyPackages
      BY <2>1, Fields
    <2> QED BY <1>1, <2>2, ChatAssumption
  <1>3. next \in Steps /\ next # "closed" /\ next \in {"group", "sign_welcome"}
    BY DEF Steps
  <1>4. /\ Goto(s, next) /\ peerkey' = [peerkey EXCEPT ![s] = k] /\ UNCHANGED <<rail, net, life>>
        /\ Home[s] = Inviter /\ mem[s].plan = NoPlan
        /\ next = "sign_welcome" => mem[s].stage = "adding"
    BY DEF ReadPeerPackage
  <1> HIDE DEF k, next
  <1> QED BY <1>1, <1>2, <1>3, <1>4, GotoStep

\* The inviter is on its own: the joiner has no group, so every key it made is
\* still there.
LEMMA GroupWrite ==
  ASSUME IInv, NEW s \in Sessions, NEW n \in Checkpoint, NEW next \in {"group", "sign_welcome"},
         Writes(s, n, next), UNCHANGED <<local, net, life>>, at[s] = "group",
         mem[s].stage \in {"none", "alone"}, n.stage \in {"alone", "adding"},
         SameKeys(mem[s], n), SameTexts(mem[s], n), n.plan = mem[s].plan,
         n.stage = "adding" => n.group.key = peerkey[s],
         next = "sign_welcome" => n.stage = "adding"
  PROVE  IInv'
  <1>0. /\ s \in synced /\ mem[s] \in Checkpoint /\ Home[s] \in Devices /\ AskedTyped
        /\ Fits(Home[s], mem[s]) /\ Waits(s, at[s], mem[s]) /\ mem[s] = disk[Home[s]]
    BY SyncedFacts DEF Writes
  <1>1. Home[s] = Inviter /\ mem[s].plan = NoPlan /\ peerkey[s] \in 1..disk[Joiner].made
    BY <1>0 DEF Waits
  <1>2. disk'[Home[s]] = n /\ next \in Steps /\ next # "closed"
    BY WriteTypes DEF IInv, TypeOK, net, Steps
  <1>3. Fits(Home[s], n)
    BY <1>0, <1>1, GroupFits DEF SameKeys
  <1>4. PairOk(n, disk[Joiner])
    <2>1. PairOk(mem[s], disk[Joiner])
      BY <1>0, <1>1 DEF IInv, Paired
    <2>2. disk[Joiner].stage = "none" /\ 1..disk[Joiner].made \subseteq disk[Joiner].keys
      BY <2>1 DEF PairOk
    <2> QED BY <1>1, <2>2 DEF PairOk
  <1>5. KeptFor(Home[s])'
    BY <1>0, <1>2, KeptWrite DEF SameTexts, net
  <1>6. Waits(s, next, n)
    BY <1>1 DEF Waits
  <1>7. n.made >= mem[s].made
    <2>1. mem[s].made \in Nat
      BY <1>0, Fields, ChatAssumption
    <2> QED BY <2>1 DEF SameKeys
  <1> QED BY <1>1, <1>2, <1>3, <1>4, <1>5, <1>6, <1>7, WriteStep, ChatAssumption

LEMMA CreateGroupStep ==
  ASSUME IInv, NEW s \in Sessions, CreateGroup(s)
  PROVE  IInv'
  <1> DEFINE n == [mem[s] EXCEPT !.stage = "alone", !.group.by = s]
  <1>1. CASE Discard(s)
    BY <1>1, DiscardStep DEF CreateGroup
  <1>2. CASE s \in synced /\ Writes(s, n, "group")
    <2>0. mem[s] \in Checkpoint
      BY <1>2, SyncedFacts
    <2>1. /\ n \in Checkpoint /\ SameKeys(mem[s], n) /\ SameTexts(mem[s], n)
          /\ n.plan = mem[s].plan /\ n.stage = "alone"
      BY <2>0, CreatedFields
    <2> HIDE DEF n
    <2> QED BY <1>2, <2>1, GroupWrite DEF CreateGroup
  <1> QED BY <1>1, <1>2, SaveCases DEF CreateGroup

LEMMA PrepareAddMemberStep ==
  ASSUME IInv, NEW s \in Sessions, PrepareAddMember(s)
  PROVE  IInv'
  <1> DEFINE n == WithMember(mem[s], peerkey[s])
  <1>1. CASE Discard(s)
    BY <1>1, DiscardStep DEF PrepareAddMember
  <1>2. CASE s \in synced /\ Writes(s, n, "sign_welcome")
    <2>0. mem[s] \in Checkpoint /\ peerkey[s] \in 0..MaxKeyPackages
      BY <1>2, SyncedFacts DEF IInv, TypeOK
    <2>1. /\ n \in Checkpoint /\ SameKeys(mem[s], n) /\ SameTexts(mem[s], n)
          /\ n.plan = mem[s].plan /\ n.stage = "adding" /\ n.group.key = peerkey[s]
      BY <2>0, AddingFields
    <2> HIDE DEF n
    <2> QED BY <1>2, <2>1, GroupWrite DEF PrepareAddMember
  <1> QED BY <1>1, <1>2, SaveCases DEF PrepareAddMember

LEMMA SignWelcomeStep ==
  ASSUME IInv, NEW s \in Sessions, SignWelcome(s)
  PROVE  IInv'
  <1> DEFINE p == Welcome(mem[s].group)
             n == [mem[s] EXCEPT !.plan = NewPlan(p, rail[s])]
  <1>1. CASE Discard(s)
    BY <1>1, DiscardStep DEF SignWelcome
  <1>2. CASE s \in synced /\ Writes(s, n, "approve")
    <2>0. /\ mem[s] \in Checkpoint /\ Home[s] = Inviter /\ Fits(Inviter, mem[s])
          /\ rail[s] \in Rails /\ AskedTyped
          /\ mem[s].plan = NoPlan /\ mem[s].stage = "adding"
      BY <1>2, SyncedFacts DEF SignWelcome, Waits
    <2>1. p \in Packets /\ p # NoPacket
      <3>1. mem[s].group \in Groups
        BY <2>0, Fields
      <3> QED BY <3>1, MadePackets, PacketFacts
    <2>2. /\ NewPlan(p, rail[s]) \in Plans /\ NewPlan(p, rail[s]).packet = p
          /\ NewPlan(p, rail[s]).receipts = {}
      BY <2>0, <2>1, NewPlans
    <2>3. /\ n \in Checkpoint /\ SameKeys(mem[s], n) /\ SameGroup(mem[s], n)
          /\ SameTexts(mem[s], n) /\ n.plan = NewPlan(p, rail[s])
      BY <2>0, <2>2, PlannedFields
    <2> HIDE DEF n
    <2>4. Fits(Home[s], n)
      BY <2>0, <2>2, <2>3, SignWelcomeFits
    <2>5. Waits(s, "approve", n)
      BY <2>1, <2>2, <2>3, NewPlans DEF Waits
    <2> QED BY <1>2, <2>3, <2>4, <2>5, PlainWrite DEF SignWelcome, SameKeys, Steps
  <1> QED BY <1>1, <1>2, SaveCases DEF SignWelcome

LEMMA PlanTextStep ==
  ASSUME IInv, NEW s \in Sessions, PlanText(s)
  PROVE  IInv'
  <1> DEFINE p == mem[s].app
             n == [mem[s] EXCEPT !.plan = NewPlan(p, rail[s])]
  <1>1. CASE Discard(s)
    BY <1>1, DiscardStep DEF PlanText
  <1>2. CASE s \in synced /\ Writes(s, n, "approve")
    <2>0. /\ mem[s] \in Checkpoint /\ Home[s] \in Devices /\ Fits(Home[s], mem[s])
          /\ rail[s] \in Rails /\ AskedTyped
          /\ mem[s].plan = NoPlan /\ p # NoPacket
      BY <1>2, SyncedFacts DEF PlanText, Waits
    <2>1. p \in Packets
      BY <2>0, Fields DEF Packets
    <2>2. /\ NewPlan(p, rail[s]) \in Plans /\ NewPlan(p, rail[s]).packet = p
          /\ NewPlan(p, rail[s]).receipts = {}
      BY <2>0, <2>1, NewPlans
    <2>3. /\ n \in Checkpoint /\ SameKeys(mem[s], n) /\ SameGroup(mem[s], n)
          /\ SameTexts(mem[s], n) /\ n.plan = NewPlan(p, rail[s])
      BY <2>0, <2>2, PlannedFields
    <2> HIDE DEF n
    <2>4. Fits(Home[s], n)
      BY <2>0, <2>2, <2>3, PlanTextFits
    <2>5. Waits(s, "approve", n)
      BY <2>0, <2>2, <2>3, NewPlans DEF Waits
    <2> QED BY <1>2, <2>3, <2>4, <2>5, PlainWrite DEF PlanText, SameKeys, Steps
  <1> QED BY <1>1, <1>2, SaveCases DEF PlanText

LEMMA EncryptStep ==
  ASSUME IInv, NEW s \in Sessions, Encrypt(s)
  PROVE  IInv'
  <1> DEFINE t == Text(s, mem[s].group, mem[s].sent + 1)
             n == WithPending(mem[s], t)
  <1>1. CASE Discard(s)
    BY <1>1, DiscardStep DEF Encrypt
  <1>2. CASE s \in synced /\ Writes(s, n, "plan")
    <2>0. /\ mem[s] \in Checkpoint /\ Home[s] \in Devices /\ Fits(Home[s], mem[s]) /\ AskedTyped
          /\ mem[s].plan = NoPlan /\ mem[s].app = NoPacket
          /\ mem[s].stage = "ready" /\ mem[s].sent < MaxTexts[Home[s]]
      BY <1>2, SyncedFacts DEF Encrypt
    <2>1. mem[s].sent + 1 \in Secrets /\ mem[s].group \in Groups
      <3>1. mem[s].sent \in Nat /\ mem[s].group \in Groups
        BY <2>0, Fields
      <3>2. MaxTexts[Inviter] \in Nat /\ MaxTexts[Joiner] \in Nat
        BY ChatAssumption DEF Devices
      <3>3. mem[s].sent + 1 <= MaxTexts[Inviter] + MaxTexts[Joiner]
        BY <2>0, <3>1, <3>2 DEF Devices
      <3> QED BY <3>1, <3>2, <3>3 DEF Secrets
    <2>2. /\ t \in Texts /\ t.from = Home[s] /\ t.group = mem[s].group
          /\ t.secret = mem[s].sent + 1 /\ t # NoPacket
      BY <2>1, MadePackets, PacketFacts
    <2> HIDE DEF t
    <2>3. /\ n \in Checkpoint /\ SameKeys(mem[s], n) /\ SameGroup(mem[s], n)
          /\ n.plan = mem[s].plan /\ n.sent = mem[s].sent + 1 /\ n.app = t
          /\ n.inbox = mem[s].inbox
      BY <2>0, <2>2, EncryptedFields
    <2> HIDE DEF n
    <2>4. Fits(Home[s], n)
      BY <2>0, <2>2, <2>3, EncryptFits
    <2>5. Waits(s, "plan", n)
      BY <2>0, <2>2, <2>3 DEF Waits
    <2>6. disk'[Home[s]] = n
      BY <1>2, <2>3, WriteTypes DEF IInv, TypeOK, net, Encrypt, Steps
    <2>7. KeptFor(Home[s])'
      BY <1>2, <2>0, <2>3, <2>6, KeptWrite DEF Encrypt, net
    <2>8. n.made >= mem[s].made
      <3>1. mem[s].made \in Nat
        BY <2>0, Fields, ChatAssumption
      <3> QED BY <2>3, <3>1 DEF SameKeys
    <2> QED BY <1>2, <2>3, <2>4, <2>5, <2>7, <2>8, PairWrite, WriteStep DEF Encrypt, SameKeys, Steps
  <1> QED BY <1>1, <1>2, SaveCases DEF Encrypt

\* A pending plan has a packet, of its device.
LEMMA PlanPacket ==
  ASSUME NEW d, NEW c \in Checkpoint, Fits(d, c), c.plan # NoPlan
  PROVE  c.plan.packet \in Packets /\ c.plan.packet # NoPacket /\ c.plan.packet.from = d
  BY Fields DEF Fits, PlanOk

LEMMA ApproveStep ==
  ASSUME IInv, NEW s \in Sessions, Approve(s)
  PROVE  IInv'
  <1> DEFINE n == [mem[s] EXCEPT !.plan.approved = TRUE]
  <1>1. CASE Discard(s)
    BY <1>1, DiscardStep DEF Approve
  <1>2. CASE Goto(s, "frame")
    <2>1. s \in synced => mem[s].plan # NoPlan
      BY SyncedFacts DEF Waits, Approve
    <2>2. /\ peerkey[s] \in 0..MaxKeyPackages
          /\ peerkey' = [peerkey EXCEPT ![s] = peerkey[s]] /\ UNCHANGED <<rail, net, life>>
      BY DEF IInv, TypeOK, local, Approve
    <2> QED BY <1>2, <2>1, <2>2, GotoStep DEF Steps
  <1>3. CASE s \in synced /\ Writes(s, n, "frame")
    <2>0. /\ mem[s] \in Checkpoint /\ Home[s] \in Devices /\ Fits(Home[s], mem[s])
          /\ mem[s].plan # NoPlan
      BY <1>3, SyncedFacts DEF Approve, Waits
    <2>1. /\ n \in Checkpoint /\ SameKeys(mem[s], n) /\ SameGroup(mem[s], n)
          /\ SameTexts(mem[s], n) /\ SameFrames(mem[s], n)
          /\ n.plan.receipts = mem[s].plan.receipts
      BY <2>0, ApprovedFields
    <2> HIDE DEF n
    <2>2. Fits(Home[s], n)
      BY <2>0, <2>1, ReceiptFits
    <2>3. Waits(s, "frame", n)
      BY <2>0, <2>1, PlanPacket, NewPlans DEF Waits, SameFrames
    <2> QED BY <1>3, <2>1, <2>2, <2>3, PlainWrite DEF Approve, SameKeys, Steps
  <1> QED BY <1>1, <1>2, <1>3, SaveCases DEF Approve

LEMMA FindReceiptStep ==
  ASSUME IInv, NEW s \in Sessions, NEW view, FindReceipt(s, view)
  PROVE  IInv'
  <1> DEFINE k == NextFrame(mem[s])
             n == [mem[s] EXCEPT !.plan.receipts = @ \cup {k}]
  <1>1. CASE Discard(s)
    BY <1>1, DiscardStep DEF FindReceipt
  <1>2. CASE s \in synced /\ Writes(s, n, "frame")
    <2>0. /\ mem[s] \in Checkpoint /\ Home[s] \in Devices /\ Fits(Home[s], mem[s])
          /\ mem[s].plan # NoPlan
      BY <1>2, SyncedFacts DEF FindReceipt, Waits
    <2>1. PICK i \in DOMAIN chain : chain[i].packet = mem[s].plan.packet /\ chain[i].frame = k
      BY DEF FindReceipt
    <2>2. k \in Nat
      BY <2>1, Typed DEF IInv, AskedTyped, Asked
    <2> HIDE DEF k
    <2>3. /\ n \in Checkpoint /\ SameKeys(mem[s], n) /\ SameGroup(mem[s], n)
          /\ SameTexts(mem[s], n) /\ SameFrames(mem[s], n)
          /\ n.plan.receipts = mem[s].plan.receipts \cup {k}
      BY <2>0, <2>2, ReceivedFields
    <2> HIDE DEF n
    <2>4. Fits(Home[s], n)
      BY <2>0, <2>1, <2>3, ReceiptFits
    <2>5. Waits(s, "frame", n)
      BY <2>0, <2>3, PlanPacket, NewPlans DEF Waits, SameFrames
    <2> QED BY <1>2, <2>3, <2>4, <2>5, PlainWrite DEF FindReceipt, SameKeys, Steps
  <1> QED BY <1>1, <1>2, SaveCases DEF FindReceipt

LEMMA FinishKeyPackageStep ==
  ASSUME IInv, NEW s \in Sessions, FinishKeyPackage(s)
  PROVE  IInv'
  <1> DEFINE k == mem[s].plan.packet.n
             n == WithPublished(mem[s])
  <1>1. CASE Discard(s)
    BY <1>1, DiscardStep DEF FinishKeyPackage
  <1>2. CASE s \in synced /\ Writes(s, n, "idle")
    <2>0. /\ mem[s] \in Checkpoint /\ Home[s] \in Devices /\ Fits(Home[s], mem[s]) /\ AskedTyped
          /\ mem[s].plan # NoPlan /\ mem[s].plan.packet.kind = "key_package"
      BY <1>2, SyncedFacts DEF FinishKeyPackage, Published, Waits
    <2>1. k \in 0..MaxKeyPackages /\ mem[s].plan.packet # NoPacket
      BY <2>0, PlanPacket, PacketFacts, ChatAssumption
    <2>2. /\ n \in Checkpoint /\ SameGroup(mem[s], n) /\ SameTexts(mem[s], n) /\ n.plan = NoPlan
          /\ n.made = mem[s].made /\ n.keys = mem[s].keys /\ n.published = k
      BY <2>0, <2>1, PublishedFields
    <2> HIDE DEF n
    <2>3. Fits(Home[s], n)
      BY <2>0, <2>1, <2>2, PublishedFits
    <2>4. Waits(s, "idle", n)
      BY DEF Waits
    <2> QED BY <1>2, <2>2, <2>3, <2>4, PlainWrite DEF FinishKeyPackage, Steps
  <1> QED BY <1>1, <1>2, SaveCases DEF FinishKeyPackage

LEMMA FinishWelcomeStep ==
  ASSUME IInv, NEW s \in Sessions, FinishWelcome(s)
  PROVE  IInv'
  <1> DEFINE n == [mem[s] EXCEPT !.plan = NoPlan]
  <1>1. CASE Discard(s)
    BY <1>1, DiscardStep DEF FinishWelcome
  <1>2. CASE s \in synced /\ Writes(s, n, "idle")
    <2>0. /\ mem[s] \in Checkpoint /\ Home[s] \in Devices /\ Fits(Home[s], mem[s]) /\ AskedTyped
          /\ mem[s].plan # NoPlan /\ mem[s].plan.packet.kind = "welcome" /\ mem[s].stage = "ready"
      BY <1>2, SyncedFacts DEF FinishWelcome, Published, Waits
    <2>1. /\ n \in Checkpoint /\ SameKeys(mem[s], n) /\ SameGroup(mem[s], n)
          /\ SameTexts(mem[s], n) /\ n.plan = NoPlan
      BY <2>0, PlannedFields, NewPlans
    <2> HIDE DEF n
    <2>2. Fits(Home[s], n)
      BY <2>0, <2>1, PlanPacket, FinishWelcomeFits
    <2>3. Waits(s, "idle", n)
      BY DEF Waits
    <2> QED BY <1>2, <2>1, <2>2, <2>3, PlainWrite DEF FinishWelcome, SameKeys, Steps
  <1> QED BY <1>1, <1>2, SaveCases DEF FinishWelcome

LEMMA FinishTextStep ==
  ASSUME IInv, NEW s \in Sessions, FinishText(s)
  PROVE  IInv'
  <1> DEFINE n == WithSent(mem[s])
  <1>1. CASE Discard(s)
    BY <1>1, DiscardStep DEF FinishText
  <1>2. CASE s \in synced /\ Writes(s, n, "idle")
    <2>0. /\ mem[s] \in Checkpoint /\ Home[s] \in Devices /\ Fits(Home[s], mem[s]) /\ AskedTyped
          /\ mem[s].plan # NoPlan /\ mem[s].plan.packet.kind = "application"
          /\ Missing(mem[s]) = {}
      BY <1>2, SyncedFacts DEF FinishText, Published, Waits
    <2>1. /\ mem[s].plan.packet = mem[s].app /\ mem[s].app # NoPacket
          /\ mem[s].app \in Texts /\ mem[s].app.from = Home[s]
      BY <2>0, PlanPacket, Fields DEF Fits, PlanOk
    <2>2. OnChain(mem[s].app)
      BY <2>0, <2>1, Receipts DEF Fits
    <2>3. /\ n \in Checkpoint /\ SameKeys(mem[s], n) /\ SameGroup(mem[s], n) /\ n.plan = NoPlan
          /\ n.sent = mem[s].sent /\ n.app = NoPacket
          /\ n.inbox = mem[s].inbox \cup {mem[s].app}
      BY <2>0, <2>1, FinishedFields
    <2> HIDE DEF n
    <2>4. Fits(Home[s], n)
      BY <2>0, <2>1, <2>2, <2>3, FinishTextFits
    <2>5. Waits(s, "idle", n)
      BY DEF Waits
    <2>6. disk'[Home[s]] = n
      BY <1>2, <2>3, WriteTypes DEF IInv, TypeOK, net, FinishText, Steps
    <2>7. KeptFor(Home[s])'
      BY <1>2, <2>1, <2>3, <2>6, KeptWrite DEF FinishText, net, SameGroup
    <2>8. n.made >= mem[s].made
      <3>1. mem[s].made \in Nat
        BY <2>0, Fields, ChatAssumption
      <3> QED BY <2>3, <3>1 DEF SameKeys
    <2> QED BY <1>2, <2>3, <2>4, <2>5, <2>7, <2>8, PairWrite, WriteStep
         DEF FinishText, SameKeys, Steps
  <1> QED BY <1>1, <1>2, SaveCases DEF FinishText

LEMMA MergePendingCommitStep ==
  ASSUME IInv, NEW s \in Sessions, MergePendingCommit(s)
  PROVE  IInv'
  <1> DEFINE n == [mem[s] EXCEPT !.stage = "ready"]
  <1>1. CASE Discard(s)
    BY <1>1, DiscardStep DEF MergePendingCommit
  <1>2. CASE s \in synced /\ Writes(s, n, "frame")
    <2>0. /\ mem[s] \in Checkpoint /\ Home[s] \in Devices /\ Fits(Home[s], mem[s])
          /\ mem[s].plan # NoPlan /\ mem[s].plan.packet.kind = "welcome"
          /\ Missing(mem[s]) = {} /\ mem[s].stage = "adding" /\ mem[s] = disk[Home[s]]
      BY <1>2, SyncedFacts DEF MergePendingCommit, Published, Waits
    <2>1. Home[s] = Inviter /\ mem[s].plan.packet = Welcome(mem[s].group)
      BY <2>0, PlanPacket, PacketFacts DEF Fits, PlanOk
    <2>2. OnChain(Welcome(mem[s].group)) /\ mem[s].inbox = {}
      BY <2>0, <2>1, PlanPacket, Receipts DEF Fits, TextsOk
    <2>3. /\ n \in Checkpoint /\ SameKeys(mem[s], n) /\ SameTexts(mem[s], n)
          /\ n.plan = mem[s].plan /\ n.stage = "ready" /\ n.group = mem[s].group
      BY <2>0, StageFields
    <2> HIDE DEF n
    <2>4. Fits(Home[s], n)
      BY <2>0, <2>3, MergeFits
    <2>5. Waits(s, "frame", n)
      BY <2>0, <2>3 DEF Waits
    <2>6. disk'[Home[s]] = n
      BY <1>2, <2>3, WriteTypes DEF IInv, TypeOK, net, MergePendingCommit, Steps
    <2>7. KeptFor(Home[s])'
      BY <1>2, <2>2, <2>3, <2>6, KeptWrite DEF MergePendingCommit, net, SameTexts
    <2>8. n.made >= mem[s].made
      <3>1. mem[s].made \in Nat
        BY <2>0, Fields, ChatAssumption
      <3> QED BY <2>3, <3>1 DEF SameKeys
    <2>9. PairOk(n, disk[Joiner])
      <3>1. PairOk(mem[s], disk[Joiner])
        BY <2>0, <2>1 DEF IInv, Paired
      <3> QED BY <2>0, <2>2, <2>3, <3>1 DEF PairOk
    <2> QED BY <1>2, <2>1, <2>3, <2>4, <2>5, <2>7, <2>8, <2>9, WriteStep, ChatAssumption
         DEF MergePendingCommit, Steps
  <1> QED BY <1>1, <1>2, SaveCases DEF MergePendingCommit

\* The joiner takes up the inviter's group; before that it has read nothing.
LEMMA JoinerWrite ==
  ASSUME IInv, NEW s \in Sessions, NEW n \in Checkpoint, NEW next \in {"hydrate", "idle"},
         Writes(s, n, next), UNCHANGED <<local, net, life>>, Home[s] = Joiner,
         mem[s].stage \in {"none", "joined"}, n.stage \in {"joined", "ready"},
         SameTexts(mem[s], n), n.plan = mem[s].plan,
         n.made = mem[s].made, n.published = mem[s].published,
         next = "hydrate" => n.stage = "joined",
         n.group = disk[Inviter].group, disk[Inviter].stage \in {"adding", "ready"}
  PROVE  IInv'
  <1>0. /\ s \in synced /\ mem[s] \in Checkpoint /\ AskedTyped
        /\ Fits(Joiner, mem[s]) /\ mem[s] = disk[Joiner]
    BY SyncedFacts DEF Writes
  <1>1. Fits(Home[s], n)
    BY <1>0, JoinFits
  <1>2. disk'[Home[s]] = n /\ next \in Steps /\ next # "closed"
    BY WriteTypes DEF IInv, TypeOK, net, Steps
  <1>3. PairOk(disk[Inviter], n)
    <2>1. PairOk(disk[Inviter], mem[s])
      BY <1>0 DEF IInv, Paired
    <2> QED BY <2>1 DEF PairOk
  <1>4. KeptFor(Home[s])'
    <2>1. n.inbox = {}
      BY <1>0 DEF Fits, TextsOk, SameTexts
    <2> QED BY <1>0, <1>2, <2>1, KeptWrite DEF SameTexts, net
  <1>5. Waits(s, next, n)
    BY DEF Waits
  <1>6. n.made >= mem[s].made
    <2>1. mem[s].made \in Nat
      BY <1>0, Fields, ChatAssumption
    <2> QED BY <2>1
  <1> QED BY <1>1, <1>2, <1>3, <1>4, <1>5, <1>6, WriteStep, ChatAssumption

LEMMA JoinStep ==
  ASSUME IInv, NEW s \in Sessions, NEW view, NEW again, Join(s, view, again)
  PROVE  IInv'
  <1> DEFINE g == Newest(LiveWelcomes(again)).group
             n == JoinFromWelcome(mem[s], g)
  <1>0. g \in Groups /\ g = disk[Inviter].group /\ disk[Inviter].stage \in {"adding", "ready"}
    BY NewestWelcome DEF Join
  <1>1. Home[s] = Joiner /\ UNCHANGED <<local, net, life>>
    BY DEF Join
  <1>2. CASE JoinedBefore(mem[s], g) /\ Goto(s, "hydrate")
    <2>1. /\ peerkey[s] \in 0..MaxKeyPackages
          /\ peerkey' = [peerkey EXCEPT ![s] = peerkey[s]] /\ UNCHANGED rail
      BY <1>1 DEF IInv, TypeOK, local
    <2> QED BY <1>1, <1>2, <2>1, GotoStep DEF JoinedBefore, Steps
  <1>3. CASE MayJoin(mem[s], g) /\ Save(s, n, "hydrate")
    <2>1. CASE Discard(s)
      BY <1>1, <2>1, DiscardStep
    <2>2. CASE s \in synced /\ Writes(s, n, "hydrate")
      <3>0. mem[s] \in Checkpoint
        BY <2>2, SyncedFacts
      <3>1. /\ n \in Checkpoint /\ SameTexts(mem[s], n) /\ n.plan = mem[s].plan
            /\ n.stage = "joined" /\ n.group = g
            /\ n.made = mem[s].made /\ n.published = mem[s].published
        BY <1>0, <3>0, JoinedFields
      <3>2. mem[s].stage = "none"
        BY <1>3 DEF MayJoin
      <3> HIDE DEF n, g
      <3> QED BY <1>0, <1>1, <2>2, <3>1, <3>2, JoinerWrite
    <2> QED BY <1>3, <2>1, <2>2, SaveCases
  <1> QED BY <1>2, <1>3 DEF Join

LEMMA ApplyGroupSnapshotStep ==
  ASSUME IInv, NEW s \in Sessions, ApplyGroupSnapshot(s)
  PROVE  IInv'
  <1> DEFINE n == [mem[s] EXCEPT !.stage = "ready"]
  <1>1. CASE Discard(s)
    BY <1>1, DiscardStep DEF ApplyGroupSnapshot
  <1>2. CASE s \in synced /\ Writes(s, n, "idle")
    <2>0. /\ mem[s] \in Checkpoint /\ Home[s] = Joiner /\ mem[s].stage = "joined"
          /\ mem[s] = disk[Joiner]
      BY <1>2, SyncedFacts DEF ApplyGroupSnapshot, Waits
    <2>1. /\ n \in Checkpoint /\ SameKeys(mem[s], n) /\ SameTexts(mem[s], n)
          /\ n.plan = mem[s].plan /\ n.stage = "ready" /\ n.group = mem[s].group
      BY <2>0, StageFields
    <2>2. n.group = disk[Inviter].group /\ disk[Inviter].stage \in {"adding", "ready"}
      BY <2>0, <2>1 DEF IInv, Paired, PairOk
    <2> HIDE DEF n
    <2> QED BY <1>2, <2>0, <2>1, <2>2, JoinerWrite DEF ApplyGroupSnapshot, SameKeys
  <1> QED BY <1>1, <1>2, SaveCases DEF ApplyGroupSnapshot

\* What ages decides what can be read and joined, not what is kept.
LEMMA AgeStep ==
  ASSUME IInv, NEW p \in Aging, Age(p)
  PROVE  IInv'
  <1>1. PICK left \in 0..life[p] - 1 : life' = [life EXCEPT ![p] = left]
    BY DEF Age
  <1>2. life \in [Perishable -> 0..2] /\ p \in Perishable /\ life[p] \in 0..2
    BY AgingAssumption DEF IInv, TypeOK
  <1>3. left \in 0..2
    BY <1>1, <1>2
  <1>4. life' \in [Perishable -> 0..2]
    BY <1>1, <1>2, <1>3
  <1>5. UNCHANGED <<disk, mem, synced, at, rail, peerkey, prompts, chain>>
    BY DEF Age, local, net
  <1>6. TypeOK'
    BY <1>4, <1>5 DEF IInv, TypeOK
  <1> QED BY <1>5, <1>6, QuietStep DEF net

---------------------------------------------------------------------------
(* Reading a text *)

\* A packet that is on chain has a frame there.
LEMMA Seen ==
  ASSUME NEW p \in Packets, OnChain(p)
  PROVE  \E i \in DOMAIN chain : chain[i].packet = p
  BY FrameNumbers DEF OnChain

\* A packet that begins before one that the cap lets through passes as well.
LEMMA KeptToo ==
  ASSUME TypeOK, NEW seen \in SUBSET DOMAIN chain,
         NEW i \in Begins(seen), NEW j \in Kept(Begins(seen)), i <= j
  PROVE  i \in Kept(Begins(seen))
  <1> DEFINE S == {k \in Begins(seen) : k <= j}
             T == {k \in Begins(seen) : k <= i}
  <1>0. /\ Len(chain) \in Nat /\ Begins(seen) \subseteq 1..Len(chain)
        /\ \A k \in Begins(seen) : k \in Int
    BY Typed DEF Begins
  <1>1. S \in SUBSET (1..Len(chain)) /\ T \in SUBSET S /\ Cardinality(S) <= MaxPackets
    BY <1>0 DEF Kept
  <1> HIDE DEF S, T
  <1>2. IsFiniteSet(1..Len(chain))
    BY <1>0, FS_Interval
  <1>3. IsFiniteSet(S) /\ IsFiniteSet(T) /\ Cardinality(T) <= Cardinality(S)
    BY <1>1, <1>2, FS_Subset
  <1>4. Cardinality(S) \in Nat /\ Cardinality(T) \in Nat
    BY <1>3, FS_CardinalityType
  <1>5. Cardinality(T) <= MaxPackets
    BY <1>1, <1>3, <1>4, ChatAssumption
  <1> QED BY <1>5 DEF Kept, T

LEMMA LastRead ==
  ASSUME NEW d, NEW c \in Checkpoint, NEW x \in Secrets,
         \A q \in Received(c, d) : q.secret < x + Tolerance
  PROVE  LastSecret(c, d) - x < Tolerance
  <1> DEFINE b == MaxTexts[Inviter] + MaxTexts[Joiner]
             R == Received(c, d)
             S == {i \in 0..b : \E p \in R : p.secret = i}
  <1>0. b \in Nat /\ Secrets = 1..b /\ Tolerance \in Nat
    BY ChatAssumption DEF Secrets, Devices
  <1>1. \A p \in R : p.secret \in Secrets
    BY Fields DEF Received, Texts
  <1> HIDE DEF b
  <1>2. CASE R = {}
    BY <1>0, <1>2 DEF LastSecret
  <1>3. CASE R # {}
    <2>1. S \in SUBSET (0..b) /\ S # {}
      BY <1>0, <1>1, <1>3
    <2>2. PICK m \in S : \A n \in S : n <= m
      <3> HIDE DEF S
      <3> QED BY <1>0, <2>1, Greatest
    <2>3. \A p \in R : p.secret \in S
      BY <1>0, <1>1
    <2>4. \E i \in Secrets : (\E p \in R : p.secret = i) /\ (\A p \in R : p.secret <= i)
      <3>1. m \in Secrets
        BY <1>1
      <3> QED BY <2>2, <2>3, <3>1
    <2> HIDE DEF S
    <2>5. LastSecret(c, d) \in Secrets /\ \E p \in R : p.secret = LastSecret(c, d)
      BY <1>3, <2>4, Zenon DEF LastSecret
    <2> QED BY <1>0, <2>5
  <1> QED BY <1>2, <1>3

\* A text on chain from the peer of a ready device is of the device's group.
LEMMA FromPeer ==
  ASSUME IInv, NEW d \in Devices, disk[d].stage = "ready",
         NEW i \in DOMAIN chain, chain[i].packet.kind = "application",
         chain[i].packet.from = Peer(d)
  PROVE  /\ chain[i].packet \in Texts /\ chain[i].packet.secret \in Secrets
         /\ chain[i].packet.group = disk[d].group
  <1> DEFINE p == chain[i].packet
  <1>1. p \in Packets /\ FrameBacked(chain[i], disk[Peer(d)])
    BY ChainBacked
  <1>2. p \in Texts /\ p.secret \in Secrets
    BY <1>1, PacketFacts
  <1>3. p.group = disk[Peer(d)].group /\ disk[Peer(d)].stage = "ready"
    BY <1>1 DEF FrameBacked
  <1>4. disk[Peer(d)].group = disk[d].group
    BY <1>3, ChatAssumption DEF IInv, Paired, PairOk, Peer, Devices
  <1> QED BY <1>2, <1>3, <1>4

\* A text that was not read and that nothing read since rules out decrypts.
LEMMA StillDecrypts ==
  ASSUME IInv, NEW d \in Devices, disk[d].stage = "ready",
         NEW i \in DOMAIN chain, chain[i].packet.kind = "application",
         chain[i].packet.from = Peer(d),
         chain[i].packet \notin disk[d].inbox, Readable(d, chain[i].packet)
  PROVE  Decryptable(disk[d], d, chain[i].packet)
  <1> DEFINE p == chain[i].packet
  <1>0. p.secret \in Secrets /\ p.group = disk[d].group
    BY FromPeer
  <1>1. disk[d] \in Checkpoint /\ TextsOk(d, disk[d])
    BY DEF IInv, TypeOK, DisksFit, Fits
  <1>2. ASSUME NEW q \in Received(disk[d], d), q.secret = p.secret PROVE FALSE
    <2>1. q \in disk[d].inbox /\ q.from = Peer(d) /\ q \in Texts
      BY <1>1, Fields DEF Received
    <2>2. q.kind = "application" /\ q \in Packets
      BY <2>1 DEF Texts, Packets
    <2>3. PICK j \in DOMAIN chain : chain[j].packet = q
      BY <1>1, <2>1, <2>2, Seen DEF TextsOk
    <2>4. chain[i] \in Asked /\ chain[j] \in Asked
      BY DEF Asked
    <2>5. p = q
      BY <1>2, <2>1, <2>2, <2>3, <2>4 DEF IInv, Net, Distinct
    <2> QED BY <2>1, <2>5
  <1>3. LastSecret(disk[d], d) - p.secret < Tolerance
    BY <1>0, <1>1, LastRead DEF Readable
  <1> QED BY <1>0, <1>2, <1>3 DEF Decryptable

\* Two texts of one sender, the earlier one by the secrets: it is on chain as
\* a whole, and begins before the other.
LEMMA Earlier ==
  ASSUME IInv, NEW i \in DOMAIN chain, NEW j \in DOMAIN chain,
         chain[i].packet.kind = "application", chain[j].packet.kind = "application",
         chain[i].packet.from = chain[j].packet.from,
         chain[i].packet.secret <= chain[j].packet.secret, chain[i].packet # chain[j].packet
  PROVE  OnChain(chain[i].packet) /\ chain[i].packet.secret < chain[j].packet.secret
  <1> DEFINE p == chain[i].packet
             q == chain[j].packet
             c == disk[p.from]
  <1>0. /\ p \in Packets /\ q \in Packets /\ p.from \in Devices
        /\ FrameBacked(chain[i], c) /\ FrameBacked(chain[j], c)
    BY ChainBacked
  <1>1. p.secret \in Nat /\ q.secret \in Nat /\ p # NoPacket
    BY <1>0, PacketFacts, ChatAssumption DEF Secrets, Devices
  <1>2. p.secret # q.secret
    <2>1. chain[i] \in Asked /\ chain[j] \in Asked
      BY DEF Asked
    <2> QED BY <2>1 DEF IInv, Net, Distinct
  <1>3. ASSUME p = c.app PROVE FALSE
    <2>1. c \in Checkpoint /\ TextsOk(p.from, c)
      BY <1>0 DEF IInv, TypeOK, DisksFit, Fits
    <2>2. p.secret = c.sent /\ c.sent \in Nat
      BY <1>1, <1>3, <2>1, Fields DEF TextsOk
    <2>3. q.secret < c.sent
      BY <1>0, <1>1, <1>3 DEF FrameBacked
    <2> QED BY <1>1, <2>2, <2>3
  <1> QED BY <1>0, <1>1, <1>2, <1>3 DEF FrameBacked

\* What is new to reader d of checkpoint c in what it sees over the rails.
Unread(d, c, view) ==
  {p \in Complete(view) : /\ p.kind = "application" /\ p.from = Peer(d)
                          /\ p \notin c.inbox /\ Decryptable(c, d, p)}

\* An unread text that begins before a new one, all on the rails seen, is
\* itself new.
LEMMA NewToo ==
  ASSUME IInv, NEW d \in Devices, disk[d].stage = "ready", NEW view,
         NEW i \in DOMAIN chain, chain[i].packet.kind = "application",
         chain[i].packet.from = Peer(d),
         chain[i].packet \notin disk[d].inbox, Readable(d, chain[i].packet),
         OnChain(chain[i].packet),
         \A j \in DOMAIN chain : chain[j].packet = chain[i].packet => chain[j].rail \in view,
         NEW q \in Unread(d, disk[d], view), chain[i].packet.secret < q.secret
  PROVE  chain[i].packet \in Unread(d, disk[d], view)
  <1> DEFINE p == chain[i].packet
             seen == Visible(view)
  <1>0. TypeOK /\ seen \in SUBSET DOMAIN chain /\ DOMAIN chain \subseteq Nat
    BY Typed DEF IInv, Visible
  <1>1. i \in seen
    BY DEF Visible
  <1>2. PICK j \in Kept(Begins(seen)) : chain[j].packet = q
    BY DEF Unread, Complete
  <1>3. /\ FirstFrame(seen, p) \in Begins(seen) /\ FirstFrame(seen, p) \in DOMAIN chain
        /\ chain[FirstFrame(seen, p)].packet = p /\ j \in DOMAIN chain
    <2>1. FirstFrame(seen, p) \in Begins(seen) /\ FirstFrame(seen, p) \in seen
      BY <1>0, <1>1, FirstFrames
    <2>2. chain[FirstFrame(seen, p)].packet = p
      BY <1>0, <1>1, FirstFrames
    <2>3. j \in seen
      BY <1>2 DEF Kept, Begins
    <2> QED BY <1>0, <2>1, <2>2, <2>3
  <1>4. FirstFrame(seen, p) < j
    <2>1. q.kind = "application" /\ q.from = p.from
      BY DEF Unread
    <2> HIDE DEF seen
    <2> QED BY <1>2, <1>3, <2>1 DEF IInv, Net, InOrder
  <1>5. FirstFrame(seen, p) \in Kept(Begins(seen))
    <2>1. FirstFrame(seen, p) <= j
      BY <1>0, <1>3, <1>4
    <2> HIDE DEF seen
    <2> QED BY <1>0, <1>2, <1>3, <2>1, KeptToo
  <1>6. \A k \in Frames(p) : \E m \in seen : chain[m].packet = p /\ chain[m].frame = k
    BY DEF OnChain, Visible
  <1>7. p \in Complete(view)
    BY <1>3, <1>5, <1>6 DEF Complete
  <1> QED BY <1>7, StillDecrypts DEF Unread

LEMMA ReceiveStep ==
  ASSUME IInv, NEW s \in Sessions, NEW view, Receive(s, view)
  PROVE  IInv'
  <1> DEFINE d == Home[s]
             new == Unread(d, mem[s], view)
             q == Oldest(new)
             n == WithText(mem[s], q)
  <1>0. /\ mem[s].stage = "ready" /\ new # {} /\ Save(s, n, "idle")
        /\ UNCHANGED <<local, net, life>>
    BY DEF Receive, Unread
  <1>1. CASE Discard(s)
    BY <1>0, <1>1, DiscardStep
  <1>2. CASE s \in synced /\ Writes(s, n, "idle")
    <2>0. /\ mem[s] \in Checkpoint /\ d \in Devices /\ Fits(d, mem[s]) /\ mem[s] = disk[d]
          /\ TypeOK /\ AskedTyped
      BY <1>2, SyncedFacts DEF IInv
    <2>1. Begun(new)
      BY CompleteOnChain DEF Begun, Unread
    <2>2. q \in new /\ \A x \in new \ {q} : Before(q, x)
      <3> HIDE DEF new
      <3> QED BY <1>0, <2>0, <2>1, OldestIn
    <2>3. /\ OnChain(q) /\ q.kind = "application" /\ q.from = Peer(d) /\ q \notin mem[s].inbox
          /\ \E j \in DOMAIN chain : chain[j].packet = q /\ chain[j].rail \in view
      BY <2>2, CompleteOnChain DEF Unread
    <2>4. PICK j \in DOMAIN chain : chain[j].packet = q /\ chain[j].rail \in view
      BY <2>3
    <2> HIDE DEF q, n
    <2>5. q \in Texts /\ q.secret \in Nat
      BY <2>0, <2>3, <2>4, <1>0, FromPeer, ChatAssumption DEF Secrets, Devices
    <2>6. /\ n \in Checkpoint /\ SameKeys(mem[s], n) /\ SameGroup(mem[s], n)
          /\ n.plan = mem[s].plan /\ n.sent = mem[s].sent /\ n.app = mem[s].app
          /\ n.inbox = mem[s].inbox \cup {q}
      BY <2>0, <2>5, WithTextFields DEF n
    <2>7. Fits(d, n)
      BY <1>0, <2>0, <2>3, <2>6, WithTextFits
    <2>8. Waits(s, "idle", n)
      BY DEF Waits
    <2>9. disk'[d] = n
      BY <1>0, <1>2, <2>6, WriteTypes DEF IInv, TypeOK, net, Steps
    <2>10. n.made >= mem[s].made
      <3>1. mem[s].made \in Nat
        BY <2>0, Fields, ChatAssumption
      <3> QED BY <2>6, <3>1 DEF SameKeys
    <2>11. KeptFor(d)'
      <3>0. UNCHANGED chain /\ disk[d].stage = "ready"
        BY <1>0, <2>0 DEF net
      <3> SUFFICES ASSUME NEW i \in DOMAIN chain,
                          chain[i].packet.kind = "application", chain[i].packet.from = Peer(d),
                          chain[i].packet \notin n.inbox
                   PROVE  Readable(d, chain[i].packet)' \/ GivenUp(d, chain[i].packet)'
        BY <2>9, <3>0 DEF KeptFor
      <3> DEFINE p == chain[i].packet
      <3>1. Received(disk[d], d)' = Received(disk[d], d) \cup {q}
        BY <2>0, <2>3, <2>6, <2>9 DEF Received
      <3>2. p \notin disk[d].inbox /\ p # q
        BY <2>0, <2>6
      <3>3. p.secret \in Nat
        BY <2>0, <3>0, FromPeer, ChatAssumption DEF Secrets, Devices
      <3>4. CASE GivenUp(d, p)
        BY <3>0, <3>1, <3>4 DEF GivenUp, SentOver
      <3>5. CASE Readable(d, p) /\ q.secret < p.secret + Tolerance
        BY <3>0, <3>1, <3>5 DEF Readable
      <3>6. CASE Readable(d, p) /\ ~(q.secret < p.secret + Tolerance)
        <4>1. q.secret >= p.secret + Tolerance /\ p.secret <= q.secret
          BY <2>5, <3>3, <3>6, ChatAssumption
        <4>2. OnChain(p) /\ p.secret < q.secret
          BY <2>3, <2>4, <3>2, <4>1, Earlier
        <4>3. \A j1, j2 \in DOMAIN chain :
                chain[j1].packet = p /\ chain[j2].packet = q => j1 < j2
          BY <2>3, <4>2 DEF IInv, Net, InOrder
        <4>4. CASE \A j1 \in DOMAIN chain : chain[j1].packet = p => chain[j1].rail \in view
          <5>1. p \in new
            BY <2>0, <2>2, <3>0, <3>2, <3>6, <4>2, <4>4, NewToo
          <5>2. Before(q, p)
            BY <2>2, <3>2, <5>1
          <5>3. /\ FirstFrame(DOMAIN chain, p) \in DOMAIN chain
                /\ chain[FirstFrame(DOMAIN chain, p)].packet = p
                /\ FirstFrame(DOMAIN chain, q) \in DOMAIN chain
                /\ chain[FirstFrame(DOMAIN chain, q)].packet = q
            BY <2>0, <2>4, FirstFrames
          <5>4. FirstFrame(DOMAIN chain, p) < FirstFrame(DOMAIN chain, q)
            BY <4>3, <5>3
          <5>5. DOMAIN chain \subseteq Int
            BY <2>0, Typed
          <5> QED BY <5>2, <5>3, <5>4, <5>5 DEF Before
        <4>5. CASE \E j1 \in DOMAIN chain : chain[j1].packet = p /\ chain[j1].rail \notin view
          <5>1. PICK j1 \in DOMAIN chain : chain[j1].packet = p /\ chain[j1].rail \notin view
            BY <4>5
          <5>2. chain[j1].rail \in Rails /\ chain[j].rail \in Rails
            BY <2>0, Typed DEF SentFrames
          <5>3. SentOver(p, chain[j1].rail) /\ SentOver(q, chain[j].rail)
            BY <2>4, <5>1 DEF SentOver
          <5>4. chain[j1].rail # chain[j].rail
            BY <2>4, <5>1
          <5> QED BY <3>0, <3>1, <4>1, <5>2, <5>3, <5>4 DEF GivenUp, SentOver
        <4> QED BY <4>4, <4>5
      <3>7. Readable(d, p) \/ GivenUp(d, p)
        BY <2>0, <3>0, <3>2 DEF IInv, Unlost, KeptFor
      <3> QED BY <3>4, <3>5, <3>6, <3>7
    <2> QED BY <1>0, <1>2, <2>6, <2>7, <2>8, <2>10, <2>11, PairWrite, WriteStep
         DEF SameKeys, Steps
  <1> QED BY <1>0, <1>1, <1>2, SaveCases

---------------------------------------------------------------------------
(* Steps that ask for a frame and that put it on chain *)

LEMMA BackedSame ==
  ASSUME UNCHANGED chain, NEW f, NEW c, FrameBacked(f, c)
  PROVE  FrameBacked(f, c)'
  BY DEF FrameBacked, OnChain

\* A frame that is not prepared was never asked for, and the text it is of is
\* the only one with its secret.
LEMMA FreshFrame ==
  ASSUME AskedTyped, NEW d \in Devices, NEW c \in Checkpoint, Fits(d, c), c.plan # NoPlan,
         NEW f \in SentFrames, f.packet = c.plan.packet, f.frame \in Missing(c),
         f.frame \notin c.plan.prepared
  PROVE  /\ \A g \in Asked : ~Same(f, g)
         /\ \A g \in Asked :
              f.packet.kind = "application" /\ g.packet.kind = "application"
                /\ g.packet.from = f.packet.from /\ g.packet.secret = f.packet.secret
              => g.packet = f.packet
         /\ f.frame \in Frames(f.packet)
  <1>0. f.packet \in Packets /\ f.packet # NoPacket /\ f.packet.from = d
    BY PlanPacket
  <1>1. \A g \in Asked : ~Same(f, g)
    BY <1>0 DEF Fits, Backed, FrameBacked, Same
  <1>2. ASSUME NEW g \in Asked,
               f.packet.kind = "application", g.packet.kind = "application",
               g.packet.from = f.packet.from, g.packet.secret = f.packet.secret,
               g.packet # f.packet
        PROVE  FALSE
    <2>1. f.packet = c.app
      BY <1>0, <1>2 DEF Fits, PlanOk
    <2>2. f.packet.secret = c.sent /\ c.app # NoPacket /\ c.sent \in Nat
      BY <1>0, <2>1, Fields DEF Fits, TextsOk
    <2>3. FrameBacked(g, c)
      BY <1>0, <1>2 DEF Fits, Backed
    <2>4. g.packet.secret < c.sent
      BY <1>2, <2>1, <2>2, <2>3 DEF FrameBacked
    <2> QED BY <1>2, <2>2, <2>4
  <1>3. f.frame \in Frames(f.packet)
    BY DEF Missing
  <1> QED BY <1>1, <1>2, <1>3

LEMMA PreparedFits ==
  ASSUME AskedTyped, NEW d \in Devices, NEW c \in Checkpoint, NEW n \in Checkpoint,
         Fits(d, c), c.plan # NoPlan,
         NEW f \in SentFrames, f.packet = c.plan.packet, f.frame \in Frames(f.packet),
         SameKeys(c, n), SameGroup(c, n), SameTexts(c, n),
         n.plan.packet = c.plan.packet, n.plan.receipts = c.plan.receipts,
         n.plan.prepared = c.plan.prepared \cup {f.frame},
         \A g \in Asked' : g \in Asked \/ g = f, UNCHANGED chain
  PROVE  Fits(d, n)'
  <1>0. f.packet \in Packets /\ f.packet # NoPacket /\ f.packet.from = d /\ PlanOk(d, c)
    BY PlanPacket DEF Fits
  <1>1. FrameBacked(f, n)
    <2>1. f.packet.kind = "application" =>
            f.packet = c.app /\ c.stage = "ready" /\ f.packet.group = c.group
      BY <1>0 DEF Fits, PlanOk, TextsOk
    <2>2. f.packet.kind = "welcome" => f.packet.group = c.group /\ c.stage \in {"adding", "ready"}
      BY <1>0 DEF PlanOk
    <2> QED BY <2>1, <2>2 DEF FrameBacked, SameGroup, SameTexts
  <1>2. \A g \in Asked : g.packet.from = d => FrameBacked(g, n)
    BY DEF Fits, Backed, FrameBacked, SameKeys, SameGroup, SameTexts
  <1>3. Backed(d, n)'
    <2> SUFFICES ASSUME NEW g \in Asked', g.packet.from = d PROVE FrameBacked(g, n)'
      BY DEF Backed
    <2>1. FrameBacked(g, n)
      BY <1>1, <1>2
    <2> QED BY <2>1, BackedSame
  <1>4. PlanOk(d, n)'
    BY <1>0 DEF PlanOk, SameKeys, SameGroup, SameTexts
  <1>5. TextsOk(d, n)'
    BY DEF Fits, TextsOk, OnChain, SameKeys, SameGroup, SameTexts
  <1> QED BY <1>3, <1>4, <1>5 DEF Fits

LEMMA FitsBeside ==
  ASSUME UNCHANGED chain, NEW d, NEW c, Fits(d, c),
         \A g \in Asked' : g \in Asked \/ g.packet.from # d
  PROVE  Fits(d, c)'
  <1>1. Backed(d, c)'
    BY BackedSame DEF Fits, Backed
  <1>2. PlanOk(d, c)' /\ TextsOk(d, c)'
    BY DEF Fits, PlanOk, TextsOk, OnChain
  <1> QED BY <1>1, <1>2 DEF Fits

LEMMA PrepareFrameStep ==
  ASSUME IInv, NEW s \in Sessions, PrepareFrame(s)
  PROVE  IInv'
  <1> DEFINE d == Home[s]
             c == mem[s]
             k == NextFrame(c)
             n == [c EXCEPT !.plan.prepared = @ \cup {k}]
             f == [packet |-> c.plan.packet, frame |-> k, rail |-> rail[s]]
  <1>1. CASE Discard(s) /\ ~Current(s)
    BY <1>1, DiscardStep DEF PrepareFrame, net
  <1>2. CASE s \in synced /\ Writes(s, n, "poll")
    <2>0. /\ c \in Checkpoint /\ d \in Devices /\ Fits(d, c) /\ c.plan # NoPlan
          /\ rail[s] \in Rails /\ AskedTyped /\ TypeOK /\ c = disk[d]
      BY <1>2, SyncedFacts DEF PrepareFrame, Waits, IInv
    <2>1. c.plan.packet \in Packets /\ c.plan.packet # NoPacket /\ c.plan.packet.from = d
      BY <2>0, PlanPacket
    <2>2. k \in Missing(c) /\ k \in Nat /\ k \notin c.plan.prepared
      <3>1. Missing(c) \in SUBSET Nat /\ Missing(c) # {}
        BY <2>1, FrameNumbers DEF PrepareFrame, Missing
      <3>2. PICK m \in Missing(c) : \A i \in Missing(c) : m <= i
        BY <3>1, Least
      <3>3. k \in Missing(c)
        BY <3>2, Zenon DEF NextFrame
      <3> QED BY <3>1, <3>3 DEF PrepareFrame, IsPrepared
    <2>3. f \in SentFrames /\ f.packet = c.plan.packet /\ f.frame = k
      BY <2>0, <2>1, <2>2 DEF SentFrames
    <2>4. /\ prompts' = prompts \cup {f} /\ UNCHANGED <<local, chain, life>>
      BY <1>2 DEF PrepareFrame, Current
    <2> HIDE DEF k, f
    <2>5. /\ \A g \in Asked : ~Same(f, g)
          /\ \A g \in Asked :
               f.packet.kind = "application" /\ g.packet.kind = "application"
                 /\ g.packet.from = f.packet.from /\ g.packet.secret = f.packet.secret
               => g.packet = f.packet
          /\ f.frame \in Frames(f.packet)
      BY <2>0, <2>2, <2>3, FreshFrame
    <2>6. /\ n \in Checkpoint /\ SameKeys(c, n) /\ SameGroup(c, n) /\ SameTexts(c, n)
          /\ n.plan.packet = c.plan.packet /\ n.plan.receipts = c.plan.receipts
          /\ n.plan.prepared = c.plan.prepared \cup {k}
      BY <2>0, <2>2, PreparedFields
    <2> HIDE DEF n, c, d
    <2>7. \A g \in Asked' : g \in Asked \/ g = f
      BY <2>4 DEF Asked
    <2>8. prompts' \subseteq SentFrames /\ chain' \in Seq(SentFrames)
      BY <2>0, <2>3, <2>4 DEF TypeOK
    <2>9. TypeOK' /\ Paired' /\ InPlace' /\ Unlost'
      <3>1. Waits(s, "poll", n)
        BY <2>1, <2>6, NewPlans DEF Waits
      <3>2. disk'[d] = n
        BY <1>2, <2>4, <2>6, <2>8, WriteTypes DEF d, Steps
      <3>3. KeptFor(d)'
        BY <1>2, <2>4, <2>6, <3>2, KeptWrite DEF SameGroup, SameTexts, c, d
      <3>4. n.made >= c.made
        <4>1. c.made \in Nat
          BY <2>0, Fields, ChatAssumption
        <4> QED BY <2>6, <4>1 DEF SameKeys
      <3>5. /\ d = Inviter => PairOk(n, disk[Joiner])
            /\ d = Joiner => PairOk(disk[Inviter], n)
        BY <1>2, <2>6, PairWrite DEF SameKeys, c, d
      <3> QED BY <1>2, <2>4, <2>6, <2>8, <3>1, <3>3, <3>4, <3>5, WriteRest DEF Steps, c, d
    <2>10. Net'
      <3>1. Prompted'
        BY <2>4, <2>5 DEF IInv, Net, Prompted, Asked, Same
      <3>2. PostedOnce' /\ InOrder'
        BY <2>4 DEF IInv, Net, PostedOnce, InOrder
      <3>3. Distinct'
        BY <2>5, <2>7 DEF IInv, Net, Distinct
      <3> QED BY <3>1, <3>2, <3>3 DEF Net
    <2>11. DisksFit'
      <3> SUFFICES ASSUME NEW e \in Devices PROVE Fits(e, disk[e])'
        BY DEF DisksFit
      <3>0. disk'[d] = n /\ (e # d => disk'[e] = disk[e])
        BY <1>2, <2>4, <2>6, <2>8, WriteTypes DEF d, Steps
      <3>1. CASE e = d
        <4>1. PICK new, old, asked : new = n /\ old = c /\ asked = f
          OBVIOUS
        <4>2. Fits(e, new)'
          BY <2>0, <2>3, <2>4, <2>5, <2>6, <2>7, <3>1, <4>1, PreparedFits
        <4> QED BY <3>0, <3>1, <4>1, <4>2
      <3>2. CASE e # d
        <4>1. Fits(e, disk[e]) /\ f.packet.from # e
          BY <2>1, <2>3, <3>2 DEF IInv, DisksFit
        <4> QED BY <2>4, <2>7, <3>0, <3>2, <4>1, FitsBeside
      <3> QED BY <3>1, <3>2
    <2> QED BY <2>9, <2>10, <2>11 DEF IInv
  <1> QED BY <1>1, <1>2 DEF PrepareFrame, Save, Current, Writes

LEMMA SubmitFacts ==
  ASSUME TypeOK, NEW f \in prompts, Submit(f)
  PROVE  /\ f \in SentFrames /\ f \in Asked
         /\ prompts' = prompts \ {f} /\ prompts' \subseteq SentFrames
         /\ chain' \in Seq(SentFrames)
         /\ DOMAIN chain' = DOMAIN chain \cup {Len(chain) + 1}
         /\ \A i \in DOMAIN chain : chain'[i] = chain[i] /\ i < Len(chain) + 1 /\ i \in Nat
         /\ chain'[Len(chain) + 1] = f
         /\ \A g \in Asked' : g \in Asked
         /\ UNCHANGED <<disk, mem, synced, at, local, life>>
  <1>1. f \in SentFrames /\ chain \in Seq(SentFrames)
    BY DEF TypeOK
  <1>2. chain' = Append(chain, f) /\ prompts' = prompts \ {f}
    BY DEF Submit
  <1>3. /\ chain' \in Seq(SentFrames) /\ Len(chain) \in Nat
        /\ Len(chain') = Len(chain) + 1 /\ DOMAIN chain' = 1..Len(chain')
        /\ DOMAIN chain = 1..Len(chain)
        /\ \A i \in 1..Len(chain) : chain'[i] = chain[i]
        /\ chain'[Len(chain) + 1] = f
    BY <1>1, <1>2
  <1>4. DOMAIN chain' = DOMAIN chain \cup {Len(chain) + 1}
    BY <1>3
  <1>5. \A g \in Asked' : g \in Asked
    BY <1>2, <1>3, <1>4 DEF Asked
  <1> QED BY <1>1, <1>2, <1>3, <1>4, <1>5 DEF Submit, Asked, TypeOK

\* What is on chain stays there.
LEMMA Grows ==
  ASSUME \A i \in DOMAIN chain : i \in DOMAIN chain' /\ chain'[i] = chain[i]
  PROVE  /\ \A p : OnChain(p) => OnChain(p)'
         /\ \A p, r : SentOver(p, r) => SentOver(p, r)'
  BY DEF OnChain, SentOver

LEMMA FitsGrows ==
  ASSUME \A i \in DOMAIN chain : i \in DOMAIN chain' /\ chain'[i] = chain[i],
         \A g \in Asked' : g \in Asked, NEW d, NEW c, Fits(d, c)
  PROVE  Fits(d, c)'
  <1>1. \A p : OnChain(p) => OnChain(p)'
    BY Grows
  <1>2. Backed(d, c)'
    <2> SUFFICES ASSUME NEW g \in Asked', g.packet.from = d PROVE FrameBacked(g, c)'
      BY DEF Backed
    <2>1. FrameBacked(g, c)
      BY DEF Fits, Backed
    <2> QED BY <1>1, <2>1 DEF FrameBacked
  <1>3. PlanOk(d, c)'
    BY DEF Fits, PlanOk
  <1>4. TextsOk(d, c)'
    BY <1>1 DEF Fits, TextsOk
  <1> QED BY <1>2, <1>3, <1>4 DEF Fits

\* The wallet of a sender holds frames of its latest text only.
LEMMA LatestText ==
  ASSUME IInv, NEW f \in prompts, f.packet.kind = "application",
         NEW j \in DOMAIN chain, chain[j].packet.kind = "application",
         chain[j].packet.from = f.packet.from
  PROVE  ~(f.packet.secret < chain[j].packet.secret)
  <1> DEFINE p == f.packet
             q == chain[j].packet
             c == disk[p.from]
  <1>0. f \in Asked /\ p \in Packets /\ f \in SentFrames
    BY Typed DEF IInv, TypeOK, Asked, AskedTyped
  <1>1. p.from \in Devices /\ FrameBacked(f, c) /\ FrameBacked(chain[j], c) /\ q \in Packets
    BY <1>0, PacketFacts, ChainBacked DEF IInv, DisksFit, Fits, Backed
  <1>2. p.secret \in Nat /\ q.secret \in Nat /\ p # NoPacket /\ q # NoPacket
    BY <1>0, <1>1, PacketFacts, ChatAssumption DEF Secrets, Devices
  <1>3. p = c.app
    <2> SUFFICES ASSUME p # c.app PROVE FALSE
      OBVIOUS
    <2>1. OnChain(p) /\ f.frame \in Frames(p)
      BY <1>1 DEF FrameBacked
    <2>2. PICK i \in DOMAIN chain : chain[i].packet = p /\ chain[i].frame = f.frame
      BY <2>1 DEF OnChain
    <2> QED BY <2>2 DEF IInv, Net, Prompted, Same
  <1>4. c \in Checkpoint /\ TextsOk(p.from, c)
    BY <1>1 DEF IInv, TypeOK, DisksFit, Fits
  <1>5. p.secret = c.sent /\ c.sent \in Nat
    BY <1>2, <1>3, <1>4, Fields DEF TextsOk
  <1>6. q = c.app \/ q.secret < c.sent
    BY <1>1, <1>2, <1>3 DEF FrameBacked
  <1> QED BY <1>2, <1>3, <1>5, <1>6

LEMMA SubmitStep ==
  ASSUME IInv, NEW f \in prompts, Submit(f)
  PROVE  IInv'
  <1> DEFINE l == Len(chain) + 1
  <1>0. /\ f \in SentFrames /\ f \in Asked
        /\ prompts' = prompts \ {f} /\ prompts' \subseteq SentFrames
        /\ chain' \in Seq(SentFrames)
        /\ DOMAIN chain' = DOMAIN chain \cup {l}
        /\ \A i \in DOMAIN chain : chain'[i] = chain[i] /\ i < l /\ i \in Nat
        /\ chain'[l] = f
        /\ \A g \in Asked' : g \in Asked
        /\ UNCHANGED <<disk, mem, synced, at, local, life>>
    BY SubmitFacts DEF IInv
  <1>a. l \in Nat
    BY Typed DEF IInv
  <1> HIDE DEF l
  <1>1. \A i \in DOMAIN chain : i \in DOMAIN chain' /\ chain'[i] = chain[i]
    BY <1>0
  <1>2. /\ \A p : OnChain(p) => OnChain(p)'
        /\ \A p, r : SentOver(p, r) => SentOver(p, r)'
    BY <1>1, Grows
  <1>3. TypeOK'
    BY <1>0 DEF IInv, TypeOK, local
  <1>4. Prompted'
    BY <1>0 DEF IInv, Net, Prompted, Same
  <1>5. PostedOnce'
    BY <1>0 DEF IInv, Net, Prompted, PostedOnce, Same
  <1>6. Distinct'
    BY <1>0 DEF IInv, Net, Distinct
  <1>7. InOrder'
    <2> SUFFICES ASSUME NEW i \in DOMAIN chain', NEW j \in DOMAIN chain',
                        chain'[i].packet.kind = "application",
                        chain'[j].packet.kind = "application",
                        chain'[i].packet.from = chain'[j].packet.from,
                        chain'[i].packet.secret < chain'[j].packet.secret
                 PROVE  i < j
      BY DEF InOrder
    <2>1. CASE i \in DOMAIN chain /\ j \in DOMAIN chain
      BY <1>0, <2>1 DEF IInv, Net, InOrder
    <2>2. CASE i \in DOMAIN chain /\ j = l
      BY <1>0, <2>2
    <2>3. CASE i = l /\ j \in DOMAIN chain
      BY <1>0, <2>3, LatestText
    <2>4. CASE i = l /\ j = l
      <3>1. f.packet \in Packets
        BY <1>0 DEF SentFrames
      <3>2. f.packet.secret \in Nat
        BY <1>0, <2>4, <3>1, PacketFacts, ChatAssumption DEF Secrets, Devices
      <3> QED BY <1>0, <2>4, <3>2
    <2> QED BY <1>0, <2>1, <2>2, <2>3, <2>4
  <1>8. DisksFit'
    BY <1>0, <1>1, FitsGrows DEF IInv, DisksFit
  <1>9. Paired'
    BY <1>0, <1>2 DEF IInv, Paired, PairOk
  <1>10. InPlace'
    BY <1>0 DEF IInv, InPlace, Waits, local
  <1>11. Unlost'
    <2> SUFFICES ASSUME NEW d \in Devices, NEW i \in DOMAIN chain',
                        chain'[i].packet.kind = "application",
                        chain'[i].packet.from = Peer(d), disk[d].stage = "ready",
                        chain'[i].packet \notin disk[d].inbox
                 PROVE  Readable(d, chain[i].packet)' \/ GivenUp(d, chain[i].packet)'
      BY <1>0 DEF Unlost, KeptFor
    <2>0. disk' = disk /\ Received(disk[d], d)' = Received(disk[d], d)
      BY <1>0 DEF Received
    <2>1. CASE i \in DOMAIN chain
      <3>1. Readable(d, chain[i].packet) \/ GivenUp(d, chain[i].packet)
        BY <1>0, <2>1 DEF IInv, Unlost, KeptFor
      <3> QED BY <1>0, <1>2, <2>0, <2>1, <3>1 DEF Readable, GivenUp, SentOver
    <2>2. CASE i = l
      <3>1. f.packet \in Packets /\ chain'[i].packet = f.packet
        BY <1>0, <2>2 DEF SentFrames
      <3>2. f.packet.secret \in Nat
        BY <3>1, PacketFacts, ChatAssumption DEF Secrets, Devices
      <3>3. ASSUME NEW q \in Received(disk[d], d) PROVE q.secret < f.packet.secret + Tolerance
        <4>1. disk[d] \in Checkpoint /\ TextsOk(d, disk[d])
          BY DEF IInv, TypeOK, DisksFit, Fits
        <4>2. q \in disk[d].inbox /\ q.from = Peer(d) /\ q \in Texts
          BY <4>1, Fields DEF Received
        <4>3. q.kind = "application" /\ q \in Packets /\ q.secret \in Nat
          BY <4>2, ChatAssumption DEF Texts, Packets, Secrets, Devices
        <4>4. PICK j \in DOMAIN chain : chain[j].packet = q
          BY <4>1, <4>2, <4>3, Seen DEF TextsOk
        <4>5. ~(f.packet.secret < q.secret)
          BY <3>1, <4>2, <4>3, <4>4, LatestText
        <4>6. f.packet.secret # q.secret
          <5>1. chain[j] \in Asked /\ f.packet # q
            BY <3>1, <4>2 DEF Asked
          <5> QED BY <1>0, <3>1, <4>2, <4>3, <4>4, <5>1 DEF IInv, Net, Distinct
        <4> QED BY <3>2, <4>3, <4>5, <4>6, ChatAssumption
      <3> QED BY <2>0, <3>1, <3>3 DEF Readable
    <2> QED BY <1>0, <2>1, <2>2
  <1> QED BY <1>3, <1>4, <1>5, <1>6, <1>7, <1>8, <1>9, <1>10, <1>11 DEF IInv, Net

---------------------------------------------------------------------------
(* The invariant *)

LEMMA Initially == Init => IInv
  <1> SUFFICES ASSUME Init PROVE IInv
    OBVIOUS
  <1>0. chain = << >> /\ prompts = {} /\ synced = {} /\ DOMAIN chain = {} /\ Asked = {}
    BY DEF Init, Asked
  <1>1. TypeOK
    <2>1. disk \in [Devices -> Checkpoint] /\ mem \in [Sessions -> Checkpoint]
      BY BlankOk DEF Init
    <2>2. at \in [Sessions -> Steps] /\ peerkey \in [Sessions -> 0..MaxKeyPackages]
      BY ChatAssumption DEF Init, Steps
    <2>3. rail \in [Sessions -> Rails] /\ life \in [Perishable -> 0..2]
      BY NewPlans DEF Init
    <2>4. chain \in Seq(SentFrames)
      BY <1>0
    <2> QED BY <1>0, <2>1, <2>2, <2>3, <2>4 DEF TypeOK
  <1>2. Net
    BY <1>0 DEF Net, Prompted, PostedOnce, Distinct, InOrder
  <1>3. \A d \in Devices : disk[d] = Blank
    BY DEF Init
  <1>4. DisksFit
    BY <1>0, <1>3, NewPlans DEF DisksFit, Fits, Backed, PlanOk, TextsOk, Blank
  <1>5. Paired
    <2>1. Inviter \in Devices /\ Joiner \in Devices
      BY DEF Devices
    <2> QED BY <1>3, <2>1 DEF Paired, PairOk, Blank
  <1>6. InPlace /\ Unlost
    BY <1>0 DEF InPlace, Unlost, KeptFor
  <1> QED BY <1>1, <1>2, <1>4, <1>5, <1>6 DEF IInv

LEMMA PublishStep ==
  ASSUME IInv, NEW s \in Sessions, Publish(s)
  PROVE  IInv'
  BY ApproveStep, PrepareFrameStep, FindReceiptStep, FinishKeyPackageStep,
     MergePendingCommitStep, FinishWelcomeStep, FinishTextStep DEF Publish

LEMMA SessionStep ==
  ASSUME IInv, NEW s \in Sessions,
         \/ \E r \in Modes[s] : Open(s, r)
         \/ Fail(s) \/ CloseTab(s) \/ Resume(s)
         \/ CreateKeyPackage(s) \/ SignKeyPackage(s)
         \/ \E view \in Views : ReadPeerPackage(s, view)
         \/ CreateGroup(s) \/ PrepareAddMember(s) \/ SignWelcome(s)
         \/ Encrypt(s) \/ PlanText(s)
         \/ Publish(s)
         \/ \E view, again \in Views : Join(s, view, again)
         \/ ApplyGroupSnapshot(s)
         \/ \E view \in Views : Receive(s, view)
  PROVE  IInv'
  <1>1. Fail(s) \/ CloseTab(s) \/ Resume(s) \/ (\E r \in Modes[s] : Open(s, r)) => IInv'
    BY StaySteps
  <1>2. CreateKeyPackage(s) \/ SignKeyPackage(s) => IInv'
    BY CreateKeyPackageStep, SignKeyPackageStep
  <1>3. (\E view \in Views : ReadPeerPackage(s, view)) => IInv'
    BY ReadPeerPackageStep
  <1>4. CreateGroup(s) \/ PrepareAddMember(s) \/ SignWelcome(s) => IInv'
    BY CreateGroupStep, PrepareAddMemberStep, SignWelcomeStep
  <1>5. Encrypt(s) \/ PlanText(s) \/ Publish(s) => IInv'
    BY EncryptStep, PlanTextStep, PublishStep
  <1>6. (\E view, again \in Views : Join(s, view, again)) => IInv'
    BY JoinStep
  <1>7. ApplyGroupSnapshot(s) \/ (\E view \in Views : Receive(s, view)) => IInv'
    BY ApplyGroupSnapshotStep, ReceiveStep
  <1> QED BY <1>1, <1>2, <1>3, <1>4, <1>5, <1>6, <1>7

LEMMA Stutters ==
  ASSUME IInv, UNCHANGED vars
  PROVE  IInv'
  <1>0. UNCHANGED <<disk, mem, synced, at, rail, peerkey, prompts, chain, life>>
    BY DEF vars
  <1>1. TypeOK'
    BY <1>0 DEF IInv, TypeOK
  <1> QED BY <1>0, <1>1, QuietStep DEF net

\* What every reachable state satisfies, whatever the sessions, wallets and
\* rails do: the property the next theorems are read off.
THEOREM Invariance == Spec => []IInv
  <1>1. Init => IInv
    BY Initially
  <1>2. IInv /\ [Next]_vars => IInv'
    <2> SUFFICES ASSUME IInv, [Next]_vars PROVE IInv'
      OBVIOUS
    <2>1. CASE UNCHANGED vars
      BY <2>1, Stutters
    <2>2. CASE \E f \in prompts : Submit(f)
      BY <2>2, SubmitStep
    <2>3. CASE \E p \in Aging : Age(p)
      BY <2>3, AgeStep
    <2>4. CASE Next /\ ~(\E f \in prompts : Submit(f)) /\ ~(\E p \in Aging : Age(p))
      BY <2>4, SessionStep DEF Next
    <2> QED BY <2>1, <2>2, <2>3, <2>4
  <1> QED BY <1>1, <1>2, PTL DEF Spec

\* The checkpoints, the sessions' copies, the wallets and the chain keep their
\* types, and a session that passes the revision comparison of putCheckpoint
\* has the content of the checkpoint it replaces.
THEOREM TypesKept == Spec => []TypeOK
  <1>1. IInv => TypeOK
    BY DEF IInv
  <1> QED BY <1>1, Invariance, PTL

\* No frame is submitted twice: the locator is on disk before the wallet is
\* asked, and the revision comparison lets one tab alone write it.
THEOREM FramesPostedOnce == Spec => []PostedOnce
  <1>1. IInv => PostedOnce
    BY DEF IInv, Net
  <1> QED BY <1>1, Invariance, PTL

\* A secret of a ratchet protects one text: ratchet and ciphertext are saved
\* together before the text is framed, and the pending one is sent first.
THEOREM SecretsUsedOnce == Spec => []OneTextPerSecret
  <1>1. ASSUME IInv PROVE OneTextPerSecret
    <2>1. Distinct /\ \A i \in DOMAIN chain : chain[i] \in Asked
      BY <1>1 DEF IInv, Net, Asked
    <2> QED BY <2>1 DEF Distinct, OneTextPerSecret
  <1> QED BY <1>1, Invariance, PTL

\* The two devices never end up in different groups: the inviter commits to
\* the group of its Welcome before the Welcome is framed and merges it only
\* when the Welcome is on chain, the joiner keeps its keys until it joins.
THEOREM PairNeverSplit == Spec => []OneGroup
  <1>1. ASSUME IInv PROVE OneGroup
    <2>1. PairOk(disk[Inviter], disk[Joiner])
      BY <1>1 DEF IInv, Paired
    <2>2. ASSUME NEW f \in DOMAIN chain, chain[f].packet.kind = "welcome"
          PROVE  /\ disk[Inviter].group = chain[f].packet.group
                 /\ disk[Inviter].stage \in {"adding", "ready"}
      <3>1. chain[f].packet \in Packets /\ FrameBacked(chain[f], disk[chain[f].packet.from])
        BY <1>1, ChainBacked
      <3>2. chain[f].packet.from = Inviter
        BY <2>2, <3>1, PacketFacts
      <3> QED BY <2>2, <3>1, <3>2 DEF FrameBacked
    <2> QED BY <2>1, <2>2 DEF OneGroup, PairOk
  <1> QED BY <1>1, Invariance, PTL

\* A text on chain is read, readable or overtaken on another rail by one that
\* its reader read first: texts of a sender are on chain in the order of their
\* secrets, and a reader takes the oldest first.
THEOREM NoTextLost == Spec => []NothingLost
  <1>1. ASSUME IInv PROVE NothingLost
    <2> SUFFICES ASSUME NEW d \in Devices
                 PROVE  /\ \A i \in DOMAIN chain :
                             LET p == chain[i].packet IN
                             p.kind = "application" /\ p.from = Peer(d)
                               /\ disk[d].stage = "ready" =>
                               \/ p \in disk[d].inbox
                               \/ Decryptable(disk[d], d, p) \/ GivenUp(d, p)
                        /\ \A p \in disk[d].inbox : OnChain(p)
      BY DEF NothingLost
    <2>1. \A p \in disk[d].inbox : OnChain(p)
      BY <1>1 DEF IInv, DisksFit, Fits, TextsOk
    <2>2. ASSUME NEW i \in DOMAIN chain, chain[i].packet.kind = "application",
                 chain[i].packet.from = Peer(d), disk[d].stage = "ready",
                 chain[i].packet \notin disk[d].inbox
          PROVE  Decryptable(disk[d], d, chain[i].packet) \/ GivenUp(d, chain[i].packet)
      BY <1>1, <2>2, StillDecrypts DEF IInv, Unlost, KeptFor
    <2> QED BY <2>1, <2>2
  <1> QED BY <1>1, Invariance, PTL
=============================================================================
