---------------------------- MODULE DeviceProofs ----------------------------
(* Theorems about one party's device: how it sends its records from the deal *)
(* room, and how it conducts a dispute.                                      *)
EXTENDS RoomDesk, DisputeReview, TLAPS

-----------------------------------------------------------------------------
(* The deal room's sends.                                                    *)

Words    == Nat \cup {NoText}
Records  == [chat : Chats, body : Words]
Attempts == [at : {"preflight", "wallet", "confirm"}, chat : Chats, loc : Nat, body : Words,
             left : BOOLEAN]

\* The record of an attempt, if it has one already.
HasRecord == op.at \in {"wallet", "confirm"} \/ (op.at = "preflight" /\ op.loc # 0)

\* Records, attempts and notes about them refer to records that were prepared.
DeskTypeOK ==
  /\ surface \in Surfaces /\ shown \in Chats /\ texts \in Nat
  /\ draft \in [Chats -> Words]
  /\ sends \in Seq(Records)
  /\ op = Idle \/ op \in Attempts
  /\ HasRecord => op.loc \in Prepared
  /\ pending \in [Chats -> {0} \cup Prepared]
  /\ watch \subseteq Prepared /\ failed \subseteq Prepared

InPreflight == op.at = "preflight"
Unrecorded  == InPreflight /\ (surface = "text" => op.loc = 0)

\* What is not empty is one of the texts written so far.
Known(t) == t = NoText \/ t \in 1 .. texts
OnlyKnown ==
  /\ \A c \in Chats : Known(draft[c])
  /\ \A k \in Prepared : Known(Body(k))
  /\ InPreflight => Known(op.body)

\* Files, offers and coordination records have no text.
Wordless ==
  ~HasDraft =>
    /\ \A c \in Chats : draft[c] = NoText
    /\ \A k \in Prepared : Body(k) = NoText
    /\ InPreflight => op.body = NoText

\* Every record of this text has been reported as failed.
Free(t) == t = NoText \/ \A k \in Prepared : Body(k) = t => k \in failed

\* The words of the composer are on their way: what becomes of them is still to be told.
OnTheWay(k) == surface = "text" /\ op # Idle /\ op.body # NoText /\ op.loc = k

\* A text in a composer, or about to be recorded, is in no record but those reported
\* and the one on its way.
UnsentIsFree ==
  /\ \A c \in Chats, k \in Prepared :
       draft[c] # NoText /\ Body(k) = draft[c] => k \in failed \/ OnTheWay(k)
  /\ Unrecorded => Free(op.body)

\* A text is in one composer: that of its chat, or the only one of the group page.
OnePlace ==
  /\ surface = "text" =>
       /\ \A c, d \in Chats : draft[c] = draft[d] /\ draft[c] # NoText => c = d
       /\ \A k \in Prepared, d \in Chats : draft[d] = Body(k) /\ Body(k) # NoText => d = Chat(k)
       /\ op # Idle => \A d \in Chats : draft[d] = op.body /\ op.body # NoText => d = op.chat
       /\ HasRecord => Chat(op.loc) = op.chat
       /\ \A c \in Chats : pending[c] # 0 => Chat(pending[c]) = c
  /\ surface = "group" => \A c \in Chats \ {shown} : draft[c] = NoText

\* A group's pending record is one of its own, not yet reported as failed.
Unreported ==
  surface = "group" =>
    \A c \in Chats : pending[c] # 0 => Chat(pending[c]) = c /\ pending[c] \notin failed

DeskInv ==
  /\ DeskTypeOK
  /\ OnlyKnown
  /\ Wordless
  /\ UnsentIsFree
  /\ OnePlace
  /\ Unreported
  /\ ResentOnlyAfterFailure

-----------------------------------------------------------------------------
(* Steps, by what they do to records, texts and reports.                     *)

\* What the wallet, the chain, the history and discovery do touches none of these.
LEMMA CoreKept ==
  ASSUME DeskInv, UNCHANGED <<surface, shown, draft, texts, sends, op, pending, watch, failed>>
  PROVE  DeskInv'
BY DEF DeskInv, DeskTypeOK, OnlyKnown, Known, Wordless, HasDraft, UnsentIsFree, Free, OnTheWay,
       OnePlace, Unreported, ResentOnlyAfterFailure, PreparedTwice, InPreflight, Unrecorded,
       HasRecord, Prepared, Body, Chat

LEMMA RecordTyped ==
  ASSUME DeskTypeOK, NEW l \in Prepared
  PROVE  Chat(l) \in Chats /\ Body(l) \in Words /\ l \in Nat \ {0}
<1>1. sends \in Seq(Records)
  BY DEF DeskTypeOK
<1>2. l \in 1 .. Len(sends)
  BY DEF Prepared
<1>3. sends[l] \in Records
  BY <1>1, <1>2
<1> QED
  BY <1>1, <1>2, <1>3 DEF Chat, Body, Records

USE DEF Words, Records, Attempts

\* What is kept of a typed attempt.
LEMMA OpKept ==
  ASSUME DeskTypeOK, op # Idle
  PROVE  op \in Attempts
BY DEF DeskTypeOK

\* Letting go of an attempt, a pending record or a task puts no text back; when the
\* attempt is that of the composer's text, its record has been reported as failed.
LEMMA Forgets ==
  ASSUME DeskInv, UNCHANGED <<surface, shown, draft, texts, sends>>,
         \/ op' = Idle /\ (surface = "text" => \A k \in Prepared : OnTheWay(k) => k \in failed')
         \/ op' = op
         \/ surface = "coord" /\ op.at = "wallet" /\ op' = [op EXCEPT !.at = "confirm"]
         \/ surface = "text" /\ op.at = "wallet" /\ op' = [op EXCEPT !.at = "confirm"],
         pending' \in [Chats -> {0} \cup Prepared],
         \A c \in Chats : pending'[c] \in {0, pending[c]},
         failed \subseteq failed', failed' \subseteq Prepared, surface = "group" => failed' = failed,
         watch' \subseteq Prepared
  PROVE  DeskInv'
<1>0. /\ Prepared' = Prepared /\ HasDraft' = HasDraft
      /\ \A k : Body(k)' = Body(k) /\ Chat(k)' = Chat(k)
  BY DEF Prepared, HasDraft, Body, Chat
<1>1. /\ op' = Idle \/ op' \in Attempts
      /\ HasRecord' => HasRecord /\ op'.loc = op.loc /\ op'.chat = op.chat
      /\ InPreflight' => op' = op
      /\ op' # Idle => op # Idle /\ op'.chat = op.chat /\ op'.body = op.body /\ op'.loc = op.loc
  <2>1. CASE op' = Idle
    BY <2>1 DEF Idle, InPreflight, HasRecord
  <2>2. CASE op' = op
    BY <2>2 DEF DeskInv, DeskTypeOK, HasRecord
  <2>3. CASE op.at = "wallet" /\ op' = [op EXCEPT !.at = "confirm"]
    <3>1. op # Idle /\ op \in Attempts
      BY <2>3, OpKept DEF Idle, DeskInv
    <3> QED
      BY <2>3, <3>1 DEF InPreflight, HasRecord
  <2> QED
    BY <2>1, <2>2, <2>3
<1>2. DeskTypeOK'
  BY <1>0, <1>1 DEF DeskInv, DeskTypeOK
<1>3. OnlyKnown' /\ Wordless'
  BY <1>0, <1>1 DEF DeskInv, OnlyKnown, Known, Wordless, InPreflight
<1>4. UnsentIsFree'
  <2>1. Unrecorded' => Unrecorded /\ op' = op
    BY <1>1 DEF Unrecorded, InPreflight
  <2>2. Unrecorded' => Free(op.body)'
    BY <1>0, <2>1 DEF DeskInv, UnsentIsFree, Free
  <2>3. ASSUME NEW k \in Prepared, OnTheWay(k) PROVE k \in failed' \/ OnTheWay(k)'
    <3>1. surface = "text" /\ op # Idle
      BY <2>3 DEF OnTheWay
    <3>2. CASE op' = Idle
      <4>1. op.at = "wallet" => op' # [op EXCEPT !.at = "confirm"]
        BY <3>1, <3>2, OpKept DEF DeskInv, Idle
      <4> QED
        BY <2>3, <3>1, <3>2, <4>1
    <3>3. CASE op' # Idle
      BY <1>1, <2>3, <3>1, <3>3 DEF OnTheWay
    <3> QED
      BY <3>2, <3>3
  <2> QED
    BY <1>0, <2>2, <2>3 DEF DeskInv, UnsentIsFree
<1>5. OnePlace'
  <2>1. surface = "text" => \A c \in Chats : pending'[c] # 0 => Chat(pending'[c]) = c
    BY DEF DeskInv, OnePlace
  <2> QED
    BY <1>0, <1>1, <2>1 DEF DeskInv, OnePlace
<1>6. Unreported'
  <2>1. surface = "group" => \A c \in Chats : pending'[c] # 0 => Chat(pending'[c]) = c /\ pending'[c] \notin failed'
    BY DEF DeskInv, Unreported
  <2> QED
    BY <1>0, <2>1 DEF Unreported
<1>7. ResentOnlyAfterFailure'
  BY <1>0 DEF DeskInv, ResentOnlyAfterFailure, PreparedTwice
<1> QED
  BY <1>2, <1>3, <1>4, <1>5, <1>6, <1>7 DEF DeskInv

-----------------------------------------------------------------------------
(* Every step keeps the invariant.                                           *)

LEMMA DeskInitInvariant == DeskInit => DeskInv
<1> SUFFICES ASSUME DeskInit PROVE DeskInv
  OBVIOUS
<1>1. shown \in Chats /\ Prepared = {} /\ op.at = "idle" /\ op = Idle
  BY DeskAssumption DEF DeskInit, Prepared, Idle
<1>2. DeskTypeOK
  BY <1>1 DEF DeskInit, DeskTypeOK, HasRecord
<1>3. OnlyKnown /\ Wordless /\ UnsentIsFree /\ OnePlace /\ Unreported /\ ResentOnlyAfterFailure
  BY <1>1 DEF DeskInit, OnlyKnown, Known, Wordless, UnsentIsFree, Free, OnePlace, Unreported,
              ResentOnlyAfterFailure, InPreflight, Unrecorded, HasRecord
<1> QED
  BY <1>2, <1>3 DEF DeskInv

\* A text just written is in no record, no other composer and no attempt.
LEMMA TypeStep == ASSUME DeskInv, Type PROVE DeskInv'
<1>0. /\ Prepared' = Prepared /\ HasDraft' = HasDraft /\ InPreflight' = InPreflight
      /\ Unrecorded' = Unrecorded /\ HasRecord' = HasRecord /\ op' = op
      /\ \A k : Body(k)' = Body(k) /\ Chat(k)' = Chat(k)
  BY DEF Type, Prepared, HasDraft, Body, Chat, InPreflight, Unrecorded, HasRecord
<1>1. texts \in Nat /\ draft \in [Chats -> Words] /\ shown \in Chats
  BY DEF DeskInv, DeskTypeOK
<1>2. /\ draft' \in [Chats -> Words] /\ texts' = texts + 1
      /\ \A c \in Chats : draft'[c] = IF c = shown THEN texts + 1 ELSE draft[c]
      /\ surface = "text" => op = Idle
  BY <1>1 DEF Type
<1>3. \A t : Known(t) => Known(t)' /\ (t = texts + 1 => t = NoText)
  BY <1>1, <1>2 DEF Known
<1>4. /\ \A c \in Chats : Known(draft[c])
      /\ \A k \in Prepared : Known(Body(k))
      /\ InPreflight => Known(op.body)
  BY DEF DeskInv, OnlyKnown
<1>5. DeskTypeOK'
  BY <1>0, <1>1, <1>2 DEF DeskInv, DeskTypeOK, Type
<1>6. OnlyKnown'
  <2>1. \A t : t = texts + 1 => Known(t)'
    BY <1>1, <1>2 DEF Known
  <2>2. \A c \in Chats : Known(draft[c])'
    BY <1>1, <1>2, <1>4 DEF Known
  <2>3. \A k \in Prepared : Known(Body(k))'
    BY <1>0, <1>3, <1>4 DEF Known
  <2>4. InPreflight' => Known(op.body)'
    BY <1>0, <1>3, <1>4 DEF Known, Type
  <2> QED
    BY <1>0, <2>2, <2>3, <2>4 DEF OnlyKnown
<1>7. Wordless'
  BY <1>0 DEF Type, Wordless
<1>8. UnsentIsFree'
  <2>1. ASSUME NEW c \in Chats, NEW k \in Prepared, draft'[c] # NoText, Body(k) = draft'[c]
        PROVE  k \in failed' \/ OnTheWay(k)'
    <3>1. c # shown
      BY <1>2, <1>3, <1>4, <2>1
    <3>2. k \in failed \/ OnTheWay(k)
      BY <1>2, <2>1, <3>1 DEF DeskInv, UnsentIsFree
    <3> QED
      BY <3>2 DEF Type, OnTheWay
  <2>2. Unrecorded' => Free(op.body)'
    BY <1>0 DEF DeskInv, UnsentIsFree, Free, Type
  <2> QED
    BY <1>0, <2>1, <2>2 DEF UnsentIsFree
<1>9. OnePlace'
  <2>1. \A d \in Chats : draft[d] = texts + 1 => draft[d] = NoText
    BY <1>3, <1>4
  <2>2. \A k \in Prepared : Body(k) = texts + 1 => Body(k) = NoText
    BY <1>3, <1>4
  <2>3. \A a, d \in Chats : surface = "text" /\ draft'[a] = draft'[d] /\ draft'[a] # NoText => a = d
    BY <1>2, <2>1 DEF DeskInv, OnePlace
  <2>4. \A k \in Prepared, d \in Chats :
          surface = "text" /\ draft'[d] = Body(k) /\ Body(k) # NoText => d = Chat(k)
    BY <1>2, <2>2 DEF DeskInv, OnePlace
  <2>5. \A d \in Chats \ {shown} : surface = "group" => draft'[d] = NoText
    BY <1>2 DEF DeskInv, OnePlace
  <2> QED
    BY <1>0, <1>2, <2>3, <2>4, <2>5 DEF OnePlace, Type, DeskInv
<1>10. Unreported'
  BY <1>0 DEF DeskInv, Unreported, Type
<1>11. ResentOnlyAfterFailure'
  BY <1>0 DEF DeskInv, ResentOnlyAfterFailure, PreparedTwice, Type
<1> QED
  BY <1>5, <1>6, <1>7, <1>8, <1>9, <1>10, <1>11 DEF DeskInv

\* Opening another chat, or the page again, drops words but adds none.
LEMMA SelectChatStep == ASSUME DeskInv, NEW c \in Chats, SelectChat(c) PROVE DeskInv'
<1>0. /\ Prepared' = Prepared /\ HasDraft' = HasDraft
      /\ \A k : Body(k)' = Body(k) /\ Chat(k)' = Chat(k)
  BY DEF SelectChat, Prepared, HasDraft, Body, Chat
<1>1. /\ draft' \in [Chats -> Words]
      /\ \A d \in Chats : draft'[d] = NoText \/ draft'[d] = draft[d]
      /\ surface = "group" => \A d \in Chats : draft'[d] = NoText
      /\ UNCHANGED <<surface, texts, sends, pending, watch, failed>>
  BY DEF SelectChat, DeskInv, DeskTypeOK
<1>2. /\ op' = Idle \/ op' \in Attempts
      /\ (op' = Idle) <=> (op = Idle)
      /\ op'.at = op.at
      /\ op # Idle => op'.loc = op.loc /\ op'.chat = op.chat /\ op'.body = op.body
  <2>1. CASE op = Idle
    BY <2>1 DEF SelectChat
  <2>2. CASE op # Idle
    <3>1. op \in Attempts /\ op' \in {op, [op EXCEPT !.left = TRUE]}
      BY <2>2, OpKept DEF SelectChat, DeskInv
    <3>2. op' \in Attempts /\ op'.at = op.at /\ op.at # "idle"
      BY <3>1
    <3>3. op' # Idle
      BY <3>2 DEF Idle
    <3> QED
      BY <2>2, <3>1, <3>2, <3>3
  <2> QED
    BY <2>1, <2>2
<1>3. /\ InPreflight' = InPreflight /\ Unrecorded' = Unrecorded /\ HasRecord' = HasRecord
      /\ \A k : OnTheWay(k)' = OnTheWay(k)
      /\ InPreflight \/ Unrecorded \/ HasRecord => op # Idle
  BY <1>1, <1>2 DEF InPreflight, Unrecorded, HasRecord, OnTheWay, Idle
<1>4. DeskTypeOK'
  BY <1>0, <1>1, <1>2, <1>3 DEF DeskInv, DeskTypeOK, SelectChat
<1>5. OnlyKnown' /\ Wordless'
  BY <1>0, <1>1, <1>2, <1>3 DEF DeskInv, OnlyKnown, Known, Wordless
<1>6. UnsentIsFree'
  BY <1>0, <1>1, <1>2, <1>3 DEF DeskInv, UnsentIsFree, Free
<1>7. OnePlace'
  BY <1>0, <1>1, <1>2, <1>3 DEF DeskInv, OnePlace
<1>8. Unreported' /\ ResentOnlyAfterFailure'
  BY <1>0, <1>1 DEF DeskInv, Unreported, ResentOnlyAfterFailure, PreparedTwice
<1> QED
  BY <1>4, <1>5, <1>6, <1>7, <1>8 DEF DeskInv

LEMMA ReloadPageStep == ASSUME DeskInv, ReloadPage PROVE DeskInv'
<1>0. /\ Prepared' = Prepared /\ HasDraft' = HasDraft /\ ~InPreflight' /\ ~Unrecorded' /\ ~HasRecord'
      /\ \A k : Body(k)' = Body(k) /\ Chat(k)' = Chat(k)
  BY DEF ReloadPage, Prepared, HasDraft, Body, Chat, InPreflight, Unrecorded, HasRecord, Idle
<1>1. /\ draft' \in [Chats -> Words] /\ \A d \in Chats : draft'[d] = NoText
      /\ op' = Idle /\ watch' = {}
      /\ UNCHANGED <<surface, shown, texts, sends, pending, failed>>
  BY DEF ReloadPage
<1>2. DeskTypeOK'
  BY <1>0, <1>1 DEF DeskInv, DeskTypeOK, Idle
<1>3. OnlyKnown' /\ Wordless'
  BY <1>0, <1>1 DEF DeskInv, OnlyKnown, Known, Wordless
<1>4. UnsentIsFree'
  BY <1>0, <1>1 DEF UnsentIsFree
<1>5. OnePlace'
  BY <1>0, <1>1 DEF DeskInv, OnePlace
<1>6. Unreported' /\ ResentOnlyAfterFailure'
  BY <1>0, <1>1 DEF DeskInv, Unreported, ResentOnlyAfterFailure, PreparedTwice
<1> QED
  BY <1>2, <1>3, <1>4, <1>5, <1>6 DEF DeskInv

\* The text on its way is the one of the composer, which keeps it for now; a text
\* resumed has nothing to do with it.
LEMMA BeginStep ==
  ASSUME DeskInv, op = Idle, NEW t \in {NoText, draft[shown]}, op' = NewOp(t),
         HasDraft \/ t = draft[shown],
         UNCHANGED <<surface, shown, draft, texts, sends, pending, failed>>,
         watch' = {} \/ watch' = watch
  PROVE  DeskInv'
<1>0. /\ Prepared' = Prepared /\ HasDraft' = HasDraft
      /\ \A k : Body(k)' = Body(k) /\ Chat(k)' = Chat(k)
  BY DEF Prepared, HasDraft, Body, Chat
<1>1. /\ op'.at = "preflight" /\ op'.chat = shown /\ op'.body = t /\ op'.loc = 0
      /\ shown \in Chats /\ op' \in Attempts /\ ~HasRecord' /\ op' # Idle
      /\ \A k : ~OnTheWay(k)
  BY DEF DeskInv, DeskTypeOK, NewOp, HasRecord, OnTheWay, Idle
<1>2. DeskTypeOK'
  BY <1>0, <1>1 DEF DeskInv, DeskTypeOK
<1>3. OnlyKnown' /\ Wordless'
  BY <1>0, <1>1 DEF DeskInv, OnlyKnown, Known, Wordless
<1>4. UnsentIsFree'
  <2>1. Free(t)
    BY <1>1 DEF DeskInv, UnsentIsFree, Free
  <2> QED
    BY <1>0, <1>1, <2>1 DEF DeskInv, UnsentIsFree, Free
<1>5. OnePlace'
  BY <1>0, <1>1 DEF DeskInv, OnePlace
<1>6. Unreported' /\ ResentOnlyAfterFailure'
  BY <1>0, <1>1 DEF DeskInv, Unreported, ResentOnlyAfterFailure, PreparedTwice
<1> QED
  BY <1>2, <1>3, <1>4, <1>5, <1>6 DEF DeskInv

LEMMA StartStep == ASSUME DeskInv, Start \/ ResumePending PROVE DeskInv'
<1>1. CASE Start
  BY <1>1, BeginStep DEF Start, runOfferAction
<1>2. CASE ResumePending
  BY <1>2, BeginStep DEF ResumePending, HasDraft
<1> QED
  BY <1>1, <1>2

\* A text that fails is reported, unless it has no record yet or was not the
\* composer's.
LEMMA TextFailsReports ==
  ASSUME DeskInv, op # Idle, TextFails
  PROVE  /\ failed \subseteq failed' /\ failed' \subseteq Prepared
         /\ \A k \in Prepared : OnTheWay(k) => k \in failed'
<1>1. op \in Attempts /\ failed' = failed \cup Told
  BY OpKept DEF TextFails, DeskInv
<1>2. op.loc # 0 => op.loc \in Prepared
  BY <1>1 DEF DeskInv, DeskTypeOK, HasRecord
<1>3. \A k \in Prepared : k # 0
  BY RecordTyped DEF DeskInv
<1> QED
  BY <1>1, <1>2, <1>3 DEF Told, OnTheWay, DeskInv, DeskTypeOK

\* The words of an attempt that came to nothing return to the group's composer.
LEMMA PreflightFailsStep == ASSUME DeskInv, PreflightFails PROVE DeskInv'
<1>0. /\ Prepared' = Prepared /\ HasDraft' = HasDraft /\ InPreflight
      /\ \A k : Body(k)' = Body(k) /\ Chat(k)' = Chat(k)
  BY DEF PreflightFails, Prepared, HasDraft, Body, Chat, InPreflight
<1>1. op.chat \in Chats /\ op.body \in Words /\ op # Idle
  <2>1. op # Idle
    BY <1>0 DEF InPreflight, Idle
  <2> QED
    BY <2>1, OpKept DEF DeskInv
<1>2. pending \in [Chats -> {0} \cup Prepared] /\ watch \subseteq Prepared /\ failed \subseteq Prepared
  BY DEF DeskInv, DeskTypeOK
<1>3. CASE surface # "group"
  <2>1. UNCHANGED <<surface, shown, draft, texts, sends, pending, watch>> /\ op' = Idle
    BY <1>3 DEF PreflightFails
  <2>2. IF surface = "text" THEN TextFails ELSE failed' = failed
    BY DEF PreflightFails
  <2>3. /\ failed \subseteq failed' /\ failed' \subseteq Prepared
        /\ surface = "text" => \A k \in Prepared : OnTheWay(k) => k \in failed'
    BY <1>1, <1>2, <2>2, TextFailsReports
  <2> QED
    BY <1>2, <1>3, <2>1, <2>3, Forgets
<1>4. CASE surface = "group"
  <2>1. /\ op' = Idle /\ UNCHANGED <<surface, shown, texts, sends, pending, watch, failed>>
        /\ draft' = [draft EXCEPT ![shown] = op.body]
    BY <1>4 DEF PreflightFails
  <2>2. /\ draft' \in [Chats -> Words]
        /\ \A d \in Chats : draft'[d] = IF d = shown THEN op.body ELSE draft[d]
    BY <1>1, <2>1 DEF DeskInv, DeskTypeOK
  <2>3. ~InPreflight' /\ ~Unrecorded' /\ ~HasRecord'
    BY <2>1 DEF InPreflight, Unrecorded, HasRecord, Idle
  <2>4. Free(op.body) /\ Known(op.body) /\ \A k : ~OnTheWay(k)
    BY <1>0, <1>4 DEF DeskInv, UnsentIsFree, Unrecorded, OnlyKnown, OnTheWay
  <2>5. DeskTypeOK'
    BY <1>0, <2>1, <2>2, <2>3 DEF DeskInv, DeskTypeOK, Idle
  <2>6. OnlyKnown' /\ Wordless'
    BY <1>0, <1>4, <2>1, <2>2, <2>3, <2>4 DEF DeskInv, OnlyKnown, Known, Wordless, HasDraft
  <2>7. UnsentIsFree'
    BY <1>0, <2>1, <2>2, <2>3, <2>4 DEF DeskInv, UnsentIsFree, Free
  <2>8. OnePlace'
    BY <1>0, <1>4, <2>1, <2>2 DEF DeskInv, OnePlace
  <2>9. Unreported' /\ ResentOnlyAfterFailure'
    BY <1>0, <2>1 DEF DeskInv, Unreported, ResentOnlyAfterFailure, PreparedTwice
  <2> QED
    BY <2>5, <2>6, <2>7, <2>8, <2>9 DEF DeskInv
<1> QED
  BY <1>3, <1>4

\* A new record carries the words of its attempt, which are in no other record but
\* those reported as failed. A group's composer is emptied at once; a text stays in
\* its own, and is on its way.
LEMMA NewRecord ==
  ASSUME DeskInv, Unrecorded, NEW l, l = Len(sends) + 1,
         sends' = Append(sends, [chat |-> op.chat, body |-> op.body]),
         op' = [op EXCEPT !.loc = l] \/ (surface # "text" /\ op' = [op EXCEPT !.at = "wallet", !.loc = l]),
         surface = "text" <=> op'.at = "preflight",
         surface = "text" => op.body # NoText,
         UNCHANGED <<surface, shown, texts, watch, failed>>,
         IF HasDraft THEN pending' = [pending EXCEPT ![op.chat] = l] ELSE UNCHANGED pending,
         IF surface = "group" THEN draft' = [draft EXCEPT ![shown] = NoText] ELSE UNCHANGED draft
  PROVE  DeskInv'
<1>0. op # Idle /\ op \in Attempts /\ InPreflight
  BY OpKept DEF Unrecorded, InPreflight, Idle, DeskInv
<1>1. /\ Prepared' = Prepared \cup {l} /\ l \in Nat \ {0} /\ l \notin Prepared
      /\ HasDraft' = HasDraft /\ Prepared \subseteq Nat /\ \A k \in Prepared : k < l
      /\ \A k \in Prepared : Body(k)' = Body(k) /\ Chat(k)' = Chat(k)
      /\ Body(l)' = op.body /\ Chat(l)' = op.chat
      /\ sends' \in Seq(Records)
  <2>1. /\ sends \in Seq(Records)
        /\ [chat |-> op.chat, body |-> op.body] \in Records
    BY <1>0 DEF DeskInv, DeskTypeOK
  <2>2. /\ sends' \in Seq(Records)
        /\ Len(sends) \in Nat /\ Len(sends') = l
        /\ \A k \in 1 .. Len(sends) : sends'[k] = sends[k]
        /\ sends'[l] = [chat |-> op.chat, body |-> op.body]
    BY <2>1
  <2> QED
    BY <2>2 DEF Prepared, HasDraft, Body, Chat
<1>2. /\ op' \in Attempts /\ op'.loc = l /\ op'.chat = op.chat /\ op'.body = op.body
      /\ ~Unrecorded' /\ HasRecord'
      /\ InPreflight' => surface = "text"
      /\ op' # Idle
  BY <1>0, <1>1 DEF Unrecorded, InPreflight, HasRecord, Idle
<1>3. /\ draft \in [Chats -> Words]
      /\ draft' \in [Chats -> Words]
      /\ \A d \in Chats : draft'[d] = NoText \/ draft'[d] = draft[d]
      /\ surface = "text" => draft' = draft
  BY DEF DeskInv, DeskTypeOK, HasDraft, Wordless
<1>4. \A d \in Chats : draft'[d] = op.body /\ draft'[d] # NoText => surface = "text" /\ d = op.chat
  BY <1>0, <1>3 DEF DeskInv, OnePlace, HasDraft, Wordless
<1>5. \A d \in Chats : /\ ~HasDraft => pending'[d] = pending[d]
                       /\ pending'[d] = IF HasDraft /\ d = op.chat THEN l ELSE pending[d]
  BY DEF DeskInv, DeskTypeOK
<1>6. \A k \in Prepared : ~OnTheWay(k)
  BY RecordTyped DEF OnTheWay, Unrecorded, DeskInv
<1>7. DeskTypeOK'
  <2>1. pending' \in [Chats -> {0} \cup Prepared']
    BY <1>0, <1>1 DEF DeskInv, DeskTypeOK
  <2> QED
    BY <1>0, <1>1, <1>2, <1>3, <2>1 DEF DeskInv, DeskTypeOK
<1>8. OnlyKnown' /\ Wordless'
  BY <1>0, <1>1, <1>2, <1>3 DEF DeskInv, OnlyKnown, Known, Wordless, HasDraft
<1>9. UnsentIsFree'
  <2>1. ASSUME NEW d \in Chats, NEW k \in Prepared', draft'[d] # NoText, Body(k)' = draft'[d]
        PROVE  k \in failed' \/ OnTheWay(k)'
    <3>1. CASE k = l
      BY <1>1, <1>2, <1>4, <2>1, <3>1 DEF OnTheWay
    <3>2. CASE k # l
      BY <1>1, <1>3, <1>6, <2>1, <3>2 DEF DeskInv, UnsentIsFree
    <3> QED
      BY <3>1, <3>2
  <2> QED
    BY <1>2, <2>1 DEF UnsentIsFree
<1>10. OnePlace'
  <2>1. ASSUME surface = "text", NEW k \in Prepared', NEW d \in Chats, draft'[d] = Body(k)', Body(k)' # NoText
        PROVE  d = Chat(k)'
    BY <1>1, <1>3, <1>4, <2>1 DEF DeskInv, OnePlace
  <2>2. ASSUME surface = "text", NEW c \in Chats, pending'[c] # 0 PROVE Chat(pending[c])' = c
    <3>1. CASE c = op.chat
      BY <1>1, <1>5, <2>2, <3>1 DEF HasDraft
    <3>2. CASE c # op.chat
      BY <1>1, <1>5, <2>2, <3>2 DEF DeskInv, DeskTypeOK, OnePlace, Chat
    <3> QED
      BY <3>1, <3>2
  <2>3. Chat(op.loc)' = op'.chat
    BY <1>1, <1>2 DEF Chat
  <2>4. surface = "text" => \A c, d \in Chats : draft'[c] = draft'[d] /\ draft'[c] # NoText => c = d
    BY <1>3 DEF DeskInv, OnePlace
  <2>5. surface = "text" => \A d \in Chats : draft'[d] = op'.body /\ op'.body # NoText => d = op'.chat
    BY <1>2, <1>4
  <2>6. surface = "group" => \A c \in Chats \ {shown} : draft'[c] = NoText
    BY <1>3 DEF DeskInv, OnePlace
  <2> QED
    BY <2>1, <2>2, <2>3, <2>4, <2>5, <2>6 DEF OnePlace
<1>11. Unreported'
  <2>1. l \notin failed
    BY <1>1 DEF DeskInv, DeskTypeOK
  <2>2. ASSUME surface = "group", NEW d \in Chats, pending'[d] # 0
        PROVE  Chat(pending[d])' = d /\ pending'[d] \notin failed'
    <3>1. CASE d = op.chat
      BY <1>1, <1>5, <2>1, <2>2, <3>1 DEF HasDraft
    <3>2. CASE d # op.chat
      <4>1. pending'[d] = pending[d] /\ pending[d] \in Prepared
        BY <1>5, <2>2, <3>2 DEF DeskInv, DeskTypeOK
      <4> QED
        BY <1>1, <2>2, <4>1 DEF DeskInv, Unreported
    <3> QED
      BY <3>1, <3>2
  <2> QED
    BY <2>2 DEF Unreported, Chat
<1>12. ResentOnlyAfterFailure'
  <2> SUFFICES ASSUME NEW k \in Prepared', NEW m \in Prepared', k < m,
                      Body(k)' = Body(m)', Body(m)' # NoText
               PROVE  k \in failed'
    BY DEF ResentOnlyAfterFailure, PreparedTwice
  <2>1. k \in Prepared
    BY <1>1
  <2>2. CASE m = l
    BY <1>1, <2>1, <2>2 DEF DeskInv, UnsentIsFree, Free
  <2>3. CASE m # l
    BY <1>1, <2>1, <2>3 DEF DeskInv, ResentOnlyAfterFailure, PreparedTwice
  <2> QED
    BY <2>2, <2>3
<1> QED
  BY <1>7, <1>8, <1>9, <1>10, <1>11, <1>12 DEF DeskInv

LEMMA PrepareStep == ASSUME DeskInv, Prepare PROVE DeskInv'
<1> DEFINE l == Len(sends) + 1
<1>1. /\ Unrecorded /\ surface # "text"
      /\ sends' = Append(sends, [chat |-> op.chat, body |-> op.body])
      /\ op' = [op EXCEPT !.at = "wallet", !.loc = l]
      /\ UNCHANGED <<surface, shown, texts, watch, failed>>
  BY DEF Prepare, Unrecorded, InPreflight
<1>2. op' # Idle /\ op'.at = "wallet"
  <2>1. op \in Attempts
    BY <1>1, OpKept DEF Unrecorded, InPreflight, Idle, DeskInv
  <2> QED
    BY <1>1, <2>1 DEF Idle
<1>3. /\ IF HasDraft THEN pending' = [pending EXCEPT ![op.chat] = l] ELSE UNCHANGED pending
      /\ IF surface = "group" THEN draft' = [draft EXCEPT ![shown] = NoText] ELSE UNCHANGED draft
  <2> USE DEF Prepare, HasDraft
  <2>1. CASE surface = "group" /\ sendGroupMessage(l)
    BY <2>1 DEF sendGroupMessage
  <2>2. CASE \/ surface = "file" /\ sendDirectAttachment(l)
             \/ surface = "offer" /\ appendPreparedOffer(l)
             \/ surface = "coord" /\ sendDirectEscrowCoordination(l)
    BY <2>2 DEF sendDirectAttachment, appendPreparedOffer, sendDirectEscrowCoordination
  <2> QED
    BY <2>1, <2>2
<1> HIDE DEF l
<1> QED
  BY <1>1, <1>2, <1>3, NewRecord DEF l

\* A text that is unfinished already is taken up again: the attempt has its record.
LEMMA TakesUp ==
  ASSUME DeskInv, surface = "text", Unrecorded, NEW p \in Prepared, Chat(p) = op.chat,
         op' \in {[op EXCEPT !.loc = p], [op EXCEPT !.loc = p, !.at = "confirm"]},
         UNCHANGED <<surface, shown, draft, texts, sends, pending, watch, failed>>
  PROVE  DeskInv'
<1>0. /\ Prepared' = Prepared /\ HasDraft' = HasDraft
      /\ \A k : Body(k)' = Body(k) /\ Chat(k)' = Chat(k)
  BY DEF Prepared, HasDraft, Body, Chat
<1>1. op # Idle /\ op \in Attempts /\ InPreflight /\ p \in Nat \ {0} /\ op.loc = 0
  BY OpKept, RecordTyped DEF Unrecorded, InPreflight, Idle, DeskInv
<1>2. /\ op' \in Attempts /\ op'.loc = p /\ op'.chat = op.chat /\ op'.body = op.body
      /\ ~Unrecorded' /\ op' # Idle /\ op'.at \in {"preflight", "confirm"}
  BY <1>1 DEF Unrecorded, Idle, InPreflight
<1>3. \A k \in Prepared : ~OnTheWay(k)
  BY <1>1, RecordTyped DEF OnTheWay, DeskInv
<1>4. DeskTypeOK'
  BY <1>0, <1>2 DEF DeskInv, DeskTypeOK
<1>5. OnlyKnown' /\ Wordless'
  BY <1>0, <1>1, <1>2 DEF DeskInv, OnlyKnown, Known, Wordless, HasDraft
<1>6. UnsentIsFree'
  BY <1>0, <1>2, <1>3 DEF DeskInv, UnsentIsFree
<1>7. OnePlace'
  BY <1>0, <1>1, <1>2 DEF DeskInv, OnePlace
<1>8. Unreported' /\ ResentOnlyAfterFailure'
  BY <1>0 DEF DeskInv, Unreported, ResentOnlyAfterFailure, PreparedTwice
<1> QED
  BY <1>4, <1>5, <1>6, <1>7, <1>8 DEF DeskInv

LEMMA sendTextStep == ASSUME DeskInv, sendText PROVE DeskInv'
<1>0. /\ Unrecorded /\ surface = "text" /\ op.at = "preflight" /\ op \in Attempts
      /\ UNCHANGED <<surface, shown, draft, texts, watch, failed>>
  BY OpKept DEF sendText, Unrecorded, InPreflight, Idle, DeskInv
<1>1. CASE pending[op.chat] = 0
  <2> DEFINE l == Len(sends) + 1
  <2>1. /\ sends' = Append(sends, [chat |-> op.chat, body |-> op.body])
        /\ pending' = [pending EXCEPT ![op.chat] = l]
        /\ op' = [op EXCEPT !.loc = l] /\ op.body # NoText
    BY <1>1 DEF sendText
  <2>2. op'.at = "preflight"
    BY <1>0, <2>1
  <2> HIDE DEF l
  <2> QED
    BY <1>0, <2>1, <2>2, NewRecord DEF l, HasDraft
<1>2. CASE pending[op.chat] # 0
  <2> DEFINE p == pending[op.chat]
  <2>1. p \in Prepared /\ Chat(p) = op.chat
    BY <1>0, <1>2 DEF DeskInv, DeskTypeOK, OnePlace
  <2>2. /\ op' \in {[op EXCEPT !.loc = p], [op EXCEPT !.loc = p, !.at = "confirm"]}
        /\ UNCHANGED <<sends, pending>>
    BY <1>0, <1>2 DEF sendText
  <2> QED
    BY <1>0, <2>1, <2>2, TakesUp
<1> QED
  BY <1>1, <1>2

LEMMA PrepareFrameStep == ASSUME DeskInv, PrepareFrame PROVE DeskInv'
<1>1. /\ surface = "text" /\ op.at = "preflight" /\ op.loc # 0
      /\ op' = [op EXCEPT !.at = "wallet"]
      /\ UNCHANGED <<surface, shown, draft, texts, sends, pending, watch, failed>>
  BY DEF PrepareFrame
<1>2. op \in Attempts /\ op # Idle /\ HasRecord /\ op.loc \in Prepared
  BY <1>1, OpKept DEF Idle, DeskInv, HasRecord, DeskTypeOK
<1>3. /\ Prepared' = Prepared /\ HasDraft' = HasDraft
      /\ \A k : Body(k)' = Body(k) /\ Chat(k)' = Chat(k)
  BY <1>1 DEF Prepared, HasDraft, Body, Chat
<1>4. /\ op' \in Attempts /\ op'.loc = op.loc /\ op'.chat = op.chat /\ op'.body = op.body
      /\ op' # Idle /\ ~InPreflight' /\ ~Unrecorded' /\ HasRecord'
      /\ \A k : OnTheWay(k)' = OnTheWay(k)
  BY <1>1, <1>2 DEF Idle, InPreflight, Unrecorded, HasRecord, OnTheWay
<1>5. DeskTypeOK'
  BY <1>1, <1>2, <1>3, <1>4 DEF DeskInv, DeskTypeOK
<1>6. OnlyKnown' /\ Wordless'
  BY <1>1, <1>3, <1>4 DEF DeskInv, OnlyKnown, Known, Wordless
<1>7. UnsentIsFree'
  BY <1>1, <1>3, <1>4 DEF DeskInv, UnsentIsFree
<1>8. OnePlace'
  BY <1>1, <1>2, <1>3, <1>4 DEF DeskInv, OnePlace
<1>9. Unreported' /\ ResentOnlyAfterFailure'
  BY <1>1, <1>3 DEF DeskInv, Unreported, ResentOnlyAfterFailure, PreparedTwice
<1> QED
  BY <1>5, <1>6, <1>7, <1>8, <1>9 DEF DeskInv

\* The wallet's answer: a text, a file, an offer or a coordination record may be
\* reported as failed for what the wallet says.
LEMMA AnswerStep == ASSUME DeskInv, Answer PROVE DeskInv'
<1>0. /\ UNCHANGED <<surface, shown, draft, texts, sends>>
      /\ AnswerText \/ AnswerFile \/ AnswerGroup \/ AnswerOffer \/ AnswerCoord
  BY DEF Answer
<1>1. Waiting /\ op.loc \in Prepared /\ op # Idle
  <2>1. Waiting
    BY <1>0 DEF AnswerText, AnswerFile, AnswerGroup, AnswerOffer, AnswerCoord
  <2> QED
    BY <2>1 DEF Waiting, DeskInv, DeskTypeOK, HasRecord, Idle
<1>2. pending \in [Chats -> {0} \cup Prepared] /\ watch \subseteq Prepared /\ failed \subseteq Prepared
  BY DEF DeskInv, DeskTypeOK
<1>3. CASE AnswerText
  <2>1. UNCHANGED <<pending, watch>> /\ surface = "text"
    BY <1>3 DEF AnswerText
  <2>2. CASE op' = [op EXCEPT !.at = "confirm"] /\ failed' = failed
    BY <1>0, <1>1, <1>2, <2>1, <2>2, Forgets DEF Waiting
  <2>3. CASE op' = Idle /\ TextFails
    BY <1>0, <1>1, <1>2, <2>1, <2>3, TextFailsReports, Forgets
  <2> QED
    BY <1>3, <2>2, <2>3 DEF AnswerText
<1>4. CASE ~AnswerText
  <2>1. /\ pending' \in [Chats -> {0} \cup Prepared]
        /\ \A c \in Chats : pending'[c] \in {0, pending[c]}
        /\ failed' \in {failed, failed \cup {op.loc}} /\ (surface = "group" => failed' = failed)
        /\ watch' \in {watch, {op.loc}, watch \cup {op.loc}}
        /\ op' = Idle \/ (surface = "coord" /\ op' = [op EXCEPT !.at = "confirm"])
        /\ surface # "text"
    <3>2. CASE AnswerFile
      BY <1>2, <3>2 DEF AnswerFile
    <3>3. CASE AnswerGroup
      <4>1. pending' = pending \/ pending' = [pending EXCEPT ![op.chat] = 0]
        BY <3>3 DEF AnswerGroup
      <4> QED
        BY <1>2, <3>3, <4>1 DEF AnswerGroup
    <3>4. CASE AnswerOffer
      <4>1. /\ failed' \in {failed, failed \cup {op.loc}} /\ watch' \in {watch, {op.loc}}
            /\ surface = "offer" /\ op' = Idle /\ pending' = pending
        BY <3>4 DEF AnswerOffer, Answers
      <4> QED
        BY <1>2, <4>1
    <3>5. CASE AnswerCoord
      BY <1>2, <3>5 DEF AnswerCoord
    <3> QED
      BY <1>0, <1>4, <3>2, <3>3, <3>4, <3>5
  <2>2. /\ failed \subseteq failed' /\ failed' \subseteq Prepared /\ watch' \subseteq Prepared
    BY <1>1, <1>2, <2>1
  <2> QED
    BY <1>0, <1>1, <2>1, <2>2, Forgets DEF Waiting
<1> QED
  BY <1>3, <1>4

LEMMA CallbackTimeoutStep == ASSUME DeskInv, CallbackTimeout PROVE DeskInv'
<1>1. /\ UNCHANGED <<surface, shown, draft, texts, sends, pending>> /\ op' = Idle
      /\ op.loc \in Prepared /\ op # Idle
  BY DEF CallbackTimeout, Waiting, DeskInv, DeskTypeOK, HasRecord, Idle
<1>2. pending \in [Chats -> {0} \cup Prepared] /\ watch \subseteq Prepared /\ failed \subseteq Prepared
  BY DEF DeskInv, DeskTypeOK
<1>3. CASE surface = "text"
  <2>1. TextFails /\ watch' = watch
    BY <1>3 DEF CallbackTimeout
  <2> QED
    BY <1>1, <1>2, <1>3, <2>1, TextFailsReports, Forgets
<1>4. CASE surface # "text"
  <2>1. /\ surface # "group" /\ failed' \in {failed, failed \cup {op.loc}}
        /\ watch' \in {watch, {op.loc}}
    BY <1>4 DEF CallbackTimeout
  <2>2. failed \subseteq failed' /\ failed' \subseteq Prepared /\ watch' \subseteq Prepared
    BY <1>1, <1>2, <2>1
  <2> QED
    BY <1>1, <1>2, <1>4, <2>1, <2>2, Forgets
<1> QED
  BY <1>3, <1>4

\* A text is finished: shown, it leaves the composer of its chat; otherwise the user
\* is told of an error.
LEMMA ProofFoundStep == ASSUME DeskInv, ProofFound PROVE DeskInv'
<1>0. /\ surface = "text" /\ op.at \in {"wallet", "confirm"} /\ op # Idle /\ op' = Idle
      /\ pending' = [pending EXCEPT ![op.chat] = 0]
      /\ UNCHANGED <<surface, shown, texts, sends, watch>>
  BY DEF ProofFound, Idle
<1>1. op \in Attempts /\ op.loc \in Prepared /\ HasRecord
  BY <1>0, OpKept DEF DeskInv, DeskTypeOK, HasRecord
<1>2. /\ pending \in [Chats -> {0} \cup Prepared] /\ watch \subseteq Prepared /\ failed \subseteq Prepared
      /\ pending' \in [Chats -> {0} \cup Prepared]
      /\ \A c \in Chats : pending'[c] \in {0, pending[c]}
  BY <1>0 DEF DeskInv, DeskTypeOK
<1>3. CASE TextFails /\ draft' = draft
  BY <1>0, <1>2, <1>3, TextFailsReports, Forgets
<1>4. CASE draft' = sendDirectMessage /\ failed' = failed
  <2>1. /\ draft \in [Chats -> Words] /\ draft' \in [Chats -> Words]
        /\ \A d \in Chats : draft'[d] = IF op.body # NoText /\ d = op.chat THEN NoText ELSE draft[d]
    BY <1>1, <1>4 DEF sendDirectMessage, DeskInv, DeskTypeOK
  <2>2. /\ Prepared' = Prepared /\ HasDraft' = HasDraft
        /\ \A k : Body(k)' = Body(k) /\ Chat(k)' = Chat(k)
        /\ ~InPreflight' /\ ~Unrecorded' /\ ~HasRecord' /\ op'.at = "idle"
    BY <1>0 DEF Prepared, HasDraft, Body, Chat, InPreflight, Unrecorded, HasRecord, Idle
  <2>3. DeskTypeOK'
    BY <1>0, <1>2, <1>4, <2>1, <2>2 DEF DeskInv, DeskTypeOK
  <2>4. OnlyKnown' /\ Wordless'
    BY <1>0, <2>1, <2>2 DEF DeskInv, OnlyKnown, Known, Wordless, HasDraft
  <2>5. UnsentIsFree'
    <3>1. ASSUME NEW d \in Chats, NEW k \in Prepared, draft'[d] # NoText, Body(k) = draft'[d]
          PROVE  k \in failed
      <4>1. draft'[d] = draft[d] /\ (op.body # NoText => d # op.chat) /\ d = Chat(k)
        BY <1>0, <2>1, <3>1 DEF DeskInv, OnePlace
      <4>2. OnTheWay(k) => Chat(k) = op.chat /\ op.body # NoText
        BY <1>0, <1>1 DEF OnTheWay, DeskInv, OnePlace
      <4> QED
        BY <3>1, <4>1, <4>2 DEF DeskInv, UnsentIsFree
    <3> QED
      BY <1>4, <2>2, <3>1 DEF UnsentIsFree
  <2>6. OnePlace'
    <3>1. \A c \in Chats : pending'[c] # 0 => Chat(pending'[c]) = c
      BY <1>0, <1>2 DEF DeskInv, OnePlace
    <3> QED
      BY <1>0, <2>1, <2>2, <3>1 DEF DeskInv, OnePlace
  <2>7. Unreported' /\ ResentOnlyAfterFailure'
    BY <1>0, <1>4, <2>2 DEF DeskInv, Unreported, ResentOnlyAfterFailure, PreparedTwice
  <2> QED
    BY <2>3, <2>4, <2>5, <2>6, <2>7 DEF DeskInv
<1> QED
  BY <1>3, <1>4 DEF ProofFound

LEMMA CoordConfirmedStep == ASSUME DeskInv, CoordConfirmed PROVE DeskInv'
<1>1. /\ UNCHANGED <<surface, shown, draft, texts, sends, pending, watch, failed>>
      /\ op' = Idle /\ surface = "coord"
  BY DEF CoordConfirmed
<1>2. pending \in [Chats -> {0} \cup Prepared] /\ watch \subseteq Prepared /\ failed \subseteq Prepared
  BY DEF DeskInv, DeskTypeOK
<1> QED
  BY <1>1, <1>2, Forgets

\* The tasks of the background are those of offers, and pending records that are
\* found are let go of.
LEMMA ReconcileStep ==
  ASSUME DeskInv, NEW l \in Prepared, WatchFinds(l) \/ recoverDelayedOffer(l)
  PROVE  DeskInv'
<1>1. pending \in [Chats -> {0} \cup Prepared] /\ watch \subseteq Prepared /\ failed \subseteq Prepared
  BY DEF DeskInv, DeskTypeOK
<1>2. /\ UNCHANGED <<surface, shown, draft, texts, sends, op, pending>>
      /\ watch' = watch \ {l} /\ failed' \in {failed, failed \cup {l}}
      /\ surface = "group" => failed' = failed
  BY DEF WatchFinds, recoverDelayedOffer
<1>3. failed \subseteq failed' /\ failed' \subseteq Prepared /\ watch' \subseteq Prepared
  BY <1>1, <1>2
<1> QED
  BY <1>1, <1>2, <1>3, Forgets

LEMMA PendingFoundStep == ASSUME DeskInv, PendingFound PROVE DeskInv'
<1>1. pending \in [Chats -> {0} \cup Prepared] /\ watch \subseteq Prepared /\ failed \subseteq Prepared
  BY DEF DeskInv, DeskTypeOK
<1>2. /\ UNCHANGED <<surface, shown, draft, texts, sends, op, watch, failed>>
      /\ pending' = [pending EXCEPT ![shown] = 0]
  BY DEF PendingFound
<1>3. /\ pending' \in [Chats -> {0} \cup Prepared]
      /\ \A c \in Chats : pending'[c] \in {0, pending[c]}
  BY <1>1, <1>2
<1> QED
  BY <1>1, <1>2, <1>3, Forgets

\* A group's record too old is the one pending for it, with no later one of its
\* text: the words may return to the composer.
LEMMA PendingExpiresStep == ASSUME DeskInv, PendingExpires PROVE DeskInv'
<1> DEFINE l == pending[shown]
<1>0. /\ Prepared' = Prepared /\ HasDraft' = HasDraft /\ InPreflight' = InPreflight /\ op' = op
      /\ Unrecorded' = Unrecorded /\ HasRecord' = HasRecord
      /\ \A k : Body(k)' = Body(k) /\ Chat(k)' = Chat(k)
  BY DEF PendingExpires, Prepared, HasDraft, Body, Chat, InPreflight, Unrecorded, HasRecord
<1>1. /\ pending \in [Chats -> {0} \cup Prepared] /\ watch \subseteq Prepared
      /\ failed \subseteq Prepared /\ shown \in Chats /\ draft \in [Chats -> Words]
  BY DEF DeskInv, DeskTypeOK
<1>2. /\ UNCHANGED <<surface, shown, texts, sends, op, watch>>
      /\ surface = "group" /\ HasDraft /\ l # 0 /\ failed' = failed \cup {l}
      /\ pending' = [pending EXCEPT ![shown] = 0]
      /\ draft' = draft \/ draft' = Restore(shown, Body(l))
  BY DEF PendingExpires, HasDraft, GroupTooOld
<1>3. l \in Prepared /\ l \notin failed
  BY <1>1, <1>2 DEF DeskInv, Unreported
<1>4. /\ pending' \in [Chats -> {0} \cup Prepared]
      /\ \A d \in Chats : pending'[d] \in {0, pending[d]} /\ pending'[d] # l
  <2>1. \A d \in Chats : pending[d] = l => d = shown
    BY <1>1, <1>2 DEF DeskInv, Unreported
  <2> QED
    BY <1>1, <1>2, <2>1
<1>5. Body(l) \in Words /\ Prepared \subseteq Nat
  BY <1>3, RecordTyped DEF DeskInv, Prepared
<1> HIDE DEF l
<1>6. /\ draft' \in [Chats -> Words]
      /\ \A d \in Chats : draft'[d] = draft[d] \/ (d = shown /\ draft'[d] = Body(l))
  <2>1. draft' = draft \/ draft' = [draft EXCEPT ![shown] = Body(l)]
    BY <1>2 DEF Restore
  <2> QED
    BY <1>1, <1>5, <2>1
<1>7. ASSUME NEW k \in Prepared, Body(k) = Body(l), Body(l) # NoText PROVE k \in failed'
  <2>1. CASE k < l
    BY <1>2, <1>3, <1>7, <2>1 DEF DeskInv, ResentOnlyAfterFailure, PreparedTwice
  <2>2. CASE l < k
    BY <1>3, <1>7, <2>2 DEF DeskInv, ResentOnlyAfterFailure, PreparedTwice
  <2>3. CASE k = l
    BY <1>2, <2>3
  <2> QED
    BY <1>3, <1>5, <2>1, <2>2, <2>3
<1>8. Known(Body(l))
  BY <1>3 DEF DeskInv, OnlyKnown
<1>9. DeskTypeOK'
  BY <1>0, <1>1, <1>2, <1>3, <1>4, <1>6 DEF DeskInv, DeskTypeOK
<1>10. OnlyKnown' /\ Wordless'
  BY <1>0, <1>2, <1>6, <1>8 DEF DeskInv, OnlyKnown, Known, Wordless
<1>11. UnsentIsFree'
  <2>1. \A t : Free(t) => Free(t)'
    BY <1>0, <1>2 DEF Free
  <2>2. ASSUME NEW d \in Chats, NEW k \in Prepared, draft'[d] # NoText, Body(k) = draft'[d]
        PROVE  k \in failed'
    BY <1>2, <1>6, <1>7, <2>2 DEF DeskInv, UnsentIsFree, OnTheWay
  <2> QED
    BY <1>0, <2>1, <2>2 DEF DeskInv, UnsentIsFree
<1>12. OnePlace'
  BY <1>2, <1>6 DEF DeskInv, OnePlace
<1>13. Unreported'
  BY <1>0, <1>2, <1>4 DEF DeskInv, Unreported
<1>14. ResentOnlyAfterFailure'
  BY <1>0, <1>2 DEF DeskInv, ResentOnlyAfterFailure, PreparedTwice
<1> QED
  BY <1>9, <1>10, <1>11, <1>12, <1>13, <1>14 DEF DeskInv

LEMMA DeskNextInvariant == DeskInv /\ [DeskNext]_deskVars => DeskInv'
<1> SUFFICES ASSUME DeskInv, [DeskNext]_deskVars PROVE DeskInv'
  OBVIOUS
<1>1. CASE User
  BY <1>1, TypeStep, SelectChatStep, ReloadPageStep, StartStep DEF User
<1>2. CASE Wallet \/ Discovery \/ \E l \in Prepared : Index(l)
  <2>1. UNCHANGED <<surface, shown, draft, texts, sends, op, pending, watch, failed>>
    BY <1>2 DEF Wallet, Approve, Discovery, Fetch, FetchFails, Merge, Index
  <2> QED
    BY <2>1, CoreKept
<1>3. CASE Hydrate \/ \E l \in Prepared : LateOffer(l)
  <2>1. UNCHANGED <<surface, shown, draft, texts, sends, op, pending, watch, failed>>
    BY <1>3 DEF Hydrate, LateOffer
  <2> QED
    BY <2>1, CoreKept
<1>4. CASE Preflight
  BY <1>4, PreflightFailsStep, PrepareStep, sendTextStep, PrepareFrameStep DEF Preflight
<1>5. CASE Client
  BY <1>3, <1>4, <1>5, AnswerStep, CallbackTimeoutStep, ProofFoundStep, CoordConfirmedStep DEF Client
<1>6. CASE Reconcile
  BY <1>6, ReconcileStep DEF Reconcile
<1>7. CASE PendingGone \/ PendingHeld
  <2>1. UNCHANGED <<surface, shown, draft, texts, sends, op, pending, watch, failed>>
    BY <1>7 DEF PendingGone, PendingHeld
  <2> QED
    BY <2>1, CoreKept
<1>8. CASE CheckPending
  BY <1>7, <1>8, PendingFoundStep, PendingExpiresStep DEF CheckPending
<1>9. CASE UNCHANGED deskVars
  BY <1>9, CoreKept DEF deskVars
<1> QED
  BY <1>1, <1>2, <1>5, <1>6, <1>8, <1>9 DEF DeskNext

LEMMA DeskInvariance == DeskSpec => []DeskInv
BY DeskInitInvariant, DeskNextInvariant, PTL DEF DeskSpec

\* A text the user wrote once is prepared again only after the user was told that
\* the earlier record had failed, whatever the wallet answers and when, and however
\* often the page is loaded again or another chat is opened.
THEOREM NeverResentUnreported == DeskSpec => []ResentOnlyAfterFailure
<1>1. DeskInv => ResentOnlyAfterFailure
  BY DEF DeskInv
<1> QED
  BY <1>1, DeskInvariance, PTL

-----------------------------------------------------------------------------
(* The review of a dispute.                                                  *)

CustodyRecords ==
    [policy : {"submission", "counterparty"}, work : Nat, confirmed : BOOLEAN,
     revision : BOOLEAN, late : BOOLEAN, disputed : BOOLEAN, by : Roles, about : Nat,
     shares : SUBSET Roles, claimed : SUBSET Roles, consumed : BOOLEAN, refunded : BOOLEAN]

Logs == [Kinds -> [Roles -> Seq(Nat)]]

\* A coordination record; a packet's number is one of the packets.
Notes == {r \in [kind : Kinds, by : Roles, n : Nat] : r.kind = "packet" => r.n \in Packets}

NoneOr(S) == S \cup {NoCase}

Devices ==
    [view : CustodyRecords, seen : Logs, busy : BOOLEAN, sending : Notes \cup {NoRecord},
     posted : BOOLEAN, key : NoneOr(Cases), challenge : NoneOr(Cases), error : BOOLEAN,
     signing : NoneOr(Cases), typed : NoneOr(Cases), marks : SUBSET Roles,
     auto : NoneOr(Cases), result : NoneOr(Cases)]

ReviewTypeOK ==
    /\ scenario \in Scenarios
    /\ custody \in CustodyRecords
    /\ log \in Logs
    /\ outbox \in SUBSET Notes
    /\ device \in Devices
    /\ asked \in SUBSET Cases /\ evaluating \in SUBSET Cases
    /\ attested \in [Cases -> SUBSET Roles]
    /\ verdict \in [Cases -> {"none", "resolve", "review"}]

\* What the device has discovered is in the log, and the log's packets are packets.
Discovered ==
    /\ \A kind \in Kinds, by \in Roles : \A i \in 1..Len(device.seen[kind][by]) :
          Contains(log[kind][by], device.seen[kind][by][i])
    /\ \A by \in Roles : \A i \in 1..Len(log["packet"][by]) : log["packet"][by][i] \in Packets

\* A challenge is one for the case on the screen, and so is an error.
OnScreen ==
    /\ device.challenge \in {NoCase, device.key}
    /\ device.error => device.key # NoCase

ReviewInv == ReviewTypeOK /\ Discovered /\ OnScreen /\ SignatureFits /\ ActsOnRecords
-----------------------------------------------------------------------------
(* Facts about the parties, the log and the calls.                           *)

LEMMA Parties ==
    ASSUME ReviewTypeOK
    PROVE  me \in Roles /\ peer \in Roles /\ peer # me
<1>1. me \in Roles
  BY ScenariosAssumption DEF ReviewTypeOK, me
<1>2. \E r \in Roles : r # me
  BY DEF Roles
<1> QED
  BY <1>1, <1>2 DEF peer

LEMMA PacketNumber ==
    ASSUME ReviewTypeOK, NEW by \in Roles, NEW n, NextPacket(n, by)
    PROVE  n \in Nat
<1>1. scenario.records["packet"][by] \in Nat
  BY ScenariosAssumption DEF ReviewTypeOK, Kinds
<1>2. n \in 1..scenario.records["packet"][by]
  BY DEF NextPacket, FreePackets
<1> QED
  BY <1>1, <1>2

\* The log only grows at its ends.
LEMMA PostGrows ==
    ASSUME log \in Logs, NEW r \in Notes, Post(r)
    PROVE  /\ log' \in Logs
           /\ \A kind \in Kinds, by \in Roles : \A x :
                 /\ Contains(log[kind][by], x) => Contains(log'[kind][by], x)
                 /\ log[kind][by] # <<>> => log'[kind][by] # <<>>
                 /\ Contains(log'[kind][by], x) =>
                      Contains(log[kind][by], x) \/ (kind = r.kind /\ x = r.n)
<1>1. r.kind \in Kinds /\ r.by \in Roles /\ r.n \in Nat
  BY DEF Notes
<1>2. log' = [log EXCEPT ![r.kind] = [log[r.kind] EXCEPT ![r.by] = Append(log[r.kind][r.by], r.n)]]
  BY DEF Post
<1>3. log' \in Logs
  BY <1>1, <1>2 DEF Logs
<1>4. ASSUME NEW kind \in Kinds, NEW by \in Roles
      PROVE  /\ log[kind][by] \in Seq(Nat)
             /\ \/ log'[kind][by] = log[kind][by]
                \/ kind = r.kind /\ log'[kind][by] = Append(log[kind][by], r.n)
  BY <1>1, <1>2 DEF Logs
<1>5. ASSUME NEW kind \in Kinds, NEW by \in Roles, NEW x
      PROVE  /\ Contains(log[kind][by], x) => Contains(log'[kind][by], x)
             /\ log[kind][by] # <<>> => log'[kind][by] # <<>>
             /\ Contains(log'[kind][by], x) =>
                  Contains(log[kind][by], x) \/ (kind = r.kind /\ x = r.n)
  <2>1. log[kind][by] \in Seq(Nat)
    BY <1>4
  <2>2. CASE log'[kind][by] = log[kind][by]
    BY <2>2
  <2>3. CASE kind = r.kind /\ log'[kind][by] = Append(log[kind][by], r.n)
    <3> DEFINE s == log[kind][by]
               t == Append(s, r.n)
    <3>1. /\ Len(s) \in Nat /\ Len(t) = Len(s) + 1 /\ t[Len(s) + 1] = r.n
          /\ \A i \in 1..Len(s) : t[i] = s[i]
      BY <1>1, <2>1
    <3>2. t # <<>>
      BY <1>1, <2>1
    <3> HIDE DEF s, t
    <3>3. Contains(s, x) => Contains(t, x)
      <4>1. ASSUME NEW i \in 1..Len(s), s[i] = x
            PROVE  i \in 1..Len(t) /\ t[i] = x
        BY <3>1, <4>1
      <4> QED
        BY <4>1 DEF Contains
    <3>4. Contains(t, x) => Contains(s, x) \/ x = r.n
      <4>1. ASSUME NEW i \in 1..Len(t), t[i] = x, x # r.n
            PROVE  i \in 1..Len(s) /\ s[i] = x
        BY <3>1, <4>1
      <4> QED
        BY <4>1 DEF Contains
    <3> QED
      BY <2>3, <3>2, <3>3, <3>4 DEF s, t
  <2> QED
    BY <1>4, <2>2, <2>3
<1> QED
  BY <1>3, <1>5

\* A record the device has written itself, or has read, is in the log.
LEMMA WrittenIsLogged ==
    ASSUME ReviewTypeOK, Discovered, NEW kind \in Kinds, NEW by \in Roles, Written(kind, by) # 0
    PROVE  /\ Contains(log[kind][by], Written(kind, by))
           /\ log[kind][by] # <<>>
<1> DEFINE s == device.seen[kind][by]
<1>1. s \in Seq(Nat) /\ log[kind][by] \in Seq(Nat)
  BY DEF ReviewTypeOK, Devices, Logs
<1>2. s # <<>> /\ Written(kind, by) = s[Len(s)]
  BY DEF Written, LatestOf, Last
<1>3. Len(s) \in 1..Len(s)
  BY <1>1, <1>2
<1>4. Contains(log[kind][by], s[Len(s)])
  BY <1>3 DEF Discovered
<1> QED
  BY <1>1, <1>2, <1>4 DEF Contains

\* A case is built of packets.
LEMMA CaseTyped ==
    ASSUME NEW seen \in Logs, NEW view,
           \A by \in Roles : \A i \in 1..Len(seen["packet"][by]) : seen["packet"][by][i] \in Packets
    PROVE  CaseFrom(seen, view) \in NoneOr(Cases)
<1> DEFINE latest == [by \in Roles |-> LatestOf(seen, "packet", by)]
<1>1. ASSUME NEW by \in Roles, latest[by] # 0 PROVE latest[by] \in Packets
  <2>1. seen["packet"][by] \in Seq(Nat)
    BY DEF Logs, Kinds
  <2>2. seen["packet"][by] # <<>> /\ latest[by] = seen["packet"][by][Len(seen["packet"][by])]
    BY <1>1 DEF LatestOf, Last
  <2>3. Len(seen["packet"][by]) \in 1..Len(seen["packet"][by])
    BY <2>1, <2>2
  <2> QED
    BY <2>2, <2>3
<1>2. (\A by \in Roles : latest[by] # 0) => latest \in Cases
  BY <1>1 DEF Cases
<1> QED
  BY <1>2 DEF CaseFrom, NoneOr

-----------------------------------------------------------------------------
(* Steps, by what they change.                                               *)

\* The device and the desk, with custody and log left alone.
LEMMA DeviceStep ==
    ASSUME ReviewInv, UNCHANGED <<scenario, custody, log>>,
           device' \in Devices, device'.seen \in {device.seen, log},
           outbox' \in SUBSET Notes,
           asked' \in SUBSET Cases, evaluating' \in SUBSET Cases,
           attested' \in [Cases -> SUBSET Roles],
           verdict' \in [Cases -> {"none", "resolve", "review"}],
           OnScreen', SignatureFits'
    PROVE  ReviewInv'
<1>1. ReviewTypeOK'
  BY DEF ReviewInv, ReviewTypeOK
<1>2. Discovered'
  BY DEF ReviewInv, Discovered, Contains
<1>3. ActsOnRecords'
  BY DEF ReviewInv, ActsOnRecords, Consented, me
<1> QED
  BY <1>1, <1>2, <1>3 DEF ReviewInv

\* A record is posted: what was discovered stays in the log.
LEMMA PostStep ==
    ASSUME ReviewInv, NEW r \in Notes, Post(r),
           UNCHANGED <<scenario, custody, asked, evaluating, Desk>>,
           device' \in Devices, device'.seen = device.seen,
           outbox' \in SUBSET Notes,
           OnScreen', SignatureFits'
    PROVE  ReviewInv'
<1>1. ReviewTypeOK /\ Discovered /\ ActsOnRecords
  BY DEF ReviewInv
<1>2. /\ log' \in Logs
      /\ \A kind \in Kinds, by \in Roles : \A x :
            /\ Contains(log[kind][by], x) => Contains(log'[kind][by], x)
            /\ log[kind][by] # <<>> => log'[kind][by] # <<>>
            /\ Contains(log'[kind][by], x) =>
                 Contains(log[kind][by], x) \/ (kind = r.kind /\ x = r.n)
  BY <1>1, PostGrows DEF ReviewTypeOK
<1>3. ReviewTypeOK'
  BY <1>1, <1>2 DEF ReviewTypeOK, Desk
<1>4. Discovered'
  <2>1. \A kind \in Kinds, by \in Roles : \A i \in 1..Len(device'.seen[kind][by]) :
           Contains(log'[kind][by], device'.seen[kind][by][i])
    BY <1>1, <1>2 DEF Discovered
  <2>2. ASSUME NEW by \in Roles, NEW i \in 1..Len(log'["packet"][by])
        PROVE  log'["packet"][by][i] \in Packets
    <3>1. Contains(log'["packet"][by], log'["packet"][by][i])
      BY DEF Contains
    <3>2. "packet" \in Kinds
      BY DEF Kinds
    <3>3. \/ Contains(log["packet"][by], log'["packet"][by][i])
          \/ "packet" = r.kind /\ log'["packet"][by][i] = r.n
      BY <1>2, <3>1, <3>2
    <3>4. r.kind = "packet" => r.n \in Packets
      BY DEF Notes
    <3> QED
      BY <1>1, <3>3, <3>4 DEF Discovered, Contains
  <2> QED
    BY <2>1, <2>2 DEF Discovered
<1>5. ActsOnRecords'
  <2>1. me \in Roles /\ "reason" \in Kinds /\ "consent" \in Kinds /\ "payee" \in Roles
    BY <1>1, Parties DEF Kinds, Roles
  <2>2. Consented => Consented'
    BY <1>2, <2>1 DEF Consented
  <2>3. ASSUME custody.disputed, custody.by = me
        PROVE  Contains(log'["reason"][me], custody.about)
    BY <1>1, <1>2, <2>1, <2>3 DEF ActsOnRecords
  <2>4. me' = me /\ custody' = custody
    BY DEF me
  <2> QED
    BY <1>1, <2>2, <2>3, <2>4 DEF ActsOnRecords
<1> QED
  BY <1>3, <1>4, <1>5 DEF ReviewInv

\* A call of the custody leaves device and log alone.
LEMMA CallStep ==
    ASSUME ReviewInv, UNCHANGED <<scenario, log, outbox, device, asked, evaluating, Desk>>,
           custody' \in CustodyRecords, ActsOnRecords'
    PROVE  ReviewInv'
<1>1. ReviewTypeOK'
  BY DEF ReviewInv, ReviewTypeOK, Desk
<1>2. Discovered' /\ OnScreen' /\ SignatureFits'
  BY DEF ReviewInv, Discovered, Contains, OnScreen, SignatureFits
<1> QED
  BY <1>1, <1>2 DEF ReviewInv

-----------------------------------------------------------------------------
(* Every step keeps the invariant.                                           *)

\* What the facts above need of the state.
LEMMA State ==
    ASSUME ReviewInv
    PROVE  /\ ReviewTypeOK /\ Discovered /\ OnScreen /\ SignatureFits /\ ActsOnRecords
           /\ scenario \in Scenarios /\ custody \in CustodyRecords /\ log \in Logs
           /\ outbox \in SUBSET Notes /\ device \in Devices
           /\ device.view \in CustodyRecords /\ device.seen \in Logs
           /\ device.key \in NoneOr(Cases) /\ device.challenge \in NoneOr(Cases)
           /\ asked \in SUBSET Cases /\ evaluating \in SUBSET Cases
           /\ attested \in [Cases -> SUBSET Roles]
           /\ verdict \in [Cases -> {"none", "resolve", "review"}]
           /\ me \in Roles /\ peer \in Roles /\ peer # me
BY Parties DEF ReviewInv, ReviewTypeOK, Devices

LEMMA FreshTyped ==
    ASSUME NEW view \in CustodyRecords
    PROVE  Fresh(view) \in Devices
<1>1. NoRecords \in Logs
  BY DEF NoRecords, Logs
<1> QED
  BY <1>1 DEF Fresh, Devices, NoneOr

LEMMA ReviewInitInvariant == Init => ReviewInv
<1> SUFFICES ASSUME Init PROVE ReviewInv
  OBVIOUS
<1>1. custody \in CustodyRecords /\ ~custody.disputed /\ ~custody.refunded
  BY ScenariosAssumption DEF Init, NewCustody, CustodyRecords, Roles
<1>2. log \in Logs /\ \A kind \in Kinds, by \in Roles : log[kind][by] = <<>>
  BY DEF Init, NoRecords, Logs
<1>3. device \in Devices
  BY <1>1, FreshTyped DEF Init
<1>4. ReviewTypeOK
  BY <1>1, <1>2, <1>3 DEF Init, ReviewTypeOK
<1>5. Discovered
  <2>1. \A kind \in Kinds, by \in Roles : device.seen[kind][by] = <<>>
    BY DEF Init, Fresh, NoRecords
  <2> QED
    BY <1>2, <2>1 DEF Discovered, Kinds
<1>6. OnScreen /\ SignatureFits /\ ActsOnRecords
  BY <1>1 DEF Init, Fresh, OnScreen, SignatureFits, ActsOnRecords
<1> QED
  BY <1>4, <1>5, <1>6 DEF ReviewInv

\* What is new is drawn: a changed case takes challenge and error with it.
LEMMA RenderStep ==
    ASSUME ReviewInv, NEW seen \in {device.seen, log}, NEW view \in CustodyRecords,
           Render(seen, view), UNCHANGED <<scenario, custody, log, outbox, evaluating, Desk>>
    PROVE  ReviewInv'
<1> DEFINE c == CaseFrom(seen, view)
<1>0. seen \in Logs /\ device \in Devices /\ OnScreen /\ SignatureFits
  BY State
<1>1. c \in NoneOr(Cases)
  <2>1. \A by \in Roles : \A i \in 1..Len(seen["packet"][by]) : seen["packet"][by][i] \in Packets
    <3> SUFFICES ASSUME NEW by \in Roles, NEW i \in 1..Len(seen["packet"][by])
                 PROVE  seen["packet"][by][i] \in Packets
      OBVIOUS
    <3>1. "packet" \in Kinds /\ Discovered
      BY State DEF Kinds
    <3>2. CASE seen = log
      BY <3>1, <3>2 DEF Discovered
    <3>3. CASE seen = device.seen
      <4>1. PICK j \in 1..Len(log["packet"][by]) : log["packet"][by][j] = seen["packet"][by][i]
        BY <3>1, <3>3 DEF Discovered, Contains
      <4> QED
        BY <3>1, <4>1 DEF Discovered
    <3> QED
      BY <3>2, <3>3
  <2> QED
    BY <1>0, <2>1, CaseTyped
<1> HIDE DEF c
<1>2. \/ /\ c = device.key
         /\ device' = [device EXCEPT !.seen = seen, !.view = view]
         /\ asked' = asked
      \/ /\ device' = [device EXCEPT !.seen = seen, !.view = view, !.key = c,
                                      !.challenge = NoCase, !.error = FALSE, !.marks = {}]
         /\ asked' = IF c = NoCase THEN asked ELSE asked \cup {c}
  BY DEF Render, c
<1>3. asked' \in SUBSET Cases
  BY <1>1, <1>2, State DEF NoneOr
<1>4. /\ device' \in Devices /\ device'.seen = seen
      /\ device'.signing = device.signing /\ device'.typed = device.typed
  <2>1. NoCase \in NoneOr(Cases)
    BY DEF NoneOr
  <2> QED
    BY <1>0, <1>1, <1>2, <2>1 DEF Devices
<1>5. OnScreen'
  BY <1>0, <1>2 DEF OnScreen, Devices
<1>6. SignatureFits'
  BY <1>0, <1>4 DEF SignatureFits
<1> QED
  BY <1>3, <1>4, <1>5, <1>6, State, DeviceStep DEF Desk

LEMMA ReloadStep == ASSUME ReviewInv, Reload PROVE ReviewInv'
<1>1. device' \in Devices
  BY State, FreshTyped DEF Reload
<1>2. /\ outbox' \in SUBSET Notes
  BY State DEF Reload, Unposted, Devices
<1>3. ReviewTypeOK'
  BY <1>1, <1>2, State DEF Reload, Desk, ReviewTypeOK
<1>4. Discovered'
  <2>1. \A kind \in Kinds, by \in Roles : device'.seen[kind][by] = <<>>
    BY DEF Reload, Fresh, NoRecords
  <2>2. log' = log
    BY DEF Reload
  <2> QED
    BY <2>1, <2>2, State DEF Discovered
<1>5. OnScreen' /\ SignatureFits' /\ ActsOnRecords'
  BY State DEF Reload, Fresh, OnScreen, SignatureFits, ActsOnRecords, Consented, me
<1> QED
  BY <1>3, <1>4, <1>5 DEF ReviewInv

\* A record is handed to the wallet, which posts it or not.
LEMMA SendStep ==
    ASSUME ReviewInv, NEW kind \in Kinds, NEW n \in Nat, kind = "packet" => n \in Packets,
           Send(kind, n)
    PROVE  ReviewInv'
<1>1. Record(kind, me, n) \in Notes
  BY State DEF Record, Notes
<1>2. /\ device' \in Devices /\ device'.seen = device.seen
      /\ device'.key = device.key /\ device'.challenge = device.challenge
      /\ device'.error = device.error
      /\ device'.signing = device.signing /\ device'.typed = device.typed
  BY <1>1, State DEF Send, Devices
<1>3. OnScreen' /\ SignatureFits'
  BY <1>2, State DEF OnScreen, SignatureFits
<1> QED
  BY <1>2, <1>3, State, DeviceStep DEF Send, Desk

LEMMA SendingStep ==
    ASSUME ReviewInv, ShareDisputeEvidence \/ SubmitEvidence \/ AuthorizeMutualRefund
    PROVE  ReviewInv'
<1>0. "reason" \in Kinds /\ "packet" \in Kinds /\ "consent" \in Kinds
  BY DEF Kinds
<1>1. CASE ShareDisputeEvidence
  <2>1. device.view.work \in Nat
    BY State DEF CustodyRecords
  <2> QED
    BY <1>0, <1>1, <2>1, SendStep DEF ShareDisputeEvidence
<1>2. CASE SubmitEvidence
  <2>1. PICK n \in Packets : NextPacket(n, me) /\ Send("packet", n)
    BY <1>2 DEF SubmitEvidence
  <2>2. n \in Nat
    BY <2>1, PacketNumber, State
  <2> QED
    BY <1>0, <2>1, <2>2, SendStep
<1>3. CASE AuthorizeMutualRefund
  BY <1>0, <1>3, SendStep DEF AuthorizeMutualRefund
<1> QED
  BY <1>1, <1>2, <1>3


LEMMA DeliveryStep == ASSUME ReviewInv, Delivery PROVE ReviewInv'
<1>0. device \in Devices /\ OnScreen /\ SignatureFits /\ outbox \in SUBSET Notes
  BY State
<1>1. CASE WalletPosts
  <2>1. device.sending \in Notes
    BY <1>0, <1>1 DEF WalletPosts, Devices
  <2>2. /\ device' \in Devices /\ device'.seen = device.seen
        /\ device'.key = device.key /\ device'.challenge = device.challenge
        /\ device'.error = device.error
        /\ device'.signing = device.signing /\ device'.typed = device.typed
    BY <1>0, <1>1 DEF WalletPosts, Devices
  <2>3. OnScreen' /\ SignatureFits'
    BY <1>0, <2>2 DEF OnScreen, SignatureFits
  <2> QED
    BY <1>0, <1>1, <2>1, <2>2, <2>3, PostStep DEF WalletPosts
<1>2. CASE SendConfirmed
  <2>0. NoCase \in NoneOr(Cases)
    BY DEF NoneOr
  <2>1. /\ device' \in Devices /\ device'.seen = device.seen
        /\ device'.key = device.key /\ device'.challenge \in {NoCase, device.challenge}
        /\ device'.error = device.error
        /\ device'.signing = device.signing /\ device'.typed = device.typed
    BY <1>0, <1>2, <2>0 DEF SendConfirmed, Devices
  <2>2. OnScreen' /\ SignatureFits'
    BY <1>0, <2>1 DEF OnScreen, SignatureFits
  <2> QED
    BY <1>0, <1>2, <2>1, <2>2, State, DeviceStep DEF SendConfirmed, Desk
<1>3. CASE SendFails
  <2>1. /\ device' \in Devices /\ device'.seen = device.seen
        /\ device'.key = device.key /\ device'.challenge = device.challenge
        /\ device'.error = device.error
        /\ device'.signing = device.signing /\ device'.typed = device.typed
    BY <1>0, <1>3 DEF SendFails, Devices
  <2>2. OnScreen' /\ SignatureFits'
    BY <1>0, <2>1 DEF OnScreen, SignatureFits
  <2>3. outbox' \in SUBSET Notes
    BY <1>0, <1>3 DEF SendFails, Devices
  <2> QED
    BY <1>3, <2>1, <2>2, <2>3, State, DeviceStep DEF SendFails, Desk
<1>4. ASSUME NEW r \in outbox, PostLate(r) PROVE ReviewInv'
  <2>1. r \in Notes /\ outbox' \in SUBSET Notes
    BY <1>0, <1>4 DEF PostLate
  <2>2. OnScreen' /\ SignatureFits'
    BY <1>0, <1>4 DEF PostLate, OnScreen, SignatureFits
  <2> QED
    BY <1>0, <1>4, <2>1, <2>2, PostStep DEF PostLate
<1> QED
  BY <1>1, <1>2, <1>3, <1>4 DEF Delivery

\* The payer refunds with the payee's secret, which the log has told it.
LEMMA RefundStep ==
    ASSUME ReviewInv, NEW by \in Roles, Refund(by), Consented
    PROVE  ReviewInv'
<1>1. custody' \in CustodyRecords /\ custody'.disputed = custody.disputed
      /\ custody'.by = custody.by /\ custody'.about = custody.about
  BY State DEF Refund, Accept, CustodyRecords
<1>2. ActsOnRecords'
  BY <1>1, State DEF Refund, Accept, ActsOnRecords, Consented, me
<1> QED
  BY <1>1, <1>2, CallStep DEF Refund, Accept

\* A dispute names a work, and when it is this device's, one it has written about.
LEMMA DisputeStep ==
    ASSUME ReviewInv, NEW by \in Roles, NEW work \in Nat, Dispute(by, work),
           by = me => Contains(log["reason"][me], work)
    PROVE  ReviewInv'
<1>1. custody' \in CustodyRecords /\ custody'.by = by /\ custody'.about = work
      /\ custody'.refunded = custody.refunded
  BY State DEF Dispute, Accept, CustodyRecords
<1>2. ActsOnRecords'
  BY <1>1, State DEF Dispute, Accept, ActsOnRecords, Consented, me
<1> QED
  BY <1>1, <1>2, CallStep DEF Dispute, Accept

\* The calls that neither dispute nor refund leave the public records as they are.
LEMMA OtherCalls ==
    ASSUME ReviewInv, NEW by \in Roles,
           \/ SubmitWork \/ RequestRevision \/ ReviewWindowEnds
           \/ Confirm(by) \/ Release(by) \/ Claim(by)
    PROVE  ReviewInv'
<1> DEFINE Quiet == /\ custody' \in CustodyRecords
                    /\ custody'.disputed = custody.disputed /\ custody'.by = custody.by
                    /\ custody'.about = custody.about /\ custody'.refunded = custody.refunded
                    /\ UNCHANGED <<scenario, log, outbox, device, asked, evaluating, Desk>>
<1>0. custody \in CustodyRecords
  BY State
<1>1. SubmitWork => Quiet
  <2> DEFINE atOnce == custody.policy = "submission"
  <2>1. atOnce \in BOOLEAN
    OBVIOUS
  <2>2. SubmitWork => /\ custody' = [custody EXCEPT !.work = custody.work + 1, !.revision = FALSE,
                                                    !.late = FALSE, !.confirmed = atOnce]
                      /\ UNCHANGED <<scenario, log, outbox, device, asked, evaluating, Desk>>
    BY DEF SubmitWork, Accept
  <2> HIDE DEF atOnce
  <2>3. custody.work + 1 \in Nat
    BY <1>0 DEF CustodyRecords
  <2>4. SubmitWork => custody' \in CustodyRecords
    BY <1>0, <2>1, <2>2, <2>3 DEF CustodyRecords
  <2> QED
    BY <1>0, <2>2, <2>4 DEF CustodyRecords
<1>2. RequestRevision => Quiet
  BY <1>0 DEF RequestRevision, Accept, CustodyRecords
<1>3. ReviewWindowEnds => Quiet
  BY <1>0 DEF ReviewWindowEnds, Accept, CustodyRecords
<1>4. Confirm(by) => Quiet
  BY <1>0 DEF Confirm, Accept, CustodyRecords
<1>5. Release(by) => Quiet
  BY <1>0 DEF Release, Accept, CustodyRecords
<1>6. Claim(by) => Quiet
  <2> DEFINE claimed == custody.claimed \cup {by}
             all == claimed = custody.shares
  <2>1. all \in BOOLEAN
    OBVIOUS
  <2>2. claimed \in SUBSET Roles
    BY <1>0 DEF CustodyRecords
  <2>3. Claim(by) => /\ custody' = [custody EXCEPT !.claimed = claimed, !.consumed = all]
                     /\ UNCHANGED <<scenario, log, outbox, device, asked, evaluating, Desk>>
    BY DEF Claim, Accept
  <2> HIDE DEF claimed, all
  <2> QED
    BY <1>0, <2>1, <2>2, <2>3 DEF CustodyRecords
<1>7. Quiet
  BY <1>1, <1>2, <1>3, <1>4, <1>5, <1>6
<1>8. ActsOnRecords'
  BY <1>7, State DEF ActsOnRecords, Consented, me
<1> QED
  BY <1>7, <1>8, CallStep

LEMMA ProtectionStep == ASSUME ReviewInv, Protection PROVE ReviewInv'
<1>0. me \in Roles /\ ReviewTypeOK /\ Discovered /\ device.view \in CustodyRecords
      /\ "reason" \in Kinds /\ "consent" \in Kinds /\ "payee" \in Roles
  BY State DEF Kinds, Roles
<1>1. CASE LockDispute
  <2>1. /\ Dispute(me, device.view.work) /\ device.view.work > 0
        /\ Written("reason", me) = device.view.work
    BY <1>1 DEF LockDispute, CanDispute, ReasonFits
  <2>2. device.view.work \in Nat
    BY <1>0 DEF CustodyRecords
  <2>3. Contains(log["reason"][me], device.view.work)
    BY <1>0, <2>1, <2>2, WrittenIsLogged
  <2> QED
    BY <1>0, <2>1, <2>2, <2>3, DisputeStep
<1>2. CASE CompleteMutualRefund
  <2>1. Refund(me) /\ Consented
    BY <1>0, <1>2, WrittenIsLogged DEF CompleteMutualRefund, HoldsConsent, Consented
  <2> QED
    BY <1>0, <2>1, RefundStep
<1>3. CASE ConfirmFulfillment \/ AutoRelease \/ ClaimResolution
  BY <1>0, <1>3, OtherCalls DEF ConfirmFulfillment, AutoRelease, ClaimResolution
<1>4. CASE ShareDisputeEvidence \/ AuthorizeMutualRefund
  BY <1>4, SendingStep
<1> QED
  BY <1>1, <1>2, <1>3, <1>4 DEF Protection


\* A decision divides the custody or leaves it to an operator.
LEMMA DecideStep ==
    ASSUME ReviewInv, NEW c \in Cases, Decide(c),
           device' \in Devices, device'.seen = device.seen,
           evaluating' \in SUBSET Cases, OnScreen', SignatureFits'
    PROVE  ReviewInv'
<1>1. /\ custody \in CustodyRecords /\ verdict \in [Cases -> {"none", "resolve", "review"}]
      /\ UNCHANGED <<scenario, log, outbox, asked, attested>>
  BY State DEF Decide
<1>2. \/ /\ verdict' = [verdict EXCEPT ![c] = "resolve"]
         /\ \E shares \in Divisions : custody' = [custody EXCEPT !.shares = shares]
      \/ /\ verdict' = [verdict EXCEPT ![c] = "review"]
         /\ custody' = custody
  BY DEF Decide
<1>3. verdict' \in [Cases -> {"none", "resolve", "review"}]
  BY <1>1, <1>2
<1>4. /\ custody' \in CustodyRecords
      /\ custody'.disputed = custody.disputed /\ custody'.by = custody.by
      /\ custody'.about = custody.about /\ custody'.refunded = custody.refunded
  BY <1>1, <1>2, DivisionsAssumption DEF CustodyRecords
<1>5. ReviewTypeOK'
  BY <1>1, <1>3, <1>4, State DEF ReviewTypeOK
<1>6. Discovered' /\ ActsOnRecords'
  BY <1>1, <1>4, State DEF Discovered, Contains, ActsOnRecords, Consented, me
<1> QED
  BY <1>5, <1>6 DEF ReviewInv

\* The challenge, the signature and the evaluation touch neither log nor calls; a
\* challenge is taken only for the case on the screen, and the wallet is given it.
LEMMA AgentStep == ASSUME ReviewInv, Agent PROVE ReviewInv'
<1>0. /\ device \in Devices /\ OnScreen /\ SignatureFits /\ NoCase \in NoneOr(Cases)
      /\ \A c \in Cases : c \in NoneOr(Cases)
      /\ me \in Roles /\ attested \in [Cases -> SUBSET Roles]
      /\ asked \in SUBSET Cases /\ evaluating \in SUBSET Cases
      /\ outbox \in SUBSET Notes
      /\ verdict \in [Cases -> {"none", "resolve", "review"}]
  BY State DEF NoneOr
<1> DEFINE Still == device'.key = device.key /\ device'.challenge = device.challenge
           Unsigned == device'.signing = device.signing /\ device'.typed = device.typed
<1>1. ASSUME NEW c \in Cases, ChallengeArrives(c) PROVE ReviewInv'
  <2>1. /\ device' \in Devices /\ device'.seen = device.seen /\ Unsigned
        /\ device'.key = device.key /\ device'.error = device.error
        /\ device'.challenge = device.challenge \/ (device'.challenge = c /\ device.key = c)
    BY <1>0, <1>1 DEF ChallengeArrives, Wanted, Devices
  <2>2. OnScreen' /\ SignatureFits'
    BY <1>0, <2>1 DEF OnScreen, SignatureFits
  <2>3. asked' \in SUBSET Cases
    BY <1>0, <1>1 DEF ChallengeArrives
  <2> QED
    BY <1>0, <1>1, <2>1, <2>2, <2>3, DeviceStep DEF ChallengeArrives, Desk
<1>2. ASSUME NEW c \in Cases, ChallengeFails(c) PROVE ReviewInv'
  <2>1. /\ device' \in Devices /\ device'.seen = device.seen /\ Unsigned /\ Still
        /\ device'.error = device.error \/ device.key = c
    <3>1. device' = device \/ (device.key = c /\ device' = [device EXCEPT !.error = TRUE])
      BY <1>2 DEF ChallengeFails, Wanted
    <3>2. CASE device' = device
      BY <1>0, <3>2
    <3>3. CASE device.key = c /\ device' = [device EXCEPT !.error = TRUE]
      <4>1. device' \in Devices /\ device'.seen = device.seen /\ Unsigned /\ Still
        BY <1>0, <3>3 DEF Devices
      <4> QED
        BY <3>3, <4>1
    <3> QED
      BY <3>1, <3>2, <3>3
  <2>2. OnScreen' /\ SignatureFits'
    BY <1>0, <2>1, NoCaseAssumption DEF OnScreen, SignatureFits
  <2>3. asked' \in SUBSET Cases
    BY <1>0, <1>2 DEF ChallengeFails
  <2> QED
    BY <1>0, <1>2, <2>1, <2>2, <2>3, DeviceStep DEF ChallengeFails, Desk
<1>3. CASE RetryChallenge
  <2>1. /\ device' \in Devices /\ device'.seen = device.seen /\ Unsigned /\ Still
        /\ ~device'.error
    BY <1>0, <1>3 DEF RetryChallenge, Devices
  <2>2. OnScreen' /\ SignatureFits'
    BY <1>0, <2>1 DEF OnScreen, SignatureFits
  <2>3. asked' \in SUBSET Cases
    BY <1>0, <1>3 DEF RetryChallenge, OnScreen, Devices, NoneOr
  <2> QED
    BY <1>0, <1>3, <2>1, <2>2, <2>3, DeviceStep DEF RetryChallenge, Desk
<1>4. CASE SignReview
  <2>1. /\ device' \in Devices /\ device'.seen = device.seen /\ Still
        /\ device'.error = device.error
        /\ device'.signing = device.key /\ device'.typed = device.challenge
    BY <1>0, <1>4 DEF SignReview, Devices
  <2>2. OnScreen' /\ SignatureFits'
    BY <1>0, <1>4, <2>1 DEF OnScreen, SignatureFits, SignReview, Ready
  <2> QED
    BY <1>0, <1>4, <2>1, <2>2, DeviceStep DEF SignReview, Desk
<1>5. ASSUME NEW marks \in SUBSET Roles, SigningEnds(marks)
      PROVE  /\ device' \in Devices /\ device'.seen = device.seen
             /\ OnScreen' /\ SignatureFits'
  <2>1. /\ device' \in Devices /\ device'.seen = device.seen /\ Still
        /\ device'.error = device.error /\ device'.signing = NoCase
    BY <1>0, <1>5 DEF SigningEnds, Devices
  <2> QED
    BY <1>0, <2>1 DEF OnScreen, SignatureFits
<1>6. CASE SigningFails
  <2>1. device.marks \in SUBSET Roles
    BY <1>0 DEF Devices
  <2> QED
    BY <1>0, <1>5, <1>6, <2>1, DeviceStep DEF SigningFails, Desk
<1>7. CASE SubmitAttestation
  <2>1. device.signing \in Cases /\ device.marks \in SUBSET Roles
    BY <1>0, <1>7 DEF SubmitAttestation, Devices, NoneOr
  <2> DEFINE stored == attested[device.signing] \cup {me}
  <2>2. stored \in SUBSET Roles
    BY <1>0, <2>1
  <2>3. /\ attested' = [attested EXCEPT ![device.signing] = stored]
        /\ SigningEnds(stored) \/ SigningEnds(device.marks)
    BY <1>7 DEF SubmitAttestation
  <2>4. attested' \in [Cases -> SUBSET Roles]
    BY <1>0, <2>2, <2>3
  <2>5. /\ device' \in Devices /\ device'.seen = device.seen
        /\ OnScreen' /\ SignatureFits'
    BY <1>5, <2>1, <2>2, <2>3
  <2> QED
    BY <1>0, <1>7, <2>4, <2>5, DeviceStep DEF SubmitAttestation
<1>8. CASE SyncStatus
  <2>1. Marks \in SUBSET Roles
    BY <1>0, <1>8 DEF SyncStatus, Ready, Marks, Devices, NoneOr
  <2>2. /\ device' \in Devices /\ device'.seen = device.seen /\ Unsigned /\ Still
        /\ device'.error = device.error
    BY <1>0, <1>8, <2>1 DEF SyncStatus, Devices
  <2>3. OnScreen' /\ SignatureFits'
    BY <1>0, <2>2 DEF OnScreen, SignatureFits
  <2> QED
    BY <1>0, <1>8, <2>2, <2>3, DeviceStep DEF SyncStatus, Desk
<1>9. CASE AutoEvaluate
  <2>1. /\ device' \in Devices /\ device'.seen = device.seen /\ Unsigned /\ Still
        /\ device'.error = device.error
    BY <1>0, <1>9 DEF AutoEvaluate, Devices
  <2>2. OnScreen' /\ SignatureFits'
    BY <1>0, <2>1 DEF OnScreen, SignatureFits
  <2>3. evaluating' \in SUBSET Cases
    BY <1>0, <1>9 DEF AutoEvaluate, Ready, Devices, NoneOr
  <2> QED
    BY <1>0, <1>9, <2>1, <2>2, <2>3, DeviceStep DEF AutoEvaluate, Desk
<1>10. ASSUME NEW c \in Cases, EvaluationFails(c) PROVE ReviewInv'
  <2>1. AfterFailure(c) \in NoneOr(Cases)
    BY <1>0 DEF AfterFailure, Devices
  <2>2. /\ device' \in Devices /\ device'.seen = device.seen /\ Unsigned /\ Still
        /\ device'.error = device.error
    BY <1>0, <1>10, <2>1 DEF EvaluationFails, Devices
  <2>3. OnScreen' /\ SignatureFits'
    BY <1>0, <2>2 DEF OnScreen, SignatureFits
  <2>4. evaluating' \in SUBSET Cases
    BY <1>0, <1>10 DEF EvaluationFails
  <2> QED
    BY <1>0, <1>10, <2>2, <2>3, <2>4, DeviceStep DEF EvaluationFails, Desk
<1>11. ASSUME NEW c \in Cases, EvaluateDispute(c) PROVE ReviewInv'
  <2>1. /\ device' \in Devices /\ device'.seen = device.seen /\ Unsigned /\ Still
        /\ device'.error = device.error
    BY <1>0, <1>11 DEF EvaluateDispute, Devices
  <2>2. OnScreen' /\ SignatureFits'
    BY <1>0, <2>1 DEF OnScreen, SignatureFits
  <2>3. evaluating' \in SUBSET Cases
    BY <1>0, <1>11 DEF EvaluateDispute
  <2> QED
    BY <1>11, <2>1, <2>2, <2>3, DecideStep DEF EvaluateDispute
<1>12. CASE SubmitEvidence
  BY <1>12, SendingStep
<1> QED
  BY <1>1, <1>2, <1>3, <1>4, <1>6, <1>7, <1>8, <1>9, <1>10, <1>11, <1>12 DEF Agent

LEMMA PeerStep == ASSUME ReviewInv, Peer PROVE ReviewInv'
<1>0. /\ device \in Devices /\ OnScreen /\ SignatureFits /\ peer \in Roles /\ me \in Roles
      /\ peer # me /\ ReviewTypeOK /\ custody \in CustodyRecords
      /\ outbox \in SUBSET Notes
  BY State
<1>1. ASSUME NEW kind \in Kinds, NEW by \in Roles, PeerSends(kind, by) PROVE ReviewInv'
  <2>1. PICK n \in PeerWrites(kind, by) : Post(Record(kind, by, n))
    BY <1>1 DEF PeerSends
  <2> DEFINE r == Record(kind, by, n)
  <2>2. r \in Notes
    <3>1. CASE kind = "reason"
      <4>1. scenario.works \in Nat
        BY <1>0, ScenariosAssumption DEF ReviewTypeOK
      <4>2. n \in 1..scenario.works + 1
        BY <3>1 DEF PeerWrites
      <4> QED
        BY <3>1, <4>1, <4>2 DEF Record, Notes
    <3>2. CASE kind = "packet"
      <4>1. n \in Packets /\ NextPacket(n, by)
        BY <3>2 DEF PeerWrites
      <4>2. n \in Nat
        BY <1>0, <4>1, PacketNumber
      <4> QED
        BY <4>1, <4>2 DEF Record, Notes
    <3>3. CASE kind = "consent"
      <4>1. n \in {0, 1}
        BY <3>3 DEF PeerWrites
      <4> QED
        BY <3>3, <4>1 DEF Record, Notes
    <3> QED
      BY <3>1, <3>2, <3>3 DEF Kinds
  <2>3. Post(r) /\ UNCHANGED <<scenario, custody, outbox, device, asked, evaluating, Desk>>
    BY <1>1, <2>1 DEF PeerSends
  <2> HIDE DEF r
  <2>4. OnScreen' /\ SignatureFits'
    BY <1>0, <2>3 DEF OnScreen, SignatureFits
  <2> QED
    BY <1>0, <2>2, <2>3, <2>4, PostStep
<1>2. CASE PeerCalls
  <2>1. custody.work \in Nat
    BY <1>0 DEF CustodyRecords
  <2> QED
    BY <1>0, <1>2, <2>1, OtherCalls, DisputeStep, RefundStep DEF PeerCalls
<1>3. ASSUME NEW c \in Cases, PeerSigns(c) PROVE ReviewInv'
  <2>1. attested' \in [Cases -> SUBSET Roles]
    BY <1>0, <1>3 DEF PeerSigns, ReviewTypeOK
  <2>2. OnScreen' /\ SignatureFits'
    BY <1>0, <1>3 DEF PeerSigns, OnScreen, SignatureFits
  <2> QED
    BY <1>0, <1>3, <2>1, <2>2, State, DeviceStep DEF PeerSigns
<1>4. ASSUME NEW c \in Cases, PeerEvaluates(c) PROVE ReviewInv'
  <2>1. OnScreen' /\ SignatureFits'
    BY <1>0, <1>4 DEF PeerEvaluates, OnScreen, SignatureFits
  <2> QED
    BY <1>0, <1>4, <2>1, State, DecideStep DEF PeerEvaluates
<1> QED
  BY <1>1, <1>2, <1>3, <1>4 DEF Peer

LEMMA ReviewNextInvariant == ReviewInv /\ [Next]_vars => ReviewInv'
<1> SUFFICES ASSUME ReviewInv, [Next]_vars PROVE ReviewInv'
  OBVIOUS
<1>1. CASE Discover
  BY <1>1, State, RenderStep DEF Discover
<1>2. CASE ReadCustody
  BY <1>2, State, RenderStep DEF ReadCustody
<1>3. CASE SubmitWork \/ RequestRevision \/ ReviewWindowEnds
  BY <1>3, State, OtherCalls
<1>4. ASSUME NEW c \in Cases, NEW shares \in Divisions, OperatorResolves(c, shares)
      PROVE  ReviewInv'
  <2>1. /\ custody' = [custody EXCEPT !.shares = shares] /\ shares \in SUBSET Roles
        /\ UNCHANGED <<scenario, log, outbox, device, asked, evaluating, Desk>>
    BY <1>4, DivisionsAssumption DEF OperatorResolves, Accept
  <2>2. ActsOnRecords' /\ custody' \in CustodyRecords
    BY <2>1, State DEF ActsOnRecords, Consented, me, CustodyRecords
  <2> QED
    BY <2>1, <2>2, CallStep
<1>5. CASE UNCHANGED vars
  <2>1. OnScreen' /\ SignatureFits'
    BY <1>5, State DEF vars, OnScreen, SignatureFits
  <2> QED
    BY <1>5, <2>1, State, DeviceStep DEF vars, Desk
<1> QED
  BY <1>1, <1>2, <1>3, <1>4, <1>5, ProtectionStep, DeliveryStep, AgentStep, PeerStep, ReloadStep
     DEF Next

LEMMA ReviewInvariance == Spec => []ReviewInv
BY ReviewInitInvariant, ReviewNextInvariant, PTL DEF Spec

\* What the wallet signs is the case on the screen, in whatever order challenges,
\* packets, resolutions and the answers to earlier requests arrive.
THEOREM SignsWhatIsShown == Spec => []SignatureFits
<1>1. ReviewInv => SignatureFits
  BY DEF ReviewInv
<1> QED
  BY <1>1, ReviewInvariance, PTL

\* A dispute this device locks names a work that a reason under its address is about,
\* and a mutual refund comes after the payee has given its secret, although the
\* device acts on a log and a custody it has read earlier, its records may be posted
\* late, and the peer may write under either address.
THEOREM DisputesOnRecord == Spec => []ActsOnRecords
<1>1. ReviewInv => ActsOnRecords
  BY DEF ReviewInv
<1> QED
  BY <1>1, ReviewInvariance, PTL
=============================================================================
