------------------------------ MODULE RoomDesk ------------------------------
(***************************************************************************)
(* One device in a deal room: how the client prepares an encrypted record, *)
(* hands it to the wallet, and finds out whether it reached the chain.     *)
(* Five surfaces do this, each with its own answer to a wallet that is     *)
(* late, silent or wrong about what it did:                                *)
(*   text   a private message    (useDirectConversation.ts, always through *)
(*          the OpenMLS session of useStarknetDirectMls.ts)                *)
(*   file   an encrypted attachment      (useDirectConversation.ts)        *)
(*   group  a group message              (useGroupConversation.ts)         *)
(*   offer  an offer or a reply to one   (useRoomOffers.ts)                *)
(*   coord  a Rekber coordination record (useRoomEscrow.ts)                *)
(* A record is named by its locator, fresh for every attempt. The chain    *)
(* keeps what the helper contracts stored, `indexed' is the part of it the *)
(* discovery route returns.                                                *)
(* A text is encrypted once: its checkpoint keeps it until its transaction *)
(* has been seen, and sending it again resumes it.  How the session is set *)
(* up, and its tabs, rails and packets, are the subject of MlsChat.        *)
(***************************************************************************)
EXTENDS Naturals, FiniteSets, Sequences

CONSTANTS Surfaces,    \* the surfaces a behaviour may be about
          Chats,       \* peers, or groups
          MaxSends,    \* bound: records prepared by this device
          MaxTexts,    \* bound: texts the user writes, per surface
          MaxReloads,  \* bound: reloads of the page
          NoText

ASSUME DeskAssumption == /\ Surfaces \subseteq {"text", "file", "group", "offer", "coord"}
                         /\ Chats # {} /\ MaxSends \in Nat \ {0} /\ MaxTexts \in [Surfaces -> Nat]
                         /\ MaxReloads \in Nat

VARIABLES
  surface,   \* the surface this behaviour is about
  shown,     \* the chat on screen
  draft,     \* the composer's text, per chat
  texts,     \* texts written so far
  sends,     \* the records prepared so far, by locator
  handed,    \* locators the wallet was asked to store
  chain,     \* locators stored by the helper contracts
  indexed,   \* locators the discovery route returns
  op,        \* the send in the foreground (busy)
  cards,     \* entries in memory: prepared (no transaction hash) or sent
  saved,     \* entries in the device history of each chat
  verified,  \* offers in matchedOfferRoutes
  pending,   \* unfinished record of each chat: pending key, or MLS checkpoint
  blocked,   \* sending is refused: messagePending, or the session is not ready
  watch,     \* locators a background task is waiting for
  alive,     \* locators whose wallet promise this page still holds
  fetches,   \* the chat a discovery response is on its way for
  hydrate,   \* the device history is still to be read
  reloads,
  failed     \* history: sends the user was told had failed

deskVars == <<surface, shown, draft, texts, sends, handed, chain, indexed, op, cards, saved,
          verified, pending, blocked, watch, alive, fetches, hydrate, reloads, failed>>

Locators == 1 .. MaxSends
Idle     == [at |-> "idle"]
Prepared == 1 .. Len(sends)
Chat(l)  == sends[l].chat
Body(l)  == sends[l].body

HasDraft   == surface \in {"text", "group"}
HasHistory == surface \in {"text", "file", "offer"}
PerChat    == surface \in {"text", "file", "group"}

Nothing == [l \in Locators |-> "no"]
InMemory == {l \in Locators : cards[l] # "no"}

-----------------------------------------------------------------------------
(* Device history. The direct history merges and never drops an entry; the *)
(* offer history drops what has no transaction hash and is not in memory.  *)

Over(new, old) == [l \in Locators |-> IF new[l] # "no" THEN new[l] ELSE old[l]]

writeDirectHistory(c, next) == saved' = [saved EXCEPT ![c] = Over(next, @)]

writeOfferHistory(next) ==
  saved' = [c \in Chats |-> Over(next, [l \in Locators |->
              IF saved[c][l] = "sent" THEN "sent" ELSE "no"])]

persist(c, next) == CASE surface = "offer"             -> writeOfferHistory(next)
                      [] surface \in {"text", "file"} -> writeDirectHistory(c, next)
                      [] OTHER                         -> UNCHANGED saved

Restore(c, b) == IF draft[c] = NoText THEN [draft EXCEPT ![c] = b] ELSE draft

-----------------------------------------------------------------------------
\* The chats are alike; one of them is on screen first.
DeskInit ==
  /\ surface \in Surfaces
  /\ shown = CHOOSE c \in Chats : TRUE
  /\ draft = [c \in Chats |-> NoText]
  /\ texts = 0
  /\ sends = <<>>
  /\ handed = {} /\ chain = {} /\ indexed = {}
  /\ op = Idle
  /\ cards = Nothing
  /\ saved = [c \in Chats |-> Nothing]
  /\ verified = {}
  /\ pending = [c \in Chats |-> 0]
  /\ blocked = (surface = "text")
  /\ watch = {} /\ alive = {} /\ fetches = {}
  /\ hydrate = FALSE
  /\ reloads = 0
  /\ failed = {}

-----------------------------------------------------------------------------
(* The user.                                                               *)

Type ==
  /\ HasDraft /\ texts < MaxTexts[surface] /\ draft[shown] = NoText
  /\ surface = "text" => op = Idle
  /\ texts' = texts + 1
  /\ draft' = [draft EXCEPT ![shown] = texts + 1]
  /\ UNCHANGED <<surface, handed, alive, shown, sends, chain, indexed, op, cards, saved, verified,
                 pending, blocked, watch, fetches, hydrate, reloads, failed>>

\* Another peer: entries stay in memory, the history of the new pair is read; its
\* session is not ready yet, and what that of the old one does is no longer heard.
\* Another group: everything of the old one is dropped.
SelectChat(c) ==
  /\ PerChat /\ c # shown
  /\ shown' = c
  /\ hydrate' = (surface \in {"text", "file"})
  /\ IF surface = "group"
       THEN cards' = Nothing /\ draft' = [d \in Chats |-> NoText]
       ELSE UNCHANGED <<cards, draft>>
  /\ blocked' = IF surface = "file" THEN blocked ELSE surface = "text"
  /\ IF surface = "text"
       THEN fetches' = {} /\ op' = IF op = Idle THEN Idle ELSE [op EXCEPT !.left = TRUE]
       ELSE UNCHANGED <<fetches, op>>
  /\ UNCHANGED <<surface, handed, alive, texts, sends, chain, indexed, saved, verified,
                 pending, watch, reloads, failed>>

\* The page is loaded again (or the app evicted): memory and tasks are gone,
\* storage and the wallet's requests are not.
ReloadPage ==
  /\ reloads < MaxReloads
  /\ reloads' = reloads + 1
  /\ op' = Idle /\ cards' = Nothing /\ verified' = {} /\ blocked' = (surface = "text")
  /\ watch' = {} /\ alive' = {} /\ fetches' = {}
  /\ draft' = [c \in Chats |-> NoText]
  /\ hydrate' = HasHistory
  /\ UNCHANGED <<surface, handed, shown, texts, sends, chain, indexed, saved, pending,
                 failed>>

HydrateDirect == cards' = Over(cards, saved[shown]) /\ persist(shown, cards')
HydrateOffers == cards' = (IF InMemory = {} THEN saved[shown] ELSE cards) /\ UNCHANGED saved

Hydrate ==
  /\ hydrate
  /\ hydrate' = FALSE
  /\ IF surface = "offer" THEN HydrateOffers ELSE HydrateDirect
  /\ UNCHANGED <<surface, handed, alive, shown, draft, texts, sends, chain, indexed, op, verified,
                 pending, blocked, watch, fetches, reloads, failed>>

-----------------------------------------------------------------------------
(* Sending: guard, preflight, prepared record, wallet.                     *)

\* A message needs words; a group has none unconfirmed, a session is ready.
WordsReady == draft[shown] # NoText /\ ~blocked

\* One operation of a session at a time, its poll included.
SessionFree == surface = "text" => fetches = {}

NewOp(body) ==
  [at |-> "preflight", chat |-> shown, loc |-> 0, body |-> body, left |-> FALSE]

\* A new offer action gives up every recovery of earlier ones.
runOfferAction == watch' = IF surface = "offer" THEN {} ELSE watch

Start ==
  /\ op = Idle /\ SessionFree
  /\ HasDraft => WordsReady
  /\ op' = NewOp(draft[shown])
  /\ runOfferAction
  /\ UNCHANGED <<surface, handed, alive, shown, draft, texts, sends, chain, indexed, cards, saved,
                 verified, pending, blocked, fetches, hydrate, reloads, failed>>

\* "Resume pending action": it has nothing to do with the composer.
ResumePending ==
  /\ surface = "text" /\ op = Idle /\ SessionFree /\ pending[shown] # 0
  /\ op' = NewOp(NoText)
  /\ UNCHANGED <<surface, handed, alive, shown, draft, texts, sends, chain, indexed, cards, saved,
                 verified, pending, blocked, watch, fetches, hydrate, reloads, failed>>

\* What the user is told when a text is not sent; of a resumption only as long as
\* its chat stays on screen. A session that failed is to be synchronized again.
Told == IF op.loc = 0 \/ (op.left /\ op.body = NoText) THEN {} ELSE {op.loc}
TextFails == failed' = failed \union Told /\ blocked' = (blocked \/ ~op.left)

\* A fee quote, a signature, an upload or a configuration check failed; or other
\* words than those of the composer are unfinished.
PreflightFails ==
  /\ op.at = "preflight"
  /\ op' = Idle
  /\ draft' = IF surface = "group" THEN [draft EXCEPT ![shown] = op.body] ELSE draft
  /\ IF surface = "text" THEN TextFails ELSE UNCHANGED <<blocked, failed>>
  /\ UNCHANGED <<surface, handed, alive, shown, texts, sends, chain, indexed, cards, saved, verified,
                 pending, watch, fetches, hydrate, reloads>>

(* onPrepared: the card, its copy on this device, the pending record.      *)

PreparedCard(l) == cards' = [cards EXCEPT ![l] = "prepared"] /\ persist(op.chat, cards')

\* The composer emptied is the one on screen, also when another group is.
sendGroupMessage(l) ==
  /\ PreparedCard(l)
  /\ pending' = [pending EXCEPT ![op.chat] = l] /\ blocked' = TRUE
  /\ draft' = [draft EXCEPT ![shown] = NoText]

sendDirectAttachment(l) == PreparedCard(l) /\ UNCHANGED <<pending, blocked, draft>>

appendPreparedOffer(l) == PreparedCard(l) /\ UNCHANGED <<pending, blocked, draft>>

sendDirectEscrowCoordination(l) == UNCHANGED <<cards, saved, pending, blocked, draft>>

Prepare ==
  /\ op.at = "preflight" /\ surface # "text" /\ Len(sends) < MaxSends
  /\ LET l == Len(sends) + 1 IN
       /\ sends' = Append(sends, [chat |-> op.chat, body |-> op.body])
       /\ op' = [op EXCEPT !.at = "wallet", !.loc = l]
       /\ handed' = handed \union {l}
       /\ alive' = alive \union {l}
       /\ \/ surface = "file"  /\ sendDirectAttachment(l)
          \/ surface = "group" /\ sendGroupMessage(l)
          \/ surface = "offer" /\ appendPreparedOffer(l)
          \/ surface = "coord" /\ sendDirectEscrowCoordination(l)
  /\ UNCHANGED <<surface, shown, texts, chain, indexed, verified, watch, fetches, hydrate,
                 reloads, failed>>

\* A text is encrypted and kept as unfinished; or there is one with these words
\* already (two written texts may have the same), which is taken up again: if the
\* wallet was asked for it, only its proof is looked for.
sendText ==
  /\ surface = "text" /\ op.at = "preflight" /\ op.loc = 0
  /\ IF pending[op.chat] = 0
       THEN LET l == Len(sends) + 1 IN
            /\ Len(sends) < MaxSends /\ op.body # NoText
            /\ sends' = Append(sends, [chat |-> op.chat, body |-> op.body])
            /\ pending' = [pending EXCEPT ![op.chat] = l]
            /\ op' = [op EXCEPT !.loc = l]
       ELSE /\ op' = [op EXCEPT !.loc = pending[op.chat],
                                !.at = IF pending[op.chat] \in handed THEN "confirm" ELSE @]
            /\ UNCHANGED <<sends, pending>>
  /\ UNCHANGED <<surface, handed, alive, shown, draft, texts, chain, indexed, cards, saved,
                 verified, blocked, watch, fetches, hydrate, reloads, failed>>

\* The locator of its frame is kept before the wallet is asked.
PrepareFrame ==
  /\ surface = "text" /\ op.at = "preflight" /\ op.loc # 0
  /\ op' = [op EXCEPT !.at = "wallet"]
  /\ handed' = handed \union {op.loc}
  /\ UNCHANGED <<surface, alive, shown, draft, texts, sends, chain, indexed, cards, saved,
                 verified, pending, blocked, watch, fetches, hydrate, reloads, failed>>

\* The user, in the wallet: at any time, also long after the client gave up
\* or was told of a refusal. The helper contract stores a locator once.
Approve(l) ==
  /\ l \in handed \ chain
  /\ chain' = chain \union {l}
  /\ UNCHANGED <<surface, handed, alive, shown, draft, texts, sends, indexed, op, cards, saved, verified,
                 pending, blocked, watch, fetches, hydrate, reloads, failed>>

Index(l) ==
  /\ l \in chain \ indexed
  /\ indexed' = indexed \union {l}
  /\ UNCHANGED <<surface, handed, alive, shown, draft, texts, sends, chain, op, cards, saved, verified,
                 pending, blocked, watch, fetches, hydrate, reloads, failed>>

-----------------------------------------------------------------------------
(* The wallet's answer to the foreground send. "ok" is true; a refusal may *)
(* be reported for a request that was submitted; an error tells nothing.   *)

MarkSent(l) == [cards EXCEPT ![l] = IF @ = "no" THEN "no" ELSE "sent"]
Drop(l)     == [cards EXCEPT ![l] = "no"]
DropUnsent(l) == [cards EXCEPT ![l] = IF @ = "sent" THEN "sent" ELSE "no"]

Answers(l) == {"refused", "unclear"} \union IF l \in chain THEN {"ok"} ELSE {}

Waiting == op.at = "wallet"

\* Text: an error ends the send, and the text stays unfinished; otherwise its
\* transaction is waited for.
AnswerText ==
  /\ surface = "text" /\ Waiting
  /\ \E a \in Answers(op.loc) :
       IF a = "ok"
         THEN op' = [op EXCEPT !.at = "confirm"] /\ UNCHANGED <<failed, blocked>>
         ELSE op' = Idle /\ TextFails
  /\ UNCHANGED <<cards, saved, pending, watch>>

\* Attachment: sendMessage has replaced the wallet's text, so the branch for
\* USER_REFUSED is never taken and every error removes the card.
AnswerFile ==
  /\ surface = "file" /\ Waiting
  /\ \E a \in Answers(op.loc) :
       IF a = "ok"
         THEN /\ cards' = MarkSent(op.loc)
              /\ persist(op.chat, cards')
              /\ UNCHANGED failed
         ELSE /\ cards' = Drop(op.loc)
              /\ failed' = failed \union {op.loc}
              /\ UNCHANGED saved
  /\ op' = Idle
  /\ UNCHANGED <<watch, blocked, pending>>

\* Group message: an error leaves it to the pending record.
AnswerGroup ==
  /\ surface = "group" /\ Waiting
  /\ \E a \in Answers(op.loc) :
       IF a = "ok"
         THEN /\ pending' = [pending EXCEPT ![op.chat] = 0]
              /\ blocked' = FALSE
              /\ cards' = MarkSent(op.loc)
         ELSE UNCHANGED <<pending, blocked, cards>>
  /\ op' = Idle
  /\ UNCHANGED <<watch, saved, failed>>

\* Offer: a refusal discards the card, anything unclear starts the recovery.
AnswerOffer ==
  /\ surface = "offer" /\ Waiting
  /\ \E a \in Answers(op.loc) :
       CASE a = "ok"      -> /\ cards' = [cards EXCEPT ![op.loc] = "sent"]
                             /\ persist(op.chat, cards')
                             /\ UNCHANGED <<watch, failed>>
         [] a = "refused" -> /\ cards' = DropUnsent(op.loc)
                             /\ persist(op.chat, cards')
                             /\ failed' = failed \union {op.loc}
                             /\ UNCHANGED watch
         [] a = "unclear" -> /\ watch' = {op.loc}
                             /\ UNCHANGED <<cards, saved, failed>>
  /\ op' = Idle
  /\ UNCHANGED <<blocked, pending>>

\* Coordination: a refusal ends it at once, anything else waits for discovery.
AnswerCoord ==
  /\ surface = "coord" /\ Waiting
  /\ \E a \in Answers(op.loc) :
       IF a = "refused"
         THEN op' = Idle /\ failed' = failed \union {op.loc}
         ELSE op' = [op EXCEPT !.at = "confirm"] /\ UNCHANGED failed
  /\ UNCHANGED <<cards, saved, watch, blocked, pending>>

Answer ==
  /\ AnswerText \/ AnswerFile \/ AnswerGroup \/ AnswerOffer \/ AnswerCoord
  /\ alive' = alive \ {op.loc}
  /\ UNCHANGED <<surface, handed, shown, draft, texts, sends, chain, indexed, verified,
                 fetches, hydrate, reloads>>

Bug_CallbackTimeout ==                   \* a coordination waits for its wallet
  /\ \/ surface = "text" /\ op.at \in {"wallet", "confirm"} /\ TextFails /\ UNCHANGED watch
     \/ surface = "offer" /\ Waiting /\ watch' = {op.loc} /\ UNCHANGED <<failed, blocked>>
  /\ op' = Idle
  /\ UNCHANGED <<surface, handed, alive, shown, draft, texts, sends, chain, indexed, cards, saved,
                 verified, pending, fetches, hydrate, reloads>>

\* Time is up: 20 looks for the proof of a text, 25 s for the callback of an offer,
\* 45 s in all for a coordination.
CallbackTimeout ==
  /\ \/ surface = "text" /\ op.at \in {"wallet", "confirm"} /\ TextFails /\ UNCHANGED watch
     \/ surface = "offer" /\ Waiting /\ watch' = {op.loc} /\ UNCHANGED <<failed, blocked>>
     \/ surface = "coord" /\ op.at \in {"wallet", "confirm"}
        /\ failed' = failed \union {op.loc} /\ UNCHANGED <<watch, blocked>>
  /\ op' = Idle
  /\ UNCHANGED <<surface, handed, alive, shown, draft, texts, sends, chain, indexed, cards, saved,
                 verified, pending, fetches, hydrate, reloads>>

\* The exact locator was discovered while the coordination waited.
CoordConfirmed ==
  /\ surface = "coord" /\ op.at \in {"wallet", "confirm"} /\ op.loc \in indexed
  /\ op' = Idle
  /\ cards' = [cards EXCEPT ![op.loc] = "sent"]
  /\ UNCHANGED <<surface, handed, alive, shown, draft, texts, sends, chain, indexed, saved, verified,
                 pending, blocked, watch, fetches, hydrate, reloads, failed>>

\* An offer's wallet promise resolves after the race was lost.
LateOffer(l) ==
  /\ surface = "offer" /\ l \in alive \intersect chain
  /\ ~(Waiting /\ op.loc = l)
  /\ alive' = alive \ {l}
  /\ cards' = [cards EXCEPT ![l] = "sent"]
  /\ persist(Chat(l), cards')
  /\ UNCHANGED <<surface, handed, shown, draft, texts, sends, chain, indexed, op, verified,
                 pending, blocked, watch, fetches, hydrate, reloads, failed>>

-----------------------------------------------------------------------------
(* Discovery. A refresh asks for every record and merges what it can       *)
(* decrypt, after whatever happened in between; it may fail.                *)

\* The poll of a session waits for the operation in the foreground.
SessionIdle == surface = "text" => IF op = Idle THEN TRUE ELSE op.left

Fetch ==
  /\ fetches = {}
  /\ SessionIdle
  /\ fetches' = {shown}
  /\ UNCHANGED <<surface, handed, alive, shown, draft, texts, sends, chain, indexed, op, cards,
                 saved, verified, pending, blocked, watch, hydrate, reloads, failed>>

FetchFails ==
  /\ fetches # {}
  /\ fetches' = {}
  /\ blocked' = (blocked \/ surface = "text")
  /\ UNCHANGED <<surface, handed, alive, shown, draft, texts, sends, chain, indexed, op, cards,
                 saved, verified, pending, watch, hydrate, reloads, failed>>

discoverMessages(c) == {l \in indexed : Chat(l) = c}

Bug_MergeFound(c, found) ==             \* only cards still there are updated
  /\ cards' = [l \in Locators |-> IF l \in found /\ cards[l] # "no" THEN "sent" ELSE cards[l]]
  /\ persist(c, cards')

MergeFound(c, found) ==
  /\ cards' = [l \in Locators |-> IF l \in found THEN "sent" ELSE cards[l]]
  /\ persist(c, cards')

\* The inbox of the session: the texts it has finished.
MlsInbox(c) == {l \in Prepared : Chat(l) = c /\ pending[c] # l}

refreshMls(c) ==
  surface = "text" /\ MergeFound(c, MlsInbox(c)) /\ blocked' = FALSE /\ UNCHANGED verified

refreshDirect(c) ==
  /\ surface = "file" /\ MergeFound(c, discoverMessages(c))
  /\ UNCHANGED <<verified, blocked>>

\* The entries are those of the hook: an answer that comes after another group
\* was opened is merged into the entries of that one.
refreshGroup(c) ==
  /\ surface = "group" /\ MergeFound(c, discoverMessages(c))
  /\ UNCHANGED <<verified, blocked>>

\* discoverOfferActions: every offer of the room, whoever the peer is.
handleOfferRefresh(c) ==
  /\ surface = "offer" /\ MergeFound(c, indexed)
  /\ verified' = indexed /\ UNCHANGED blocked

refreshEscrowActions(c) ==
  surface = "coord" /\ MergeFound(c, indexed) /\ UNCHANGED <<verified, blocked>>

Merge(c) ==
  /\ fetches' = fetches \ {c}
  /\ \/ refreshMls(c) \/ refreshDirect(c) \/ refreshGroup(c)
     \/ handleOfferRefresh(c) \/ refreshEscrowActions(c)
  /\ UNCHANGED <<surface, handed, alive, shown, draft, texts, sends, chain, indexed, op,
                 pending, watch, hydrate, reloads, failed>>

\* The words of the composer are sent: those of the chat they were written in.
Bug_sendDirectMessage == draft
sendDirectMessage == IF op.body = NoText THEN draft ELSE [draft EXCEPT ![op.chat] = NoText]

\* The transaction of a text was seen, and the text is finished. What follows
\* shows it, unless another chat was opened or the inbox could not be read: then
\* an error is shown instead, and the composer keeps its words.
ProofFound ==
  /\ surface = "text" /\ op.at \in {"wallet", "confirm"} /\ op.loc \in indexed
  /\ pending' = [pending EXCEPT ![op.chat] = 0]
  /\ op' = Idle
  /\ \/ /\ ~op.left
        /\ MergeFound(op.chat, MlsInbox(op.chat) \union {op.loc})
        /\ draft' = sendDirectMessage
        /\ blocked' = FALSE /\ UNCHANGED failed
     \/ /\ ~op.left
        /\ IF op.body = NoText THEN UNCHANGED <<cards, saved>> ELSE MergeFound(op.chat, {op.loc})
        /\ TextFails /\ UNCHANGED draft
     \/ op.left /\ TextFails /\ UNCHANGED <<cards, saved, draft>>
  /\ UNCHANGED <<surface, handed, alive, shown, texts, sends, chain, indexed, verified,
                 watch, fetches, hydrate, reloads>>

-----------------------------------------------------------------------------
(* Reconciliation in the background.                                       *)

\* Of an offer whose callback was late or unclear: its locator was discovered.
WatchFinds(l) ==
  /\ l \in watch \intersect verified
  /\ watch' = watch \ {l}
  /\ UNCHANGED <<surface, handed, alive, shown, draft, texts, sends, chain, indexed, op, cards,
                 saved, verified, pending, blocked, fetches, hydrate, reloads, failed>>

\* Eight attempts, those that failed included.
recoverDelayedOffer(l) ==
  /\ surface = "offer" /\ l \in watch
  /\ watch' = watch \ {l}
  /\ cards' = DropUnsent(l) /\ persist(Chat(l), cards')
  /\ failed' = failed \union {l}
  /\ UNCHANGED <<surface, handed, alive, shown, draft, texts, sends, chain, indexed, op,
                 verified, pending, blocked, fetches, hydrate, reloads>>

-----------------------------------------------------------------------------
(* checkPending, every two seconds, for the group on screen.               *)

PendingGone ==
  /\ surface = "group" /\ pending[shown] = 0 /\ blocked
  /\ blocked' = FALSE
  /\ UNCHANGED <<surface, handed, alive, shown, draft, texts, sends, chain, indexed, op, cards,
                 saved, verified, pending, watch, fetches, hydrate, reloads, failed>>

PendingHeld ==
  /\ surface = "group" /\ pending[shown] # 0 /\ ~blocked
  /\ blocked' = TRUE
  /\ UNCHANGED <<surface, handed, alive, shown, draft, texts, sends, chain, indexed, op, cards,
                 saved, verified, pending, watch, fetches, hydrate, reloads, failed>>

PendingFound ==
  /\ surface = "group" /\ pending[shown] # 0 /\ cards[pending[shown]] = "sent"
  /\ pending' = [pending EXCEPT ![shown] = 0]
  /\ blocked' = FALSE
  /\ UNCHANGED <<surface, handed, alive, shown, draft, texts, sends, chain, indexed, op, cards,
                 saved, verified, watch, fetches, hydrate, reloads, failed>>

\* 60 s; its words were kept in memory only, and only while its group was shown.
GroupTooOld(l) == draft' = IF cards[l] # "no" THEN Restore(shown, Body(l)) ELSE draft

Bug_PendingExpires ==                    \* the record stays
  /\ surface = "group" /\ pending[shown] # 0
  /\ LET l == pending[shown] IN
       /\ cards[l] # "sent"
       /\ GroupTooOld(l)
       /\ cards' = Drop(l)
       /\ failed' = failed \union {l}
  /\ UNCHANGED <<surface, handed, alive, shown, texts, sends, chain, indexed, op, saved, pending, blocked,
                 verified, watch, fetches, hydrate, reloads>>

PendingExpires ==
  /\ surface = "group" /\ pending[shown] # 0
  /\ LET l == pending[shown] IN
       /\ cards[l] # "sent"
       /\ GroupTooOld(l)
       /\ pending' = [pending EXCEPT ![shown] = 0] /\ blocked' = FALSE
       /\ cards' = Drop(l)
       /\ failed' = failed \union {l}
  /\ UNCHANGED <<surface, handed, alive, shown, texts, sends, chain, indexed, op, saved,
                 verified, watch, fetches, hydrate, reloads>>

-----------------------------------------------------------------------------
User     == Type \/ (\E c \in Chats : SelectChat(c)) \/ ReloadPage \/ Start \/ ResumePending
Wallet   == \E l \in Prepared : Approve(l)
Preflight == PreflightFails \/ Prepare \/ sendText \/ PrepareFrame
Client   == \/ Hydrate \/ Preflight \/ Answer \/ CallbackTimeout
            \/ ProofFound \/ CoordConfirmed
            \/ \E l \in Prepared : LateOffer(l)
Discovery == Fetch \/ FetchFails \/ \E c \in fetches : Merge(c)
Reconcile == \E l \in Prepared : WatchFinds(l) \/ recoverDelayedOffer(l)
CheckPending == PendingGone \/ PendingHeld \/ PendingFound \/ PendingExpires

DeskNext == \/ User \/ Wallet \/ Client \/ Discovery \/ Reconcile \/ CheckPending
        \/ \E l \in Prepared : Index(l)

(* Fairness: the indexer stores what is on chain; the polls run, also when *)
(* the user keeps the session busy with one operation after another, and not *)
(* every poll fails; timers fire. A record is stored, and a task ends, once: the *)
(* fairness of all of them is that of each. Nothing is assumed of the user, *)
(* nor of the wallet's prompts: a preflight need not end. The session of a *)
(* text asks the wallet for its chain, without a prompt, before it polls or *)
(* sends; that it answers is assumed.                                      *)
DeskFairness ==
  /\ WF_deskVars(\E l \in Prepared : Index(l))
  /\ SF_deskVars(Fetch) /\ SF_deskVars(\E c \in fetches : Merge(c))
  /\ WF_deskVars(Hydrate)
  /\ WF_deskVars(surface = "text" /\ Preflight)
  /\ WF_deskVars(CallbackTimeout)
  /\ WF_deskVars(Reconcile)
  /\ WF_deskVars(PendingGone) /\ WF_deskVars(PendingFound \/ PendingExpires)

DeskSpec == DeskInit /\ [][DeskNext]_deskVars /\ DeskFairness

-----------------------------------------------------------------------------
(* Properties.                                                             *)

\* What is on chain is shown as sent while its chat is on screen, or, if a text, as
\* unfinished, whatever the wallet answered, the client gave up on, or a reload
\* forgot (refresh of useStarknetDirectMls, refreshDirect, refreshGroup,
\* handleOfferRefresh). The chain keeps a record, so it is to be shown again and again.
InView(l) == PerChat => l \in Prepared /\ shown = Chat(l)
Unfinished(l) == surface = "text" /\ pending[Chat(l)] = l
PostedIsShown ==
  \A l \in Locators : []<>(l \in chain /\ InView(l) => cards[l] = "sent" \/ Unfinished(l))

\* Once the wallet was asked, the page is not kept busy by one that never answers
\* (useRoomEscrow.ts:596, the callback timeout of offers, the looks for the proof
\* of a text).
NeverStuck == []<>(surface \in {"text", "offer", "coord"} => op.at \notin {"wallet", "confirm"})

\* "Your previous message is still being confirmed" ends while the group stays on
\* screen: the pending record is found or grows too old. A session that an error
\* closed is ready again.
SendingReopens ==
  \A c \in Chats : []<>(op = Idle /\ shown = c => ~blocked)

\* The same written text makes a second record only after the user was told that
\* the earlier attempt had failed (sendDirectMessage, sendGroupMessage).
PreparedTwice(k, l) == k < l /\ Body(k) = Body(l) /\ Body(l) # NoText
ResentOnlyAfterFailure ==
  \A k, l \in Prepared : PreparedTwice(k, l) => k \in failed

=============================================================================
