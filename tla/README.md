# VINSS: formal models, checks and proofs

VINSS is a private deal room on Starknet. Two parties talk end to end encrypted,
agree on an offer, lock a principal in a custody ("Rekber"), and release, refund
or dispute it. The contracts are in `src/contracts` (Cairo), a backend that
indexes the chain and judges disputes in `src/backend` (TypeScript), and the client
that holds every secret in `src/frontend`.

This directory holds TLA+ modules that model the parts of VINSS where order,
failure and concurrency decide whether money and messages arrive, the TLC
configurations that check them on small instances, and TLAPS proofs of the main
results for every value of the constants. `PROJECT.json` is the index: components,
runs, the code lines each definition stands for, hazards and theorems.

    tlc -config EscrowRekberLifecycle.cfg MCEscrowRekber.tla
    tlapm EscrowRekberProofs.tla

In every module an operator named `Bug_...` is a faulty variant of a definition
below it, used only to see that a property notices it.

## 1. Inventory

| Component | State | Operations | What is hard | What makes it correct |
|---|---|---|---|---|
| Rekber custody contract (`contracts/src/escrow_rekber`) | a record per custody, a reserve per token, an allowance to the pool | deposit, submit, confirm, revise, dispute, authorize, claim, release, refund, auto-release, mutual refund | deadlines that end one party's right and begin the other's; hash chains for rounds; several calls in one pool transaction | every principal is paid once, to whom it is due; nobody settles alone before the timeout that protects the other; no state is stuck |
| Public rail (`contracts/src/public_rail`) | bound accounts, last message, consumed invites | the same calls for ordinary accounts, each payout drawn and passed on | role and amount computed before the helper is called; multicalls | the bound account gets what the helper decided |
| Settlement certificates | one ERC721 per role | claim | a certificate is for ever, a custody is not | only for a settlement that stayed clean |
| Invite contract, envelope helpers | write-once records | create, consume, post | one commitment, many holders of the link | consumed once; a stored locator is never replaced |
| Dispute desk (`backend/src/routes/dispute.ts`, `dispute/`) | attestation rows, one evaluation row per case with a lease, the resolver's transactions | attest, evaluate, manual resolution | an await at every line; replicas; crashed holders of a lease; lost answers; transactions that revert | one decision per case, executed only with both signatures and the policy |
| Block indexers (`backend/src/indexer`) | records, a checkpoint per stream | poll, scan, hydrate, insert, advance | two processes on one checkpoint; failure between any two calls | no event is passed over |
| Activity feed (`backend/src/routes/activity.ts`) | a cursor at the client | three queries and a merge | items stored while paging; cursor ties | nothing twice |
| OpenMLS direct chat (`frontend/lib/openmls-core`) | a checkpoint per device (ratchet, inbox, unfinished packet), copies in tabs | publish key, invite, join, send, resume, receive | tabs on one ratchet; crashes; prompts answered late; two rails | no secret or frame twice; one group; no text lost |
| Room hooks (`hooks/room/useDirectConversation`, `useGroupConversation`, `useRoomOffers`, `useRoomEscrow`) | cards in memory, a history per chat, a pending record | send, discover, reconcile, hydrate | a wallet that is late, silent or reports a refusal of what it submitted; reloads; a chat switched under a poll | what reached the chain is shown; nothing is sent again unless it was reported failed; the composer reopens |
| Offers (`lib/deal-room/offers`, `offerLifecycle`) | signed records on chain; cards and their authentication on each device | offer, counter, accept, reject, discover | two rails, polls that straddle a change of mode, records posted by other programs | an acceptance shown as verified carries what the other signed |
| Settlement panel (`components/room/escrow/EscrowPanel.tsx`, `lib/deal-room/settlement`, `rekberSecrets`) | capabilities on the device, signed payloads not yet sent, the panel's lock | setup, accept, fund, submit, review, release, claim, refund | two taps with anything in between; closed panels; late approvals | the device never loses what the chain commits to; a late callback unlocks nothing newer |
| Dispute review (`hooks/room/useDisputeAgentReview`, `useRekberProtectionActions`) | reasons, packets and consents in a log; a challenge, a signature, a result | confirm, dispute, share, sign, evaluate, claim, refund together | answers to earlier requests; a counterparty that runs any client | what is signed or called fits the log; a failed evaluation is retried |
| Invitations (`hooks/room/useRoomInvitation`, `app/invite/[token]/page.tsx`) | a link per chat and group on the inviter's device; rooms on the guest's | create, check, share, consume, join | late wallets; panels that change scope; forwarded links | a ready link exists; a used one is retired; no invite takes access away |
| Fee policies, presence, attachments, rate limiter, agent, loyalty, feedback, wallets, cryptography, layout, deployment | | | | not modelled, see section 6 |

How they interact. The client calls the custody contract through Starknet's
privacy pool ("Shield") or through the public rail ("Unshield"). Pool and rail
collect what the contract approves. The indexers read the contracts' events; the
feed and the read routes serve what the indexers stored. The dispute desk reads the
custody contract and is its dispute resolver. Messages, offers, Rekber coordination
and the chat's frames are records of the envelope helpers, posted over either rail
and discovered through the backend. The capabilities that move a custody exist only
on the devices.

## 2. Modules

| Module | Models | Extends / composes |
|---|---|---|
| `EscrowRekber` | the custody contract, and the pool drawing its allowance | |
| `CustodyPromise` | what a custody promises: divided once, each share delivered once | implemented by `EscrowRekber` |
| `PublicRail` | the rail and the certificates over a custody contract of their own | composes `EscrowRekber` |
| `DisputeDesk` | evaluate handler, attestations, executor, operator's command, chain | |
| `DisputeReview` | one party's device in a dispute, the shared log, the desk's checks | the client side of `DisputeDesk` |
| `RekberDeal` | both parties' panels from accepted offer to settled custody | the client side of `EscrowRekber` |
| `OfferThread` | both parties' negotiation | ends where `RekberDeal` begins |
| `RoomDesk` | one device's sending and finding of records, five surfaces | |
| `RoomInvite` | inviter, contract, rail and guests of an invitation | |
| `MlsChat` | two devices, their sessions, the rails | |
| `Indexer` | the three indexers' loop | |
| `ActivityFeed` | one client's walk | |
| `EscrowRekberProofs` | theorems about `EscrowRekber`, its refinement of `CustodyPromise`, and `PublicRail` | |
| `IndexerProofs` | theorems about `Indexer` and `ActivityFeed`: the tables' writers and their reader | |
| `DeviceProofs` | theorems about `RoomDesk` and `DisputeReview`: one party's device | |
| `DisputeDeskProofs`, `RekberDealProofs`, `OfferThreadProofs`, `RoomInviteProofs`, `MlsChatProofs` | theorems about the module of that name | |
| `MC...` | constants and symmetry for TLC | |

### EscrowRekber

State: `custodies` is the storage map of records, field by field under the names of
`types.cairo`; `reserved_by_token` and `balance` are the contract's reserve and ERC20
balance; `open_note` is the approved and not yet drawn `OpenNoteDeposit`; `paid` is a
history of what the pool drew; `consents` a history of whose secrets settled a
custody. Actions carry the names of the entry points. Each consists of a `Can...`
guard (the asserts, in one conjunction) and the effect of the whole handler.

A secret is abstracted to the party that holds it (`signers` is who contributed to
the calldata), a hash chain to the position of its head: a preimage moves the
position down by one, which is all that the contract compares. The pool may draw an
allowance long after the call, and other calls may come in between; that is what
`approve_exact` guards against. Amounts are bounded by `MAX_U128`, the width of the
reserve counter.

### PublicRail

Extends `EscrowRekber`, whose pool it plays. A transaction of an account
(`BeginTx`, `EndTx`) holds any number of calls. `ActCustody` reads the record,
computes role and amount, and performs the helper's step; `Drain` is the check of the
outputs, the draw and the transfer. An account may hold both parties' secrets. The
resolver and the verifier reach the contract outside the rail.

### DisputeDesk

A request is one run of the evaluate handler, and every `await` a step boundary.
`work` holds where it is and what it has read; `evaluations` are the rows of
`dispute/store.ts`, with the lease; `attested` the rows of
`dispute/attestationStore.ts`; `chain` what Rekber says of a custody; `tx` the
resolver's transaction. A submission may throw and yet be included, an answer of the
database may be lost after it took effect, a process may die anywhere. The model's
answer is any of a few decisions: sound or not, weak or not, identity uncertain or
not.

### DisputeReview

One party's device; the other, `peer`, may run any client, so its records are whatever
the log, the contract and the desk accept. That a record carries the pair's key shows
only that one of the two wrote it, and its sender is the address it names: the peer
posts reasons and packets under either name. A consent counts if its secret opens the
custody's commitment, which the payee has, and the payer once a consent told it. `log`
has the records of each kind and name in the order in which they were indexed,
`device.sending` and `outbox` what is still with a wallet, `device.view` and
`device.seen` what the device last read of custody and log: it acts on that, not on the
present. A scenario fixes whose device it is and what was agreed. The desk is
reduced to what it checks of a challenge, a signature or a request, and to answers
that may be failures.

### RekberDeal

Both panels, each with its custody, capabilities (`mine`), signed payload (`pend`) and
lock (`act`, and the page's `busy`); `ops` are handlers that wait, marked `gone` or
`holds` when their panel is closed; `stored` and `unsent` the device; `prompts` what
the wallets hold; `creates`, `accepts`, `releases` and `esc` the chain. Signing and
sending are two taps, and everything else may happen between them. Capabilities are
numbered by the signature they were made for. The two work handlers of the chat are
`ops` too: they take the page's `busy` after a wait, without looking at it again, and
clear it when they end, whoever set it; the history variable `crossed` notes that one
took it from another handler.

### OfferThread

`chain` is the set of published records with parent, root, terms and author; each
device has `cards`, their authentication (`flag`) and the routes it knows. A poll
carries the rail on which it began. `validOfferLifecycle` is the fold of
`offerLifecycle.ts`, over all cards at once, as the least set closed under its
rule. A discovery may miss any of the records of its rail, several may be under way,
and an action that lost its race against the callback timeout may append its card
later. Deviants post records under their own signature or under none.

### RoomDesk

A record is a locator, fresh for every attempt. `cards` are the entries in memory,
`saved` the history of each chat, `pending` its pending record, `watch` the locators a
recovery looks for, `alive` wallet promises that may still resolve. A behaviour is
about one of the five surfaces; their answers to a wallet differ, and so do the
actions (`AnswerText`, `AnswerFile`, `AnswerGroup`, `AnswerOffer`, `AnswerCoord`).

A text goes through the OpenMLS session: `requiresMls` is true wherever
`sendDirectMessage` asks it. Here the session is ready or not (`blocked`), does one
operation at a time, and keeps an encrypted text in its checkpoint (`pending`) until
its transaction is seen, so that sending again, or "Resume pending action", takes it
up. The composer is emptied only when the send succeeds. If the transaction is seen and
the inbox cannot be read, or another chat was opened, an error is shown and the words
stay: sending them again makes a second record. `MlsChat` has the session's inside.

### RoomInvite

`entry` and `consumer` are the chain; `ui` and `saved` the link each scope of the
inviter's panel shows and each slot of her device keeps, which are not the same when
groups are switched; `watch` is the rail on which its check looks, that of the mode
when its effect last ran; `offers` her wallet's open requests. Both sides may change
their mode. A guest's `page` reads,
asks, hands over or waits; `recovery` is its note of having tried, which on the
shielded rail is all that tells its own consumption from another's.

### Indexer, ActivityFeed, MlsChat

*Indexer*: an instance is one indexer object in one process; several run on the same
rows. Each call of the node or the database is a step and may fail. `Broken` streams
hold a record the node's answer never fits. *ActivityFeed*: `Key` is the triple a
cursor compares. Each table answers its query in a step of its own, while the indexers
go on storing, in blocks the walk has passed too. Tables are empty at the start and
everything may be stored before the walk begins, so a walk meets every mixture.

*MlsChat*: `disk` is the checkpoint of each device, `mem` the copy of each session (a
tab, or a controller that a switch of peer or rail left running), `synced` the sessions
whose copy has the checkpoint's revision. A local change and its save are one step: the
compare-and-swap of `putCheckpoint` decides between save and error, and every error
discards the copy. `prompts` are what the wallets hold. A discovery returns the frames
of a non-empty set of rails, since `readVerifiedMlsFrames` goes on when one fails.
Decryption is modelled by which secrets the ratchet has passed.

## 3. Runs

All bounds are named constants of the configurations.

| Run | Instance | Shows |
|---|---|---|
| `escrow_lifecycle` | one custody, three policies, three rounds, two revisions, time to 9 | who may settle when; solvency; no dead end; disputes freeze; liveness; the promise is implemented |
| `public_rail` | three accounts, one custody | payouts, roles, fees and certificates |
| `dispute_one_case` | two requests and an operator on one case | one decision, consent, every request ends |
| `dispute_review` | payer or payee, two works, two packets under a name, one peer that writes under both | signatures, reasons and calls fit the log; a failed evaluation is retried |
| `deal` | two custodies, two acceptances (one under `submission_review`), each panel opened twice, two requests open at once, one work handler at a time, two rounds, one revision, both policies | capabilities are kept; locks are held |
| `negotiation` | two deviant parties, two rails, two sets of terms, three records, one disturbance | acceptances carry signed terms and stay |
| `room_desk` | five surfaces, two chats, two sends, a reload | shown, not repeated, not stuck |
| `invite` | one guest, both rails, a chat and two groups, two links | ready links exist, used ones go while the panel looks on their rail, chat access stays |
| `indexer` | two instances, two streams (one broken), two blocks, one failure | no gap, truthful status, everything stored |
| `feed_walk` | five items in three tables, pages of two | nothing twice |
| `mls_tabs` | two sessions of the inviter, one of the joiner | no frame or secret twice, one group, nothing lost |
| `mls_rails` | the inviter switches rails, two texts, a Welcome of two frames | joining and delivery |

Why the bounds are enough to be interesting. *Escrow*: time reaches past every
sequence of deadlines (window 2 + three rounds of review 2), three rounds and two
revisions are the smallest numbers in which a round is left and a revision is not, and
the reverse. *Rail*: the third account is a stranger. *Desk*: two requests make every
race for the lease; time to 1 with a lease of 0 covers one that expires under its
holder. *Review*: two works are a revision, two packets of a side are an answer that
replaces another. *Deal*: two custodies are a second setup after a reload, two
acceptances one that the device refuses; two open requests are a late one and a new
one. *Negotiation*: three records are an offer, a counter and its acceptance, the
acceptance perhaps one posted past the app (an offer or a counter posted past it,
which the configuration leaves out, is covered by the theorems alone); a disturbance is
a change of mode, a reload, a partial discovery, a record found that the app did not
send, or an overlong action. *Desk of a room*: two sends are a message and its retry, two
chats a switch. *Invite*: two links are an old and a remade one. *Indexer*: two blocks
and a range of two let one instance scan a shorter range than the other, and let the
checkpoint be written back behind it. *Feed*: five items over three tables make a page
end inside each. *Chat*: two tabs make every race for the checkpoint; a tolerance of 1
makes one overtaken text too late, where OpenMLS keeps a few more. Where a
theorem exists the bound is no limit of the result.

Deadlock is checked except where the system may stop: a custody that is settled, a
feed that has been read, a user who does nothing more. Symmetry is used only in runs
without liveness.

### Fairness

- *Custody*: the protected party makes the call its timeout opens, the resolver
  decides and the parties claim, the pool collects, time passes. Nothing is assumed of
  the silent counterparty, which is what the liveness properties are about.
- *Desk*: a request whose process lives goes on; the sequencer includes what it
  accepted. Time need not pass: a request must not depend on a lease expiring.
- *Review*: the page's poll and its automatic evaluation run, and an evaluation that is
  asked for again and again is answered in the end. Nothing is assumed of wallets, the
  user or the peer.
- *Room*: the page's timers run, the indexer indexes, and of the polls of a chat some
  succeed while it is on screen. No answer to a wallet's prompt is assumed, which is
  what `NeverStuck` and `SendingReopens` are about. Nor need a preflight end: an offer
  asks for a signature before the callback timer is set, so `NeverStuck` is about a
  wallet that was asked for the transaction (section 5). The session of a text asks the
  wallet for its chain, without a prompt; that it answers is assumed.
- *Invite*: the panel's check of its links runs while the page is open, on the rail of
  the mode its effect started with; `UsedLinkRetired` excepts a link of the other rail.
- *Indexer*: the platform restarts a process, the loop goes on; the number of failing
  calls is finite.
- *Chat*: an operation ends, the page reloads its state after an error, and the poll of
  `useStarknetDirectMls` (7.5 s) finds the session idle and all rails answering again
  and again. No user action and no wallet answer is assumed.

## 4. Proofs

tlapm checks every leaf; nothing is assumed but the named assumptions on constants.
`IInv` is the inductive invariant of the module's first component and `Invariance` its
theorem; where a module is about two, the second has one under a name of its own.

**EscrowRekberProofs.** For any sets of custodies, tokens and evidence, any plans and
limits. `IInv` is needed because none of the properties is inductive alone: `Solvent`
needs to know that a token has at most one open note and whose it is (`NotesBelong`);
exact payment needs that a share is not paid twice (`PaidOnce`) and that authorized
shares add up to the principal (`Lifecycle`, through `Coherent`); the round counters
bound the hash-chain positions there as well. From `IInv` follow type correctness,
solvency, exact payment, `SettledByRight`, `TimeoutsExclusive`, `NoDeadEnd`,
`RevisionsAnswerable`, `SecretsInStep`, and with one look at each action the step
properties `DisputeFreezes` and `ResolutionFinal`. The refinement is `PromiseKept`:
under the mapping that hides reserves, notes, policies and clocks, each step of the
contract is a step of `CustodyPromise` or a stutter. Deposits map to `Fund`,
settlements and the resolver's authorization to `Divide`, collections to `Deliver`.

The same module proves the rail. `RailUsesEscrow`: a behaviour of the rail is one of
`EscrowRekber`, so that everything above carries over. `HandedRightly` and
`DrainsNeverFail` rest on the invariant that the helper's open note is the one the
rail's pending call owes; `EveryActionPaid` and `CertificatesAreClean` on small
invariants of their own.

**DisputeDeskProofs.** For any requests, operators, cases, custodies, answers, lease
and clock. A request that evaluates inside its lease holds the row (`Live`, in
`Rightful`), and one that acts has the complete row it acts on; no complete row is
written again. For the chain the invariant follows a split backwards: a granted custody
names a worker whose transaction succeeded, a worker with a transaction has a mandate,
and a mandate is a complete row of a case both parties signed. From it `Converge`
(`ActsOnPersisted`), `NoReroll` (`FirstDecisionStands`), `Consent`
(`ResolvedWithConsent`) and `OneHolder`.

**IndexerProofs.** For any instances, streams, ranges and failures. What an instance
carries from one call to the next stays true while others write the row it read
(`Carried`): its range starts where everything before is stored, and what it has not
inserted is in its batch. From it `NothingLost` (`NoGap`) and `CaughtUpHolds`
(`CaughtUpIsTrue`).

For the feed, with any tables, kinds, items, keys and page size (`FeedInv`): the cursor
parts what was shown from what is owed (`Parted`), and an item owed to the page under
way has a table that has not answered, or is among the answers, or is outdone by a full
page of newer ones (`Owed`). The last case needs that a page of each table, cut at its
limit and merged, is a page of all (`PageSize`, `PageOutdoes`). `WalkShowsOnce`
(`ShownOnce`) has the hypothesis `Distinct`: no two items the walk may show are at one
position. It cannot be dropped for the global feed, where two events of one custody in
one transaction have one cursor and the second is skipped when a page ends between them
(section 5). `KindShownOnce` has no such hypothesis: for a walk that asks for one kind
it follows from the table's primary key.

**RekberDealProofs.** For any number of custodies, signatures, openings, requests and
rounds. Every place where a signed payload can wait (panel, handler, wallet, chain) is
backed by the device, because a payload is stored before it leaves the panel and what
is stored is never replaced (`Grows`). From it `CapabilitiesSurvive`
(`CapabilitiesKept`). `LocksAreHeld` (`LockHeld`) needs an invariant of its own: a
panel has at most one live handler of each kind, handlers of one kind work for one
setup and so are moot together, and a handler whose panel closed holds no lock. The
page's `busy` it shares with the work handlers: one of these that has the flag has it
alone (`Alone`), unless it took it from another, which is what `crossed` records and
the property excepts.

**OfferThreadProofs.** For any terms, rails, deviants and numbers of records.
A device decides over whatever one poll of one rail found, and two facts about the
rule it applies carry the proofs: what it accepts in a set it accepts in every larger
one (`LifecycleGrows`), and what it accepts hangs by signed records on an original
offer with the same terms (`LifecycleRoots`). Locators are fresh, so a flag set by one
poll means the same record at every later one. From them `Consented` (`Consent`) and
`DealsAgree` (`SameDeals`).

**MlsChatProofs.** For any sessions of the two devices, any rails, numbers of frames,
key packages and texts, any cap and any tolerance. A session whose revision is current
has the content of the checkpoint (`TypeOK`), so the invariant speaks of checkpoints:
every frame a wallet holds or has submitted is backed by the checkpoint of its sender
(`FrameBacked`): its locator is there while its packet is pending, its secret is used,
its group is the sender's. From it `FramesPostedOnce` (`PostedOnce`), `SecretsUsedOnce`
(`OneTextPerSecret`) and, with what the two checkpoints say of each other (`PairOk`),
`PairNeverSplit` (`OneGroup`). `NoTextLost` (`NothingLost`) needs the order too: texts
of a sender are on chain in the order of their secrets (`InOrder`), because a pending
text blocks the next one, so a reader that takes the oldest it sees passes over another
only if a rail was silent (`NewToo`), and then the text is one the property gives up.

**DeviceProofs.** For `RoomDesk`, with any chats and numbers of sends, texts and reloads
(`DeskInv`): a text in a composer, or on its way to a wallet, is free, that is, every
record made of it was reported as failed, but for the one on its way (`UnsentIsFree`);
it is in one composer, that of its chat, so that sending it leaves no second copy
(`OnePlace`); and a group's pending record was not reported (`Unreported`), so that
giving it up is the first report and puts the text back once. From it
`NeverResentUnreported` (`ResentOnlyAfterFailure`): a text whose session keeps it is
taken up again rather than encrypted anew, and one the session has finished leaves its
words in the composer only with an error shown. For `DisputeReview`, with any scenarios, packets and
divisions (`ReviewInv`): what the device has read is in the log, which only grows
(`Discovered`), and a challenge that is held is for the case on the screen (`OnScreen`),
since the answer to an earlier request is compared with the current key and a new key
clears it. From it `SignsWhatIsShown` (`SignatureFits`) and `DisputesOnRecord`
(`ActsOnRecords`): a lock names a work that a reason under the device's address is
about, whoever posted that reason, and a refund follows the payee's secret.

**RoomInviteProofs.** For any guests, groups, rails and links. The link a panel shows
and the one the device keeps agree for the private chat (`InStep`), whose slot does not
depend on the group on screen; for groups they may differ, and the property is not
claimed of them. From it `ReadyLinksExist` (`ReadyIsMade`) and `ChatStays`
(`ChatAccessKept`).

**Model-checked only.** Liveness, which is out of the prover's reach, in every module: among
it `SilentPayeeRefunded` and its kin, `PostedIsShown`, `DeliversEventually`, and the
fairness half of the promise, `DeliversPromise`. No safety
invariant and no step property of a run is left without a theorem. In the other
direction, some conjuncts of the escrow's `IInv`, and `LeaseExclusive`, are proved and
checked by no run of their own.

**Assumptions on constants** are named in the modules that declare them, and TLC
evaluates them in every run. Most say what a constant is: a set is finite or not empty, a
bound is a number, a value that stands for none is none of the others. Two say something
of the program: `PrimaryKeyAssumption` that a table has no two rows under its primary key, and
`DivisionsAssumption` that a division awards something to a party at least, as the
principal is positive and both awards add up to it.

## 5. Where code and documents differ

Met while modelling; the hazards of `PROJECT.json` name the lines. Where a property of a
run would fail for one of them, its statement makes the exception, and says so.

- `backend/src/dispute/executor.ts:277` reports `authorized` on a receipt without
  reading its execution status, so a split that reverted because the parties settled
  first is reported as authorized.
- `backend/src/routes/activity.ts:103`: the cursor cannot tell two events of one custody
  in one transaction apart; a page that ends between them passes one over.
- `frontend/lib/openmls-core/starknet-framing.ts:175`: the cap on "pending" packets
  counts complete ones, oldest first; after 128 packets no new one is reassembled.
- `frontend/app/room/[roomId]/page.tsx:472`: "One accepted Offer may create exactly one
  Rekber lifecycle". A create approved late, next to a retried one, makes two, and the
  panels follow the later.
- `frontend/hooks/room/useDirectConversation.ts:1115`: the branch that verifies discovery
  before an attachment is declared cancelled tests for `USER_REFUSED`, which
  `sendMessage` has replaced by then.
- `frontend/hooks/room/useDisputeAgentReview.ts:599`: sending evidence clears the
  challenge and not the key of its request, and the panel waits until it is loaded again.
- `frontend/hooks/room/useRoomGroups.ts:136`: the list of groups is written as one tab
  read it, over what another tab joined.
- `frontend/hooks/room/useDirectConversation.ts:1529` and `:1797`: the two work handlers
  wait for the chat's key before they set `busy` and clear it whoever set it, so one can
  release the page under a Rekber action that started meanwhile, although
  `EscrowPanel.tsx` sees to it that an older callback never unlocks a newer action.
  `LockHeld` excepts what follows (`crossed`).
- `frontend/hooks/room/useRoomInvitation.ts:640`: links are looked for on the rail of the
  mode when the effect last ran (its dependencies have no session). When the mode was
  changed while a link was made, the used link stays "ready" until it expires or the
  effect runs again. `UsedLinkRetired` excepts it.
- `frontend/lib/deal-room/rekberView.ts:103` takes a dispute record of its own address for
  one its wallet wrote. `escrow.ts:360` checks a tag under the key both parties hold, so
  the other may have written it. `ActsOnRecords` speaks of the address, not of a writer.
- `frontend/hooks/room/useRoomOffers.ts:968` sets the callback timer when the record is
  prepared; `offers.ts:140` asks for a signature before that. A wallet that is silent
  there keeps the page busy; `NeverStuck` starts after it.
- Offers: an expired offer can be accepted; one offer can collect several outcomes
  (`offers.md` expects one).
- The comment of `mutual_refund` promises cancellation until a payout has begun; the code
  refuses it from the resolver's authorization on. The comment at `routes/dispute.ts:758`
  says that policy is recalculated on current chain state; the state is the one read
  before the model was asked, and the contract's own check is what stops a late split.

## 6. Not modelled, and why

Cryptography, encodings and wallets are taken at their interface. Blocks are final
when reported: neither the code nor its documents have a step for a reorganisation.
Fees are zero or positive. In the chat, the loss of the browser's storage, membership
removal and commits received from others are left out: the direct chat never makes
them. The text path of `useDirectConversation.ts:675` and after is left out too: `requiresMls`
returns before it. In the dispute review, signatures of the older format are left out: the client
makes none. In the deal, the recovery file a user may export, token choice and gas; in
the room, migration of older caches and what other members post (found by the same
merge); in invitations, the making and leaving of groups and the home page of another
tab. Forms, cards and layout keep no state of the system: their conditions are guards
of the modelled actions. Presence is a lossy cache nobody else reads, attachments a
store of one ciphertext per id, the rate limiter one counter; agent, loyalty and
feedback change nothing the other parts read. The full list, with reasons, is under
`components`.

## 7. Plan

1. An abstract desk, one write-once decision per case and an execution that follows it,
   implemented by `DisputeDesk`; the proof maps each step of a request to it from the
   invariant that `Converge` and `NoReroll` rest on.
2. `MlsChat` over an abstract pair of write-once mailboxes, and renewed key packages.
3. `RekberDeal` over `EscrowRekber` by refinement: the panel's custody record is the
   contract's, seen through its state and counters.
4. `RoomInvite` and `useRoomGroups` with a second tab.
5. Fee quotes as operators with width against a reference.
