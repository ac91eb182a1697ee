------------------------------ MODULE Indexer ------------------------------
(* The block indexers of the backend: DiscoveryIndexer of indexer/service.ts *)
(* over the ciphertext helpers, and RekberIndexer and CertificateIndexer,    *)
(* whose loops are the same over a single contract.                          *)
(*                                                                           *)
(* An instance is one indexer object in one backend process; replicas, and   *)
(* the old and the new process of a deployment, run side by side on the same *)
(* tables.  Every call of the node or of the database is a step of its own   *)
(* and may fail.  A stream is one contract's events with its checkpoint row. *)
(* Blocks are final when a node reports them: a reorganisation is not        *)
(* modelled, and the code has no step for one.                               *)
(*                                                                           *)
(* An operator named Bug_... is a faulty variant of the definition below it; *)
(* the specification does not use it.                                        *)
EXTENDS Integers, Sequences

CONSTANTS
    Instances,       \* indexer objects, one per process
    Streams,
    Definitions,     \* the order in which a cycle visits the streams
    Hydrated,        \* streams whose events need further calls to the node
    Broken,          \* streams with a record the node's answer never fits
    StartBlock,      \* of each stream
    Events,
    StreamOf,        \* the stream an event belongs to
    BlockRange,      \* blocks per scan (INDEXER_BLOCK_RANGE)
    MaxBlock,        \* bound: the last block
    MaxFaults        \* bound: failing calls, crashes and stops

ASSUME StreamsAssumption ==
    /\ Definitions \in Seq(Streams) /\ Definitions # <<>>
    /\ Hydrated \subseteq Streams /\ Broken \subseteq Streams
    /\ StartBlock \in [Streams -> Nat]
    /\ StreamOf \in [Events -> Streams]
ASSUME BoundsAssumption ==
    BlockRange \in Nat \ {0} /\ MaxBlock \in Nat /\ MaxFaults \in Nat

VARIABLES
    head,            \* the latest block
    emitted,         \* the block of each event, 0 while it has none
    records,         \* stored events
    checkpoint,      \* the checkpoint row of each stream
    loop,            \* where each instance is, and what it has read
    stop_requested,
    faults

vars == <<head, emitted, records, checkpoint, loop, stop_requested, faults>>

-----------------------------------------------------------------------------
States == {"stopped", "poll", "read", "reread", "caught_up", "mark", "scan",
           "hydrate", "insert", "advance", "error"}

\* next is the checkpoint's next_block as this instance read it last.
Loop == [at : States, latest : Nat, turn : DOMAIN Definitions,
         next : Nat, batch : SUBSET Events]

Checkpoint == [next_block : Nat, latest_observed_block : Nat,
               status : {"none", "idle", "syncing", "caught_up", "error"}]

Row(status, next) ==
    [next_block |-> next, latest_observed_block |-> 0, status |-> status]

Init ==
    /\ head = 0
    /\ emitted = [e \in Events |-> 0]
    /\ records = {}
    /\ checkpoint = [s \in Streams |-> Row("none", 0)]
    /\ loop = [i \in Instances |-> [at |-> "stopped", latest |-> 0, turn |-> 1,
                                    next |-> 0, batch |-> {}]]
    /\ stop_requested = [i \in Instances |-> FALSE]
    /\ faults = 0

StreamAt(i) == Definitions[loop[i].turn]

EventsIn(s, from, to) ==
    {e \in Events : StreamOf[e] = s /\ emitted[e] # 0
                                    /\ emitted[e] \in from..to}

Bug_ToBlock(i) == loop[i].next + BlockRange - 1

ToBlock(i) ==
    LET to == loop[i].next + BlockRange - 1 IN
    IF to <= loop[i].latest THEN to ELSE loop[i].latest

Goto(i, state) == loop' = [loop EXCEPT ![i].at = state]

-----------------------------------------------------------------------------
(* start, stop and the outer loop.                                           *)

\* A row is inserted where there is none, and an old one is left alone.
EnsureCheckpoint(s) ==
    IF checkpoint[s].status = "none" THEN Row("idle", StartBlock[s]) ELSE checkpoint[s]

Start(i) ==
    /\ loop[i].at = "stopped"
    /\ Goto(i, "poll")
    /\ checkpoint' = [s \in Streams |-> EnsureCheckpoint(s)]
    /\ stop_requested' = [stop_requested EXCEPT ![i] = FALSE]
    /\ UNCHANGED <<head, emitted, records, faults>>

\* Stopping, like a failing call, counts against MaxFaults.
Fault ==
    /\ faults < MaxFaults
    /\ faults' = faults + 1

Stop(i) ==
    /\ loop[i].at # "stopped"
    /\ ~stop_requested[i]
    /\ stop_requested' = [stop_requested EXCEPT ![i] = TRUE]
    /\ Fault
    /\ UNCHANGED <<head, emitted, records, checkpoint, loop>>

\* runCycle asks for the latest block; when that fails it tries again later.
Poll(i) ==
    /\ loop[i].at = "poll"
    /\ loop' = IF stop_requested[i]
                 THEN [loop EXCEPT ![i].at = "stopped"]
                 ELSE [loop EXCEPT ![i].at = "read", ![i].latest = head, ![i].turn = 1]
    /\ UNCHANGED <<head, emitted, records, checkpoint, stop_requested, faults>>

Bug_NextDefinition(i) ==
    loop' = [loop EXCEPT
       ![i].at = IF stop_requested[i]
                   THEN "stopped"
                   ELSE IF loop[i].turn = Len(Definitions) \/ @ = "error"
                          THEN "poll"
                          ELSE "read",
       ![i].turn = IF @ = Len(Definitions) THEN @ ELSE @ + 1]

\* The for loop of runCycle.
NextDefinition(i) ==
    loop' = [loop EXCEPT
       ![i].at = IF stop_requested[i]
                   THEN "stopped"
                   ELSE IF loop[i].turn = Len(Definitions) THEN "poll" ELSE "read",
       ![i].turn = IF @ = Len(Definitions) THEN @ ELSE @ + 1]

-----------------------------------------------------------------------------
(* syncDefinition.                                                           *)

NextBlock(s) == checkpoint[s].next_block

SetCheckpointStatus(i, status) ==
    checkpoint' = [checkpoint EXCEPT
       ![StreamAt(i)] = [@ EXCEPT !.status = status,
                                  !.latest_observed_block = loop[i].latest]]

\* getCheckpoint before the loop.
ReadCheckpoint(i) ==
    LET next == NextBlock(StreamAt(i)) IN
    /\ loop[i].at = "read"
    /\ IF next <= loop[i].latest /\ stop_requested[i]
         THEN NextDefinition(i)
         ELSE loop' = [loop EXCEPT
                ![i].at = IF next > loop[i].latest THEN "caught_up" ELSE "mark",
                ![i].next = next]
    /\ UNCHANGED <<head, emitted, records, checkpoint, stop_requested, faults>>

\* getCheckpoint at the end of a round.
RereadCheckpoint(i) ==
    LET next == NextBlock(StreamAt(i)) IN
    /\ loop[i].at = "reread"
    /\ IF next <= loop[i].latest /\ ~stop_requested[i]
         THEN loop' = [loop EXCEPT ![i].at = "mark", ![i].next = next]
         ELSE NextDefinition(i)
    /\ UNCHANGED <<head, emitted, records, checkpoint, stop_requested, faults>>

MarkCaughtUp(i) ==
    /\ loop[i].at = "caught_up"
    /\ SetCheckpointStatus(i, "caught_up")
    /\ NextDefinition(i)
    /\ UNCHANGED <<head, emitted, records, stop_requested, faults>>

MarkSyncing(i) ==
    /\ loop[i].at = "mark"
    /\ SetCheckpointStatus(i, "syncing")
    /\ Goto(i, "scan")
    /\ UNCHANGED <<head, emitted, records, stop_requested, faults>>

\* scanCommittedActions pages through blocks that no longer change.
Scan(i) ==
    LET s == StreamAt(i) IN
    /\ loop[i].at = "scan"
    /\ loop' = [loop EXCEPT
         ![i].at = IF s \in Hydrated THEN "hydrate" ELSE "insert",
         ![i].batch = EventsIn(s, loop[i].next, ToBlock(i))]
    /\ UNCHANGED <<head, emitted, records, checkpoint, stop_requested, faults>>

\* findExistingLocators, and the node's answers for the missing ones.
Hydrate(i) ==
    /\ loop[i].at = "hydrate"
    /\ loop[i].batch \subseteq records \/ StreamAt(i) \notin Broken
    /\ loop' = [loop EXCEPT ![i].at = "insert", ![i].batch = @ \ records]
    /\ UNCHANGED <<head, emitted, records, checkpoint, stop_requested, faults>>

\* One transaction; a record that is already there is left alone.
Inserted(batch) == records \cup batch

InsertActions(i) ==
    /\ loop[i].at = "insert"
    /\ records' = Inserted(loop[i].batch)
    /\ Goto(i, "advance")
    /\ UNCHANGED <<head, emitted, checkpoint, stop_requested, faults>>

Bug_Advanced(i, row) ==
    [row EXCEPT !.next_block = ToBlock(i) + 2,
                !.latest_observed_block = loop[i].latest,
                !.status = "syncing"]

\* advanceCheckpoint writes what this instance knows over what is there.
Advanced(i, row) ==
    [row EXCEPT !.next_block = ToBlock(i) + 1,
                !.latest_observed_block = loop[i].latest,
                !.status = IF ToBlock(i) + 1 > loop[i].latest
                             THEN "caught_up" ELSE "syncing"]

AdvanceCheckpoint(i) ==
    /\ loop[i].at = "advance"
    /\ checkpoint' = [checkpoint EXCEPT ![StreamAt(i)] = Advanced(i, @)]
    /\ Goto(i, "reread")
    /\ UNCHANGED <<head, emitted, records, stop_requested, faults>>

-----------------------------------------------------------------------------
(* Failures.                                                                 *)

Calls == States \ {"stopped", "poll", "error"}

\* A call throws, whether or not it took effect; runCycle catches it.
CallFails(i) ==
    /\ loop[i].at \in Calls
    /\ Goto(i, "error")
    /\ \/ UNCHANGED <<records, checkpoint>>
       \/ /\ loop[i].at = "insert"
          /\ records' = Inserted(loop[i].batch)
          /\ UNCHANGED checkpoint
       \/ /\ loop[i].at = "advance"
          /\ checkpoint' = [checkpoint EXCEPT ![StreamAt(i)] = Advanced(i, @)]
          /\ UNCHANGED records
    /\ Fault
    /\ UNCHANGED <<head, emitted, stop_requested>>

\* The node's answer for a record of a broken stream never fits.
HydrateFails(i) ==
    /\ loop[i].at = "hydrate"
    /\ StreamAt(i) \in Broken
    /\ ~(loop[i].batch \subseteq records)
    /\ Goto(i, "error")
    /\ UNCHANGED <<head, emitted, records, checkpoint, stop_requested, faults>>

ReportError(i) ==
    /\ loop[i].at = "error"
    /\ SetCheckpointStatus(i, "error")
    /\ NextDefinition(i)
    /\ UNCHANGED <<head, emitted, records, stop_requested, faults>>

\* A crash, or setCheckpointStatus throwing in the catch: nothing handles the
\* rejected loop, and the process ends.
Die(i) ==
    /\ loop[i].at # "stopped"
    /\ Goto(i, "stopped")
    /\ Fault
    /\ UNCHANGED <<head, emitted, records, checkpoint, stop_requested>>

-----------------------------------------------------------------------------
\* The chain appends a block with new events.
NewBlock(new) ==
    /\ head < MaxBlock
    /\ head' = head + 1
    /\ emitted' = [e \in Events |-> IF e \in new THEN head + 1 ELSE emitted[e]]
    /\ UNCHANGED <<records, checkpoint, loop, stop_requested, faults>>

\* One round of an instance while nothing fails.
Run(i) ==
    \/ Poll(i)
    \/ ReadCheckpoint(i)
    \/ RereadCheckpoint(i)
    \/ MarkCaughtUp(i)
    \/ MarkSyncing(i)
    \/ Scan(i)
    \/ Hydrate(i)
    \/ InsertActions(i)
    \/ AdvanceCheckpoint(i)
    \/ HydrateFails(i)
    \/ ReportError(i)

Next ==
    \/ \E new \in SUBSET {e \in Events : emitted[e] = 0} : NewBlock(new)
    \/ \E i \in Instances : Start(i) \/ Run(i) \/ Stop(i) \/ CallFails(i) \/ Die(i)

Spec == Init /\ [][Next]_vars

\* The platform restarts a process that ended, and its loop goes on.
Fairness == \A i \in Instances : WF_vars(Start(i)) /\ WF_vars(Run(i))

FairSpec == Spec /\ Fairness

-----------------------------------------------------------------------------
(* Properties.                                                               *)

\* Every variable has its type.
TypeOK ==
    /\ head \in Nat
    /\ emitted \in [Events -> Nat]
    /\ records \in SUBSET Events
    /\ checkpoint \in [Streams -> Checkpoint]
    /\ loop \in [Instances -> Loop]
    /\ stop_requested \in [Instances -> BOOLEAN]
    /\ faults \in Nat

\* Every event of a stream in the blocks start..last is stored.
StoredThrough(s, last) == EventsIn(s, StartBlock[s], last) \subseteq records

\* The checkpoint never passes an event that is not stored, whatever number of
\* instances write it and wherever one of them fails: a passed event would be
\* lost, since no later cycle scans its block again (advanceCheckpoint).
NoGap == \A s \in Streams : StoredThrough(s, checkpoint[s].next_block - 1)

\* A stream reported as caught up has everything through the block it names
\* (the health endpoint and the discover route rely on it).
CaughtUpIsTrue ==
    \A s \in Streams :
        checkpoint[s].status = "caught_up"
            => StoredThrough(s, checkpoint[s].latest_observed_block)

\* Every event from the start block on is stored in the end, although several
\* instances overwrite each other's checkpoint and another stream fails on and on.
EventuallyStored ==
    \A e \in {x \in Events : StreamOf[x] \notin Broken} :
        emitted[e] # 0 /\ emitted[e] >= StartBlock[StreamOf[e]] ~> e \in records
=============================================================================
