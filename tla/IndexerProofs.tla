--------------------------- MODULE IndexerProofs ---------------------------
(* Theorems about the block indexers, for any number of instances, streams,  *)
(* events, failures and blocks, and about the feed that reads their tables.  *)
EXTENDS Indexer, ActivityFeed, FiniteSetTheorems, TLAPS

-----------------------------------------------------------------------------
(* The inductive invariant.                                                  *)

\* Blocks are known before they are reported, and a row is never ahead of the
\* chain except where the start block is.
Bounded ==
    /\ \A e \in Events : emitted[e] <= head
    /\ \A i \in Instances : loop[i].latest <= head
    /\ \A s \in Streams :
         /\ checkpoint[s].latest_observed_block <= head
         /\ checkpoint[s].next_block <= head + 1 \/ checkpoint[s].next_block <= StartBlock[s]

\* The events of the range that instance i works on.
Batch(i) == EventsIn(StreamAt(i), loop[i].next, ToBlock(i))

\* What an instance has read stays true while it goes on, although others write
\* the row: its start of the range has nothing unstored before it, and what it
\* carries to the next step is all of the range that is not stored.
Carried(i) ==
    /\ loop[i].at \in {"mark", "scan", "hydrate", "insert", "advance"} =>
         /\ loop[i].next <= loop[i].latest
         /\ StoredThrough(StreamAt(i), loop[i].next - 1)
    /\ loop[i].at \in {"hydrate", "insert"} => Batch(i) \subseteq loop[i].batch \cup records
    /\ loop[i].at = "advance" => Batch(i) \subseteq records
    /\ loop[i].at = "caught_up" => StoredThrough(StreamAt(i), loop[i].latest)

IInv ==
    /\ TypeOK
    /\ Bounded
    /\ NoGap
    /\ CaughtUpIsTrue
    /\ \A i \in Instances : Carried(i)

-----------------------------------------------------------------------------
(* Facts about ranges of blocks.                                             *)

\* What is stored through a block is stored through every earlier one.
LEMMA StoredEarlier ==
    ASSUME TypeOK, NEW s \in Streams, NEW m \in Int, NEW n \in Int, m <= n,
           StoredThrough(s, n)
    PROVE  StoredThrough(s, m)
  BY StreamsAssumption DEF StoredThrough, EventsIn, TypeOK

\* A stored range next to what is stored before it.
LEMMA StoredFurther ==
    ASSUME TypeOK, NEW s \in Streams, NEW m \in Nat, NEW n \in Int,
           StoredThrough(s, m - 1), EventsIn(s, m, n) \subseteq records
    PROVE  StoredThrough(s, n)
  BY StreamsAssumption DEF StoredThrough, EventsIn, TypeOK

\* Storing more takes nothing away.
LEMMA StaysStored ==
    ASSUME TypeOK, NEW s \in Streams, NEW n \in Int, emitted' = emitted,
           records \subseteq records', StoredThrough(s, n)
    PROVE  StoredThrough(s, n)'
  BY DEF StoredThrough, EventsIn

\* An instance's stream is one of the streams.
LEMMA StreamTyped ==
    ASSUME TypeOK, NEW i \in Instances
    PROVE  StreamAt(i) \in Streams
  BY StreamsAssumption DEF TypeOK, StreamAt, Loop

\* The end of a range lies between its start and the latest block.
LEMMA ToBlockBounds ==
    ASSUME TypeOK, NEW i \in Instances, loop[i].next <= loop[i].latest
    PROVE  /\ ToBlock(i) \in Nat
           /\ loop[i].next <= ToBlock(i)
           /\ ToBlock(i) <= loop[i].latest
  BY BoundsAssumption DEF TypeOK, Loop, ToBlock

\* The for loop of runCycle ends at another stream or between two cycles.
LEMMA NextDefinitionStep ==
    ASSUME TypeOK, NEW i \in Instances, NextDefinition(i)
    PROVE  /\ loop' \in [Instances -> Loop]
           /\ loop'[i].at \in {"stopped", "poll", "read"}
           /\ loop'[i].latest = loop[i].latest
           /\ \A j \in Instances \ {i} : loop'[j] = loop[j]
<1> DEFINE last == loop[i].turn = Len(Definitions)
           at == IF stop_requested[i] THEN "stopped" ELSE IF last THEN "poll" ELSE "read"
           turn == IF last THEN loop[i].turn ELSE loop[i].turn + 1
<1>1. loop[i] \in Loop /\ loop \in [Instances -> Loop]
  BY DEF TypeOK
<1>2. DOMAIN Definitions = 1..Len(Definitions) /\ Len(Definitions) \in Nat
  BY StreamsAssumption
<1>3. turn \in DOMAIN Definitions
  BY <1>1, <1>2 DEF Loop
<1>4. at \in {"stopped", "poll", "read"}
  OBVIOUS
<1>5. loop' = [loop EXCEPT ![i] = [@ EXCEPT !.at = at, !.turn = turn]]
  BY <1>1 DEF NextDefinition
<1> HIDE DEF at, turn
<1>6. [loop[i] EXCEPT !.at = at, !.turn = turn] \in Loop
  BY <1>1, <1>3, <1>4 DEF Loop, States
<1> QED
  BY <1>1, <1>4, <1>5, <1>6 DEF Loop

\* What an instance carries is not touched by the others.
LEMMA CarriedByOthers ==
    ASSUME TypeOK, NEW j \in Instances, Carried(j), loop'[j] = loop[j],
           emitted' = emitted, records \subseteq records'
    PROVE  Carried(j)'
<1>1. StreamAt(j)' = StreamAt(j) /\ ToBlock(j)' = ToBlock(j)
  BY DEF StreamAt, ToBlock
<1>2. Batch(j)' = Batch(j)
  BY <1>1 DEF Batch, EventsIn
<1>3. StreamAt(j) \in Streams /\ loop[j] \in Loop
  BY StreamTyped DEF TypeOK
<1>4. \A n \in Int : StoredThrough(StreamAt(j), n) => StoredThrough(StreamAt(j), n)'
  BY <1>1 DEF StoredThrough, EventsIn
<1>5. loop[j].next - 1 \in Int /\ loop[j].latest \in Int
  BY <1>3 DEF Loop
<1>6. /\ StoredThrough(StreamAt(j), loop[j].next - 1) => StoredThrough(StreamAt(j), loop[j].next - 1)'
      /\ StoredThrough(StreamAt(j), loop[j].latest) => StoredThrough(StreamAt(j), loop[j].latest)'
  BY <1>1, <1>4, <1>5 DEF StoredThrough, EventsIn
<1> QED
  BY <1>1, <1>2, <1>6 DEF Carried

\* Records and emitted events as they were, or more records: every row that is
\* unchanged stays true.
LEMMA RowsKept ==
    ASSUME IInv, emitted' = emitted, records \subseteq records', checkpoint' = checkpoint
    PROVE  NoGap' /\ CaughtUpIsTrue'
<1> SUFFICES ASSUME NEW s \in Streams
             PROVE  /\ StoredThrough(s, checkpoint[s].next_block - 1)'
                    /\ checkpoint[s].status = "caught_up"
                         => StoredThrough(s, checkpoint[s].latest_observed_block)'
  BY DEF NoGap, CaughtUpIsTrue
<1>1. checkpoint[s].next_block - 1 \in Int /\ checkpoint[s].latest_observed_block \in Int
  BY DEF IInv, TypeOK, Checkpoint
<1> QED
  BY <1>1, StaysStored DEF IInv, NoGap, CaughtUpIsTrue, StoredThrough

-----------------------------------------------------------------------------
(* Every step keeps the invariant.                                           *)

\* A step of instance i that moves on without writing a row.
LEMMA LoopStep ==
    ASSUME IInv, NEW i \in Instances, UNCHANGED <<head, emitted, checkpoint>>,
           records' \in SUBSET Events, records \subseteq records',
           loop' \in [Instances -> Loop], stop_requested' \in [Instances -> BOOLEAN],
           faults' \in Nat, \A j \in Instances \ {i} : loop'[j] = loop[j],
           loop'[i].latest = loop[i].latest, Carried(i)'
    PROVE  IInv'
<1>1. TypeOK'
  BY DEF IInv, TypeOK
<1>2. Bounded'
  BY DEF IInv, Bounded
<1>3. NoGap' /\ CaughtUpIsTrue'
  BY RowsKept
<1>4. \A j \in Instances : Carried(j)'
  BY CarriedByOthers DEF IInv
<1> QED
  BY <1>1, <1>2, <1>3, <1>4 DEF IInv

\* An instance that is between two ranges carries nothing.
LEMMA IdleCarries ==
    ASSUME NEW i \in Instances,
           loop[i].at \in {"stopped", "poll", "read", "reread", "error"}
    PROVE  Carried(i)
  BY DEF Carried

\* A step of instance i that writes the row of its stream.
LEMMA RowStep ==
    ASSUME IInv, NEW i \in Instances, NEW row \in Checkpoint,
           UNCHANGED <<head, emitted, records>>,
           checkpoint' = [checkpoint EXCEPT ![StreamAt(i)] = row],
           row.latest_observed_block = loop[i].latest,
           row.next_block <= head + 1 \/ row.next_block <= StartBlock[StreamAt(i)],
           StoredThrough(StreamAt(i), row.next_block - 1),
           row.status = "caught_up" => StoredThrough(StreamAt(i), loop[i].latest),
           loop' \in [Instances -> Loop], stop_requested' \in [Instances -> BOOLEAN],
           faults' \in Nat, \A j \in Instances \ {i} : loop'[j] = loop[j],
           loop'[i].latest = loop[i].latest, Carried(i)'
    PROVE  IInv'
<1>1. StreamAt(i) \in Streams
  BY StreamTyped DEF IInv
<1>2. \A s \in Streams : checkpoint'[s] = IF s = StreamAt(i) THEN row ELSE checkpoint[s]
  BY <1>1 DEF IInv, TypeOK
<1>3. TypeOK'
  BY <1>1 DEF IInv, TypeOK
<1>4. Bounded'
  BY <1>2 DEF IInv, Bounded
<1>5. \A s \in Streams, n \in Int : StoredThrough(s, n)' = StoredThrough(s, n)
  BY DEF StoredThrough, EventsIn
<1>6. NoGap' /\ CaughtUpIsTrue'
  <2> SUFFICES ASSUME NEW s \in Streams
               PROVE  /\ StoredThrough(s, checkpoint[s].next_block - 1)'
                      /\ checkpoint'[s].status = "caught_up"
                           => StoredThrough(s, checkpoint[s].latest_observed_block)'
    BY DEF NoGap, CaughtUpIsTrue
  <2>1. /\ checkpoint'[s].next_block - 1 \in Int
        /\ checkpoint'[s].latest_observed_block \in Int
    BY <1>3 DEF TypeOK, Checkpoint
  <2>2. /\ StoredThrough(s, checkpoint'[s].next_block - 1)
        /\ checkpoint'[s].status = "caught_up"
             => StoredThrough(s, checkpoint'[s].latest_observed_block)
    BY <1>2 DEF IInv, NoGap, CaughtUpIsTrue
  <2> QED
    BY <2>1, <2>2 DEF StoredThrough, EventsIn
<1>7. \A j \in Instances : Carried(j)'
  BY CarriedByOthers DEF IInv
<1> QED
  BY <1>3, <1>4, <1>6, <1>7 DEF IInv

\* setCheckpointStatus leaves next_block alone.
LEMMA StatusStep ==
    ASSUME IInv, NEW i \in Instances,
           NEW status \in {"syncing", "caught_up", "error"},
           SetCheckpointStatus(i, status),
           status = "caught_up" => StoredThrough(StreamAt(i), loop[i].latest),
           UNCHANGED <<head, emitted, records>>,
           loop' \in [Instances -> Loop], stop_requested' \in [Instances -> BOOLEAN],
           faults' \in Nat, \A j \in Instances \ {i} : loop'[j] = loop[j],
           loop'[i].latest = loop[i].latest, Carried(i)'
    PROVE  IInv'
<1> DEFINE old == checkpoint[StreamAt(i)]
           row == [old EXCEPT !.status = status, !.latest_observed_block = loop[i].latest]
<1>1. StreamAt(i) \in Streams /\ old \in Checkpoint /\ loop[i].latest \in Nat
  BY StreamTyped DEF IInv, TypeOK, Loop
<1>2. /\ row \in Checkpoint /\ row.status = status
      /\ row.latest_observed_block = loop[i].latest /\ row.next_block = old.next_block
  BY <1>1 DEF Checkpoint
<1>3. checkpoint' = [checkpoint EXCEPT ![StreamAt(i)] = row]
  BY DEF SetCheckpointStatus
<1>4. /\ old.next_block <= head + 1 \/ old.next_block <= StartBlock[StreamAt(i)]
      /\ StoredThrough(StreamAt(i), old.next_block - 1)
  BY <1>1 DEF IInv, Bounded, NoGap
<1> HIDE DEF row
<1> QED
  BY <1>1, <1>2, <1>3, <1>4, RowStep

\* advanceCheckpoint, by an instance that has stored its range.
LEMMA AdvanceStep ==
    ASSUME IInv, NEW i \in Instances, loop[i].at = "advance",
           checkpoint' = [checkpoint EXCEPT ![StreamAt(i)] = Advanced(i, @)],
           UNCHANGED <<head, emitted, records>>,
           loop' \in [Instances -> Loop], stop_requested' \in [Instances -> BOOLEAN],
           faults' \in Nat, \A j \in Instances \ {i} : loop'[j] = loop[j],
           loop'[i].latest = loop[i].latest, Carried(i)'
    PROVE  IInv'
<1> DEFINE row == Advanced(i, checkpoint[StreamAt(i)])
<1>1. StreamAt(i) \in Streams /\ loop[i] \in Loop /\ loop[i].latest <= head
  BY StreamTyped DEF IInv, TypeOK, Bounded
<1>2. checkpoint[StreamAt(i)] \in Checkpoint /\ head \in Nat
  BY <1>1 DEF IInv, TypeOK
<1>3. /\ loop[i].next <= loop[i].latest
      /\ StoredThrough(StreamAt(i), loop[i].next - 1)
      /\ Batch(i) \subseteq records
  BY DEF IInv, Carried
<1>4. ToBlock(i) \in Nat /\ ToBlock(i) <= loop[i].latest
  BY <1>3, ToBlockBounds DEF IInv
<1>5. StoredThrough(StreamAt(i), ToBlock(i))
  BY <1>1, <1>3, <1>4, StoredFurther DEF IInv, Batch, Loop
<1>6. /\ row \in Checkpoint /\ row.next_block = ToBlock(i) + 1
      /\ row.latest_observed_block = loop[i].latest
      /\ row.status = "caught_up" => ToBlock(i) = loop[i].latest
  <2> DEFINE status == IF ToBlock(i) + 1 > loop[i].latest THEN "caught_up" ELSE "syncing"
  <2>1. loop[i].latest \in Nat
    BY <1>1 DEF Loop
  <2>2. status \in {"caught_up", "syncing"} /\ (status = "caught_up" => ToBlock(i) = loop[i].latest)
    BY <2>1, <1>4
  <2>3. row = [checkpoint[StreamAt(i)] EXCEPT !.next_block = ToBlock(i) + 1,
                 !.latest_observed_block = loop[i].latest, !.status = status]
    BY DEF Advanced
  <2> DEFINE old == checkpoint[StreamAt(i)]
  <2>4. old \in Checkpoint /\ ToBlock(i) + 1 \in Nat
    BY <1>2, <1>4
  <2> HIDE DEF status, old, row
  <2>5. row = [old EXCEPT !.next_block = ToBlock(i) + 1,
                 !.latest_observed_block = loop[i].latest, !.status = status]
    BY <2>3 DEF old
  <2> QED
    BY <2>1, <2>2, <2>4, <2>5 DEF Checkpoint
<1>7. checkpoint' = [checkpoint EXCEPT ![StreamAt(i)] = row]
  OBVIOUS
<1> HIDE DEF row
<1>8. row.next_block <= head + 1 /\ row.next_block - 1 = ToBlock(i)
  BY <1>1, <1>2, <1>4, <1>6 DEF Loop
<1> QED
  BY <1>5, <1>6, <1>7, <1>8, RowStep

\* A block with new events: nothing of the old ranges changes.
LEMMA NewBlockStep ==
    ASSUME IInv, NEW new \in SUBSET {e \in Events : emitted[e] = 0}, NewBlock(new)
    PROVE  IInv'
<1> USE DEF NewBlock
<1>1. head \in Nat /\ emitted \in [Events -> Nat] /\ head' = head + 1
  BY DEF IInv, TypeOK
<1>2. \A e \in Events : emitted'[e] = IF e \in new THEN head + 1 ELSE emitted[e]
  BY <1>1
<1>3. TypeOK'
  BY <1>1 DEF IInv, TypeOK
<1>4. Bounded'
  <2>1. \A e \in Events : emitted'[e] <= head'
    BY <1>1, <1>2 DEF IInv, Bounded
  <2>2. \A i \in Instances : loop[i].latest \in Nat
    BY DEF IInv, TypeOK, Loop
  <2>3. \A s \in Streams : /\ checkpoint[s].latest_observed_block \in Nat
                           /\ checkpoint[s].next_block \in Nat
    BY DEF IInv, TypeOK, Checkpoint
  <2> QED
    BY <1>1, <2>1, <2>2, <2>3 DEF IInv, Bounded
<1>5. \A s \in Streams, m \in Nat, n \in Int : n <= head => EventsIn(s, m, n)' = EventsIn(s, m, n)
  <2> SUFFICES ASSUME NEW s \in Streams, NEW m \in Nat, NEW n \in Int, n <= head
               PROVE  EventsIn(s, m, n)' = EventsIn(s, m, n)
    OBVIOUS
  <2>1. \A e \in new : emitted[e] = 0 /\ e \in Events
    OBVIOUS
  <2>2. \A e \in Events : emitted'[e] # 0 /\ emitted'[e] \in m..n
                            <=> emitted[e] # 0 /\ emitted[e] \in m..n
    BY <1>1, <1>2, <2>1
  <2> QED
    BY <2>2 DEF EventsIn
<1>6. \A s \in Streams, n \in Int : n <= head /\ StoredThrough(s, n) => StoredThrough(s, n)'
  <2>1. \A s \in Streams : StartBlock[s] \in Nat
    BY StreamsAssumption
  <2> QED
    BY <1>5, <2>1 DEF StoredThrough
<1>7. NoGap'
  <2> SUFFICES ASSUME NEW s \in Streams
               PROVE  StoredThrough(s, checkpoint[s].next_block - 1)'
    BY DEF NoGap
  <2>1. checkpoint[s].next_block \in Nat /\ StartBlock[s] \in Nat
    BY StreamsAssumption DEF IInv, TypeOK, Checkpoint
  <2>2. CASE checkpoint[s].next_block <= head + 1
    <3>1. checkpoint[s].next_block - 1 <= head /\ checkpoint[s].next_block - 1 \in Int
      BY <1>1, <2>1, <2>2
    <3>2. StoredThrough(s, checkpoint[s].next_block - 1)
      BY DEF IInv, NoGap
    <3> QED
      BY <1>6, <3>1, <3>2
  <2>3. CASE checkpoint[s].next_block <= StartBlock[s]
    <3>1. \A k \in Int : k \notin StartBlock[s]..(checkpoint[s].next_block - 1)
      BY <2>1, <2>3
    <3>2. \A e \in Events : emitted'[e] \in Int
      BY <1>3 DEF TypeOK
    <3> QED
      BY <3>1, <3>2 DEF StoredThrough, EventsIn
  <2> QED
    BY <2>2, <2>3 DEF IInv, Bounded
<1>8. CaughtUpIsTrue'
  <2> SUFFICES ASSUME NEW s \in Streams, checkpoint[s].status = "caught_up"
               PROVE  StoredThrough(s, checkpoint[s].latest_observed_block)'
    BY DEF CaughtUpIsTrue
  <2>1. /\ checkpoint[s].latest_observed_block \in Int
        /\ checkpoint[s].latest_observed_block <= head
        /\ StoredThrough(s, checkpoint[s].latest_observed_block)
    BY DEF IInv, TypeOK, Checkpoint, Bounded, CaughtUpIsTrue
  <2> QED
    BY <1>6, <2>1
<1>9. \A i \in Instances : Carried(i)'
  <2> SUFFICES ASSUME NEW i \in Instances PROVE Carried(i)'
    OBVIOUS
  <2>1. /\ StreamAt(i) \in Streams /\ loop[i].next \in Nat /\ loop[i].latest \in Nat
        /\ loop[i].latest <= head
    BY StreamTyped DEF IInv, TypeOK, Loop, Bounded
  <2>2. /\ StreamAt(i)' = StreamAt(i) /\ ToBlock(i)' = ToBlock(i)
    BY DEF StreamAt, ToBlock
  <2>3. loop[i].next <= loop[i].latest =>
          /\ Batch(i)' = Batch(i)
          /\ StoredThrough(StreamAt(i), loop[i].next - 1)
               => StoredThrough(StreamAt(i), loop[i].next - 1)'
    <3> SUFFICES ASSUME loop[i].next <= loop[i].latest
                 PROVE  /\ Batch(i)' = Batch(i)
                        /\ StoredThrough(StreamAt(i), loop[i].next - 1)
                             => StoredThrough(StreamAt(i), loop[i].next - 1)'
      OBVIOUS
    <3>1. ToBlock(i) \in Int /\ ToBlock(i) <= head
      BY <1>1, <2>1, ToBlockBounds DEF IInv
    <3>2. EventsIn(StreamAt(i), loop[i].next, ToBlock(i))'
            = EventsIn(StreamAt(i), loop[i].next, ToBlock(i))
      BY <1>5, <2>1, <2>2, <3>1 DEF EventsIn
    <3>3. loop[i].next - 1 \in Int /\ loop[i].next - 1 <= head
      BY <1>1, <2>1
    <3>4. StoredThrough(StreamAt(i), loop[i].next - 1)
            => StoredThrough(StreamAt(i), loop[i].next - 1)'
      BY <1>6, <2>1, <2>2, <3>3 DEF StoredThrough, EventsIn
    <3> QED
      BY <3>2, <3>4 DEF Batch
  <2>4. StoredThrough(StreamAt(i), loop[i].latest) => StoredThrough(StreamAt(i), loop[i].latest)'
    BY <1>6, <2>1, <2>2 DEF StoredThrough, EventsIn
  <2> QED
    BY <2>2, <2>3, <2>4 DEF IInv, Carried
<1> QED
  BY <1>3, <1>4, <1>7, <1>8, <1>9 DEF IInv

\* Going to another state changes that state only.
LEMMA GotoStep ==
    ASSUME TypeOK, NEW i \in Instances, NEW state \in States, Goto(i, state)
    PROVE  /\ loop' \in [Instances -> Loop]
           /\ loop'[i] = [loop[i] EXCEPT !.at = state]
           /\ loop'[i].at = state /\ loop'[i].latest = loop[i].latest
           /\ loop'[i].next = loop[i].next /\ loop'[i].batch = loop[i].batch
           /\ loop'[i].turn = loop[i].turn
           /\ \A j \in Instances \ {i} : loop'[j] = loop[j]
<1>1. loop[i] \in Loop /\ loop \in [Instances -> Loop]
  BY DEF TypeOK
<1>2. loop' = [loop EXCEPT ![i] = [@ EXCEPT !.at = state]]
  BY DEF Goto
<1>3. [loop[i] EXCEPT !.at = state] \in Loop
  BY <1>1 DEF Loop
<1> QED
  BY <1>1, <1>2, <1>3 DEF Loop

\* An instance that is between two ranges, before or after the step.
LEMMA StartStep ==
    ASSUME IInv, NEW i \in Instances, Start(i)
    PROVE  IInv'
<1> USE DEF Start
<1>1. "poll" \in States /\ TypeOK
  BY DEF States, IInv
<1>2. /\ loop' \in [Instances -> Loop] /\ loop'[i].at = "poll"
      /\ loop'[i].latest = loop[i].latest
      /\ \A j \in Instances \ {i} : loop'[j] = loop[j]
  BY <1>1, GotoStep
<1>3. \A s \in Streams : \/ checkpoint'[s] = checkpoint[s]
                         \/ checkpoint'[s] = Row("idle", StartBlock[s])
  BY DEF EnsureCheckpoint
<1>4. \A s \in Streams : /\ StartBlock[s] \in Nat
                         /\ Row("idle", StartBlock[s]) \in Checkpoint
                         /\ Row("idle", StartBlock[s]).status = "idle"
                         /\ Row("idle", StartBlock[s]).next_block = StartBlock[s]
                         /\ Row("idle", StartBlock[s]).latest_observed_block = 0
  BY StreamsAssumption DEF Row, Checkpoint
<1>5. checkpoint' \in [Streams -> Checkpoint]
  BY <1>1, <1>4 DEF TypeOK, EnsureCheckpoint
<1>6. TypeOK'
  BY <1>1, <1>2, <1>5 DEF TypeOK
<1>7. Bounded'
  <2>1. \A j \in Instances : loop'[j].latest = loop[j].latest
    BY <1>2
  <2>2. head \in Nat
    BY <1>1 DEF TypeOK
  <2>3. \A s \in Streams : /\ checkpoint'[s].latest_observed_block <= head
                           /\ \/ checkpoint'[s].next_block <= head + 1
                              \/ checkpoint'[s].next_block <= StartBlock[s]
    BY <1>3, <1>4, <2>2 DEF IInv, Bounded
  <2> QED
    BY <2>1, <2>3 DEF IInv, Bounded
<1>8. \A s \in Streams, n \in Int : StoredThrough(s, n)' = StoredThrough(s, n)
  BY DEF StoredThrough, EventsIn
<1>9. \A s \in Streams : StoredThrough(s, StartBlock[s] - 1)
  BY <1>1, <1>4 DEF StoredThrough, EventsIn, TypeOK
<1>10. NoGap' /\ CaughtUpIsTrue'
  <2> SUFFICES ASSUME NEW s \in Streams
               PROVE  /\ StoredThrough(s, checkpoint[s].next_block - 1)'
                      /\ checkpoint'[s].status = "caught_up"
                           => StoredThrough(s, checkpoint[s].latest_observed_block)'
    BY DEF NoGap, CaughtUpIsTrue
  <2>1. /\ checkpoint'[s].next_block - 1 \in Int
        /\ checkpoint'[s].latest_observed_block \in Int
    BY <1>5 DEF Checkpoint
  <2>2. /\ StoredThrough(s, checkpoint'[s].next_block - 1)
        /\ checkpoint'[s].status = "caught_up"
             => StoredThrough(s, checkpoint'[s].latest_observed_block)
    BY <1>3, <1>4, <1>9 DEF IInv, NoGap, CaughtUpIsTrue
  <2> QED
    BY <2>1, <2>2 DEF StoredThrough, EventsIn
<1>11. \A j \in Instances : Carried(j)'
  BY <1>2, CarriedByOthers DEF IInv, Carried
<1> QED
  BY <1>6, <1>7, <1>10, <1>11 DEF IInv

\* Polling: the latest block is the chain's.
LEMMA PollStep ==
    ASSUME IInv, NEW i \in Instances, Poll(i)
    PROVE  IInv'
<1> USE DEF Poll
<1>1. loop[i] \in Loop /\ loop \in [Instances -> Loop] /\ head \in Nat
  BY DEF IInv, TypeOK
<1>2. 1 \in DOMAIN Definitions
  BY StreamsAssumption
<1>3. /\ loop' \in [Instances -> Loop] /\ loop'[i].at \in {"stopped", "read"}
      /\ loop'[i].latest <= head
      /\ \A j \in Instances \ {i} : loop'[j] = loop[j]
  <2>1. CASE stop_requested[i]
    BY <1>1, <2>1 DEF Loop, States, IInv, Bounded
  <2>2. CASE ~stop_requested[i]
    <3> DEFINE new == [loop[i] EXCEPT !.at = "read", !.latest = head, !.turn = 1]
    <3>1. loop' = [loop EXCEPT ![i] = new]
      BY <1>1, <2>2
    <3>2. new \in Loop /\ new.at = "read" /\ new.latest = head
      BY <1>1, <1>2 DEF Loop, States
    <3> HIDE DEF new, Poll
    <3>3. loop'[i] = new
      BY <1>1, <3>1
    <3> QED
      BY <1>1, <3>1, <3>2, <3>3
  <2> QED
    BY <2>1, <2>2
<1>4. TypeOK'
  BY <1>3 DEF IInv, TypeOK
<1>5. Bounded'
  BY <1>3 DEF IInv, Bounded
<1>6. NoGap' /\ CaughtUpIsTrue'
  BY RowsKept
<1>7. \A j \in Instances : Carried(j)'
  BY <1>3, CarriedByOthers DEF IInv, Carried
<1> QED
  BY <1>4, <1>5, <1>6, <1>7 DEF IInv

\* Reading the row: what it says is true, and so is what the instance takes
\* from it.
LEMMA ReadStep ==
    ASSUME IInv, NEW i \in Instances, ReadCheckpoint(i) \/ RereadCheckpoint(i)
    PROVE  IInv'
<1> DEFINE next == NextBlock(StreamAt(i))
<1>1. /\ loop[i] \in Loop /\ loop \in [Instances -> Loop] /\ StreamAt(i) \in Streams
      /\ checkpoint[StreamAt(i)] \in Checkpoint
  BY StreamTyped DEF IInv, TypeOK
<1>2. next \in Nat /\ loop[i].latest \in Nat /\ StoredThrough(StreamAt(i), next - 1)
  BY <1>1 DEF NextBlock, Checkpoint, Loop, IInv, NoGap
<1>3. UNCHANGED <<head, emitted, records, checkpoint, stop_requested, faults>>
  BY DEF ReadCheckpoint, RereadCheckpoint
<1>4. CASE NextDefinition(i)
  <2>1. /\ loop' \in [Instances -> Loop] /\ loop'[i].latest = loop[i].latest
        /\ loop'[i].at \in {"stopped", "poll", "read"}
        /\ \A j \in Instances \ {i} : loop'[j] = loop[j]
    BY <1>4, NextDefinitionStep DEF IInv
  <2>2. Carried(i)'
    BY <2>1 DEF Carried
  <2> QED
    BY <1>3, <2>1, <2>2, LoopStep DEF IInv, TypeOK
<1>5. CASE \/ next > loop[i].latest /\ loop' = [loop EXCEPT ![i].at = "caught_up", ![i].next = next]
           \/ next <= loop[i].latest /\ loop' = [loop EXCEPT ![i].at = "mark", ![i].next = next]
  <2> DEFINE at == IF next > loop[i].latest THEN "caught_up" ELSE "mark"
             new == [loop[i] EXCEPT !.at = at, !.next = next]
  <2>1. loop' = [loop EXCEPT ![i] = new]
    <3> HIDE DEF next
    <3>1. CASE next > loop[i].latest
      <4>1. at = "caught_up" /\ loop' = [loop EXCEPT ![i].at = "caught_up", ![i].next = next]
        BY <1>2, <1>5, <3>1
      <4> QED
        BY <1>1, <4>1
    <3>2. CASE ~(next > loop[i].latest)
      <4>1. at = "mark" /\ loop' = [loop EXCEPT ![i].at = "mark", ![i].next = next]
        BY <1>2, <1>5, <3>2
      <4> QED
        BY <1>1, <4>1
    <3> QED
      BY <3>1, <3>2
  <2>2. new \in Loop /\ new.at = at /\ new.next = next /\ new.latest = loop[i].latest
        /\ new.turn = loop[i].turn
    BY <1>1, <1>2 DEF Loop, States
  <2> HIDE DEF new
  <2>3. /\ loop' \in [Instances -> Loop] /\ loop'[i] = new
        /\ \A j \in Instances \ {i} : loop'[j] = loop[j]
    BY <1>1, <2>1, <2>2
  <2>4. StreamAt(i)' = StreamAt(i) /\ (\A n \in Int : StoredThrough(StreamAt(i), n)' = StoredThrough(StreamAt(i), n))
    BY <1>3, <2>2, <2>3 DEF StreamAt, StoredThrough, EventsIn
  <2>5. CASE next > loop[i].latest
    <3>1. StoredThrough(StreamAt(i), loop[i].latest)
      BY <1>1, <1>2, <2>5, StoredEarlier DEF IInv
    <3>2. StoredThrough(StreamAt(i), loop[i].latest)'
      BY <1>2, <1>3, <2>2, <2>3, <2>4, <3>1 DEF StoredThrough, EventsIn
    <3> QED
      BY <2>2, <2>3, <2>5, <3>2, <1>3, LoopStep DEF Carried, IInv, TypeOK
  <2>6. CASE next <= loop[i].latest
    <3>1. at = "mark"
      BY <1>2, <2>6
    <3>2. StoredThrough(StreamAt(i), loop[i].next - 1)'
      BY <1>2, <1>3, <2>2, <2>3, <2>4 DEF StoredThrough, EventsIn
    <3>3. Carried(i)'
      BY <2>2, <2>3, <2>6, <3>1, <3>2 DEF Carried
    <3> QED
      BY <2>2, <2>3, <3>3, <1>3, LoopStep DEF IInv, TypeOK
  <2> QED
    BY <1>2, <2>5, <2>6
<1> QED
  BY <1>2, <1>4, <1>5 DEF ReadCheckpoint, RereadCheckpoint

\* The first and the last step of a range only change the row's status.
LEMMA MarkStep ==
    ASSUME IInv, NEW i \in Instances,
           MarkCaughtUp(i) \/ MarkSyncing(i) \/ ReportError(i)
    PROVE  IInv'
<1>1. TypeOK /\ Carried(i)
  BY DEF IInv
<1>2. CASE MarkCaughtUp(i) \/ ReportError(i)
  <2>1. /\ loop' \in [Instances -> Loop] /\ loop'[i].latest = loop[i].latest
        /\ loop'[i].at \in {"stopped", "poll", "read"}
        /\ \A j \in Instances \ {i} : loop'[j] = loop[j]
    BY <1>1, <1>2, NextDefinitionStep DEF MarkCaughtUp, ReportError
  <2>2. Carried(i)'
    BY <2>1 DEF Carried
  <2>3. CASE MarkCaughtUp(i)
    BY <1>1, <2>1, <2>2, <2>3, StatusStep DEF MarkCaughtUp, Carried, TypeOK
  <2>4. CASE ReportError(i)
    BY <1>1, <2>1, <2>2, <2>4, StatusStep DEF ReportError, TypeOK
  <2> QED
    BY <1>2, <2>3, <2>4
<1>3. CASE MarkSyncing(i)
  <2> USE <1>3 DEF MarkSyncing
  <2>1. /\ loop' \in [Instances -> Loop] /\ loop'[i].latest = loop[i].latest
        /\ loop'[i].at = "scan" /\ loop'[i].next = loop[i].next
        /\ loop'[i].turn = loop[i].turn
        /\ \A j \in Instances \ {i} : loop'[j] = loop[j]
    BY <1>1, GotoStep DEF States
  <2>2. StreamAt(i)' = StreamAt(i)
    BY <2>1 DEF StreamAt
  <2>3. Carried(i)'
    BY <1>1, <2>1, <2>2 DEF Carried, StoredThrough, EventsIn
  <2> QED
    BY <1>1, <2>1, <2>3, StatusStep DEF TypeOK
<1> QED
  BY <1>2, <1>3

\* Scanning, fetching what is missing, and storing it.
LEMMA RangeStep ==
    ASSUME IInv, NEW i \in Instances, Scan(i) \/ Hydrate(i) \/ InsertActions(i)
    PROVE  IInv'
<1>1. TypeOK /\ Carried(i) /\ loop[i] \in Loop /\ loop \in [Instances -> Loop]
  BY DEF IInv, TypeOK
<1>2. UNCHANGED <<head, emitted, checkpoint, stop_requested, faults>>
  BY DEF Scan, Hydrate, InsertActions
<1>3. Batch(i) \subseteq Events
  BY DEF Batch, EventsIn
<1>4. CASE Scan(i)
  <2> USE <1>4 DEF Scan
  <2> DEFINE at == IF StreamAt(i) \in Hydrated THEN "hydrate" ELSE "insert"
             new == [loop[i] EXCEPT !.at = at, !.batch = Batch(i)]
  <2>1. loop' = [loop EXCEPT ![i] = new]
    BY <1>1 DEF Batch
  <2>2. /\ new \in Loop /\ new.at \in {"hydrate", "insert"} /\ new.batch = Batch(i)
        /\ new.next = loop[i].next /\ new.latest = loop[i].latest /\ new.turn = loop[i].turn
    BY <1>1, <1>3 DEF Loop, States
  <2> HIDE DEF new
  <2>3. /\ loop' \in [Instances -> Loop] /\ loop'[i] = new
        /\ \A j \in Instances \ {i} : loop'[j] = loop[j]
    BY <1>1, <2>1, <2>2
  <2>4. StreamAt(i)' = StreamAt(i) /\ ToBlock(i)' = ToBlock(i)
    BY <2>2, <2>3 DEF StreamAt, ToBlock
  <2>5. Batch(i)' = Batch(i)
    BY <1>2, <2>2, <2>3, <2>4 DEF Batch, EventsIn
  <2>6. StoredThrough(StreamAt(i), loop[i].next - 1)' = StoredThrough(StreamAt(i), loop[i].next - 1)
    BY <1>2, <2>2, <2>3, <2>4 DEF StoredThrough, EventsIn
  <2>7. Carried(i)'
    BY <1>1, <2>2, <2>3, <2>5, <2>6 DEF Carried
  <2> QED
    BY <1>1, <1>2, <2>2, <2>3, <2>7, LoopStep DEF TypeOK
<1>5. CASE Hydrate(i)
  <2> USE <1>5 DEF Hydrate
  <2> DEFINE new == [loop[i] EXCEPT !.at = "insert", !.batch = @ \ records]
  <2>1. loop' = [loop EXCEPT ![i] = new]
    BY <1>1
  <2>2. /\ new \in Loop /\ new.at = "insert" /\ new.batch = loop[i].batch \ records
        /\ new.next = loop[i].next /\ new.latest = loop[i].latest /\ new.turn = loop[i].turn
    BY <1>1 DEF Loop, States
  <2> HIDE DEF new
  <2>3. /\ loop' \in [Instances -> Loop] /\ loop'[i] = new
        /\ \A j \in Instances \ {i} : loop'[j] = loop[j]
    BY <1>1, <2>1, <2>2
  <2>4. StreamAt(i)' = StreamAt(i) /\ ToBlock(i)' = ToBlock(i)
    BY <2>2, <2>3 DEF StreamAt, ToBlock
  <2>5. Batch(i)' = Batch(i)
    BY <1>2, <2>2, <2>3, <2>4 DEF Batch, EventsIn
  <2>6. StoredThrough(StreamAt(i), loop[i].next - 1)' = StoredThrough(StreamAt(i), loop[i].next - 1)
    BY <1>2, <2>2, <2>3, <2>4 DEF StoredThrough, EventsIn
  <2>7. Carried(i)'
    BY <1>1, <2>2, <2>3, <2>5, <2>6 DEF Carried
  <2> QED
    BY <1>1, <1>2, <2>2, <2>3, <2>7, LoopStep DEF TypeOK
<1>6. CASE InsertActions(i)
  <2> USE <1>6 DEF InsertActions, Inserted
  <2>1. /\ loop' \in [Instances -> Loop] /\ loop'[i].latest = loop[i].latest
        /\ loop'[i].at = "advance" /\ loop'[i].next = loop[i].next
        /\ loop'[i].turn = loop[i].turn
        /\ \A j \in Instances \ {i} : loop'[j] = loop[j]
    BY <1>1, GotoStep DEF States
  <2>2. StreamAt(i)' = StreamAt(i) /\ ToBlock(i)' = ToBlock(i)
    BY <2>1 DEF StreamAt, ToBlock
  <2>3. Batch(i)' = Batch(i)
    BY <1>2, <2>1, <2>2 DEF Batch, EventsIn
  <2>4. StoredThrough(StreamAt(i), loop[i].next - 1) => StoredThrough(StreamAt(i), loop[i].next - 1)'
    BY <1>2, <2>1, <2>2 DEF StoredThrough, EventsIn
  <2>5. Carried(i)'
    BY <1>1, <2>1, <2>3, <2>4 DEF Carried
  <2>6. records' \in SUBSET Events /\ records \subseteq records'
    BY <1>1 DEF Loop, TypeOK
  <2> QED
    BY <1>1, <1>2, <2>1, <2>5, <2>6, LoopStep DEF TypeOK
<1> QED
  BY <1>4, <1>5, <1>6

\* A failing call, whether or not it took effect, a crash, and a request to stop.
LEMMA FaultStep ==
    ASSUME IInv, NEW i \in Instances,
           CallFails(i) \/ HydrateFails(i) \/ Die(i) \/ Stop(i)
    PROVE  IInv'
<1>1. TypeOK /\ Carried(i) /\ loop[i] \in Loop
  BY DEF IInv, TypeOK
<1>2. faults' \in Nat /\ stop_requested' \in [Instances -> BOOLEAN] /\ UNCHANGED <<head, emitted>>
  <2>1. UNCHANGED <<head, emitted>>
    BY DEF CallFails, HydrateFails, Die, Stop
  <2>2. faults' = faults \/ faults' = faults + 1
    BY DEF CallFails, HydrateFails, Die, Stop, Fault
  <2>3. stop_requested' = stop_requested \/ stop_requested' = [stop_requested EXCEPT ![i] = TRUE]
    BY DEF CallFails, HydrateFails, Die, Stop
  <2>4. faults' \in Nat
    BY <1>1, <2>2 DEF TypeOK
  <2>5. stop_requested' \in [Instances -> BOOLEAN]
    BY <1>1, <2>3 DEF TypeOK
  <2> QED
    BY <2>1, <2>4, <2>5
<1>3. CASE Stop(i)
  <2>1. loop' = loop /\ UNCHANGED <<records, checkpoint>>
    BY <1>3 DEF Stop
  <2>2. Carried(i)'
    BY <1>1, <1>2, <2>1, CarriedByOthers
  <2> QED
    BY <1>1, <1>2, <2>1, <2>2, LoopStep DEF TypeOK
<1>4. CASE CallFails(i) \/ HydrateFails(i) \/ Die(i)
  <2>1. /\ loop' \in [Instances -> Loop] /\ loop'[i].latest = loop[i].latest
        /\ loop'[i].at \in {"error", "stopped"}
        /\ \A j \in Instances \ {i} : loop'[j] = loop[j]
    BY <1>1, <1>4, GotoStep DEF States, CallFails, HydrateFails, Die
  <2>2. Carried(i)'
    BY <2>1 DEF Carried
  <2>3. CASE checkpoint' = checkpoint /\ (records' = records \/ records' = records \cup loop[i].batch)
    <3>1. records' \in SUBSET Events /\ records \subseteq records'
      BY <1>1, <2>3 DEF Loop, TypeOK
    <3> QED
      BY <1>2, <2>1, <2>2, <2>3, <3>1, LoopStep
  <2>4. CASE /\ loop[i].at = "advance" /\ records' = records
             /\ checkpoint' = [checkpoint EXCEPT ![StreamAt(i)] = Advanced(i, @)]
    BY <1>2, <2>1, <2>2, <2>4, AdvanceStep
  <2> QED
    BY <1>4, <2>3, <2>4 DEF CallFails, HydrateFails, Die, Inserted
<1> QED
  BY <1>3, <1>4

-----------------------------------------------------------------------------
(* The theorems.                                                             *)

LEMMA InitInvariant == Init => IInv
<1> SUFFICES ASSUME Init PROVE IInv
  OBVIOUS
<1> USE DEF Init
<1>1. 1 \in DOMAIN Definitions /\ \A s \in Streams : StartBlock[s] \in Nat
  BY StreamsAssumption
<1>2. Row("none", 0) \in Checkpoint /\ Row("none", 0).next_block = 0
        /\ Row("none", 0).latest_observed_block = 0 /\ Row("none", 0).status = "none"
  BY DEF Row, Checkpoint
<1>3. TypeOK
  BY <1>1, <1>2 DEF TypeOK, Loop, States
<1>4. Bounded
  BY <1>2 DEF Bounded
<1>5. NoGap /\ CaughtUpIsTrue
  BY <1>2 DEF NoGap, CaughtUpIsTrue, StoredThrough, EventsIn
<1>6. \A i \in Instances : Carried(i)
  BY IdleCarries
<1> QED
  BY <1>3, <1>4, <1>5, <1>6 DEF IInv

LEMMA NextInvariant == IInv /\ [Next]_vars => IInv'
<1> SUFFICES ASSUME IInv, [Next]_vars PROVE IInv'
  OBVIOUS
<1>1. ASSUME NEW new \in SUBSET {e \in Events : emitted[e] = 0}, NewBlock(new)
      PROVE  IInv'
  BY <1>1, NewBlockStep
<1>2. ASSUME NEW i \in Instances, Start(i) PROVE IInv'
  BY <1>2, StartStep
<1>3. ASSUME NEW i \in Instances, Run(i) PROVE IInv'
  <2>1. CASE Poll(i)
    BY <2>1, PollStep
  <2>2. CASE ReadCheckpoint(i) \/ RereadCheckpoint(i)
    BY <2>2, ReadStep
  <2>3. CASE MarkCaughtUp(i) \/ MarkSyncing(i) \/ ReportError(i)
    BY <2>3, MarkStep
  <2>4. CASE Scan(i) \/ Hydrate(i) \/ InsertActions(i)
    BY <2>4, RangeStep
  <2>5. CASE AdvanceCheckpoint(i)
    <3>1. /\ loop' \in [Instances -> Loop] /\ loop'[i].latest = loop[i].latest
          /\ loop'[i].at = "reread" /\ \A j \in Instances \ {i} : loop'[j] = loop[j]
      BY <2>5, GotoStep DEF AdvanceCheckpoint, States, IInv
    <3>2. Carried(i)'
      BY <3>1 DEF Carried
    <3> QED
      BY <2>5, <3>1, <3>2, AdvanceStep DEF AdvanceCheckpoint, IInv, TypeOK
  <2>6. CASE HydrateFails(i)
    BY <2>6, FaultStep
  <2> QED
    BY <1>3, <2>1, <2>2, <2>3, <2>4, <2>5, <2>6 DEF Run
<1>4. ASSUME NEW i \in Instances, Stop(i) \/ CallFails(i) \/ Die(i) PROVE IInv'
  BY <1>4, FaultStep
<1>5. CASE UNCHANGED vars
  <2>1. TypeOK' /\ Bounded'
    BY <1>5 DEF vars, IInv, TypeOK, Bounded
  <2>2. NoGap' /\ CaughtUpIsTrue'
    BY <1>5, RowsKept DEF vars
  <2>3. \A i \in Instances : Carried(i)'
    BY <1>5, CarriedByOthers DEF vars, IInv
  <2> QED
    BY <2>1, <2>2, <2>3 DEF IInv
<1> QED
  BY <1>1, <1>2, <1>3, <1>4, <1>5 DEF Next

\* The invariant behind the theorems holds in every reachable state.
THEOREM Invariance == Spec => []IInv
  BY InitInvariant, NextInvariant, PTL DEF Spec

\* No event is ever lost: whatever instances crash, stop, fail or overwrite each
\* other's checkpoint, the row never passes an event that is not stored
\* (advanceCheckpoint).
THEOREM NothingLost == Spec => []NoGap
<1>1. IInv => NoGap
  BY DEF IInv
<1> QED
  BY <1>1, Invariance, PTL

\* What the health endpoint and the discover route report as caught up is there.
THEOREM CaughtUpHolds == Spec => []CaughtUpIsTrue
<1>1. IInv => CaughtUpIsTrue
  BY DEF IInv
<1> QED
  BY <1>1, Invariance, PTL

\* Every variable keeps its type: no row or cursor is ever negative or foreign.
THEOREM TypeCorrect == Spec => []TypeOK
<1>1. IInv => TypeOK
  BY DEF IInv
<1> QED
  BY <1>1, Invariance, PTL

-----------------------------------------------------------------------------
(* The activity feed.                                                        *)

\* No two items that the walk may show are at one position.
Distinct == \A x, y \in Wanted(Items) : Key[x] = Key[y] => x = y

\* The page under way has answers enough without x: as many as fit on it, and
\* none of them is older.
Outdone(x) ==
    \E page \in SUBSET answers : Cardinality(page) = Limit /\ \A y \in page : Key[y] >= Key[x]

\* The cursor parts what was shown from what is still to come, for what is asked
\* of the tables too.
Parted ==
    /\ known \subseteq Wanted(stored)
    /\ walk = "new" => known = {} /\ seen = {} /\ answers = {} /\ cursor = NoCursor
    /\ walk # "done" => \A x \in seen : Key[x] >= cursor
    /\ walk = "page" => answers \subseteq {x \in Wanted(Items) : After(x)}

\* An item still owed is below the cursor, and its table has not answered yet, has
\* answered with it, or left it out for newer ones.
Owed ==
    /\ walk \in {"page", "next"} => \A x \in known \ seen : After(x)
    /\ walk = "page" => \A x \in known \ seen :
                            SourceOf[KindOf[x]] \in asked \/ x \in answers \/ Outdone(x)
    /\ NothingSkipped

FeedInv == FeedTypeOK /\ Parted /\ twice = {} /\ (Distinct => Owed)

-----------------------------------------------------------------------------
(* Facts about keys and pages.                                               *)

LEMMA KeyRange ==
    /\ \A x \in Items : Key[x] \in Nat /\ Key[x] \in 1..NoCursor /\ Key[x] < NoCursor
    /\ NoCursor \in 1..NoCursor
<1>1. NoCursor \in Nat /\ 1 <= NoCursor
  BY DEF NoCursor
<1>2. Key \in [Items -> 1..(NoCursor - 1)]
  BY FeedAssumption
<1> QED
  BY <1>1, <1>2

LEMMA LeastOf ==
    ASSUME NEW S \in SUBSET Nat, S # {}
    PROVE  \E m \in S : \A n \in S : m <= n
<1>1. PICK m \in S : \A n \in S : <<n, m>> \notin OpToRel(<, Nat)
  BY NatLessThanWellFounded, WFMin
<1>2. \A n \in S : ~(n < m)
  BY <1>1 DEF OpToRel
<1> QED
  BY <1>2

\* A page is a part of its rows and holds Limit of them or all.
LEMMA PageSize ==
    ASSUME NEW rows \in SUBSET Items, NEW page \in Pages(rows, Limit)
    PROVE  /\ page \subseteq rows
           /\ Cardinality(page) \in Nat
           /\ page = rows \/ Cardinality(page) = Limit
           /\ \A p \in SUBSET rows : Cardinality(p) = Limit => Cardinality(page) = Limit
           /\ \A x \in page, y \in rows \ page : Key[x] >= Key[y]
<1>1. IsFiniteSet(rows) /\ IsFiniteSet(page) /\ page \subseteq rows
  BY FeedAssumption, FS_Subset DEF Pages
<1>2. Cardinality(rows) \in Nat /\ Cardinality(page) \in Nat /\ Limit \in Nat
  BY <1>1, FS_CardinalityType, FeedAssumption
<1>3. Cardinality(rows) <= Limit =>
        page = rows /\ \A p \in SUBSET rows : Cardinality(p) = Limit => Cardinality(page) = Limit
  <2> HAVE Cardinality(rows) <= Limit
  <2>1. Cardinality(page) = Cardinality(rows)
    BY DEF Pages
  <2>2. page = rows
    BY <1>1, <2>1, FS_Subset
  <2>3. ASSUME NEW p \in SUBSET rows, Cardinality(p) = Limit PROVE Cardinality(page) = Limit
    <3>1. Cardinality(p) <= Cardinality(rows)
      BY <1>1, FS_Subset
    <3> QED
      BY <1>2, <2>1, <2>3, <3>1
  <2> QED
    BY <2>2, <2>3
<1>4. ~(Cardinality(rows) <= Limit) => Cardinality(page) = Limit
  BY DEF Pages
<1>5. /\ page = rows \/ Cardinality(page) = Limit
      /\ \A p \in SUBSET rows : Cardinality(p) = Limit => Cardinality(page) = Limit
  BY <1>3, <1>4
<1>6. \A x \in page, y \in rows \ page : Key[x] >= Key[y]
  BY DEF Pages
<1> QED
  BY <1>1, <1>2, <1>5, <1>6

\* What a full set of newer rows crowds out, a page of all the rows does too.
LEMMA PageOutdoes ==
    ASSUME NEW rows \in SUBSET Items, NEW page \in Pages(rows, Limit),
           NEW p \in SUBSET rows, Cardinality(p) = Limit,
           NEW x \in Items, \A y \in p : Key[y] >= Key[x]
    PROVE  Cardinality(page) = Limit /\ \A y \in page : Key[y] >= Key[x]
<1>1. /\ page \subseteq rows /\ Cardinality(page) = Limit
      /\ \A u \in page, y \in rows \ page : Key[u] >= Key[y]
  BY PageSize
<1>2. (\A y \in Items : Key[y] \in Nat) /\ IsFiniteSet(page)
  BY <1>1, KeyRange, FeedAssumption, FS_Subset
<1>3. CASE p \subseteq page
  <2>1. p = page
    BY <1>1, <1>2, <1>3, FS_Subset
  <2> QED
    BY <1>1, <2>1
<1>4. ASSUME NEW q \in p \ page PROVE \A y \in page : Key[y] >= Key[x]
  <2> SUFFICES ASSUME NEW y \in page PROVE Key[y] >= Key[x]
    OBVIOUS
  <2>1. Key[y] >= Key[q] /\ Key[q] >= Key[x]
    BY <1>1
  <2>2. Key[y] \in Int /\ Key[q] \in Int /\ Key[x] \in Int
    BY <1>1, <1>2
  <2> QED
    BY <2>1, <2>2
<1> QED
  BY <1>1, <1>3, <1>4

\* A full page has an item, and the cursor it yields is the least of its keys.
LEMMA CursorOfPage ==
    ASSUME NEW items \in SUBSET Items, Full(items),
           NEW k, k = CHOOSE m \in NextCursor(items) : \A other \in NextCursor(items) : m <= other
    PROVE  /\ \E x \in items : k = Key[x]
           /\ \A x \in items : k <= Key[x]
<1>1. IsFiniteSet(items) /\ items # {}
  <2>1. IsFiniteSet(items) /\ Cardinality({}) = 0
    BY FeedAssumption, FS_Subset, FS_EmptySet
  <2>2. Cardinality(items) # 0
    BY FeedAssumption DEF Full
  <2> QED
    BY <2>1, <2>2
<1>2. NextCursor(items) \subseteq Nat /\ NextCursor(items) # {}
  BY <1>1, KeyRange DEF NextCursor
<1>3. \E m \in NextCursor(items) : \A other \in NextCursor(items) : m <= other
  BY <1>2, LeastOf
<1>4. k \in NextCursor(items) /\ \A other \in NextCursor(items) : k <= other
  BY <1>3
<1> QED
  BY <1>4 DEF NextCursor

-----------------------------------------------------------------------------
(* Every step keeps the invariant.                                           *)

LEMMA FeedInitInvariant == FeedInit => FeedInv
<1> SUFFICES ASSUME FeedInit PROVE FeedInv
  OBVIOUS
<1>1. FeedTypeOK
  BY KeyRange DEF FeedInit, FeedTypeOK
<1>2. Parted /\ twice = {} /\ Owed
  BY DEF FeedInit, Parted, Owed, NothingSkipped
<1> QED
  BY <1>1, <1>2 DEF FeedInv

\* What is stored during a walk is owed to a later one.
LEMMA StoreStep == ASSUME FeedInv, NEW x \in Items, Store(x) PROVE FeedInv'
<1>1. FeedTypeOK' /\ twice' = {}
  BY DEF FeedInv, FeedTypeOK, Store
<1>2. Parted'
  BY DEF FeedInv, Parted, Store, Wanted, After
<1>3. Distinct' => Owed'
  BY DEF FeedInv, Owed, Store, Distinct, Wanted, After, Outdone, NothingSkipped
<1> QED
  BY <1>1, <1>2, <1>3 DEF FeedInv

\* Everything stored is below the first cursor, and every table is asked for it.
LEMMA BeginStep == ASSUME FeedInv, NEW f \in Filters, Begin(f) PROVE FeedInv'
<1>0. f \in Kinds \cup {AllKinds}
  BY FeedAssumption
<1>1. FeedTypeOK' /\ twice' = {}
  <2>1. asked' \in SUBSET Sources
    BY <1>0, FeedAssumption DEF Begin
  <2> QED
    BY <1>0, <2>1 DEF FeedInv, FeedTypeOK, Begin
<1>2. Parted'
  BY DEF FeedInv, Parted, Begin, Wanted
<1>3. \A x \in known' : x \in Items /\ After(x)' /\ SourceOf[KindOf[x]] \in asked'
  <2> SUFFICES ASSUME NEW x \in known' PROVE x \in Items /\ After(x)' /\ SourceOf[KindOf[x]] \in asked'
    OBVIOUS
  <2>1. x \in Items /\ (f = AllKinds \/ KindOf[x] = f)
    BY DEF Begin, FeedInv, FeedTypeOK
  <2>2. cursor' = NoCursor
    BY DEF Begin, FeedInv, Parted
  <2>3. Key[x] < NoCursor
    BY <2>1, KeyRange
  <2>4. SourceOf[KindOf[x]] \in Sources
    BY <2>1, FeedAssumption
  <2> QED
    BY <2>1, <2>2, <2>3, <2>4 DEF Begin, After
<1>4. Owed'
  BY <1>3 DEF Owed, Begin, NothingSkipped
<1> QED
  BY <1>1, <1>2, <1>4 DEF FeedInv

\* A table answers with the newest items below the cursor: what it leaves out is
\* older than a full page of what it gave.
LEMMA QueryStep == ASSUME FeedInv, NEW s \in Sources, Query(s) PROVE FeedInv'
<1>1. PICK page \in Pages(Rows(s), Limit) : answers' = answers \cup page
  BY DEF Query
<1>2. Rows(s) \in SUBSET Items /\ Rows(s) \subseteq {x \in Wanted(Items) : After(x)}
  BY DEF Rows, Wanted, FeedInv, FeedTypeOK
<1>3. /\ page \subseteq Rows(s)
      /\ page = Rows(s) \/ Cardinality(page) = Limit
      /\ \A x \in page, y \in Rows(s) \ page : Key[x] >= Key[y]
  BY <1>2, PageSize
<1>4. FeedTypeOK' /\ twice' = {}
  BY <1>1, <1>2, <1>3 DEF FeedInv, FeedTypeOK, Query
<1>5. Parted'
  <2>1. answers' \subseteq {x \in Wanted(Items)' : After(x)'}
    BY <1>1, <1>2, <1>3 DEF FeedInv, Parted, Query, Wanted, After
  <2> QED
    BY <2>1 DEF FeedInv, Parted, Query, Wanted
<1>6. ASSUME Distinct' PROVE Owed'
  <2>1. Distinct /\ Owed
    BY <1>6 DEF FeedInv, Distinct, Wanted, Query
  <2>2. \A x \in known' \ seen' : After(x)'
    BY <2>1 DEF Owed, Query, After
  <2>3. ASSUME NEW x \in known' \ seen'
        PROVE  SourceOf[KindOf[x]] \in asked' \/ x \in answers' \/ Outdone(x)'
    <3>1. CASE x \in answers \/ SourceOf[KindOf[x]] \in asked \ {s}
      BY <1>1, <3>1 DEF Query
    <3>2. CASE Outdone(x)
      BY <1>1, <3>2 DEF Outdone
    <3>3. CASE SourceOf[KindOf[x]] = s
      <4>1. x \in Rows(s)
        BY <2>2, <3>3 DEF Rows, FeedInv, Parted, Query, After
      <4>2. CASE x \in page
        BY <1>1, <4>2
      <4>3. CASE x \notin page
        BY <1>1, <1>3, <4>1, <4>3 DEF Outdone
      <4> QED
        BY <4>2, <4>3
    <3> QED
      BY <2>1, <3>1, <3>2, <3>3 DEF Owed, Query
  <2>4. walk' = "page" /\ NothingSkipped'
    BY DEF Query, NothingSkipped
  <2> QED
    BY <2>2, <2>3, <2>4 DEF Owed
<1> QED
  BY <1>4, <1>5, <1>6 DEF FeedInv

\* The merged page ends above all that is owed and not on it; a page that is not
\* full leaves nothing.
LEMMA RespondStep == ASSUME FeedInv, Respond PROVE FeedInv'
<1>1. PICK items \in Pages(answers, Limit) :
        /\ seen' = seen \cup items
        /\ twice' = twice \cup (items \cap seen)
        /\ IF Full(items)
             THEN /\ walk' = "next"
                  /\ cursor' = CHOOSE k \in NextCursor(items) :
                                   \A other \in NextCursor(items) : k <= other
             ELSE walk' = "done" /\ UNCHANGED cursor
  BY DEF Respond
<1>2. /\ answers \in SUBSET Items /\ known \subseteq Items /\ seen \subseteq Items
      /\ \A x \in Items : Key[x] \in Nat /\ Key[x] \in 1..NoCursor
      /\ cursor \in Int /\ walk = "page" /\ asked = {}
  <2>1. FeedTypeOK /\ walk = "page" /\ asked = {}
    BY DEF FeedInv, Respond
  <2>2. cursor \in Int
    BY <2>1, KeyRange DEF FeedTypeOK
  <2> QED
    BY <2>1, <2>2, KeyRange DEF FeedTypeOK
<1>3. /\ items \subseteq answers
      /\ items = answers \/ Full(items)
      /\ \A x \in items, y \in answers \ items : Key[x] >= Key[y]
  BY <1>2, PageSize DEF Full
<1>4. \A x \in items : Key[x] < cursor /\ x \in Wanted(Items)
  BY <1>2, <1>3 DEF FeedInv, Parted, After
<1>5. items \cap seen = {}
  <2> SUFFICES ASSUME NEW x \in items, x \in seen PROVE FALSE
    OBVIOUS
  <2>1. Key[x] < cursor /\ Key[x] >= cursor /\ Key[x] \in Int
    BY <1>2, <1>4 DEF FeedInv, Parted
  <2> QED
    BY <1>2, <2>1
<1>6. Full(items) => /\ \E x \in items : cursor' = Key[x]
                     /\ \A x \in items : cursor' <= Key[x]
  BY <1>1, <1>2, <1>3, CursorOfPage
<1>7. FeedTypeOK' /\ twice' = {}
  <2>1. cursor' \in 1..NoCursor
    BY <1>1, <1>2, <1>3, <1>6 DEF FeedInv, FeedTypeOK
  <2> QED
    BY <1>1, <1>2, <1>3, <1>5, <2>1 DEF FeedInv, FeedTypeOK, Respond
<1>8. Parted'
  <2>1. ASSUME walk' # "done", NEW x \in seen' PROVE Key[x] >= cursor'
    <3>0. Full(items)
      BY <1>1, <2>1
    <3>1. CASE x \in items
      BY <1>2, <1>3, <1>6, <3>0, <3>1
    <3>2. CASE x \in seen
      <4>1. PICK y \in items : cursor' = Key[y]
        BY <1>6, <3>0
      <4>2. Key[y] < cursor /\ cursor <= Key[x]
        BY <1>2, <1>4, <3>2 DEF FeedInv, Parted
      <4> QED
        BY <1>2, <1>3, <3>2, <4>1, <4>2
    <3> QED
      BY <1>1, <2>1, <3>1, <3>2
  <2> QED
    BY <1>1, <2>1 DEF FeedInv, Parted, Respond, Wanted
<1>9. ASSUME Distinct' PROVE Owed'
  <2>1. Distinct /\ Owed
    BY <1>9 DEF FeedInv, Distinct, Wanted, Respond
  <2>2. ASSUME NEW x \in known' \ seen' PROVE Full(items) /\ After(x)'
    <3>1. x \in known \ seen /\ x \notin items /\ x \in Wanted(Items)
      BY <1>1, <1>2 DEF Respond, FeedInv, Parted, Wanted
    <3>2. x \in answers \/ Outdone(x)
      BY <1>2, <2>1, <3>1 DEF Owed
    <3>3. Full(items) /\ \A y \in items : Key[y] >= Key[x]
      <4>1. CASE x \in answers
        BY <1>2, <1>3, <3>1, <4>1
      <4>2. CASE Outdone(x)
        BY <1>2, <3>1, <4>2, PageOutdoes DEF Outdone, Full
      <4> QED
        BY <3>2, <4>1, <4>2
    <3>4. PICK y \in items : cursor' = Key[y]
      BY <1>6, <3>3
    <3>5. Key[y] # Key[x] /\ Key[y] >= Key[x] /\ Key[y] \in Int /\ Key[x] \in Int
      BY <1>2, <1>3, <1>4, <2>1, <3>1, <3>3 DEF Distinct
    <3> QED
      BY <3>3, <3>4, <3>5 DEF After
  <2>3. walk' # "page"
    BY <1>1
  <2> QED
    BY <1>1, <2>2, <2>3 DEF Owed, NothingSkipped
<1> QED
  BY <1>7, <1>8, <1>9 DEF FeedInv

\* The next request asks every table that the filter names again.
LEMMA NextPageStep == ASSUME FeedInv, NextPage PROVE FeedInv'
<1>1. FeedTypeOK' /\ twice' = {}
  <2>1. Tables \in SUBSET Sources
    BY FeedAssumption DEF Tables, FeedInv, FeedTypeOK
  <2> QED
    BY <2>1 DEF FeedInv, FeedTypeOK, NextPage
<1>2. Parted'
  BY DEF FeedInv, Parted, NextPage, Wanted
<1>3. ASSUME Distinct' PROVE Owed'
  <2>1. Distinct /\ Owed
    BY <1>3 DEF FeedInv, Distinct, Wanted, NextPage
  <2>2. \A x \in known' \ seen' : After(x)'
    BY <2>1 DEF Owed, NextPage, After
  <2>3. ASSUME NEW x \in known' \ seen' PROVE SourceOf[KindOf[x]] \in asked'
    <3>1. x \in Items /\ (filter = AllKinds \/ KindOf[x] = filter)
      BY DEF FeedInv, FeedTypeOK, Parted, NextPage, Wanted
    <3>2. SourceOf[KindOf[x]] \in Sources
      BY <3>1, FeedAssumption
    <3> QED
      BY <3>1, <3>2 DEF NextPage, Tables
  <2> QED
    BY <2>2, <2>3 DEF Owed, NextPage, NothingSkipped
<1> QED
  BY <1>1, <1>2, <1>3 DEF FeedInv

LEMMA FeedNextInvariant == FeedInv /\ [FeedNext]_feedVars => FeedInv'
<1> SUFFICES ASSUME FeedInv, [FeedNext]_feedVars PROVE FeedInv'
  OBVIOUS
<1>1. CASE FeedNext
  BY <1>1, StoreStep, BeginStep, QueryStep, RespondStep, NextPageStep DEF FeedNext
<1>2. CASE UNCHANGED feedVars
  BY <1>2 DEF feedVars, FeedInv, FeedTypeOK, Parted, Distinct, Owed, NothingSkipped, Wanted, After, Outdone
<1> QED
  BY <1>1, <1>2

LEMMA FeedInvariance == FeedSpec => []FeedInv
BY FeedInitInvariant, FeedNextInvariant, PTL DEF FeedSpec

\* A walk shows nothing twice, and at its end every item that was stored when it
\* began, whatever is stored meanwhile and however the tables' answers interleave,
\* as long as no two items that it may show are at one position.
THEOREM WalkShowsOnce == FeedSpec => [](Distinct => ShownOnce)
<1>1. FeedInv => (Distinct => ShownOnce)
  BY DEF FeedInv, Owed, ShownOnce
<1> QED
  BY <1>1, FeedInvariance, PTL

\* A walk that asks for one kind needs nothing of the positions: the primary key
\* of the kind's table tells its items apart.
THEOREM KindShownOnce == FeedSpec => [](filter # AllKinds => ShownOnce)
<1>1. FeedInv /\ filter # AllKinds => Distinct
  BY PrimaryKeyAssumption DEF Distinct, Wanted
<1>2. FeedInv => (filter # AllKinds => ShownOnce)
  BY <1>1 DEF FeedInv, Owed, ShownOnce
<1> QED
  BY <1>2, FeedInvariance, PTL

=============================================================================
