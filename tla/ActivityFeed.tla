---------------------------- MODULE ActivityFeed ----------------------------
(* The activity feed of the backend, GET /activity of routes/activity.ts:    *)
(* three tables, filled by three indexers, are read page by page under one   *)
(* cursor.                                                                   *)
(*                                                                           *)
(* A cursor is a block number, a transaction hash and a locator, compared in *)
(* that order; Key stands for the triple.  The client walks from the newest  *)
(* item to the end while the indexers go on storing.                         *)
(*                                                                           *)
(* An operator named Bug_... is a faulty variant of the definition below it; *)
(* the specification does not use it.                                        *)
EXTENDS Integers, FiniteSets

CONSTANTS
    Sources,     \* discovery_records, rekber_events, settlement_certificate_events
    Kinds,       \* activity kinds
    Items,
    SourceOf,    \* the table a kind of item is in
    KindOf,
    Key,         \* (block, transaction, locator) of an item
    Filters,     \* the kinds a client may ask for, or AllKinds
    AllKinds,
    Limit

NoCursor == 1000000     \* above every key

ASSUME FeedAssumption ==
    /\ IsFiniteSet(Items) /\ IsFiniteSet(Sources)
    /\ KindOf \in [Items -> Kinds] /\ SourceOf \in [Kinds -> Sources]
    /\ Key \in [Items -> 1..(NoCursor - 1)]
    /\ AllKinds \notin Kinds /\ Filters \subseteq Kinds \cup {AllKinds}
    /\ Limit \in Nat \ {0}

\* The primary keys of the tables: a kind never has two items under one key.
ASSUME PrimaryKeyAssumption ==
    \A x, y \in Items : (KindOf[x] = KindOf[y] /\ Key[x] = Key[y]) => x = y

VARIABLES
    stored,      \* items the indexers have stored
    filter,      \* what this walk asks for
    cursor,
    answers,     \* what each table has answered for the page under way
    asked,       \* the tables still to answer
    known,       \* items that were stored when the walk began
    seen,        \* items the client was given
    twice,       \* items it was given more than once
    walk         \* "new", "page", "next" or "done"

feedVars == <<stored, filter, cursor, answers, asked, known, seen, twice, walk>>

-----------------------------------------------------------------------------
Wanted(items) == {x \in items : filter = AllKinds \/ KindOf[x] = filter}

\* The tables a request reads.
Tables ==
    IF filter = AllKinds THEN Sources ELSE {SourceOf[filter]}

FeedInit ==
    /\ stored = {}
    /\ filter = AllKinds
    /\ cursor = NoCursor
    /\ answers = {}
    /\ asked = {}
    /\ known = {}
    /\ seen = {}
    /\ twice = {}
    /\ walk = "new"

\* Pages of ORDER BY ... DESC LIMIT n; rows that compare equal come in any order.
Pages(rows, n) ==
    {page \in SUBSET rows :
        /\ Cardinality(page) = IF Cardinality(rows) <= n THEN Cardinality(rows) ELSE n
        /\ \A x \in page, y \in rows \ page : Key[x] >= Key[y]}

Bug_AtOrAfter(x) == Key[x] <= cursor

\* The WHERE clause of the cursor.
After(x) == Key[x] < cursor

\* An indexer stores an item, perhaps one of a block the walk has passed.
Store(x) ==
    /\ x \notin stored
    /\ stored' = stored \cup {x}
    /\ UNCHANGED <<filter, cursor, answers, asked, known, seen, twice, walk>>

\* The first request has no cursor.
Begin(f) ==
    /\ walk = "new"
    /\ filter' = f
    /\ asked' = IF f = AllKinds THEN Sources ELSE {SourceOf[f]}
    /\ known' = {x \in stored : f = AllKinds \/ KindOf[x] = f}
    /\ walk' = "page"
    /\ UNCHANGED <<stored, cursor, answers, seen, twice>>

\* The rows of one table below the cursor.
Rows(s) == {x \in Wanted(stored) : SourceOf[KindOf[x]] = s /\ After(x)}

\* One of the three queries, which run side by side.
Query(s) ==
    /\ walk = "page"
    /\ s \in asked
    /\ \E page \in Pages(Rows(s), Limit) : answers' = answers \cup page
    /\ asked' = asked \ {s}
    /\ UNCHANGED <<stored, filter, cursor, known, seen, twice, walk>>

\* encodeCursor of the last item.
NextCursor(items) == {Key[x] : x \in items}

\* A full page is taken for a sign that there is more.
Full(items) == Cardinality(items) = Limit

\* The answers are merged, sorted and cut.
Respond ==
    /\ walk = "page"
    /\ asked = {}
    /\ \E items \in Pages(answers, Limit) :
         /\ seen' = seen \cup items
         /\ twice' = twice \cup (items \cap seen)
         /\ IF Full(items)
              THEN /\ walk' = "next"
                   /\ cursor' = CHOOSE k \in NextCursor(items) :
                                    \A other \in NextCursor(items) : k <= other
              ELSE /\ walk' = "done"
                   /\ UNCHANGED cursor
    /\ UNCHANGED <<stored, filter, answers, asked, known>>

\* The client asks again with the cursor it was given.
NextPage ==
    /\ walk = "next"
    /\ walk' = "page"
    /\ answers' = {}
    /\ asked' = Tables
    /\ UNCHANGED <<stored, filter, cursor, known, seen, twice>>

FeedNext ==
    \/ \E x \in Items : Store(x)
    \/ \E f \in Filters : Begin(f)
    \/ \E s \in Sources : Query(s)
    \/ Respond
    \/ NextPage

FeedSpec == FeedInit /\ [][FeedNext]_feedVars

-----------------------------------------------------------------------------
(* Properties.                                                               *)

\* Every variable has its type, and a cursor is one of an item.
FeedTypeOK ==
    /\ stored \in SUBSET Items
    /\ filter \in Kinds \cup {AllKinds}
    /\ cursor \in 1..NoCursor
    /\ answers \in SUBSET Items
    /\ asked \in SUBSET Sources
    /\ known \in SUBSET Items
    /\ seen \in SUBSET Items
    /\ twice \in SUBSET Items
    /\ walk \in {"new", "page", "next", "done"}

\* A walk that ends has shown every wanted item that was stored when it began,
\* whatever is stored meanwhile in whichever table.
NothingSkipped == walk = "done" => known \subseteq seen

\* A walk shows nothing twice, and at its end everything it should: each item
\* stored when it began is on exactly one of its pages.
ShownOnce == twice = {} /\ NothingSkipped

=============================================================================
