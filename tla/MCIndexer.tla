----------------------------- MODULE MCIndexer -----------------------------
(* Instances of Indexer for TLC.                                             *)
EXTENDS Indexer, TLC

CONSTANTS i1, i2, s1, s2, e1, e2

TwoStreams == <<s1, s2>>
FromBlockOne == [s \in Streams |-> 1]
OneInEach == (e1 :> s1) @@ (e2 :> s2)
=============================================================================
