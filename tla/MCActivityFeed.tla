--------------------------- MODULE MCActivityFeed ---------------------------
(* Instances of ActivityFeed for TLC.                                        *)
EXTENDS ActivityFeed, TLC

CONSTANTS a, b, c, d, e, discovery, rekber, certificate

MCSourceOf ==
    [k \in {"message", "submitted", "confirmed", "issued"} |->
        IF k = "message" THEN discovery ELSE IF k = "issued" THEN certificate ELSE rekber]

MCKindOf == (a :> "message") @@ (b :> "submitted") @@ (c :> "confirmed")
                @@ (d :> "issued") @@ (e :> "message")

\* Every item under a key of its own.
DistinctKeys == (a :> 1) @@ (b :> 2) @@ (c :> 3) @@ (d :> 4) @@ (e :> 5)

=============================================================================
