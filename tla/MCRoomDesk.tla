----------------------------- MODULE MCRoomDesk -----------------------------
(* Instances of RoomDesk for TLC.                                          *)
EXTENDS RoomDesk

\* Two private texts and two group texts, with their repetitions; the other surfaces
\* have none.
MCMaxTexts == [s \in Surfaces |-> IF s \in {"text", "group"} THEN 2 ELSE 0]
=============================================================================
