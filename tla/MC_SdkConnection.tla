--------------------------- MODULE MC_SdkConnection ---------------------------
(* A streaming request and two releases where one ordinary call may be       *)
(* pending, with one delivery slot at each end; an event is two fragments.   *)
(* So the request meets the limit, and a release comes while the one before  *)
(* it is not retired and the ordinary slot is taken.                         *)
EXTENDS SdkConnection

CONSTANTS r1, r2

MCParts == [k \in Messages |-> IF k = "event" THEN 2 ELSE 1]

\* Two releases differ in nothing but their names, and a call is never due: the
\* one that comes first is r1.
FirstIsR1 == receiver["client"][r1].step = "idle" => receiver["client"][r2].step = "idle"
=============================================================================
