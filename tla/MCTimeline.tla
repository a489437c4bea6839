------------------------------ MODULE MCTimeline ------------------------------
(* A room of three pages and one whose messages fit on a page. *)
EXTENDS Timeline

CONSTANTS r1, r2

Lengths == (r1 :> 6) @@ (r2 :> 1)
=============================================================================
