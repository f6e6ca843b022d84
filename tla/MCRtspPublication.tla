-------------------------- MODULE MCRtspPublication --------------------------
(***************************************************************************)
(* A small instance of RtspPublication: one handler, two listeners, two    *)
(* publications under way and two sessions, so that a late publication of  *)
(* the first meets the second; the router may fail for the first.          *)
(***************************************************************************)
EXTENDS RtspPublication, TLC

CONSTANTS h1, l1, l2, p1, p2

(* Goroutines of one kind do the same.                                     *)
GoroutineSymmetry == Permutations(Listeners) \cup Permutations(Publishers)
=============================================================================
