---------------------------- MODULE MCObsReceiver ----------------------------
(***************************************************************************)
(* A small instance of ObsReceiver: one goroutine of the HTTP handlers and *)
(* the goroutine of the reconnect time-out, three listener generations, so *)
(* that a revoked listener meets its successor, and two sessions.          *)
(***************************************************************************)
EXTENDS ObsReceiver

CONSTANTS c1, timeout

=============================================================================
