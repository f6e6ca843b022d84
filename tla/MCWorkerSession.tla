--------------------------- MODULE MCWorkerSession ---------------------------
(***************************************************************************)
(* A small instance of WorkerSession: jobs for two kinds of browsers, in   *)
(* two sessions that serve three jobs each.                                *)
(***************************************************************************)
EXTENDS WorkerSession

CONSTANTS gpu, cpu

=============================================================================
