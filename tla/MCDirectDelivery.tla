-------------------------- MODULE MCDirectDelivery --------------------------
(***************************************************************************)
(* A small instance of DirectDelivery: a session that may change between   *)
(* two settings, with room for a change and its restoration or a change    *)
(* and a recovery, and a publisher that may crash once.                    *)
(***************************************************************************)
EXTENDS DirectDelivery
=============================================================================
