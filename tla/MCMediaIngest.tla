---------------------------- MODULE MCMediaIngest ----------------------------
(***************************************************************************)
(* Small instances of MediaIngest: a few requests, of any of the kinds     *)
(* that the configuration admits.                                          *)
(***************************************************************************)
EXTENDS MediaIngest, TLC

(* Every combination of kinds is an initial state: requests are            *)
(* interchangeable.                                                        *)
RequestSymmetry == Permutations(Requests)
=============================================================================
