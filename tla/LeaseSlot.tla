------------------------------ MODULE LeaseSlot ------------------------------
(***************************************************************************)
(* What the pool of internal/nicorender/browser_pool.go promises to its    *)
(* callers: one lease at a time; a slot that is shut grants nothing, not   *)
(* even to somebody who is already waiting for the answer; and it is taken *)
(* down only when nobody holds it.                                         *)
(***************************************************************************)
CONSTANT Leases

VARIABLES
  stage,   \* of each lease: "new", "reserved", "granted", "over"
  shut,    \* no more leases
  down     \* what the leases are for has been taken down

vars == <<stage, shut, down>>

Held(l) == stage[l] \in {"reserved", "granted"}
Free == \A l \in Leases : ~Held(l)

Reserve(l) ==
  /\ ~shut /\ Free /\ stage[l] = "new"
  /\ stage' = [stage EXCEPT ![l] = "reserved"]
  /\ UNCHANGED <<shut, down>>

Grant(l) ==
  /\ ~shut /\ stage[l] = "reserved"
  /\ stage' = [stage EXCEPT ![l] = "granted"]
  /\ UNCHANGED <<shut, down>>

(* A lease ends, well or in a way that shuts the slot.                     *)
End(l) ==
  /\ Held(l)
  /\ stage' = [stage EXCEPT ![l] = "over"]
  /\ shut' \in {shut, TRUE}
  /\ UNCHANGED down

Shut == shut' = TRUE /\ UNCHANGED <<stage, down>>

TakeDown == shut /\ Free /\ down' = TRUE /\ UNCHANGED <<stage, shut>>

Init == stage = [l \in Leases |-> "new"] /\ shut = FALSE /\ down = FALSE

Next ==
  \/ \E l \in Leases : Reserve(l) \/ Grant(l) \/ End(l)
  \/ Shut \/ TakeDown

Spec == Init /\ [][Next]_vars
=============================================================================
