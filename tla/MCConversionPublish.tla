------------------------- MODULE MCConversionPublish -------------------------
(***************************************************************************)
(* Instances of ConversionPublish: two jobs of distinct media ids, and,    *)
(* for safety, two goroutine identities so that a second worker could      *)
(* exist, and a third job that was converted before.                       *)
(***************************************************************************)
EXTENDS ConversionPublish, TLC

CONSTANTS j1, j2, j3, m1, m2, m3

(* Each job converts a media id of its own.                                *)
OneToOne ==
  [j \in Jobs |-> CASE j = j1 -> m1 [] j = j2 -> m2 [] j = j3 -> m3]

(* A queue in use: j3 was enqueued and encoded, its worker has quit, and   *)
(* the ticker of its watcher has not fired since.  Once another job is     *)
(* done, the limit of one prunes it.  The watchers of j1 and j2 are left   *)
(* to the runs of PubSpec.                                                 *)
UsedInit ==
  /\ items = {j3} /\ arrival = [j \in Jobs |-> IF j = j3 THEN 1 ELSE 0]
  /\ status = [j \in Jobs |-> IF j = j3 THEN "done" ELSE "unborn"]
  /\ preempted = [j \in Jobs |-> FALSE]
  /\ ctx = [j \in Jobs |-> IF j = j3 THEN "cancelled" ELSE "none"]
  /\ running = FALSE /\ mu = "free" /\ victim = NoJob /\ todo = {}
  /\ wpc = [w \in Workers |-> "off"] /\ wjob = [w \in Workers |-> NoJob]
  /\ active = NoJob /\ stream = [s \in Streams |-> "idle"] /\ reset = "idle"
  /\ output = [m \in Media |-> IF m = m3 THEN "complete" ELSE "absent"]
  /\ swept = {}
  /\ watch = [j \in Jobs |-> IF j = j3 THEN "polling" ELSE "none"]
  /\ found = [j \in Jobs |-> "absent"]
  /\ converted = [m \in Media |-> "none"]

UsedSpec ==
  UsedInit /\ [][(Next /\ UNCHANGED pubVars) \/ Watcher(j3)]_allVars

(* Goroutine identities are interchangeable, external streams too, and so  *)
(* are j1 and j2 with their media when no handler cancels either.          *)
Swap ==
  [x \in Jobs \cup Media |->
     CASE x = j1 -> j2 [] x = j2 -> j1 [] x = m1 -> m2 [] x = m2 -> m1 [] OTHER -> x]
UsedSymmetry == Permutations(Workers) \cup Permutations(Streams) \cup {Swap}
=============================================================================
