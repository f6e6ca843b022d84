--------------------------- MODULE DeliverySwitch ---------------------------
(***************************************************************************)
(* The downstream half of a direct AirPlay session, internal/obsrtmp: the  *)
(* delivery generations with their ledger, the public RTSP gate and its    *)
(* router, and the MediaMTX backends.  A change of the settings makes a    *)
(* candidate generation with a backend of its own on private ports, drains *)
(* the gate of the connections to the active one and then moves the gate,  *)
(* the ledger and the published contract together.                         *)
(*                                                                         *)
(* The operators below are what the methods of directDeliveryCoordinator   *)
(* do under its mutex; DirectDelivery says who calls them and when.  The   *)
(* active generation of the coordinator, of the ledger, of the router and  *)
(* of the AirPlay manager are written in one critical section and are one  *)
(* variable.  Connections are told apart by the generation they go to.     *)
(***************************************************************************)
EXTENDS Naturals

CONSTANTS
  Plans,           \* delivery settings: profile, output, quality
  NoPlan,
  FirstPlan,       \* those the session starts with
  MaxGeneration    \* bound on the generations of the session

ASSUME SwitchAssumption ==
  /\ NoPlan \notin Plans /\ FirstPlan \in Plans
  /\ MaxGeneration \in Nat \ {0}

Generations == 1..MaxGeneration

VARIABLES
  direct,      \* the direct session: its context, then its end step by step
  active,      \* the committed generation
  planOf,      \* the plan of each generation
  ledger,      \* the state of its entry
  pending,     \* the generation of c.pending, 0 for nil
  held,        \* the attempt whose commitDrain is set, 0 for none
  draining,    \* router.draining
  conn,        \* the generations to whose backend public connections go
  backend      \* its MediaMTX process

switchVars == <<active, planOf, ledger, pending, held, draining, conn, backend>>

SwitchTypeOK ==
  /\ direct \in {"live", "cancelled", "closed"}
  /\ active \in Generations
  /\ planOf \in [Generations -> Plans \cup {NoPlan}]
  /\ ledger \in [Generations -> {"free", "prepared", "committed", "aborted"}]
  /\ pending \in 0..MaxGeneration /\ held \in 0..MaxGeneration
  /\ draining \in BOOLEAN
  /\ conn \subseteq Generations
  /\ backend \in [Generations -> {"none", "running", "stopped"}]

SwitchInit ==
  /\ direct = "live" /\ active = 1
  /\ planOf = [g \in Generations |-> IF g = 1 THEN FirstPlan ELSE NoPlan]
  /\ ledger = [g \in Generations |-> IF g = 1 THEN "committed" ELSE "free"]
  /\ pending = 0 /\ held = 0 /\ draining = FALSE
  /\ conn = {}
  /\ backend = [g \in Generations |-> IF g = 1 THEN "running" ELSE "none"]
-----------------------------------------------------------------------------
(* The coordinator.                                                        *)

(* activeRoute returns a route.                                            *)
RouteKnown == direct = "live" /\ ~draining

(* Generations are allocated in ascending order; n more can be.            *)
Room(n) == n <= MaxGeneration /\ ledger[MaxGeneration + 1 - n] = "free"
NextFree(g) == ledger[g] = "free" /\ \A h \in 1..(g - 1) : ledger[h] # "free"

(* prepareDirectReconfigureLocked: allocated, registered and prepared.     *)
Reserve(g, p) ==
  /\ pending = 0 /\ RouteKnown /\ NextFree(g)
  /\ ledger' = [ledger EXCEPT ![g] = "prepared"]
  /\ planOf' = [planOf EXCEPT ![g] = p]
  /\ pending' = g
  /\ UNCHANGED <<direct, active, held, draining, conn, backend>>

(* It fails after the allocation: the generation is used up.               *)
ReserveFails(g) ==
  /\ pending = 0 /\ RouteKnown /\ NextFree(g)
  /\ ledger' = [ledger EXCEPT ![g] = "aborted"]
  /\ UNCHANGED <<direct, active, planOf, pending, held, draining, conn, backend>>

(* The backend of the candidate listens.                                   *)
BackendStarts(g) ==
  /\ pending = g /\ RouteKnown
  /\ backend' = [backend EXCEPT ![g] = "running"]
  /\ UNCHANGED <<direct, active, planOf, ledger, pending, held, draining, conn>>

(* abortLocked: the backend is stopped first, then the gate reopened if    *)
(* the attempt has drained it, then the generation given up.  A stopped    *)
(* gate ends its drain as well, and accepts nothing all the same.          *)
Stopped(g) == [backend EXCEPT ![g] = IF @ = "none" THEN @ ELSE "stopped"]

Abandon(g) ==
  /\ pending = g
  /\ backend' = Stopped(g)
  /\ draining' = (draining /\ held # g) /\ held' = 0
  /\ ledger' = [ledger EXCEPT ![g] = "aborted"]
  /\ pending' = 0
  /\ UNCHANGED <<direct, active, planOf, conn>>

(* It fails: the backend does not stop in time.                            *)
AbandonFails(g) ==
  /\ pending = g /\ backend[g] = "running"
  /\ UNCHANGED <<direct, switchVars>>

(* A backend whose start failed and whose process may be alive.            *)
BackendLost(g) ==
  /\ pending = g
  /\ backend' = [backend EXCEPT ![g] = "running"]
  /\ UNCHANGED <<direct, active, planOf, ledger, pending, held, draining, conn>>

(* prepareDirectCommit up to its wait: the gate accepts nothing from here  *)
(* on.  gate.beginDrain closes what goes to the active generation, and     *)
(* ConnEnds is when a connection is gone.                                  *)
BeginDrain(g) ==
  /\ pending = g /\ held = 0 /\ RouteKnown
  /\ draining' = TRUE
  /\ UNCHANGED <<direct, active, planOf, ledger, pending, held, conn, backend>>

(* Mutant: the wait is over when it has begun.                             *)
DrainAssumed == TRUE

Drained == active \notin conn

(* The end of its wait.                                                    *)
HoldDrain(g) ==
  /\ Drained /\ held' = g
  /\ UNCHANGED <<direct, active, planOf, ledger, pending, draining, conn, backend>>

AbortDrain ==
  /\ draining' = FALSE
  /\ UNCHANGED <<direct, active, planOf, ledger, pending, held, conn, backend>>

(* commitDrained under all the mutexes.                                    *)
Commit(g) ==
  /\ direct = "live" /\ pending = g /\ held = g /\ draining /\ Drained
  /\ backend[g] = "running" /\ ledger[g] = "prepared"
  /\ ledger' = [ledger EXCEPT ![g] = "committed"]
  /\ active' = g /\ pending' = 0 /\ held' = 0
  /\ draining' = FALSE
  /\ UNCHANGED <<direct, planOf, conn, backend>>

(* commitPreparedDirectReconfigure fails, and reopens the gate.            *)
CommitFails(g) ==
  /\ pending = g /\ held = g
  /\ held' = 0 /\ draining' = FALSE
  /\ UNCHANGED <<direct, active, planOf, ledger, pending, conn, backend>>
-----------------------------------------------------------------------------
(* The gate, the backends and the end of the direct session.               *)

(* registerConnection.                                                     *)
Connect ==
  /\ direct # "closed" /\ ~draining
  /\ conn' = conn \cup {active}
  /\ UNCHANGED <<direct, active, planOf, ledger, pending, held, draining, backend>>

(* finishConnection: its sockets are closed, by whomever.                  *)
ConnEnds(g) ==
  /\ g \in conn /\ conn' = conn \ {g}
  /\ UNCHANGED <<direct, active, planOf, ledger, pending, held, draining, backend>>

(* monitorDirectPublishing retires the backend of the generation before.   *)
RetireBackend(g) ==
  /\ g # active /\ ledger[g] = "committed" /\ backend[g] = "running"
  /\ backend' = [backend EXCEPT ![g] = "stopped"]
  /\ UNCHANGED <<direct, active, planOf, ledger, pending, held, draining, conn>>

(* The context of the session ends: StopDirect, another stream, shutdown.  *)
CancelDirect ==
  /\ direct = "live" /\ direct' = "cancelled"
  /\ UNCHANGED switchVars

(* finishDirectPublishing terminates the ledger; then gate.stop closes all *)
(* connections and the backends are stopped.  The one of a candidate may   *)
(* outlive it.                                                             *)
FinishDirect ==
  /\ direct = "cancelled" /\ direct' = "closed"
  /\ ledger' = [g \in Generations |-> IF ledger[g] = "prepared" THEN "aborted" ELSE ledger[g]]
  /\ \E left \in {0, pending} :
       backend' = [g \in Generations |->
                     IF backend[g] = "none" \/ g = left THEN backend[g] ELSE "stopped"]
  /\ UNCHANGED <<active, planOf, pending, held, draining, conn>>
=============================================================================
