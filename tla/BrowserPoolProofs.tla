-------------------------- MODULE BrowserPoolProofs --------------------------
(***************************************************************************)
(* Theorems about BrowserPool, for any number of jobs and of goroutines    *)
(* that call Close.  The proofs rest on one inductive invariant, Inv,      *)
(* about who holds the slot, who releases it and how far Close has come.   *)
(***************************************************************************)
EXTENDS BrowserPool, TLAPS

USE BrowserPoolAssumption

(* Steps at which p.acquiring is set; steps at which Release has claimed   *)
(* the lease.                                                              *)
InAcquire == Stages \cup {"rollback", "judge", "fail", "settle"}
Cleaners == {"clean", "dispose", "finish"}

(* The slot is held by the one lease that has begun and is not released.   *)
HolderInv ==
  /\ \A l \in Leases : active = l <=> apc[l] # "off" /\ l \notin released
  /\ \A l \in Leases : apc[l] \in InAcquire <=> acquiring /\ active = l
  /\ acquiring => active # NoLease
  /\ \A l \in released : apc[l] \in {"granted", "refused"}

(* Release is called after Acquire has ended; one call cleans the lease,   *)
(* and a call is over when the lease is.                                   *)
ReleaseInv ==
  /\ \A c \in Calls : rpc[c] # "off" => apc[c[2]] \in {"granted", "refused"}
  /\ \A c \in Calls : rpc[c] \in Cleaners => c[2] \in cleaning
  /\ \A c, d \in Calls :
       rpc[c] \in Cleaners /\ rpc[d] \in Cleaners /\ c[2] = d[2] => c = d
  /\ \A c \in Calls : rpc[c] = "over" => c[2] \in released
  /\ \A l \in cleaning : active = l /\ apc[l] \in {"granted", "refused"}
  /\ \A l \in Leases : doneClosed[l] = IF l \in released THEN 1 ELSE 0

(* Close has shut the pool before it waits, and the slot is free before it *)
(* closes the connection.                                                  *)
CloseInv ==
  /\ closing \/ closeFinished => closed
  /\ \A c \in Closers : cpc[c] \notin {"off", "over"} => closed
  /\ \A c \in Closers : cpc[c] \in {"release", "control", "finish"} => ~acquiring
  /\ \A c \in Closers : cpc[c] \in {"control", "finish"} => active = NoLease
  /\ control = "closed" => closed /\ ~acquiring /\ active = NoLease
  /\ \A c \in Closers, l \in Leases :
       rpc[<<c, l>>] # "off" =>
         /\ cpc[c] \notin {"off", "drain"}
         /\ \A k \in Leases : rpc[<<c, k>>] # "off" => k = l
  /\ \A c \in Closers :
       cpc[c] = "release" /\ active # NoLease => rpc[<<c, active>>] # "off"

Inv == TypeOK /\ HolderInv /\ ReleaseInv /\ CloseInv

LEMMA CallsAreWhole ==
  ASSUME NEW c \in Calls
  PROVE  c[2] \in Leases /\ c = <<c[1], c[2]>> /\ c[1] \in Who
  BY DEF Calls

LEMMA InitInv == Init => Inv
<1> SUFFICES ASSUME Init PROVE Inv
  OBVIOUS
<1> USE DEF Init
<1>1. TypeOK BY DEF TypeOK, Stages
<1>2. HolderInv BY DEF HolderInv, Stages, InAcquire
<1>3. \A c \in Calls : rpc[c] = "off" OBVIOUS
<1>4. ReleaseInv BY <1>3 DEF ReleaseInv, Cleaners
<1>5. CloseInv BY <1>3 DEF CloseInv, Calls, Who
<1> QED BY <1>1, <1>2, <1>4, <1>5 DEF Inv

-----------------------------------------------------------------------------
(* Acquire.                                                                *)

LEMMA AcquireInv ==
  ASSUME Inv, NEW l \in Leases, Acquire(l)
  PROVE  Inv'
<1> USE DEF Inv, Acquire, AcquireGoto, KeepRelease, Signal, leaseVars, contextVars, browserVars
<1>1. TypeOK' BY DEF TypeOK, Stages
<1>2. HolderInv' BY DEF HolderInv, TypeOK, Stages, InAcquire
<1>3. ReleaseInv' BY CallsAreWhole DEF HolderInv, ReleaseInv, TypeOK, Stages, InAcquire, Cleaners
<1>4. CloseInv' BY DEF CloseInv, TypeOK
<1> QED BY <1>1, <1>2, <1>3, <1>4

(* The steps of Acquire that keep it between its ends.                     *)
LEMMA AcquiringMoves ==
  ASSUME TypeOK, NEW l \in Leases,
         Call(l) \/ CallReturns(l) \/ CallFails(l) \/ Rollback(l) \/ Judge(l)
  PROVE  /\ UNCHANGED <<poolVars, leaseVars, rpc, cpc, contextVars, control>>
         /\ \/ UNCHANGED apc
            \/ /\ apc[l] \in InAcquire
               /\ \E step \in InAcquire : apc' = [apc EXCEPT ![l] = step]
         /\ TypeOK'
<1> USE DEF AcquireGoto, KeepRelease, browserVars, InAcquire, Stages
<1>1. CASE Call(l)
  <2>1. /\ UNCHANGED <<poolVars, leaseVars, rpc, cpc, contextVars, browserVars, waiting>>
        /\ apc[l] \in Stages /\ l \notin calling
        /\ \/ UNCHANGED <<apc, fault>> /\ calling' = calling \cup {l}
           \/ /\ fault' = [fault EXCEPT ![l] = "canceled"] /\ UNCHANGED calling
              /\ apc' = [apc EXCEPT ![l] = "judge"] \/ apc' = [apc EXCEPT ![l] = "rollback"]
    BY <1>1 DEF Call
  <2> QED BY <2>1 DEF TypeOK, poolVars, leaseVars, contextVars
<1>2. CASE CallReturns(l)
  <2>1. apc[l] \in Stages /\ After[apc[l]] \in InAcquire BY <1>2 DEF CallReturns, TypeOK, After
  <2> QED BY <1>2, <2>1 DEF CallReturns, TypeOK, poolVars, leaseVars, contextVars
<1>3. CASE CallFails(l)
  <2>1. apc[l] \in Stages BY <1>3 DEF CallFails, TypeOK
  <2>2. \E why \in {"canceled", "other"} : fault' = [fault EXCEPT ![l] = why]
    BY <1>3 DEF CallFails
  <2>3. /\ contexts' \in {contexts, contexts \cup {l}}
        /\ apc' = [apc EXCEPT ![l] = "judge"] \/ apc' = [apc EXCEPT ![l] = "rollback"]
    BY <1>3 DEF CallFails
  <2>4. /\ UNCHANGED <<poolVars, leaseVars, rpc, cpc, contextVars, control, waiting>>
        /\ calling' = calling \ {l}
    BY <1>3 DEF CallFails
  <2> QED BY <2>1, <2>2, <2>3, <2>4 DEF TypeOK, poolVars, leaseVars, contextVars
<1>4. CASE Rollback(l)
  BY <1>4 DEF Rollback, TypeOK, poolVars, leaseVars, contextVars
<1>5. CASE Judge(l)
  BY <1>5 DEF Judge, TypeOK, poolVars, leaseVars, contextVars
<1> QED BY <1>1, <1>2, <1>3, <1>4, <1>5

LEMMA AcquiringInv ==
  ASSUME Inv, NEW l \in Leases,
         Call(l) \/ CallReturns(l) \/ CallFails(l) \/ Rollback(l) \/ Judge(l)
  PROVE  Inv'
<1> USE DEF Inv
<1>1. /\ UNCHANGED <<poolVars, leaseVars, rpc, cpc, contextVars, control>>
      /\ \/ UNCHANGED apc
         \/ /\ apc[l] \in InAcquire
            /\ \E step \in InAcquire : apc' = [apc EXCEPT ![l] = step]
  BY AcquiringMoves
<1>2. TypeOK' BY AcquiringMoves
<1>3. HolderInv' BY <1>1 DEF HolderInv, TypeOK, Stages, InAcquire, poolVars, leaseVars
<1>4. ReleaseInv'
  BY <1>1, CallsAreWhole DEF ReleaseInv, TypeOK, Stages, InAcquire, Cleaners, poolVars, leaseVars
<1>5. CloseInv' BY <1>1 DEF CloseInv, poolVars, leaseVars
<1> QED BY <1>2, <1>3, <1>4, <1>5

LEMMA FailAcquireInv ==
  ASSUME Inv, NEW l \in Leases, FailAcquire(l)
  PROVE  Inv'
<1> USE DEF Inv, FailAcquire, AcquireGoto, Signal, CloseDone, contextVars, browserVars
<1>0. active = l /\ acquiring /\ l \notin released BY DEF HolderInv, InAcquire
<1>1. TypeOK'
  <2>1. closed' \in BOOLEAN OBVIOUS
  <2>2. l \notin calling /\ l \notin cleaning BY DEF TypeOK, Stages, ReleaseInv
  <2>3. cleaning' \subseteq Leases \ released' BY <2>2 DEF TypeOK
  <2>4. calling' \subseteq {k \in Leases : apc'[k] \in Stages} BY <2>2 DEF TypeOK
  <2>5. apc' \in [Leases -> Stages \cup {"off", "rollback", "judge", "fail", "settle",
                                        "granted", "refused"}]
    BY DEF TypeOK
  <2>6. doneClosed' \in [Leases -> Nat] BY DEF TypeOK
  <2>7. active' \in Leases \cup {NoLease} /\ acquiring' \in BOOLEAN /\ released' \subseteq Leases
    BY DEF TypeOK
  <2> HIDE DEF FailAcquire
  <2>8. UNCHANGED <<closing, closeFinished, fault, failed, rpc, cpc, jobDone, ownerDone,
                    contexts, control>> /\ waiting' = {}
    BY DEF FailAcquire
  <2> QED BY <2>1, <2>3, <2>4, <2>5, <2>6, <2>7, <2>8 DEF TypeOK
<1>2. HolderInv' BY <1>0 DEF HolderInv, TypeOK, Stages, InAcquire
<1>3. ReleaseInv'
  <2>1. l \notin cleaning /\ doneClosed[l] = 0 BY <1>0 DEF ReleaseInv, HolderInv, InAcquire
  <2> QED BY <1>0, <2>1, CallsAreWhole DEF ReleaseInv, HolderInv, TypeOK, Stages, InAcquire, Cleaners
<1>4. CloseInv' BY <1>0 DEF CloseInv, TypeOK
<1> QED BY <1>1, <1>2, <1>3, <1>4

LEMMA SettleInv ==
  ASSUME Inv, NEW l \in Leases, Settle(l)
  PROVE  Inv'
<1> USE DEF Inv, Settle, AcquireGoto, Signal, leaseVars, contextVars, browserVars
<1>0. active = l /\ acquiring /\ l \notin released BY DEF HolderInv, InAcquire
<1>c. \A c \in Calls : rpc'[c] # rpc[c] => c = <<"acquirer", l>> /\ rpc'[c] = "try"
  BY DEF TypeOK
<1>1. TypeOK'
  <2>1. l \notin calling BY DEF TypeOK, Stages
  <2>2. rpc' \in [Calls -> {"off", "try", "clean", "dispose", "finish", "over"}]
    BY DEF TypeOK
  <2>3. apc' \in [Leases -> Stages \cup {"off", "rollback", "judge", "fail", "settle",
                                        "granted", "refused"}]
    BY DEF TypeOK
  <2>4. calling' \subseteq {k \in Leases : apc'[k] \in Stages} BY <2>1 DEF TypeOK
  <2> QED BY <2>2, <2>3, <2>4 DEF TypeOK
<1>2. HolderInv' BY <1>0 DEF HolderInv, TypeOK, Stages, InAcquire
<1>3. ReleaseInv' BY <1>0, <1>c, CallsAreWhole DEF ReleaseInv, TypeOK, Stages, InAcquire, Cleaners
<1>4. CloseInv'
  <2>1. \A c \in Closers, k \in Leases : rpc'[<<c, k>>] = rpc[<<c, k>>]
    BY <1>c DEF Calls, Who
  <2> QED BY <2>1, <1>0 DEF CloseInv, TypeOK
<1> QED BY <1>1, <1>2, <1>3, <1>4

-----------------------------------------------------------------------------
(* Release.                                                                *)

LEMMA StartReleaseInv ==
  ASSUME Inv, NEW l \in Leases, NEW who \in {"job", "watcher"}, StartRelease(who, l)
  PROVE  Inv'
<1> USE DEF Inv, StartRelease, ReleaseGoto, KeepOthers, poolVars, leaseVars, acquireVars,
            contextVars, browserVars
<1>0. <<who, l>> \in Calls BY DEF Calls, Who
<1>1. TypeOK' BY DEF TypeOK
<1>2. HolderInv' BY DEF HolderInv
<1>3. ReleaseInv' BY <1>0, CallsAreWhole DEF ReleaseInv, TypeOK, Cleaners
<1>4. CloseInv'
  <2>1. \A c \in Closers, k \in Leases : rpc'[<<c, k>>] = rpc[<<c, k>>] BY DEF TypeOK
  <2> QED BY <2>1 DEF CloseInv, TypeOK
<1> QED BY <1>1, <1>2, <1>3, <1>4

LEMMA TryReleaseInv ==
  ASSUME Inv, NEW c \in Calls, TryRelease(c)
  PROVE  Inv'
<1> DEFINE l == c[2]
<1> USE DEF Inv, KeepOthers, poolVars, acquireVars, contextVars, browserVars
<1>0. l \in Leases /\ c = <<c[1], l>> /\ apc[l] \in {"granted", "refused"}
  BY CallsAreWhole DEF TryRelease, ReleaseInv
<1>1. /\ UNCHANGED <<poolVars, acquireVars, contextVars, browserVars, released, failed,
                     doneClosed, cpc>>
      /\ rpc[c] = "try"
      /\ \/ (active # l \/ l \in released) /\ rpc' = [rpc EXCEPT ![c] = "over"]
            /\ UNCHANGED <<cleaning, waiting>>
         \/ waiting' = waiting \cup {c} /\ UNCHANGED <<cleaning, rpc>>
         \/ /\ active = l /\ l \notin released /\ l \notin cleaning
            /\ cleaning' = cleaning \cup {l} /\ rpc' = [rpc EXCEPT ![c] = "clean"]
            /\ UNCHANGED waiting
  BY DEF TryRelease, ReleaseGoto, Stale, Claimed
<1> HIDE DEF l
<1>2. TypeOK' BY <1>0, <1>1 DEF TypeOK
<1>3. HolderInv' BY <1>1 DEF HolderInv
<1>4. ReleaseInv'
  <2>1. active # l => l \in released BY <1>0 DEF HolderInv
  <2>2. l \notin cleaning => \A d \in Calls : d[2] = l => rpc[d] \notin Cleaners
    BY DEF ReleaseInv
  <2>3. \A d \in Calls : d # c => rpc'[d] = rpc[d] BY <1>1 DEF TypeOK
  <2>4. rpc'[c] \in {"over", "try", "clean"} BY <1>1 DEF TypeOK
  <2>5. rpc'[c] = "over" => l \in released BY <1>1, <2>1 DEF TypeOK
  <2>6. rpc'[c] = "clean" => l \in cleaning' /\ l \notin cleaning BY <1>1 DEF TypeOK
  <2>7. cleaning \subseteq cleaning' /\ cleaning' \subseteq cleaning \cup {l}
    BY <1>1
  <2>8. l \in cleaning' => active = l \/ l \in cleaning BY <1>1
  <2>9. c[2] = l BY DEF l
  <2> QED
    BY <1>0, <1>1, <2>2, <2>3, <2>4, <2>5, <2>6, <2>7, <2>8, <2>9 DEF ReleaseInv, Cleaners
<1>5. CloseInv'
  <2>1. \A d \in Calls : rpc'[d] = "off" <=> rpc[d] = "off" BY <1>1 DEF TypeOK
  <2>2. \A d \in Closers, k \in Leases : <<d, k>> \in Calls BY DEF Calls, Who
  <2> QED BY <1>1, <2>1, <2>2 DEF CloseInv, TypeOK
<1> QED BY <1>2, <1>3, <1>4, <1>5

LEMMA CleaningInv ==
  ASSUME Inv, NEW c \in Calls, Clean(c) \/ Dispose(c)
  PROVE  Inv'
<1> USE DEF Inv, KeepOthers, poolVars, acquireVars, contextVars, browserVars
<1>1. /\ UNCHANGED <<poolVars, acquireVars, contextVars, control, released, cleaning,
                     doneClosed, waiting, cpc>>
      /\ rpc[c] \in {"clean", "dispose"}
      /\ \E step \in {"dispose", "finish"} : rpc' = [rpc EXCEPT ![c] = step]
      /\ failed' \in {failed, failed \cup {c[2]}}
      /\ contexts' \in {contexts, contexts \ {c[2]}}
  BY DEF Clean, Dispose, ReleaseGoto
<1>2. TypeOK' BY <1>1, CallsAreWhole DEF TypeOK
<1>3. HolderInv' BY <1>1 DEF HolderInv
<1>4. \A d \in Calls : /\ rpc'[d] = "off" <=> rpc[d] = "off"
                       /\ rpc'[d] = "over" <=> rpc[d] = "over"
                       /\ rpc'[d] \in Cleaners <=> rpc[d] \in Cleaners
  BY <1>1 DEF TypeOK, Cleaners
<1>5. ReleaseInv' BY <1>1, <1>4 DEF ReleaseInv
<1>6. CloseInv'
  <2>1. \A d \in Closers, k \in Leases : <<d, k>> \in Calls BY DEF Calls, Who
  <2> QED BY <1>1, <1>4, <2>1 DEF CloseInv, TypeOK
<1> QED BY <1>2, <1>3, <1>5, <1>6

LEMMA FinishLeaseInv ==
  ASSUME Inv, NEW c \in Calls, FinishLease(c)
  PROVE  Inv'
<1> DEFINE l == c[2]
<1> USE DEF Inv, KeepOthers, poolVars, acquireVars, contextVars, browserVars
<1>0. /\ l \in Leases /\ c[2] = l /\ active = l /\ l \in cleaning /\ l \notin released
      /\ apc[l] \in {"granted", "refused"} /\ ~acquiring
  BY CallsAreWhole DEF FinishLease, ReleaseInv, TypeOK, HolderInv, Cleaners, InAcquire, Stages
<1>1. /\ UNCHANGED <<acquireVars, contextVars, browserVars, acquiring, closing,
                     closeFinished, failed, cpc>>
      /\ rpc[c] = "finish" /\ rpc' = [rpc EXCEPT ![c] = "over"]
      /\ active' = NoLease /\ waiting' = {}
      /\ released' = released \cup {l} /\ cleaning' = cleaning \ {l}
      /\ doneClosed' = [doneClosed EXCEPT ![l] = @ + 1]
  BY <1>0 DEF FinishLease, ReleaseGoto, End, CloseDone, Signal
<1>c. closed' \in BOOLEAN /\ (closed => closed') BY DEF FinishLease
<1> HIDE DEF l
<1>2. TypeOK' BY <1>0, <1>1, <1>c DEF TypeOK
<1>3. HolderInv' BY <1>0, <1>1 DEF HolderInv, InAcquire, Stages
<1>4. ReleaseInv'
  <2>1. \A d \in Calls : d # c => rpc'[d] = rpc[d] BY <1>1 DEF TypeOK
  <2>2. rpc'[c] = "over" BY <1>1 DEF TypeOK
  <2>3. \A d \in Calls : d # c /\ d[2] = l => rpc[d] \notin Cleaners
    BY <1>0, <1>1 DEF ReleaseInv, Cleaners
  <2>4. \A k \in Leases : doneClosed'[k] = IF k \in released' THEN 1 ELSE 0
    BY <1>0, <1>1 DEF ReleaseInv, TypeOK
  <2>5. cleaning = {l} BY <1>0 DEF ReleaseInv
  <2> QED BY <1>0, <1>1, <2>1, <2>2, <2>3, <2>4, <2>5 DEF ReleaseInv, Cleaners
<1>5. CloseInv'
  <2>1. \A d \in Calls : rpc'[d] = "off" <=> rpc[d] = "off" BY <1>1 DEF TypeOK
  <2>2. \A d \in Closers, k \in Leases : <<d, k>> \in Calls BY DEF Calls, Who
  <2> QED BY <1>0, <1>1, <1>c, <2>1, <2>2 DEF CloseInv, TypeOK
<1> QED BY <1>2, <1>3, <1>4, <1>5

-----------------------------------------------------------------------------
(* Close.                                                                  *)

(* What ReleaseActive does, when the pool is closed.                       *)
LEMMA ReleaseActiveMoves ==
  ASSUME Inv, NEW c \in Closers, cpc[c] \in {"off", "drain"}, ReleaseActive(c)
  PROVE  /\ ~acquiring
         /\ \/ active = NoLease /\ cpc' = [cpc EXCEPT ![c] = "control"] /\ UNCHANGED rpc
            \/ /\ active \in Leases /\ cpc' = [cpc EXCEPT ![c] = "release"]
               /\ <<c, active>> \in Calls /\ rpc' = [rpc EXCEPT ![<<c, active>>] = "try"]
               /\ rpc[<<c, active>>] = "off" /\ apc[active] \in {"granted", "refused"}
<1> USE DEF Inv, ReleaseActive, CloseGoto, ReleaseGoto
<1>1. CASE active = NoLease BY <1>1
<1>2. CASE active # NoLease
  <2>1. active \in Leases /\ <<c, active>> \in Calls BY <1>2 DEF TypeOK, Calls, Who
  <2>2. rpc[<<c, active>>] = "off" BY <2>1 DEF CloseInv
  <2>3. apc[active] \in {"granted", "refused"}
    BY <2>1 DEF HolderInv, TypeOK, InAcquire, Stages
  <2> QED BY <1>2, <2>1, <2>2, <2>3
<1> QED BY <1>1, <1>2

(* The move of Close into its waiting for the lease, or past it.           *)
LEMMA ReleaseActiveInv ==
  ASSUME Inv, NEW c \in Closers, cpc[c] \in {"off", "drain"}, ReleaseActive(c),
         closed' = TRUE, closing' \in BOOLEAN, waiting' \in SUBSET (Calls \cup Closers),
         UNCHANGED <<active, acquiring, closeFinished, browserVars>>, KeepLeases
  PROVE  Inv'
<1> USE DEF Inv, KeepLeases, acquireVars, leaseVars, contextVars, browserVars
<1>1. CASE active = NoLease /\ cpc' = [cpc EXCEPT ![c] = "control"] /\ UNCHANGED rpc
  <2>0. ~acquiring BY ReleaseActiveMoves
  <2>1. TypeOK' BY <1>1 DEF TypeOK
  <2>2. HolderInv' BY DEF HolderInv
  <2>3. ReleaseInv' BY <1>1 DEF ReleaseInv
  <2>4. CloseInv' BY <1>1, <2>0 DEF CloseInv, TypeOK
  <2> QED BY <2>1, <2>2, <2>3, <2>4
<1>2. CASE /\ active \in Leases /\ cpc' = [cpc EXCEPT ![c] = "release"]
           /\ <<c, active>> \in Calls /\ rpc' = [rpc EXCEPT ![<<c, active>>] = "try"]
           /\ rpc[<<c, active>>] = "off" /\ apc[active] \in {"granted", "refused"}
  <2>0. ~acquiring BY ReleaseActiveMoves
  <2>1. TypeOK' BY <1>2 DEF TypeOK
  <2>2. HolderInv' BY DEF HolderInv
  <2>3. \A d \in Calls : /\ rpc'[d] # rpc[d] => d = <<c, active>>
                         /\ rpc'[<<c, active>>] = "try"
    BY <1>2 DEF TypeOK
  <2>4. ReleaseInv' BY <1>2, <2>3, CallsAreWhole DEF ReleaseInv, Cleaners
  <2>5. CloseInv'
    <3>1. \A d \in Closers, k \in Leases : <<d, k>> \in Calls BY DEF Calls, Who
    <3>2. \A k \in Leases : rpc[<<c, k>>] = "off" BY DEF CloseInv
    <3>3. \A d \in Closers, k \in Leases : rpc'[<<d, k>>] # "off" =>
            \/ d = c /\ k = active
            \/ d # c /\ rpc[<<d, k>>] # "off"
      BY <2>3, <3>1, <3>2
    <3>4. \A d \in Closers, k \in Leases :
            rpc[<<d, k>>] # "off" => rpc'[<<d, k>>] # "off"
      BY <2>3, <3>1
    <3>5. \A d \in Closers : d # c => cpc'[d] = cpc[d] BY <1>2 DEF TypeOK
    <3>6. cpc'[c] = "release" BY <1>2 DEF TypeOK
    <3>7. active # NoLease BY <1>2
    <3>8. \A d \in Closers, k \in Leases : rpc'[<<d, k>>] # "off" =>
            /\ cpc'[d] \notin {"off", "drain"}
            /\ \A i \in Leases : rpc'[<<d, i>>] # "off" => i = k
      BY <3>3, <3>5, <3>6 DEF CloseInv
    <3>9. \A d \in Closers : cpc'[d] = "release" => rpc'[<<d, active>>] # "off"
      BY <1>2, <2>3, <3>4, <3>5, <3>6, <3>7 DEF CloseInv
    <3> QED BY <1>2, <2>0, <3>5, <3>6, <3>7, <3>8, <3>9 DEF CloseInv
  <2> QED BY <2>1, <2>2, <2>4, <2>5
<1> QED BY <1>1, <1>2, ReleaseActiveMoves

LEMMA CloseInvStep ==
  ASSUME Inv, NEW c \in Closers, Close(c)
  PROVE  Inv'
<1>1. CASE closed' = TRUE /\ closing' = TRUE /\ ReleaseActive(c) /\ waiting' = {}
  BY <1>1, ReleaseActiveInv DEF Close
<1>2. CASE /\ UNCHANGED <<active, acquiring, closeFinished, rpc, browserVars>> /\ KeepLeases
           /\ closed' = TRUE
           /\ \/ closing' = TRUE /\ cpc' = [cpc EXCEPT ![c] = "drain"] /\ waiting' = {c}
              \/ /\ UNCHANGED <<closing, waiting>>
                 /\ \E step \in {"await", "over"} : cpc' = [cpc EXCEPT ![c] = step]
           /\ cpc[c] = "off"
  <2> USE DEF Inv, KeepLeases, acquireVars, leaseVars, contextVars, browserVars
  <2>1. TypeOK' BY <1>2 DEF TypeOK
  <2>2. HolderInv' BY <1>2 DEF HolderInv
  <2>3. ReleaseInv' BY <1>2 DEF ReleaseInv
  <2>4. CloseInv' BY <1>2 DEF CloseInv, TypeOK
  <2> QED BY <2>1, <2>2, <2>3, <2>4
<1>3. closing \/ closeFinished => closed = TRUE BY DEF Inv, CloseInv, TypeOK
<1> QED BY <1>1, <1>2, <1>3 DEF Close, CloseGoto

LEMMA ClosingInv ==
  ASSUME Inv, NEW c \in Closers, Closing(c)
  PROVE  Inv'
<1> USE DEF Inv, KeepLeases, CloseGoto, poolVars, acquireVars, leaseVars, contextVars, browserVars
<1>1. CASE CloseDrain(c)
  <2>0. closed = TRUE BY <1>1 DEF CloseDrain, CloseInv, TypeOK
  <2>1. CASE ReleaseActive(c) /\ UNCHANGED waiting
    <3>1. closed' = TRUE /\ closing' \in BOOLEAN /\ waiting' \in SUBSET (Calls \cup Closers)
      BY <1>1, <2>0, <2>1 DEF CloseDrain, TypeOK
    <3> QED BY <1>1, <2>1, <3>1, ReleaseActiveInv DEF CloseDrain
  <2>2. CASE waiting' = waiting \cup {c} /\ UNCHANGED <<cpc, rpc>>
    BY <1>1, <2>2 DEF CloseDrain, TypeOK, HolderInv, ReleaseInv, CloseInv
  <2> QED BY <1>1, <2>1, <2>2 DEF CloseDrain
<1>2. CASE CloseReleased(c)
  <2>1. active = NoLease
    <3>1. PICK l \in Leases : rpc[<<c, l>>] = "over" BY <1>2 DEF CloseReleased
    <3>2. l \in released BY <3>1 DEF ReleaseInv, Calls, Who
    <3>3. active \in Leases => rpc[<<c, active>>] # "off" /\ active = l
      BY <1>2, <3>1 DEF CloseReleased, CloseInv
    <3> QED BY <3>2, <3>3 DEF HolderInv, TypeOK
  <2>2. TypeOK' BY <1>2 DEF CloseReleased, TypeOK
  <2>3. HolderInv' /\ ReleaseInv' BY <1>2 DEF CloseReleased, HolderInv, ReleaseInv
  <2>4. CloseInv' BY <1>2, <2>1 DEF CloseReleased, CloseInv, TypeOK
  <2> QED BY <2>2, <2>3, <2>4
<1>3. CASE CloseControl(c)
  <2>1. closed /\ ~acquiring /\ active = NoLease BY <1>3 DEF CloseControl, CloseInv
  <2>2. TypeOK' BY <1>3 DEF CloseControl, TypeOK
  <2>3. HolderInv' /\ ReleaseInv' BY <1>3 DEF CloseControl, HolderInv, ReleaseInv
  <2>4. CloseInv' BY <1>3, <2>1 DEF CloseControl, CloseInv, TypeOK
  <2> QED BY <2>2, <2>3, <2>4
<1>4. CASE CloseFinish(c) \/ CloseAwait(c)
  <2>1. closed BY <1>4 DEF CloseFinish, CloseAwait, CloseInv
  <2>2. TypeOK' BY <1>4 DEF CloseFinish, CloseAwait, TypeOK, Signal
  <2>3. HolderInv' /\ ReleaseInv' BY <1>4 DEF CloseFinish, CloseAwait, HolderInv, ReleaseInv
  <2>4. /\ UNCHANGED <<active, acquiring, closed, rpc, control>>
        /\ cpc' = [cpc EXCEPT ![c] = "over"] /\ cpc[c] \in {"finish", "await"}
    BY <1>4 DEF CloseFinish, CloseAwait
  <2>5. \A d \in Closers : cpc'[d] = cpc[d] \/ cpc'[d] = "over" BY <2>4 DEF TypeOK
  <2>6. \A d \in Closers : cpc'[d] \in {"off", "drain"} => cpc[d] \in {"off", "drain"}
    BY <2>5
  <2>7. CloseInv' BY <2>1, <2>4, <2>5, <2>6 DEF CloseInv
  <2> QED BY <2>2, <2>3, <2>7
<1> QED BY <1>1, <1>2, <1>3, <1>4 DEF Closing

-----------------------------------------------------------------------------
(* Every step.                                                             *)

LEMMA StepInv == Inv /\ [Next]_vars => Inv'
<1> SUFFICES ASSUME Inv, [Next]_vars PROVE Inv'
  OBVIOUS
<1>1. CASE \E l \in Leases : Acquire(l) BY <1>1, AcquireInv
<1>2. CASE \E l \in Leases : Acquiring(l)
  BY <1>2, AcquiringInv, FailAcquireInv, SettleInv DEF Acquiring
<1>3. CASE (\E l \in Leases : CancelJob(l)) \/ CancelOwner
  <2>1. /\ jobDone' \subseteq Leases /\ ownerDone' \in BOOLEAN
        /\ UNCHANGED <<poolVars, acquireVars, leaseVars, rpc, cpc, waiting, browserVars>>
    BY <1>3 DEF CancelJob, CancelOwner, KeepPool, Inv, TypeOK
  <2> QED
    BY <2>1 DEF Inv, TypeOK, HolderInv, ReleaseInv, CloseInv, poolVars, acquireVars,
                leaseVars, browserVars
<1>4. CASE \E who \in {"job", "watcher"}, l \in Leases : StartRelease(who, l)
  BY <1>4, StartReleaseInv
<1>5. CASE \E c \in Calls : Releasing(c)
  BY <1>5, TryReleaseInv, CleaningInv, FinishLeaseInv DEF Releasing
<1>6. CASE \E c \in Closers : Close(c) BY <1>6, CloseInvStep
<1>7. CASE \E c \in Closers : Closing(c) BY <1>7, ClosingInv
<1>8. CASE UNCHANGED vars
  BY <1>8 DEF vars, Inv, TypeOK, HolderInv, ReleaseInv, CloseInv, poolVars, acquireVars,
              leaseVars, contextVars, browserVars
<1> QED BY <1>1, <1>2, <1>3, <1>4, <1>5, <1>6, <1>7, <1>8 DEF Next

THEOREM Invariance == Spec => []Inv
<1>1. Init => Inv BY InitInv
<1>2. Inv /\ [Next]_vars => Inv' BY StepInv
<1> QED BY <1>1, <1>2, PTL DEF Spec

(* Type correctness of the pool, of its leases and of the calls under way. *)
THEOREM Typing == Spec => []TypeOK
<1>1. Inv => TypeOK BY DEF Inv
<1> QED BY <1>1, Invariance, PTL

(* However many goroutines release a lease at once, lease.done is closed   *)
(* once: the flag "cleaning" admits one of them.                           *)
THEOREM DoneOnce == Spec => []DoneIsClosedOnce
<1>1. ASSUME Inv, NEW l \in Leases PROVE doneClosed[l] <= 1
  <2>1. doneClosed[l] = 0 \/ doneClosed[l] = 1 BY <1>1 DEF Inv, ReleaseInv
  <2> QED BY <2>1
<1>2. Inv => DoneIsClosedOnce BY <1>1 DEF DoneIsClosedOnce
<1> QED BY <1>2, Invariance, PTL

(* Close takes the connection away from nobody.                            *)
THEOREM ControlGoesLast == Spec => []ControlIsLast
<1>1. Inv => ControlIsLast
  <2> SUFFICES ASSUME Inv, control = "closed" PROVE ControlIsLast
    BY DEF ControlIsLast
  <2>1. ~acquiring /\ active = NoLease BY DEF Inv, CloseInv
  <2>2. \A c \in Calls : rpc[c] \notin Cleaners
    BY <2>1, CallsAreWhole DEF Inv, ReleaseInv
  <2> QED BY <2>1, <2>2 DEF ControlIsLast, Cleaners
<1> QED BY <1>1, Invariance, PTL

-----------------------------------------------------------------------------
(* What becomes of the contexts in the browser.                            *)

(* A context that is left behind, by a failed rollback, an unnamed one, or *)
(* a failed cleanup, makes the pool terminal.                              *)
StrayInv ==
  /\ \A l \in contexts : active = l \/ closed \/ ownerDone
  /\ \A l \in Leases : apc[l] = "fail" => fault[l] = "terminal" \/ closed \/ ownerDone
  /\ \A c \in Calls : rpc[c] = "finish" => c[2] \notin contexts \/ c[2] \in failed

LEMMA StrayStep == Inv /\ StrayInv /\ [Next]_vars => StrayInv'
<1> SUFFICES ASSUME Inv, StrayInv, [Next]_vars PROVE StrayInv'
  OBVIOUS
<1> USE DEF StrayInv
<1>1. ASSUME NEW l \in Leases, Acquire(l) PROVE StrayInv'
  BY <1>1 DEF Acquire, AcquireGoto, KeepRelease, leaseVars, contextVars, browserVars, Inv, TypeOK
<1>2. ASSUME NEW l \in Leases, Acquiring(l) PROVE StrayInv'
  <2>1. CASE Call(l) \/ CallReturns(l) \/ CallFails(l) \/ Rollback(l)
    <3>1. UNCHANGED <<active, closed, ownerDone, rpc, failed>>
      BY <2>1 DEF Call, CallReturns, CallFails, Rollback, KeepRelease, poolVars, leaseVars, contextVars
    <3>2. contexts' \subseteq contexts \cup {l} /\ apc[l] \in InAcquire
      BY <2>1 DEF Call, CallReturns, CallFails, Rollback, browserVars, Inv, TypeOK, Stages, InAcquire
    <3>3. active = l BY <3>2 DEF Inv, HolderInv
    <3>4. apc'[l] # "fail" /\ \A k \in Leases : k # l => apc'[k] = apc[k] /\ fault'[k] = fault[k]
      BY <2>1 DEF Call, CallReturns, CallFails, Rollback, AcquireGoto, Inv, TypeOK, Stages, After
    <3>5. \A c \in Calls : rpc[c] # "off" => c[2] # l
      BY <3>2 DEF Inv, ReleaseInv, InAcquire, Stages
    <3> QED BY <3>1, <3>2, <3>3, <3>4, <3>5
  <2>2. CASE Judge(l)
    <3>1. UNCHANGED <<active, closed, ownerDone, rpc, failed, contexts>>
      BY <2>2 DEF Judge, KeepRelease, poolVars, leaseVars, contextVars, browserVars
    <3>2. fault'[l] = "terminal" \/ closed \/ ownerDone
      BY <2>2 DEF Judge, NonFaulting, Inv, TypeOK, CloseInv
    <3>3. \A k \in Leases : k # l => apc'[k] = apc[k] /\ fault'[k] = fault[k]
      BY <2>2 DEF Judge, AcquireGoto, Inv, TypeOK
    <3> QED BY <3>1, <3>2, <3>3
  <2>3. CASE FailAcquire(l)
    <3>1. UNCHANGED <<fault, ownerDone, rpc, failed, contexts>> /\ (closed => closed')
      BY <2>3 DEF FailAcquire, contextVars, browserVars
    <3>2. closed' \/ ownerDone' BY <2>3, <3>1 DEF FailAcquire
    <3> QED BY <3>1, <3>2
  <2>4. CASE Settle(l)
    <3>1. UNCHANGED <<active, closed, fault, ownerDone, failed, contexts>>
      BY <2>4 DEF Settle, leaseVars, contextVars, browserVars
    <3>2. \A k \in Leases : apc'[k] = "fail" => apc[k] = "fail"
      BY <2>4 DEF Settle, AcquireGoto, Inv, TypeOK
    <3>3. \A c \in Calls : rpc'[c] = "finish" => rpc[c] = "finish"
      BY <2>4 DEF Settle, Inv, TypeOK
    <3> QED BY <3>1, <3>2, <3>3
  <2> QED BY <1>2, <2>1, <2>2, <2>3, <2>4 DEF Acquiring
<1>3. ASSUME NEW c \in Calls, Releasing(c) PROVE StrayInv'
  <2>0. UNCHANGED <<apc, fault, ownerDone>>
    BY <1>3 DEF Releasing, TryRelease, Clean, Dispose, FinishLease, KeepOthers, acquireVars, contextVars
  <2>1. CASE TryRelease(c)
    <3>1. UNCHANGED <<active, closed, failed, contexts>>
      BY <2>1 DEF TryRelease, poolVars, browserVars
    <3>2. \A d \in Calls : rpc'[d] = "finish" => rpc[d] = "finish"
      BY <2>1 DEF TryRelease, ReleaseGoto, Inv, TypeOK
    <3> QED BY <2>0, <3>1, <3>2
  <2>2. CASE Clean(c) \/ Dispose(c)
    <3>1. /\ UNCHANGED <<active, closed>> /\ contexts' \subseteq contexts
          /\ failed \subseteq failed'
      BY <2>2 DEF Clean, Dispose, poolVars, browserVars
    <3>2. rpc'[c] = "finish" => c[2] \notin contexts' \/ c[2] \in failed'
      BY <2>2 DEF Clean, Dispose, ReleaseGoto, Inv, TypeOK
    <3>3. \A d \in Calls : d # c => rpc'[d] = rpc[d]
      BY <2>2 DEF Clean, Dispose, ReleaseGoto, Inv, TypeOK
    <3> QED BY <2>0, <3>1, <3>2, <3>3
  <2>3. CASE FinishLease(c)
    <3>1. UNCHANGED <<failed, contexts>> /\ (closed => closed')
      BY <2>3 DEF FinishLease, browserVars
    <3>2. c[2] \notin contexts \/ closed' BY <2>3 DEF FinishLease
    <3>3. \A d \in Calls : rpc'[d] = "finish" => rpc[d] = "finish"
      BY <2>3 DEF FinishLease, ReleaseGoto, Inv, TypeOK
    <3>4. active' = active \/ active = c[2] BY <2>3 DEF FinishLease
    <3> QED BY <2>0, <3>1, <3>2, <3>3, <3>4
  <2> QED BY <1>3, <2>1, <2>2, <2>3 DEF Releasing
<1>4. ASSUME NEW who \in {"job", "watcher"}, NEW l \in Leases, StartRelease(who, l) PROVE StrayInv'
  <2>1. UNCHANGED <<active, closed, failed, contexts, apc, fault, ownerDone>>
    BY <1>4 DEF StartRelease, KeepOthers, poolVars, leaseVars, acquireVars, contextVars, browserVars
  <2>2. \A d \in Calls : rpc'[d] = "finish" => rpc[d] = "finish"
    BY <1>4 DEF StartRelease, ReleaseGoto, Inv, TypeOK
  <2> QED BY <2>1, <2>2
<1>5. ASSUME NEW c \in Closers, Close(c) \/ Closing(c) PROVE StrayInv'
  <2>1. /\ UNCHANGED <<active, failed, apc, fault, ownerDone>> /\ (closed => closed')
        /\ contexts' \subseteq contexts
    BY <1>5 DEF Close, Closing, CloseDrain, CloseReleased, CloseControl, CloseFinish, CloseAwait,
                KeepLeases, poolVars, acquireVars, leaseVars, contextVars, browserVars
  <2>2. \A d \in Calls : rpc'[d] = "finish" => rpc[d] = "finish"
    BY <1>5 DEF Close, Closing, CloseDrain, CloseReleased, CloseControl, CloseFinish, CloseAwait,
                ReleaseActive, ReleaseGoto, Inv, TypeOK
  <2> QED BY <2>1, <2>2
<1>6. ASSUME (\E l \in Leases : CancelJob(l)) \/ CancelOwner \/ UNCHANGED vars PROVE StrayInv'
  BY <1>6 DEF CancelJob, CancelOwner, KeepPool, vars, poolVars, acquireVars, leaseVars,
              contextVars, browserVars
<1> QED BY <1>1, <1>2, <1>3, <1>4, <1>5, <1>6 DEF Next

(* A browser that goes on to serve jobs holds no context but the one that  *)
(* is leased, whatever calls to it failed, timed out or were canceled.     *)
THEOREM NoneStray == Spec => []NoStrayContext
<1>1. Init => StrayInv BY DEF Init, StrayInv
<1>2. Inv /\ StrayInv /\ [Next]_vars => StrayInv' BY StrayStep
<1>3. StrayInv => NoStrayContext BY DEF StrayInv, NoStrayContext
<1> QED BY <1>1, <1>2, <1>3, Invariance, PTL DEF Spec

-----------------------------------------------------------------------------
(* The pool implements LeaseSlot.                                          *)

LEMMA SlotInit == Init => Slot!Init
  BY DEF Init, Slot!Init, Stage

(* A lease is held, in the sense of LeaseSlot, if it is the active one.    *)
LEMMA StageOfHolder ==
  ASSUME Inv
  PROVE  /\ \A l \in Leases : Stage(l) \in {"reserved", "granted"} <=> active = l
         /\ \A l \in Leases : Slot!Held(l) <=> active = l
         /\ active = NoLease => Slot!Free
<1>1. \A l \in Leases : Stage(l) \in {"reserved", "granted"} <=> active = l
  BY DEF Inv, HolderInv, Stage
<1>2. \A l \in Leases : Slot!Held(l) <=> active = l BY <1>1 DEF Slot!Held
<1>3. active = NoLease => Slot!Free BY <1>2 DEF Slot!Free
<1> QED BY <1>1, <1>2, <1>3

(* A step that changes neither the stages, nor the two flags, stutters.    *)
LEMMA SlotStutters ==
  ASSUME UNCHANGED <<closed, control>>, \A l \in Leases : Stage(l)' = Stage(l)
  PROVE  UNCHANGED Slot!vars
  BY DEF Slot!vars

LEMMA SlotAcquires ==
  ASSUME Inv, NEW l \in Leases, Acquire(l)
  PROVE  Slot!Next
<1> USE DEF Acquire, AcquireGoto, KeepRelease, leaseVars, browserVars
<1>1. l \notin released BY DEF Inv, HolderInv
<1>2. Stage(l) = "new" /\ Stage(l)' = "reserved" BY <1>1 DEF Stage, Inv, TypeOK
<1>3. \A k \in Leases : k # l => Stage(k)' = Stage(k) BY DEF Stage, Inv, TypeOK
<1>4. Slot!Free BY StageOfHolder
<1>5. Slot!Reserve(l) BY <1>2, <1>3, <1>4 DEF Slot!Reserve
<1> QED BY <1>5 DEF Slot!Next

LEMMA SlotAcquiring ==
  ASSUME Inv, NEW l \in Leases,
         Call(l) \/ CallReturns(l) \/ CallFails(l) \/ Rollback(l) \/ Judge(l)
  PROVE  UNCHANGED Slot!vars
<1>1. /\ UNCHANGED <<closed, released, control>>
      /\ \/ UNCHANGED apc
         \/ /\ apc[l] \in InAcquire
            /\ \E step \in InAcquire : apc' = [apc EXCEPT ![l] = step]
  BY AcquiringMoves DEF Inv, poolVars, leaseVars
<1>2. \A k \in Leases : Stage(k)' = Stage(k)
  BY <1>1 DEF Stage, Inv, TypeOK, InAcquire, Stages
<1> QED BY <1>1, <1>2, SlotStutters

LEMMA SlotFails ==
  ASSUME Inv, NEW l \in Leases, FailAcquire(l)
  PROVE  Slot!Next
<1> USE DEF FailAcquire, AcquireGoto, browserVars
<1>1. active = l BY DEF Inv, HolderInv, InAcquire
<1>2. Slot!Held(l) BY <1>1, StageOfHolder
<1>3. Stage(l)' = "over" BY DEF Stage, Inv, TypeOK
<1>4. \A k \in Leases : k # l => Stage(k)' = Stage(k) BY DEF Stage, Inv, TypeOK
<1>5. closed' \in {closed, TRUE} BY DEF Inv, TypeOK
<1>6. Slot!End(l) BY <1>2, <1>3, <1>4, <1>5 DEF Slot!End
<1> QED BY <1>6 DEF Slot!Next

LEMMA SlotSettles ==
  ASSUME Inv, NEW l \in Leases, Settle(l)
  PROVE  [Slot!Next]_(Slot!vars)
<1> USE DEF Settle, AcquireGoto, leaseVars, browserVars
<1>1. l \notin released /\ Stage(l) = "reserved" BY DEF Inv, HolderInv, InAcquire, Stage
<1>2. \A k \in Leases : k # l => Stage(k)' = Stage(k) BY DEF Stage, Inv, TypeOK
<1>3. CASE ~Withdrawn(l)
  <2>1. Stage(l)' = "granted" BY <1>1, <1>3 DEF Stage, Inv, TypeOK
  <2>2. Slot!Grant(l) BY <1>1, <1>2, <1>3, <2>1 DEF Slot!Grant, Withdrawn
  <2> QED BY <2>2 DEF Slot!Next
<1>4. CASE Withdrawn(l)
  <2>1. Stage(l)' = "reserved" BY <1>1, <1>4 DEF Stage, Inv, TypeOK
  <2> QED BY <1>1, <1>2, <2>1, SlotStutters
<1> QED BY <1>3, <1>4

LEMMA SlotFinishes ==
  ASSUME Inv, NEW c \in Calls, FinishLease(c)
  PROVE  Slot!Next
<1> DEFINE l == c[2]
<1> USE DEF FinishLease, End, KeepOthers, acquireVars, browserVars
<1>1. l \in Leases /\ active = l /\ apc[l] # "off"
  BY CallsAreWhole DEF Inv, ReleaseInv, Cleaners
<1>2. Slot!Held(l) BY <1>1, StageOfHolder
<1>3. Stage(l)' = "over" BY <1>1 DEF Stage
<1>4. \A k \in Leases : k # l => Stage(k)' = Stage(k) BY DEF Stage
<1>5. closed' \in {closed, TRUE} BY DEF Inv, TypeOK
<1>6. Slot!End(l) BY <1>1, <1>2, <1>3, <1>4, <1>5 DEF Slot!End
<1> QED BY <1>1, <1>6 DEF Slot!Next

LEMMA SlotCloses ==
  ASSUME Inv, NEW c \in Closers, Close(c) \/ Closing(c)
  PROVE  [Slot!Next]_(Slot!vars)
<1>1. \A l \in Leases : Stage(l)' = Stage(l)
  BY DEF Close, Closing, CloseDrain, CloseReleased, CloseControl, CloseFinish, CloseAwait,
         KeepLeases, acquireVars, leaseVars, Stage
<1>2. CASE Close(c)
  <2>1. closed' = closed \/ closed' = TRUE BY <1>2 DEF Close
  <2>2. control' = control BY <1>2 DEF Close, browserVars
  <2>3. CASE closed' = closed BY <1>1, <2>2, <2>3, SlotStutters
  <2>4. CASE closed' = TRUE BY <1>1, <2>2, <2>4 DEF Slot!Next, Slot!Shut
  <2> QED BY <2>1, <2>3, <2>4
<1>3. CASE CloseControl(c)
  <2>1. closed /\ active = NoLease /\ closed' = closed /\ control' = "closed"
    BY <1>3 DEF CloseControl, Inv, CloseInv, poolVars
  <2>2. Slot!Free BY <2>1, StageOfHolder
  <2>3. Slot!TakeDown BY <1>1, <2>1, <2>2 DEF Slot!TakeDown
  <2> QED BY <2>3 DEF Slot!Next
<1>4. CASE CloseDrain(c) \/ CloseReleased(c) \/ CloseFinish(c) \/ CloseAwait(c)
  <2>1. UNCHANGED <<closed, control>>
    BY <1>4 DEF CloseDrain, CloseReleased, CloseFinish, CloseAwait, poolVars, browserVars
  <2> QED BY <1>1, <2>1, SlotStutters
<1> QED BY <1>2, <1>3, <1>4 DEF Closing

LEMMA SlotStep == Inv /\ [Next]_vars => [Slot!Next]_(Slot!vars)
<1> SUFFICES ASSUME Inv, [Next]_vars PROVE [Slot!Next]_(Slot!vars)
  OBVIOUS
<1>1. CASE \E l \in Leases : Acquire(l) BY <1>1, SlotAcquires
<1>2. CASE \E l \in Leases : Acquiring(l)
  BY <1>2, SlotAcquiring, SlotFails, SlotSettles DEF Acquiring
<1>3. CASE \/ (\E l \in Leases : CancelJob(l)) \/ CancelOwner
           \/ \E who \in {"job", "watcher"}, l \in Leases : StartRelease(who, l)
           \/ \E c \in Calls : TryRelease(c) \/ Clean(c) \/ Dispose(c)
           \/ UNCHANGED vars
  <2>1. UNCHANGED <<closed, control, apc, released>>
    BY <1>3 DEF CancelJob, CancelOwner, KeepPool, StartRelease, TryRelease, Clean, Dispose,
                KeepOthers, vars, poolVars, acquireVars, leaseVars, browserVars
  <2>2. \A l \in Leases : Stage(l)' = Stage(l) BY <2>1 DEF Stage
  <2> QED BY <2>1, <2>2, SlotStutters
<1>4. CASE \E c \in Calls : FinishLease(c) BY <1>4, SlotFinishes
<1>5. CASE \E c \in Closers : Close(c) \/ Closing(c) BY <1>5, SlotCloses
<1> QED BY <1>1, <1>2, <1>3, <1>4, <1>5 DEF Next, Releasing

(* The pool with its goroutines, channels and rollbacks is a slot that     *)
(* grants one lease at a time, none once it is shut, and is taken down     *)
(* only when it is free.                                                   *)
THEOREM PoolImplementsSlot == Spec => ImplementsLeaseSlot
<1>1. Init => Slot!Init BY SlotInit
<1>2. Inv /\ [Next]_vars => [Slot!Next]_(Slot!vars) BY SlotStep
<1> QED BY <1>1, <1>2, Invariance, PTL DEF Spec, ImplementsLeaseSlot, Slot!Spec
=============================================================================
