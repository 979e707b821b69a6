------------------------- MODULE LaunchLimiterProofs -------------------------
(***************************************************************************)
(* Theorems about LaunchLimiter for every set of launches and processes.   *)
(***************************************************************************)
EXTENDS LaunchLimiter, TLAPS

Holds(l) == lpc[l] \in {"limited", "left"}

(* The lock is held from the last drop to the end of the destruction.      *)
LockInv ==
  /\ \A l \in Launches : lpc[l] \in {"join", "destroy"} <=> lock = l
  /\ \A l \in Launches : lpc[l] \in {"join", "destroy"} => exists /\ ids = {}
  /\ \A l \in Launches : lpc[l] = "destroy" => upc = "none"

(* Without a limiter there is no update thread and nothing to resume.      *)
ExistsInv ==
  /\ ~exists => upc = "none" /\ token = {}
  /\ stopped \subseteq token

(* The launches that hold the limiter hold one that exists, and as long as *)
(* no ID has been added twice each of them has its own in it.              *)
HolderInv ==
  /\ \A l \in Launches : lpc[l] = "launched" \/ Holds(l) => pid[l] \in Pids
  /\ \A l \in Launches : Holds(l) /\ l \notin lost => exists
  /\ ~twice => lost = {}
  /\ ~twice => \A l \in Launches : Holds(l) => pid[l] \in ids
  /\ ~twice => \A l, m \in Launches : Holds(l) /\ Holds(m) /\ l # m => pid[l] # pid[m]

(* The inductive invariant.                                                *)
Inv == TypeOK /\ LockInv /\ ExistsInv /\ HolderInv

(* It holds before the first launch.                                       *)
LEMMA InitInv == Init => Inv
<1> SUFFICES ASSUME Init PROVE Inv
    OBVIOUS
<1>1. TypeOK
      BY DEF Init, TypeOK
<1>2. LockInv /\ ExistsInv /\ HolderInv
      BY NamesAssumption DEF Init, LockInv, ExistsInv, HolderInv, Holds
<1> QED BY <1>1, <1>2 DEF Inv

(* Every step keeps the types.                                             *)
LEMMA TypeStep == Inv /\ [Next]_vars => TypeOK'
<1> SUFFICES ASSUME Inv, [Next]_vars PROVE TypeOK'
    OBVIOUS
<1> USE DEF Inv, TypeOK, procVars, launchVars, updateVars, history
<1>1. CASE Processes
  <2>1. CASE \E p, c \in Pids : Fork(p, c)
        BY <2>1 DEF Fork, ProcFrame
  <2>2. CASE \E p \in Pids : Exit(p)
        BY <2>2 DEF Exit, ProcFrame
  <2> QED BY <1>1, <2>1, <2>2 DEF Processes
<1>2. ASSUME NEW l \in Launches, LaunchThread(l) PROVE TypeOK'
  <2>1. CASE StartProcess(l)
        BY <2>1 DEF StartProcess
  <2>2. CASE Reap(l)
        BY <2>2 DEF Reap
  <2>3. CASE Leave(l)
        BY <2>3 DEF Leave
  <2>4. CASE GetCPULimiter(l)
        BY <2>4 DEF GetCPULimiter, HolderInv
  <2>5. CASE DropRef(l)
        BY <2>5 DEF DropRef
  <2>6. CASE Join(l)
        BY <2>6 DEF Join
  <2>7. CASE \E p \in Pids : DestroyEntry(l, p)
        BY <2>7 DEF DestroyEntry
  <2>8. CASE Destroyed(l)
        BY <2>8 DEF Destroyed
  <2> QED BY <1>2, <2>1, <2>2, <2>3, <2>4, <2>5, <2>6, <2>7, <2>8 DEF LaunchThread, Limiting
<1>3. CASE UpdateThread
  <2> USE DEF UpdateFrame
  <2>1. CASE EnumProcesses
        BY <2>1 DEF EnumProcesses
  <2>2. CASE ChooseTargets
        BY <2>2 DEF ChooseTargets, Descend, Listed
  <2>3. CASE \E p \in Pids : PauseOne(p)
        BY <2>3 DEF PauseOne
  <2>4. CASE \E p \in Pids : ResumeOne(p)
        BY <2>4 DEF ResumeOne
  <2>5. CASE Updated
        BY <2>5 DEF Updated
  <2> QED BY <1>3, <2>1, <2>2, <2>3, <2>4, <2>5 DEF UpdateThread
<1>4. CASE UNCHANGED vars
      BY <1>4 DEF vars
<1> QED BY <1>1, <1>2, <1>3, <1>4 DEF Next

(* The processes do nothing to the launches, the limiter or its thread,    *)
(* and nothing is stopped by them.                                         *)
LEMMA ProcessStep ==
  ASSUME Processes
  PROVE  /\ UNCHANGED <<launchVars, lock, exists, ids, upc, token, history>>
         /\ stopped' \subseteq stopped
BY DEF Processes, Fork, Exit, ProcFrame, updateVars

(* The update thread leaves the launches and the lock alone, and is there  *)
(* only with the limiter.                                                  *)
LEMMA UpdateStep ==
  ASSUME Inv, UpdateThread
  PROVE  /\ UNCHANGED <<launchVars, lock, exists, ids, history>>
         /\ upc # "none" /\ exists
         /\ stopped' \subseteq token'
<1> USE DEF Inv, TypeOK, ExistsInv, UpdateFrame
<1>1. CASE EnumProcesses
      BY <1>1 DEF EnumProcesses, procVars
<1>2. CASE ChooseTargets
      BY <1>2 DEF ChooseTargets
<1>3. CASE \E p \in Pids : PauseOne(p)
      BY <1>3 DEF PauseOne
<1>4. CASE \E p \in Pids : ResumeOne(p)
      BY <1>4 DEF ResumeOne
<1>5. CASE Updated
      BY <1>5 DEF Updated, procVars
<1> QED BY <1>1, <1>2, <1>3, <1>4, <1>5 DEF UpdateThread

(* No step of a launch thread disturbs the rest of the invariant.          *)
LEMMA LaunchStep ==
  ASSUME Inv, NEW l \in Launches, LaunchThread(l)
  PROVE  LockInv' /\ ExistsInv' /\ HolderInv'
<1> USE NamesAssumption DEF Inv, TypeOK, procVars, launchVars, updateVars, history, Holds
<1>1. CASE StartProcess(l)
      BY <1>1 DEF StartProcess, LockInv, ExistsInv, HolderInv
<1>2. CASE Reap(l)
      BY <1>2 DEF Reap, LockInv, ExistsInv, HolderInv
<1>3. CASE Leave(l)
      BY <1>3 DEF Leave, LockInv, ExistsInv, HolderInv
<1>4. CASE GetCPULimiter(l)
  <2>1. LockInv' /\ ExistsInv'
        BY <1>4 DEF GetCPULimiter, LockInv, ExistsInv
  <2>2. HolderInv'
        BY <1>4 DEF GetCPULimiter, LockInv, HolderInv
  <2> QED BY <2>1, <2>2
<1>5. CASE DropRef(l)
  <2>1. LockInv' /\ ExistsInv'
        BY <1>5 DEF DropRef, LockInv, ExistsInv, HolderInv
  <2>2. HolderInv'
        BY <1>5 DEF DropRef, HolderInv
  <2> QED BY <2>1, <2>2
<1>6. CASE Join(l)
      BY <1>6 DEF Join, LockInv, ExistsInv, HolderInv
<1>7. CASE \E p \in Pids : DestroyEntry(l, p)
      BY <1>7 DEF DestroyEntry, LockInv, ExistsInv, HolderInv
<1>8. CASE Destroyed(l)
  <2>1. LockInv' /\ ExistsInv'
        BY <1>8 DEF Destroyed, LockInv, ExistsInv
  <2>2. HolderInv'
        BY <1>8 DEF Destroyed, LockInv, HolderInv
  <2> QED BY <2>1, <2>2
<1> QED BY <1>1, <1>2, <1>3, <1>4, <1>5, <1>6, <1>7, <1>8 DEF LaunchThread, Limiting

(* The invariant is inductive.                                             *)
LEMMA NextInv == Inv /\ [Next]_vars => Inv'
<1> SUFFICES ASSUME Inv, [Next]_vars PROVE LockInv' /\ ExistsInv' /\ HolderInv'
    BY TypeStep DEF Inv
<1>1. CASE Processes
      BY <1>1, ProcessStep DEF Inv, LockInv, ExistsInv, HolderInv, Holds, launchVars, history
<1>2. CASE \E l \in Launches : LaunchThread(l)
      BY <1>2, LaunchStep
<1>3. CASE UpdateThread
  <2>1. LockInv'
        BY <1>3, UpdateStep DEF Inv, LockInv, launchVars
  <2>2. ExistsInv'
        BY <1>3, UpdateStep DEF Inv, ExistsInv
  <2>3. HolderInv'
        BY <1>3, UpdateStep DEF Inv, HolderInv, Holds, launchVars, history
  <2> QED BY <2>1, <2>2, <2>3
<1>4. CASE UNCHANGED vars
      BY <1>4 DEF vars, procVars, launchVars, updateVars, history,
                  Inv, LockInv, ExistsInv, HolderInv, Holds
<1> QED BY <1>1, <1>2, <1>3, <1>4 DEF Next

(* The invariant holds in every reachable state.                           *)
THEOREM Invariance == Spec => []Inv
BY InitInv, NextInv, PTL DEF Spec

(* The limiter and its thread stay well formed whatever launches and       *)
(* processes do.                                                           *)
THEOREM TypeCorrect == Spec => []TypeOK
BY Invariance, PTL DEF Inv

(* What the limiter has stopped has an entry in it, which resumes it when  *)
(* the limiter is destroyed.                                               *)
THEOREM StoppedProcessesHaveEntries == Spec => []StoppedHasEntry
<1>1. Inv => StoppedHasEntry
      BY DEF Inv, ExistsInv, StoppedHasEntry
<1> QED BY <1>1, Invariance, PTL

(* A launch keeps its limiter, and its place in it, until it lets go,      *)
(* unless a process ID has been added for two launches.                    *)
THEOREM LaunchesKeepLimiter == Spec => []LimiterOutlivesLaunches
<1>1. Inv => LimiterOutlivesLaunches
      BY DEF Inv, HolderInv, Holds, LimiterOutlivesLaunches
<1> QED BY <1>1, Invariance, PTL
=============================================================================
