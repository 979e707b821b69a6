---------------------------- MODULE LaunchLimiter ----------------------------
(***************************************************************************)
(* The CPU limiter of one process group.  The launches of the group share  *)
(* it: the first one makes it, with a thread that pauses and resumes their *)
(* processes in turn, and the last one to let go of it destroys it.        *)
(*                                                                         *)
(* Launches and the update thread run concurrently, and the processes fork *)
(* and exit in between; a process ID is given out again once its process   *)
(* has been reaped.  How long a process is paused, which is all that the   *)
(* usage given by a launch changes, is left out; so is the order in which  *)
(* a pass pauses or resumes, which rotates.                                *)
(***************************************************************************)

CONSTANTS
  Launches, \* the launches of the group that limit their CPU usage
  Pids,     \* process IDs
  Program,  \* the process that launches
  Adopter,  \* the process that adopts orphans
  Nobody    \* no launch, and the parent of what is not listed

ASSUME NamesAssumption == {Program, Adopter, Nobody} \cap (Pids \cup Launches) = {}
ASSUME DistinctAssumption == Program # Adopter /\ Program # Nobody /\ Adopter # Nobody

VARIABLES
  \* the processes
  pstate,   \* "none", "alive" or "zombie"
  parent,   \* the parent of each process
  stopped,  \* those SIGSTOP has stopped
  \* the launch threads
  lpc,      \* where each is
  pid,      \* mp_ProcessID
  \* the limiter
  lock,     \* who has m_LaunchLimitersLock
  exists,   \* the group has an entry in m_LaunchLimiters
  ids,      \* m_ProcessIDs
  \* its update thread
  upc,      \* where it is
  list,     \* the parent of each process in its list, Nobody if not listed
  targets,  \* what is left to pause or resume in this pass
  didPause, \* m_bDidPause
  token,    \* the entries with m_pPausedToken
  \* history
  lost,     \* launches whose limiter has been destroyed
  twice     \* an ID has been added for a second launch

procVars   == <<pstate, parent, stopped>>
launchVars == <<lpc, pid>>
updateVars == <<upc, list, targets, didPause>>
history    == <<lost, twice>>
vars == <<procVars, launchVars, lock, exists, ids, updateVars, token, history>>

TypeOK ==
  /\ pstate \in [Pids -> {"none", "alive", "zombie"}]
  /\ parent \in [Pids -> Pids \cup {Program, Adopter}]
  /\ stopped \subseteq Pids
  /\ lpc \in [Launches -> {"new", "launched", "limited", "left", "join", "destroy", "done"}]
  /\ pid \in [Launches -> Pids \cup {Nobody}]
  /\ lock \in Launches \cup {Nobody}
  /\ exists \in BOOLEAN
  /\ ids \subseteq Pids
  /\ upc \in {"none", "wait", "choose", "pass"}
  /\ list \in [Pids -> Pids \cup {Program, Adopter, Nobody}]
  /\ targets \subseteq Pids
  /\ didPause \in BOOLEAN
  /\ token \subseteq Pids
  /\ lost \subseteq Launches
  /\ twice \in BOOLEAN

Init ==
  /\ pstate = [p \in Pids |-> "none"]
  /\ parent = [p \in Pids |-> Adopter]
  /\ stopped = {}
  /\ lpc = [l \in Launches |-> "new"]
  /\ pid = [l \in Launches |-> Nobody]
  /\ lock = Nobody
  /\ exists = FALSE
  /\ ids = {}
  /\ upc = "none"
  /\ list = [p \in Pids |-> Nobody]
  /\ targets = {}
  /\ didPause = FALSE
  /\ token = {}
  /\ lost = {}
  /\ twice = FALSE

-----------------------------------------------------------------------------
(* The processes.                                                          *)

Alive == {p \in Pids : pstate[p] = "alive"}

ProcFrame == UNCHANGED <<launchVars, lock, exists, ids, updateVars, token, history>>

Fork(p, c) ==
  /\ p \in Alive \ stopped
  /\ pstate[c] = "none"
  /\ pstate' = [pstate EXCEPT ![c] = "alive"]
  /\ parent' = [parent EXCEPT ![c] = p]
  /\ UNCHANGED stopped
  /\ ProcFrame

(* A process exits or is killed, which also ends a stopped one.            *)
Exit(p) ==
  /\ p \in Alive
  /\ pstate' = [pstate EXCEPT ![p] = IF parent[p] = Program THEN "zombie" ELSE "none"]
  /\ parent' = [c \in Pids |-> IF parent[c] = p \/ pstate'[c] = "none" THEN Adopter ELSE parent[c]]
  /\ stopped' = stopped \ {p}
  /\ ProcFrame

Processes == (\E p, c \in Pids : Fork(p, c)) \/ (\E p \in Pids : Exit(p))

-----------------------------------------------------------------------------
(* The launch threads.                                                     *)

StartProcess(l) ==
  /\ lpc[l] = "new"
  /\ \E p \in Pids :
       /\ pstate[p] = "none"
       /\ pstate' = [pstate EXCEPT ![p] = "alive"]
       /\ parent' = [parent EXCEPT ![p] = Program]
       /\ pid' = [pid EXCEPT ![l] = p]
  /\ lpc' = [lpc EXCEPT ![l] = "launched"]
  /\ UNCHANGED <<stopped, lock, exists, ids, updateVars, token, history>>

(* fg_GetCPULimiter, with the start of the update thread.                  *)
GetCPULimiter(l) ==
  /\ lpc[l] = "launched"
  /\ lock = Nobody
  /\ exists' = TRUE
  /\ upc' = IF exists THEN upc ELSE "wait"
  /\ didPause' = (exists /\ didPause)
  /\ ids' = ids \cup {pid[l]}
  /\ twice' = (twice \/ pid[l] \in ids)
  /\ lpc' = [lpc EXCEPT ![l] = "limited"]
  /\ UNCHANGED <<procVars, pid, lock, list, targets, token, lost>>

Reap(l) ==
  /\ lpc[l] = "limited"
  /\ pstate[pid[l]] = "zombie"
  /\ pstate' = [pstate EXCEPT ![pid[l]] = "none"]
  /\ parent' = [parent EXCEPT ![pid[l]] = Adopter]
  /\ lpc' = [lpc EXCEPT ![l] = "left"]
  /\ UNCHANGED <<stopped, pid, lock, exists, ids, updateVars, token, history>>

(* A close lets the thread end without waiting for the process.            *)
Leave(l) ==
  /\ lpc[l] = "limited"
  /\ lpc' = [lpc EXCEPT ![l] = "left"]
  /\ UNCHANGED <<procVars, pid, lock, exists, ids, updateVars, token, history>>

(* Slip: the limiter goes with the first launch.                           *)
DropRefAlways(l) ==
  /\ lpc[l] = "left" /\ l \notin lost
  /\ lock = Nobody
  /\ ids' = ids \ {pid[l]}
  /\ pid' = [pid EXCEPT ![l] = Nobody]
  /\ lpc' = [lpc EXCEPT ![l] = "join"]
  /\ lock' = l
  /\ UNCHANGED <<procVars, exists, updateVars, token, history>>

(* ~CCPULimiterRef, which holds the lock until the limiter is destroyed.   *)
(* The ID of the launch is not used any more.                              *)
DropRef(l) ==
  /\ lpc[l] = "left" /\ l \notin lost
  /\ lock = Nobody
  /\ ids' = ids \ {pid[l]}
  /\ pid' = [pid EXCEPT ![l] = Nobody]
  /\ IF ids' = {}
       THEN lpc' = [lpc EXCEPT ![l] = "join"] /\ lock' = l
       ELSE lpc' = [lpc EXCEPT ![l] = "done"] /\ UNCHANGED lock
  /\ UNCHANGED <<procVars, exists, updateVars, token, history>>

(* Slip: the thread is not waited for.                                     *)
JoinNothing(l) ==
  /\ lpc[l] = "join"
  /\ lpc' = [lpc EXCEPT ![l] = "destroy"]
  /\ UNCHANGED <<procVars, pid, lock, exists, ids, updateVars, token, history>>

(* The update thread looks at the request to quit between two updates.     *)
Join(l) ==
  /\ lpc[l] = "join"
  /\ upc = "wait"
  /\ upc' = "none"
  /\ lpc' = [lpc EXCEPT ![l] = "destroy"]
  /\ UNCHANGED <<procVars, pid, lock, exists, ids, list, targets, didPause, token, history>>

(* The destructor of an entry.                                             *)
DestroyEntry(l, p) ==
  /\ lpc[l] = "destroy"
  /\ p \in token
  /\ token' = token \ {p}
  /\ stopped' = stopped \ {p}
  /\ UNCHANGED <<pstate, parent, launchVars, lock, exists, ids, updateVars, history>>

Destroyed(l) ==
  /\ lpc[l] = "destroy"
  /\ token = {}
  /\ exists' = FALSE
  /\ lock' = Nobody
  /\ lost' = lost \cup {m \in Launches : lpc[m] \in {"limited", "left"}}
  /\ lpc' = [lpc EXCEPT ![l] = "done"]
  /\ UNCHANGED <<procVars, pid, ids, updateVars, token, twice>>

Limiting(l) ==
  GetCPULimiter(l) \/ DropRef(l) \/ Join(l) \/ (\E p \in Pids : DestroyEntry(l, p)) \/ Destroyed(l)

LaunchThread(l) == StartProcess(l) \/ Reap(l) \/ Leave(l) \/ Limiting(l)

-----------------------------------------------------------------------------
(* The update thread, f_Update.                                            *)

UpdateFrame == UNCHANGED <<launchVars, lock, exists, ids, history>>

(* The event the destructor of the limiter sets.                           *)
WantQuit == \E l \in Launches : lpc[l] = "join"

(* f_Update begins with a list of all processes.                           *)
EnumProcesses ==
  /\ upc = "wait"
  /\ ~WantQuit
  /\ list' = [p \in Pids |-> IF pstate[p] = "none" THEN Nobody ELSE parent[p]]
  /\ upc' = "choose"
  /\ UNCHANGED <<procVars, targets, didPause, token>>
  /\ UpdateFrame

Listed == {p \in Pids : list[p] # Nobody}

(* What descends from a process in S with the parents in par, and is in A. *)
Descend(S, A, par) ==
  {p \in A : \A T \in SUBSET Pids :
     ((S \cap A) \subseteq T /\ \A c \in A : par[c] \in T => c \in T) => p \in T}

(* Slip: the IDs are copied under m_LaunchLimitersLock.                    *)
ChooseTargetsLocked ==
  /\ upc = "choose"
  /\ lock = Nobody
  /\ targets' = Descend(ids, Listed, list)
  /\ token' = token \cap Listed
  /\ stopped' = stopped \ (token \ Listed)
  /\ list' = [p \in Pids |-> Nobody]
  /\ upc' = "pass"
  /\ UNCHANGED <<pstate, parent, didPause>>
  /\ UpdateFrame

(* Slip: f_MapProcessParent is given the parent for the child.             *)
ChooseParents ==
  /\ upc = "choose"
  /\ targets' = (ids \cap Listed) \cup {list[p] : p \in ids \cap Listed}
  /\ token' = token \cap Listed
  /\ stopped' = stopped \ (token \ Listed)
  /\ list' = [p \in Pids |-> Nobody]
  /\ upc' = "pass"
  /\ UNCHANGED <<pstate, parent, didPause>>
  /\ UpdateFrame

(* The IDs are copied under m_ProcessIDsLock; entries that are not listed  *)
(* any more are destroyed; f_EnumChildren.                                 *)
ChooseTargets ==
  /\ upc = "choose"
  /\ targets' = Descend(ids, Listed, list)
  /\ token' = token \cap Listed
  /\ stopped' = stopped \ (token \ Listed)
  /\ list' = [p \in Pids |-> Nobody]
  /\ upc' = "pass"
  /\ UNCHANGED <<pstate, parent, didPause>>
  /\ UpdateFrame

(* One turn of f_PauseTree; SIGSTOP goes to a zombie as well.              *)
PauseOne(p) ==
  /\ upc = "pass" /\ ~didPause
  /\ p \in targets
  /\ targets' = targets \ {p}
  /\ IF p \notin token /\ pstate[p] # "none"
       THEN token' = token \cup {p} /\ stopped' = stopped \cup ({p} \cap Alive)
       ELSE UNCHANGED <<token, stopped>>
  /\ UNCHANGED <<pstate, parent, upc, list, didPause>>
  /\ UpdateFrame

(* One turn of f_UnPauseTree.                                              *)
ResumeOne(p) ==
  /\ upc = "pass" /\ didPause
  /\ p \in targets
  /\ targets' = targets \ {p}
  /\ token' = token \ {p}
  /\ stopped' = IF p \in token THEN stopped \ {p} ELSE stopped
  /\ UNCHANGED <<pstate, parent, upc, list, didPause>>
  /\ UpdateFrame

(* Slip: the next pass does the same again.                                *)
UpdatedAlike ==
  /\ upc = "pass"
  /\ targets = {}
  /\ upc' = "wait"
  /\ UNCHANGED <<didPause, procVars, list, targets, token>>
  /\ UpdateFrame

Updated ==
  /\ upc = "pass"
  /\ targets = {}
  /\ didPause' = ~didPause
  /\ upc' = "wait"
  /\ UNCHANGED <<procVars, list, targets, token>>
  /\ UpdateFrame

UpdateThread ==
  EnumProcesses \/ ChooseTargets \/ (\E p \in Pids : PauseOne(p) \/ ResumeOne(p)) \/ Updated

-----------------------------------------------------------------------------
Next == Processes \/ (\E l \in Launches : LaunchThread(l)) \/ UpdateThread

Spec == Init /\ [][Next]_vars

(* The threads go on, and the system calls they make return.               *)
FairSpec == Spec /\ WF_vars(UpdateThread) /\ \A l \in Launches : WF_vars(Limiting(l))

-----------------------------------------------------------------------------
(* Properties.                                                             *)

(* A launch that holds the limiter finds it where it was, and its process  *)
(* among those it limits, however launches come and go; the exception is   *)
(* an ID that has been given to a second launch of the group before the    *)
(* first one, whose process it was, has removed it.                        *)
LimiterOutlivesLaunches ==
  \A l \in Launches :
    lpc[l] = "limited" /\ ~twice => exists /\ l \notin lost /\ pid[l] \in ids

(* Every process the limiter has stopped has an entry in a limiter that    *)
(* exists: when the last launch has let go of it, all of them run again,   *)
(* and the update thread stops none any more.                              *)
StoppedHasEntry ==
  stopped \subseteq token /\ (exists \/ token = {})

(* The processes that descend from that of a launch that limits them.      *)
Limited ==
  Descend({pid[l] : l \in {m \in Launches : lpc[m] = "limited"}},
          {p \in Pids : pstate[p] # "none"}, parent)

(* A process that is stopped runs again, or it is not limited any more.    *)
LimitedRunsAgain ==
  \A p \in Pids : p \in stopped ~> p \notin stopped \/ p \notin Limited \/ twice

(* To get a limiter and to let go of it ends, although letting go waits    *)
(* for the update thread with the lock of all limiters.                    *)
LaunchesGoOn ==
  \A l \in Launches :
    lpc[l] \in {"launched", "left"} ~> lpc[l] \in {"limited", "done"} \/ l \in lost

(* Neither the processes nor the launches are held for ever.               *)
NobodyIsHeld == LimitedRunsAgain /\ LaunchesGoOn

(* "Percentage of available processing power to use": whatever a process   *)
(* gets, it is not stopped for ever.                                       *)
StoppedRunsAgain ==
  \A p \in Pids : p \in stopped ~> p \notin stopped
=============================================================================
