----------------------------- MODULE ProcessTree -----------------------------
(***************************************************************************)
(* fg_Linux_Process_TerminateTree: kills a process and its descendants     *)
(* while they start processes, exit, and are reaped.  It lists all         *)
(* processes, maps each to its parent, and pauses what it finds from the   *)
(* root; when a round has found nothing new to pause it kills what it has  *)
(* found, and it resumes what it has paused when it returns.               *)
(*                                                                         *)
(* The list is read one process at a time from the directory of the        *)
(* processes, and each pause, kill and resume is a system call of its own: *)
(* the processes run in between.  A process ID is not reused.  What starts *)
(* before the root is not a descendant of it, so the start times, which    *)
(* leave such processes out, have no part here.                            *)
(***************************************************************************)

CONSTANTS
  Root,       \* the process to terminate
  Others,     \* names for the processes started, as many as there are at a time
  Protected,  \* those of them this program may not signal
  Adopter     \* the process that adopts orphans, listed in every round

Procs == Others \cup {Root}

ASSUME RootAssumption      == Root \notin Others /\ Adopter \notin Procs
ASSUME ProtectedAssumption == Protected \subseteq Others

Unlisted == "unlisted"
Unlinked == "unlinked"

ASSUME MarksAssumption == {Unlisted, Unlinked} \cap (Procs \cup {Adopter}) = {}

VARIABLES
  \* the processes
  pstate,  \* "none", "alive", "zombie" (only the root) or "gone"
  parent,  \* the parent of each process
  stopped, \* those SIGSTOP has stopped
  doomed,  \* those that have been sent SIGKILL
  \* the terminator
  phase,   \* what it does
  toRead,  \* names in the directory that it has not read yet
  listed,  \* the parent of each process it has read, Unlisted otherwise
  known,   \* the processes in m_AllProcesses
  link,    \* the entry that has the process in its m_Children
  tried,   \* m_bTriedPause
  paused,  \* m_pPausedToken is set
  fresh,   \* f_PauseTree has found something new in this round
  killed,  \* what f_KillTree has been to
  ok       \* the result

procVars == <<pstate, parent, stopped, doomed>>
listVars == <<toRead, listed>>
mapVars  == <<known, link>>
vars == <<procVars, phase, listVars, mapVars, tried, paused, fresh, killed, ok>>

Phase == {"names", "stats", "pause", "kill", "resume", "done"}

TypeOK ==
  /\ pstate \in [Procs -> {"none", "alive", "zombie", "gone"}]
  /\ parent \in [Procs -> Procs \cup {Adopter}]
  /\ stopped \subseteq Procs
  /\ doomed \subseteq Procs
  /\ phase \in Phase
  /\ toRead \subseteq Procs
  /\ listed \in [Procs -> Procs \cup {Adopter, Unlisted}]
  /\ known \subseteq Procs
  /\ link \in [Procs -> Procs \cup {Adopter, Unlinked}]
  /\ tried \subseteq Procs
  /\ paused \subseteq tried
  /\ fresh \in BOOLEAN
  /\ killed \subseteq Procs
  /\ ok \in BOOLEAN

Init ==
  /\ pstate = [p \in Procs |-> IF p = Root THEN "alive" ELSE "none"]
  /\ parent = [p \in Procs |-> Adopter]
  /\ stopped = {}
  /\ doomed = {}
  /\ phase = "names"
  /\ toRead = {}
  /\ listed = [p \in Procs |-> Unlisted]
  /\ known = {}
  /\ link = [p \in Procs |-> Unlinked]
  /\ tried = {}
  /\ paused = {}
  /\ fresh = FALSE
  /\ killed = {}
  /\ ok = FALSE

-----------------------------------------------------------------------------
(* The processes.                                                          *)

Alive  == {p \in Procs : pstate[p] = "alive"}
Exists == {p \in Procs : pstate[p] \in {"alive", "zombie"}}
Runs   == (Alive \ stopped) \ doomed

TerminatorFrame == UNCHANGED <<phase, listVars, mapVars, tried, paused, fresh, killed, ok>>

(* What the children of the entries lead to from the root.                 *)
Found ==
  {p \in Procs : \A S \in SUBSET Procs :
     (Root \in S /\ \A c \in Procs : link[c] \in S => c \in S) => p \in S}

(* Processes can be started without end, with IDs not used before; only    *)
(* how many there are at a time is bounded.  When a process is gone and    *)
(* its entry only leads on to its children any more - it has been tried or *)
(* is not found - the entry is dropped, its children are those of the      *)
(* entry above, and its name stands for a process to come.                 *)
Forgotten(c) ==
  /\ c # Root
  /\ pstate[c] = "gone"
  /\ c \in tried \/ (c \notin Found /\ listed[c] = Unlisted)
  /\ \A d \in Procs : listed[d] # c

Fork(p, c) ==
  /\ p \in Runs
  /\ pstate[c] = "none" \/ Forgotten(c)
  /\ pstate' = [pstate EXCEPT ![c] = "alive"]
  /\ parent' = [parent EXCEPT ![c] = p]
  /\ toRead' = toRead \ {c}
  /\ listed' = [listed EXCEPT ![c] = Unlisted]
  /\ known' = known \ {c}
  /\ link' = [d \in Procs |-> IF d = c THEN Unlinked ELSE IF link[d] = c THEN link[c] ELSE link[d]]
  /\ tried' = tried \ {c}
  /\ paused' = paused \ {c}
  /\ killed' = killed \ {c}
  /\ UNCHANGED <<stopped, doomed, phase, fresh, ok>>

(* A process exits, or somebody else kills it, which also ends a stopped   *)
(* one.  One that has been sent SIGKILL stands still until it is gone.     *)
Exit(p) ==
  /\ p \in Alive \ doomed
  /\ pstate' = [pstate EXCEPT ![p] = IF p = Root THEN "zombie" ELSE "gone"]
  /\ parent' = [c \in Procs |-> IF parent[c] = p THEN Adopter ELSE parent[c]]
  /\ stopped' = stopped \ {p}
  /\ UNCHANGED doomed
  /\ TerminatorFrame

(* The launch thread reaps the root.                                       *)
Reap ==
  /\ pstate[Root] = "zombie"
  /\ pstate' = [pstate EXCEPT ![Root] = "gone"]
  /\ UNCHANGED <<parent, stopped, doomed>>
  /\ TerminatorFrame

Processes == (\E p, c \in Procs : Fork(p, c)) \/ (\E p \in Procs : Exit(p)) \/ Reap

-----------------------------------------------------------------------------
(* The terminator.                                                         *)

(* The names in /proc.                                                     *)
ReadNames ==
  /\ phase = "names"
  /\ toRead' = Exists
  /\ listed' = [p \in Procs |-> Unlisted]
  /\ phase' = "stats"
  /\ UNCHANGED <<procVars, mapVars, tried, paused, fresh, killed, ok>>

(* The stat file of one of them, unless the process is gone by now.        *)
ReadStat(p) ==
  /\ phase = "stats"
  /\ p \in toRead
  /\ toRead' = toRead \ {p}
  /\ listed' = IF p \in Exists THEN [listed EXCEPT ![p] = parent[p]] ELSE listed
  /\ UNCHANGED <<procVars, phase, mapVars, tried, paused, fresh, killed, ok>>

Listed == {p \in Procs : listed[p] # Unlisted}

(* Slip: a process that is not listed any more loses its place.            *)
MapProcessesAnew ==
  /\ known' = known \cup Listed
  /\ link' = listed

(* A process is moved to the children of its parent if that one is mapped. *)
MapProcesses ==
  /\ known' = known \cup Listed
  /\ link' = [p \in Procs |->
                IF p \in Listed /\ listed[p] \in known' \cup {Adopter} THEN listed[p] ELSE link[p]]

RootNotFound ==
  /\ phase = "stats"
  /\ toRead = {}
  /\ Root \notin Listed
  /\ phase' = "resume"
  /\ UNCHANGED <<procVars, listVars, mapVars, tried, paused, fresh, killed, ok>>

RootFound ==
  /\ phase = "stats"
  /\ toRead = {}
  /\ Root \in Listed
  /\ MapProcesses
  /\ fresh' = FALSE
  /\ phase' = "pause"
  /\ UNCHANGED <<procVars, listVars, tried, paused, killed, ok>>

(* Slip: a failed pause is tried again in the next round.                  *)
PauseOneAgain(p) ==
  /\ phase = "pause"
  /\ p \in Found \ tried
  /\ p = Root \/ link[p] \in tried
  /\ fresh' = TRUE
  /\ IF p \in Exists \ Protected
       THEN /\ paused' = paused \cup {p}
            /\ tried' = tried \cup {p}
            /\ stopped' = stopped \cup ({p} \cap Alive)
       ELSE UNCHANGED <<paused, tried, stopped>>
  /\ UNCHANGED <<pstate, parent, doomed, phase, listVars, mapVars, killed, ok>>

(* f_PauseTree goes down from the root.                                    *)
PauseOne(p) ==
  /\ phase = "pause"
  /\ p \in Found \ tried
  /\ p = Root \/ link[p] \in tried
  /\ tried' = tried \cup {p}
  /\ fresh' = TRUE
  /\ IF p \in Exists \ Protected
       THEN paused' = paused \cup {p} /\ stopped' = stopped \cup ({p} \cap Alive)
       ELSE UNCHANGED <<paused, stopped>>
  /\ UNCHANGED <<pstate, parent, doomed, phase, listVars, mapVars, killed, ok>>

(* Slip: what the first round has found is killed without another look.    *)
AllPausedAtOnce ==
  /\ phase = "pause"
  /\ Found \subseteq tried
  /\ phase' = "kill"
  /\ UNCHANGED <<procVars, listVars, mapVars, tried, paused, fresh, killed, ok>>

AllPaused ==
  /\ phase = "pause"
  /\ Found \subseteq tried
  /\ phase' = IF fresh THEN "names" ELSE "kill"
  /\ UNCHANGED <<procVars, listVars, mapVars, tried, paused, fresh, killed, ok>>

(* f_KillTree goes down from the root as well.                             *)
KillOne(p) ==
  /\ phase = "kill"
  /\ p \in Found \ killed
  /\ p = Root \/ link[p] \in killed
  /\ killed' = killed \cup {p}
  /\ doomed' = doomed \cup (({p} \cap Alive) \ Protected)
  /\ UNCHANGED <<pstate, parent, stopped, phase, listVars, mapVars, tried, paused, fresh, ok>>

AllKilled ==
  /\ phase = "kill"
  /\ Found \subseteq killed
  /\ ok' = TRUE
  /\ phase' = "resume"
  /\ UNCHANGED <<procVars, listVars, mapVars, tried, paused, fresh, killed>>

(* The destructor of each entry.                                           *)
ResumeOne(p) ==
  /\ phase = "resume"
  /\ p \in paused
  /\ paused' = paused \ {p}
  /\ stopped' = stopped \ {p}
  /\ UNCHANGED <<pstate, parent, doomed, phase, listVars, mapVars, tried, fresh, killed, ok>>

(* Slip: only the entries that are still children of one are destroyed.    *)
ReturnEarly ==
  /\ phase = "resume"
  /\ paused \cap Found = {}
  /\ phase' = "done"
  /\ UNCHANGED <<procVars, listVars, mapVars, tried, paused, fresh, killed, ok>>

Return ==
  /\ phase = "resume"
  /\ paused = {}
  /\ phase' = "done"
  /\ UNCHANGED <<procVars, listVars, mapVars, tried, paused, fresh, killed, ok>>

Terminator ==
  \/ ReadNames \/ (\E p \in Procs : ReadStat(p)) \/ RootNotFound \/ RootFound
  \/ (\E p \in Procs : PauseOne(p)) \/ AllPaused
  \/ (\E p \in Procs : KillOne(p)) \/ AllKilled
  \/ (\E p \in Procs : ResumeOne(p)) \/ Return

Next == Terminator \/ Processes

(* The terminator goes on; the processes need not do anything.             *)
Spec     == Init /\ [][Next]_vars
FairSpec == Spec /\ WF_vars(Terminator)

-----------------------------------------------------------------------------
(* Properties.                                                             *)

(* The processes that descend from the root through parents that are there *)
(* and that this program may signal.                                       *)
Tree ==
  {p \in Alive : \A S \in SUBSET Procs :
     (Root \in S /\ \A c \in Procs : parent[c] \in S \ Protected => c \in S) => p \in S}

(* When the tree has been terminated, every process of it has been sent    *)
(* SIGKILL, also one that was started while the processes were listed,     *)
(* paused or killed.  A process whose parent has exited has left the tree, *)
(* and so have the children of one that may not be signalled.              *)
KillsWholeTree ==
  ok => Tree \ Protected \subseteq doomed

(* When the terminator has returned, with or without success, no process   *)
(* is left stopped, also none that has left the tree while it was paused.  *)
NothingLeftPaused ==
  phase = "done" => stopped = {}

(* The terminator returns although processes are started all the time,     *)
(* exit before they can be paused, or cannot be paused.  As long as the    *)
(* number of processes is bounded it is kept going in two ways only: a     *)
(* process that runs on because this program may not signal it starts      *)
(* others again and again, each of them new to the next round; or somebody *)
(* else kills what the terminator has stopped, again and again.            *)
KeptGoing ==
  \/ []<><<\E p \in Protected \cap Found, c \in Procs : Fork(p, c)>>_vars
  \/ []<><<\E p \in stopped : Exit(p)>>_vars

Terminates == <>(phase = "done") \/ KeptGoing
=============================================================================
