-------------------------- MODULE LaunchedProcesses --------------------------
(***************************************************************************)
(* What the operating system does for one launch: the launched process,    *)
(* the descendants it starts, the output pipes and the standard input pipe *)
(* they hold, the signals they get, and the process ID, which can be given *)
(* to an unrelated process once the launched process has been reaped and   *)
(* its process group is empty.  Nothing of this is code of the repository; *)
(* it is modelled from what CPOSIXLaunchContext asks of it, and            *)
(* CConsoleRedirector, whose module says how it is read for Windows.       *)
(***************************************************************************)
EXTENDS Naturals, FiniteSets

CONSTANTS
  Child,        \* the launched process
  Descendants,  \* processes the launched process and its descendants start
  NoProcess,    \* the parent of a process nobody in the launch is parent of
  MaxOutput,    \* bound: chunks of output written to each pipe
  StdinCap      \* capacity of the standard input pipe, in chunks

Procs == Descendants \cup {Child}
Pipe  == {"stdout", "stderr"}

(* What the processes of a launch may do: start descendants, move to a     *)
(* process group of their own, close an output before they end.            *)
Habit == {"fork", "leave", "close"}

ASSUME ChildAssumption   == Child \notin Descendants /\ NoProcess \notin Procs
ASSUME FiniteAssumption  == IsFiniteSet(Descendants)
ASSUME BoundsAssumption  == MaxOutput \in Nat /\ StdinCap \in Nat

VARIABLES
  pstate,   \* "none", "alive", "zombie" (only the launched process) or "gone"
  parent,   \* parent of a descendant, NoProcess once the parent has exited
  outside,  \* the descendants that are not in the process group of the launch
  doomed,   \* processes that have been sent SIGKILL
  asked,    \* processes that have been sent SIGTERM
  writers,  \* who holds the write end of each output pipe
  written,  \* chunks written to each output pipe
  stdinBuf, \* chunks in the standard input pipe that no process has read
  stranger, \* the process ID has been given to an unrelated process
  struck    \* what was signalled without being part of the launch

procVars == <<pstate, parent, outside, doomed, asked, stranger, struck>>
pipeVars == <<writers, written>>
worldVars == <<pstate, parent, outside, doomed, asked, writers, written,
               stdinBuf, stranger, struck>>

(* A stop signal sent to process ID -1 reaches every process there is.     *)
Everyone == "everyone"
Stranger == "stranger"

WorldTypeOK ==
  /\ pstate \in [Procs -> {"none", "alive", "zombie", "gone"}]
  /\ parent \in [Descendants -> Procs \cup {NoProcess}]
  /\ outside \in SUBSET Descendants
  /\ doomed \in SUBSET Procs
  /\ asked \in SUBSET Procs
  /\ writers \in [Pipe -> SUBSET Procs]
  /\ written \in [Pipe -> 0..MaxOutput]
  /\ stdinBuf \in 0..StdinCap
  /\ stranger \in BOOLEAN
  /\ struck \in SUBSET {Everyone, Stranger}

WorldInit ==
  /\ pstate = [p \in Procs |-> "none"]
  /\ parent = [d \in Descendants |-> NoProcess]
  /\ outside = {}
  /\ doomed = {}
  /\ asked = {}
  /\ writers = [p \in Pipe |-> {}]
  /\ written = [p \in Pipe |-> 0]
  /\ stdinBuf = 0
  /\ stranger = FALSE
  /\ struck = {}

-----------------------------------------------------------------------------
Alive == {p \in Procs : pstate[p] = "alive"}

(* A process that has been sent SIGKILL executes nothing more.             *)
Active == Alive \ doomed

(* The members of the process group the launch made: a launched process    *)
(* that has exited is a member until it is reaped.                         *)
Group == {p \in Procs \ outside : pstate[p] \in {"alive", "zombie"}}

(* Everything found from the launched process through the parents of the   *)
(* processes that run.                                                     *)
Tree ==
  {p \in Alive : \A S \in SUBSET Procs :
     (Child \in S /\ \A d \in Descendants : parent[d] \in S => d \in S) => p \in S}

AtEOF(p)    == writers[p] = {}

-----------------------------------------------------------------------------
(* A process of the launch starts another one, which inherits its output   *)
(* pipes and its process group.                                            *)
Fork(p, d) ==
  /\ p \in Active
  /\ pstate[d] = "none"
  /\ pstate' = [pstate EXCEPT ![d] = "alive"]
  /\ parent' = [parent EXCEPT ![d] = p]
  /\ outside' = IF p \in outside THEN outside \cup {d} ELSE outside
  /\ writers' = [q \in Pipe |-> IF p \in writers[q] THEN writers[q] \cup {d} ELSE writers[q]]
  /\ UNCHANGED <<doomed, asked, written, stdinBuf, stranger, struck>>

(* A descendant makes a process group of its own (setsid, setpgid).        *)
LeaveGroup(d) ==
  /\ d \in Active
  /\ d \notin outside
  /\ outside' = outside \cup {d}
  /\ UNCHANGED <<pstate, parent, doomed, asked, pipeVars, stdinBuf, stranger, struck>>

Write(p, q) ==
  /\ p \in Active \cap writers[q]
  /\ written[q] < MaxOutput
  /\ written' = [written EXCEPT ![q] = @ + 1]
  /\ UNCHANGED <<procVars, writers, stdinBuf>>

(* A process redirects or closes an output it has inherited.               *)
CloseOutput(p, q) ==
  /\ p \in Active \cap writers[q]
  /\ writers' = [writers EXCEPT ![q] = @ \ {p}]
  /\ UNCHANGED <<procVars, written, stdinBuf>>

ReadStdin ==
  /\ Active # {}
  /\ stdinBuf > 0
  /\ stdinBuf' = stdinBuf - 1
  /\ UNCHANGED <<procVars, pipeVars>>

(* A process ends: its pipe ends are closed, its children lose their       *)
(* parent.  The launched process stays as a zombie until it is reaped.     *)
Die(p) ==
  /\ p \in Alive
  /\ pstate' = [pstate EXCEPT ![p] = IF p = Child THEN "zombie" ELSE "gone"]
  /\ parent' = [d \in Descendants |-> IF parent[d] = p THEN NoProcess ELSE parent[d]]
  /\ writers' = [q \in Pipe |-> writers[q] \ {p}]
  /\ UNCHANGED <<outside, doomed, asked, written, stdinBuf, stranger, struck>>

(* The ID of a reaped process is given to a new process, unless it is      *)
(* still the ID of a process group with members.                           *)
ReuseID(grouped) ==
  /\ ~stranger
  /\ pstate[Child] = "gone"
  /\ grouped => Group = {}
  /\ stranger' = TRUE
  /\ UNCHANGED <<pstate, parent, outside, doomed, asked, pipeVars, stdinBuf, struck>>

World(grouped, habits) ==
  \/ "fork" \in habits /\ \E p \in Procs, d \in Descendants : Fork(p, d)
  \/ "leave" \in habits /\ \E d \in Descendants : LeaveGroup(d)
  \/ \E p \in Procs, q \in Pipe : Write(p, q)
  \/ "close" \in habits /\ \E p \in Procs, q \in Pipe : CloseOutput(p, q)
  \/ ReadStdin
  \/ \E p \in Procs : Die(p)
  \/ ReuseID(grouped)
=============================================================================
