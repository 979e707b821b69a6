---------------------------- MODULE WindowsLaunch ----------------------------
(***************************************************************************)
(* One launch of CConsoleRedirector, the Windows counterpart of            *)
(* CPOSIXLaunchContext: the thread that starts the process, reads its      *)
(* output in completion callbacks and reports how it ended; the owner that *)
(* stops, terminates and closes it; a second thread of the owner that      *)
(* writes to the standard input; and fs_CancelAllLaunches.                 *)
(*                                                                         *)
(* The operating system is module LaunchedProcesses, read for Windows: a   *)
(* "zombie" is a process that has ended while a handle keeps it, a doomed  *)
(* process has been terminated, an asked one has been sent CTRL_BREAK, and *)
(* who is outside has broken away from the job of the launch.  A process   *)
(* whose parent has exited is not found through it, as f_TerminateTree     *)
(* takes it to be, also where a handle would still let it be found.        *)
(***************************************************************************)
EXTENDS LaunchedProcesses, Sequences

CONSTANTS
  Options     \* the launches to consider, see Option

Flag   == {"TerminateProcess", "TerminateProcessTree", "StopProcess",
           "LingerUntilDone", "BlockOnExit"}
Target == {"executable", "deelevated", "elevated", "document"}
Fault  == {"start", "access", "job", "stop", "read", "shutdown", "denied", "terminate"}
Op     == {"Stop", "TerminateTree", "Stdin"}

(* The launch parameters that steer the control flow (an elevated launch   *)
(* is redirected with m_bStdOutPID too), what may fail (or that Windows is *)
(* shutting down, "denied" that a process may not be opened to terminate   *)
(* it, "terminate" that its job may not be terminated), the flag sets that *)
(* the owner closes with, its other operations, and what the processes do. *)
Option == [target : Target, group : BOOLEAN, sandboxed : BOOLEAN, user : BOOLEAN,
           redirect : BOOLEAN, separate : BOOLEAN, dispatcher : BOOLEAN,
           threaded : BOOLEAN, faults : SUBSET Fault,
           closes : SUBSET SUBSET Flag, ops : SUBSET Op, habits : SUBSET Habit]

(* A sandbox cannot be left.                                               *)
ASSUME OptionsAssumption ==
  \A o \in Options : o \in Option /\ (o.sandboxed => "leave" \notin o.habits)

VARIABLES
  opt,             \* mp_LastLaunchOptions and more, see Option
  \* the owner
  opc, flags,      \* where it is, and the flags it starts or closes with
  before,          \* history: which of Earlier there was before the close
  writing,         \* f_SendText, f_SendBinary: holds mp_PipeLock
  \* the redirector
  needTermination, \* mp_NeedTermination
  needWait,        \* mp_bNeedWait
  event,           \* mp_pEvent is set
  hasHandle,       \* mp_pChildProcess
  hasID,           \* mp_ProcessID is not 0
  job, sandbox,    \* mp_pProcessGroupJob, mp_pSandboxJob
  rd, stdinOpen,   \* the pipe ends it has
  held,            \* what mp_CleanupLoadedProfiles will undo
  leaked,          \* it has been cleared instead
  refs, freed,     \* m_RefCount, and the redirector has been deleted
  \* the launch thread
  tpc,             \* where it is
  suspended,       \* the process has been created and not resumed
  exited,          \* bExited
  term, wait,      \* NeedTermination and bNeedWait of f_Main
  io, taken,       \* the outstanding reads, and the chunks read
  \* f_TerminateTree as called by the owner and by the thread
  tt,
  \* callbacks
  sent, seen,      \* the callbacks issued, and how many of them have run
  canceller,       \* fg_ProcessLaunch_CancelAll
  owed             \* history: what had been written when the process ended

ownerVars  == <<opc, flags, before>>
askVars    == <<needTermination, needWait, event>>
handleVars == <<hasHandle, hasID, stdinOpen, rd>>
jobVars    == <<job, sandbox>>
userVars   == <<held, leaked>>
refVars    == <<refs, freed>>
loopVars   == <<exited, term, wait>>
readVars   == <<io, taken>>
reportVars == <<sent, seen, refs, freed>>
vars == <<opt, ownerVars, writing, askVars, handleVars, jobVars, userVars, refVars,
          tpc, suspended, loopVars, readVars, tt, sent, seen, canceller, owed,
          worldVars>>

Actor == {"owner", "thread"}
OutputKind == {"StdOut", "StdErr", "GeneralError", "TerminateMessage"}
Earlier == {"launched", "cancelled"}
Kind  == OutputKind \cup {"Launched", "LaunchFailed", "Exited"}

StartPC  == {"start", "shell", "elevate", "connect", "find", "token", "logon", "access",
             "desktop", "prepare", "create", "created", "resume", "resumed", "undo", "unwind"}
LoopPC   == {"loop", "woken", "act", "actTree"}
ThreadPC == {"none", "launched", "failed", "drain", "cancel", "drain2", "exit",
             "close", "return", "done"} \cup StartPC \cup LoopPC

TypeOK ==
  /\ WorldTypeOK
  /\ opt \in Option
  /\ opc \in {"new", "inline", "idle", "terminating", "closeJob", "join", "release",
              "closed"}
  /\ flags \in SUBSET Flag
  /\ before \in SUBSET Earlier /\ writing \in BOOLEAN
  /\ needTermination \in SUBSET Flag
  /\ needWait \in BOOLEAN /\ event \in BOOLEAN
  /\ hasHandle \in BOOLEAN /\ hasID \in BOOLEAN
  /\ job \in BOOLEAN /\ sandbox \in BOOLEAN
  /\ rd \in SUBSET Pipe
  /\ stdinOpen \in BOOLEAN
  /\ held \in SUBSET {"profile", "station", "desktop"}
  /\ leaked \in BOOLEAN
  /\ refs \in Nat /\ freed \in BOOLEAN
  /\ tpc \in ThreadPC
  /\ suspended \in BOOLEAN
  /\ exited \in BOOLEAN
  /\ term \in SUBSET Flag
  /\ wait \in BOOLEAN
  /\ io \in [Pipe -> {"off", "pending", "retry", "over"}]
  /\ taken \in [Pipe -> Nat]
  /\ tt \in [Actor -> [at : {"off", "list", "kill", "job"}, found : SUBSET Procs]]
  /\ sent \in Seq(Kind)
  /\ seen \in Nat
  /\ canceller \in {"idle", "waiting", "done"}
  /\ owed \in [Pipe -> Nat]

Init ==
  /\ WorldInit
  /\ opt \in Options
  /\ opc = "new" /\ flags = {} /\ before = {}
  /\ writing = FALSE
  /\ needTermination = {} /\ needWait = FALSE /\ event = FALSE
  /\ hasHandle = FALSE /\ hasID = FALSE
  /\ job = FALSE /\ sandbox = FALSE
  /\ rd = {} /\ stdinOpen = FALSE
  /\ held = {} /\ leaked = FALSE
  /\ refs = 1 /\ freed = FALSE
  /\ tpc = "none" /\ suspended = FALSE
  /\ exited = FALSE /\ term = {} /\ wait = FALSE
  /\ io = [q \in Pipe |-> "off"]
  /\ taken = [q \in Pipe |-> 0]
  /\ tt = [a \in Actor |-> [at |-> "off", found |-> {}]]
  /\ sent = <<>> /\ seen = 0
  /\ canceller = "idle"
  /\ owed = [q \in Pipe |-> 0]

-----------------------------------------------------------------------------
(* Shared pieces of the actions.                                           *)

Terminations == {"TerminateProcess", "TerminateProcessTree", "StopProcess"}
Waits        == {"LingerUntilDone", "BlockOnExit"}
OutputPipes  == IF ~opt.redirect THEN {} ELSE IF opt.separate THEN Pipe ELSE {"stdout"}

DropRef ==
  /\ refs' = refs - 1
  /\ freed' = (refs = 1)

(* Slip: the callback handed to the dispatcher holds no reference.         *)
ReportUncounted(kind) ==
  /\ sent' = Append(sent, kind)
  /\ IF opt.dispatcher THEN UNCHANGED seen ELSE seen' = seen + 1
  /\ UNCHANGED refVars

(* A callback runs on the launch thread, or is handed to the dispatcher    *)
(* with a reference to the redirector.                                     *)
Report(kind) ==
  /\ sent' = Append(sent, kind)
  /\ IF opt.dispatcher
       THEN refs' = refs + 1 /\ UNCHANGED seen
       ELSE seen' = seen + 1 /\ UNCHANGED refs
  /\ UNCHANGED freed

ReportIf(condition, kind) ==
  IF condition THEN Report(kind) ELSE UNCHANGED reportVars

(* What an unthreaded start, and f_Close, ask for under                    *)
(* mp_NeedTerminationLock before they set the event.                       *)
RequestClose(f) ==
  /\ needTermination' = f \cap Terminations
  /\ needWait' = (needWait \/ f \cap Waits # {})
  /\ event' = TRUE

Kill(ps) == doomed' = doomed \cup (ps \cap Alive)

(* The processes of the group job and of the sandbox job.                  *)
JobProcs     == IF job THEN Alive \ outside ELSE {}
SandboxProcs == IF sandbox THEN Alive ELSE {}

(* TerminateJobObject, for the group job: a failure changes nothing.       *)
TerminateJob == Kill(JobProcs) \/ ("terminate" \in opt.faults /\ Kill({}))

DoomFrame == UNCHANGED <<pstate, parent, outside, asked, pipeVars, stdinBuf, stranger, struck>>

(* f_StopProcess sends CTRL_BREAK to the process group of mp_ProcessID; the *)
(* group 0 is everyone at the console.                                     *)
CanStop == opt.group \/ opt.user
SendBreak ==
  /\ asked' = IF hasID THEN asked \cup ({Child} \cap Alive) ELSE asked
  /\ struck' = struck \cup (IF ~hasID THEN {Everyone} ELSE IF stranger THEN {Stranger} ELSE {})
  /\ UNCHANGED <<pstate, parent, outside, doomed, pipeVars, stdinBuf, stranger>>

-----------------------------------------------------------------------------
(* f_TerminateTree, on the launch thread and on the owner's.  While        *)
(* mp_ChildProcessLock is held the process handle is not closed.           *)

TreeLocked == \E a \in Actor : tt[a].at \in {"list", "kill"}

CallTerminateTree(a) ==
  tt' = [tt EXCEPT ![a] = [at |-> IF hasHandle THEN "list" ELSE "job", found |-> {}]]

TreeFrame == UNCHANGED <<ownerVars, writing, askVars, handleVars, jobVars, userVars,
                         refVars, tpc, suspended, loopVars, readVars, sent, seen,
                         canceller, owed>>

(* The snapshot of all processes, searched through their parents.          *)
TreeList(a) ==
  /\ tt[a].at = "list"
  /\ tt' = [tt EXCEPT ![a] = [at |-> "kill", found |-> Tree]]
  /\ TreeFrame
  /\ UNCHANGED worldVars

(* f_KillTree passes over a process that it may not open to terminate it.  *)
(* It never may open an elevated process, since a launcher that is not     *)
(* elevated is what makes one, and it may be denied any other.             *)
MayBeDenied == opt.target = "elevated" \/ "denied" \in opt.faults
Opened(found) ==
  IF MayBeDenied THEN SUBSET (found \ (IF opt.target = "elevated" THEN {Child} ELSE {}))
                 ELSE {found}

TreeKill(a) ==
  /\ tt[a].at = "kill"
  /\ \E ps \in Opened(tt[a].found) : Kill(ps)
  /\ tt' = [tt EXCEPT ![a] = [at |-> "job", found |-> {}]]
  /\ TreeFrame
  /\ DoomFrame

TreeJob(a) ==
  /\ tt[a].at = "job"
  /\ TerminateJob
  /\ tt' = [tt EXCEPT ![a].at = "off"]
  /\ TreeFrame
  /\ DoomFrame

TerminateTreeStep(a) == TreeList(a) \/ TreeKill(a) \/ TreeJob(a)

-----------------------------------------------------------------------------
(* The launch thread: fp_DoStart and fp_LaunchChild.                       *)

StartFrame == UNCHANGED <<ownerVars, writing, askVars, refVars, loopVars, readVars,
                          tt, sent, seen, canceller, owed>>

StartMayFail == "start" \in opt.faults

(* A step that only can fail, or goes on to the next one.                  *)
GoOn(from, to, else) ==
  /\ tpc = from
  /\ tpc' = to \/ (StartMayFail /\ tpc' = else)

(* The anonymous pipes; those of an elevated launch are made later.  How   *)
(* the launch goes on depends on what is launched.                         *)
MakePipes ==
  /\ GoOn("start",
          CASE opt.target = "document" -> "shell"
            [] opt.target = "elevated" -> "elevate"
            [] OTHER -> "find",
          "unwind")
  /\ LET made == opt.redirect /\ opt.target # "elevated" IN
     /\ rd' = IF made THEN OutputPipes ELSE {}
     /\ stdinOpen' = made
  /\ StartFrame
  /\ UNCHANGED <<hasHandle, hasID, jobVars, userVars, suspended, worldVars>>

(* A document or URL: CreateProcessW or ShellExecuteExW, which may return  *)
(* no process.                                                             *)
LaunchDocument ==
  /\ GoOn("shell", "launched", "unwind")
  /\ hasHandle' \in IF tpc' = "launched" THEN BOOLEAN ELSE {FALSE}
  /\ hasID' = hasHandle'
  /\ pstate' = IF hasHandle' THEN [pstate EXCEPT ![Child] = "alive"] ELSE pstate
  /\ StartFrame
  /\ UNCHANGED <<rd, stdinOpen, jobVars, userVars, suspended, parent, outside, doomed,
                 asked, pipeVars, stdinBuf, stranger, struck>>

(* The named pipes are made and ShellExecuteExW runs the program elevated; *)
(* it too may return no process, and then no pipe can be connected.        *)
LaunchElevated ==
  /\ GoOn("elevate", IF opt.redirect THEN "connect" ELSE "launched", "unwind")
  /\ hasHandle' \in IF tpc' # "unwind" THEN BOOLEAN ELSE {FALSE}
  /\ hasID' = hasHandle'
  /\ pstate' = IF hasHandle' THEN [pstate EXCEPT ![Child] = "alive"] ELSE pstate
  /\ StartFrame
  /\ UNCHANGED <<rd, stdinOpen, jobVars, userVars, suspended, parent, outside, doomed,
                 asked, pipeVars, stdinBuf, stranger, struck>>

(* fConnectAndVerify: the process opens its ends of the named pipes.       *)
ConnectPipes ==
  /\ tpc = "connect"
  /\ Child \in Active
  /\ writers' = [q \in Pipe |-> IF q \in OutputPipes THEN {Child} ELSE {}]
  /\ rd' = OutputPipes
  /\ stdinOpen' = TRUE
  /\ tpc' = "launched"
  /\ StartFrame
  /\ UNCHANGED <<hasHandle, hasID, jobVars, userVars, suspended, procVars, written, stdinBuf>>

(* It has exited, or has not done so in 120 s.                             *)
ConnectFails ==
  /\ tpc = "connect"
  /\ tpc' = "unwind"
  /\ StartFrame
  /\ UNCHANGED <<handleVars, jobVars, userVars, suspended, worldVars>>

(* The program is looked for in the directories of its PATH; how it is     *)
(* given a token is decided next.                                          *)
FindProgram ==
  /\ GoOn("find",
          IF opt.target = "deelevated" THEN "token" ELSE IF opt.user THEN "logon" ELSE "prepare",
          "unwind")
  /\ StartFrame
  /\ UNCHANGED <<handleVars, jobVars, userVars, suspended, worldVars>>

(* The token of the session, or of a process in it that is not elevated.   *)
FindToken ==
  /\ GoOn("token", "prepare", "unwind")
  /\ StartFrame
  /\ UNCHANGED <<handleVars, jobVars, userVars, suspended, worldVars>>

(* m_RunAsUser: the user is logged on and the user's profile loaded.       *)
LogOn ==
  /\ GoOn("logon", "access", "unwind")
  /\ held' = IF tpc' = "access" THEN {"profile"} ELSE {}
  /\ StartFrame
  /\ UNCHANGED <<handleVars, jobVars, leaked, suspended, worldVars>>

(* The user gets access to the window station and then to the desktop,     *)
(* where it has none yet.  When this fails the scope of                    *)
(* CleanupUserProfiles ends.                                               *)
Access(object, from, to) ==
  /\ tpc = from
  /\ \/ held' \in {held, held \cup {object}} /\ tpc' = to
     \/ "access" \in opt.faults /\ held' = {} /\ tpc' = "unwind"
  /\ StartFrame
  /\ UNCHANGED <<handleVars, jobVars, leaked, suspended, worldVars>>

AccessStation == Access("station", "access", "desktop")
AccessDesktop == Access("desktop", "desktop", "prepare")

(* What a sandbox needs is looked for; the environment and the start-up    *)
(* information are made.                                                   *)
Prepare ==
  /\ tpc = "prepare"
  /\ \/ tpc' = "create" /\ hasID' = FALSE /\ UNCHANGED held
     \/ opt.sandboxed /\ StartMayFail /\ tpc' = "unwind" /\ held' = {} /\ UNCHANGED hasID
  /\ StartFrame
  /\ UNCHANGED <<hasHandle, rd, stdinOpen, jobVars, leaked, suspended, worldVars>>

(* CreateProcess.  A process that is put into a job is created suspended.  *)
CreateChild ==
  /\ tpc = "create"
  /\ \/ /\ pstate' = [pstate EXCEPT ![Child] = "alive"]
        /\ writers' = [q \in Pipe |-> IF q \in OutputPipes THEN {Child} ELSE {}]
        /\ suspended' = (opt.group \/ opt.sandboxed)
        /\ tpc' = IF suspended' THEN "created" ELSE "resumed"
        /\ UNCHANGED held
     \/ /\ StartMayFail
        /\ held' = {}
        /\ tpc' = "unwind"
        /\ UNCHANGED <<pstate, writers, suspended>>
  /\ StartFrame
  /\ UNCHANGED <<handleVars, jobVars, leaked, parent, outside, doomed,
                 asked, written, stdinBuf, stranger, struck>>

(* The sandbox job, its limits and the sandbox DLL.                        *)
EnterSandbox ==
  /\ tpc = "created"
  /\ opt.sandboxed
  /\ \/ sandbox' = TRUE /\ tpc' = "resume"
     \/ StartMayFail /\ sandbox' \in BOOLEAN /\ tpc' = "undo"
  /\ StartFrame
  /\ UNCHANGED <<handleVars, job, userVars, suspended, worldVars>>

(* The job of the process group; the launch goes on without it.            *)
EnterJob ==
  /\ tpc = "created"
  /\ ~opt.sandboxed
  /\ job' \in IF "job" \in opt.faults THEN BOOLEAN ELSE {TRUE}
  /\ tpc' = "resume"
  /\ StartFrame
  /\ UNCHANGED <<handleVars, sandbox, userVars, suspended, worldVars>>

Resume ==
  /\ tpc = "resume"
  /\ suspended' = FALSE
  /\ tpc' = "resumed"
  /\ StartFrame
  /\ UNCHANGED <<handleVars, jobVars, userVars, worldVars>>

StoreProcess ==
  /\ tpc = "resumed"
  /\ hasHandle' = TRUE
  /\ hasID' = TRUE
  /\ tpc' = "launched"
  /\ StartFrame
  /\ UNCHANGED <<rd, stdinOpen, jobVars, userVars, suspended, worldVars>>

(* bFailedLaunch: the process is terminated before the user's profile is   *)
(* given back.                                                             *)
UndoLaunch ==
  /\ tpc = "undo"
  /\ Kill({Child})
  /\ suspended' = FALSE
  /\ held' = {}
  /\ tpc' = "unwind"
  /\ StartFrame
  /\ UNCHANGED <<handleVars, jobVars, leaked>>
  /\ DoomFrame

(* fp_Close needs both locks; closing the sandbox job kills what is in it. *)
CloseHandles ==
  /\ ~writing
  /\ ~TreeLocked
  /\ hasHandle' = FALSE
  /\ stdinOpen' = FALSE
  /\ rd' = {}
  /\ sandbox' = FALSE
  /\ Kill(SandboxProcs)
  /\ DoomFrame

(* fp_DoStart has failed: the ends meant for the process are closed and    *)
(* then those of the redirector.                                           *)
Unwind ==
  /\ tpc = "unwind"
  /\ CloseHandles
  /\ tpc' = "failed"
  /\ StartFrame
  /\ UNCHANGED <<hasID, job, userVars, suspended>>

OnLaunchFailed ==
  /\ tpc = "failed"
  /\ Report("LaunchFailed")
  /\ tpc' = "return"
  /\ UNCHANGED <<ownerVars, writing, askVars, handleVars, jobVars, userVars, suspended,
                 loopVars, readVars, tt, canceller, owed, worldVars>>

Starting == \/ MakePipes \/ LaunchDocument \/ LaunchElevated \/ ConnectPipes
            \/ ConnectFails \/ FindProgram \/ FindToken \/ LogOn \/ AccessStation
            \/ AccessDesktop \/ Prepare \/ CreateChild \/ EnterSandbox \/ EnterJob
            \/ Resume \/ StoreProcess \/ UndoLaunch \/ Unwind \/ OnLaunchFailed

-----------------------------------------------------------------------------
(* The launch thread: f_Main.                                              *)

LoopFrame == UNCHANGED <<ownerVars, writing, handleVars, suspended, canceller, owed>>

(* The launch is reported and the first reads are started.                 *)
OnLaunched ==
  /\ tpc = "launched"
  /\ Report("Launched")
  /\ io' = [q \in Pipe |-> IF q \in rd THEN "pending" ELSE "off"]
  /\ tpc' = "loop"
  /\ LoopFrame
  /\ UNCHANGED <<askVars, jobVars, userVars, loopVars, taken, tt, worldVars>>

(* Slip: the thread waits alertably once more after it reported the exit.  *)
AlertableAtTheEnd == tpc \in {"loop", "drain", "drain2", "close"}

(* The completion callbacks run in an alertable wait of the thread, one    *)
(* for each read, and start the next read.                                 *)
Alertable == tpc \in {"loop", "drain", "drain2"}

Reading(q) == io[q] \in {"pending", "retry"}
Readable(q) == taken[q] < written[q] \/ AtEOF(q)

ReadChunk(q) ==
  /\ Alertable
  /\ Reading(q)
  /\ taken[q] < written[q]
  /\ taken' = [taken EXCEPT ![q] = @ + 1]
  /\ Report(IF q = "stdout" THEN "StdOut" ELSE "StdErr")
  /\ LoopFrame
  /\ UNCHANGED <<tpc, askVars, jobVars, userVars, loopVars, io, tt, worldVars>>

(* ERROR_BROKEN_PIPE                                                       *)
ReadEnd(q) ==
  /\ Alertable
  /\ Reading(q)
  /\ taken[q] = written[q]
  /\ AtEOF(q)
  /\ io' = [io EXCEPT ![q] = "over"]
  /\ LoopFrame
  /\ UNCHANGED <<tpc, askVars, jobVars, userVars, reportVars, loopVars, taken, tt, worldVars>>

(* Another error is reported and the read tried again; the bound is one    *)
(* error that passes and one that stays.                                   *)
ReadError(q) ==
  /\ Alertable
  /\ Reading(q)
  /\ "read" \in opt.faults
  /\ io' = [io EXCEPT ![q] = IF @ = "pending" THEN "retry" ELSE "over"]
  /\ Report("GeneralError")
  /\ LoopFrame
  /\ UNCHANGED <<tpc, askVars, jobVars, userVars, loopVars, taken, tt, worldVars>>

(* The wait reports the process before the event.  Without a process the   *)
(* launch is over at once.  What has been loaded for the user is given     *)
(* back, unless Windows is shutting down.                                  *)
HasEnded == ~hasHandle \/ pstate[Child] = "zombie"

(* Slip: the exit is reported without a look at the reads that are done.   *)
SeeExitAtOnce ==
  /\ tpc = "loop"
  /\ HasEnded
  /\ exited' = TRUE
  /\ held' = {}
  /\ tpc' = "exit"
  /\ LoopFrame
  /\ UNCHANGED <<leaked, askVars, jobVars, reportVars, term, wait, readVars, tt, worldVars>>

SeeExit ==
  /\ tpc = "loop"
  /\ HasEnded
  /\ exited' = TRUE
  /\ held' = {}
  /\ leaked' \in IF "shutdown" \in opt.faults /\ held # {} THEN BOOLEAN ELSE {leaked}
  /\ tpc' = "drain"
  /\ LoopFrame
  /\ UNCHANGED <<askVars, jobVars, reportVars, term, wait, readVars, tt, worldVars>>

SeeEvent ==
  /\ tpc = "loop"
  /\ ~HasEnded
  /\ event
  /\ event' = FALSE
  /\ tpc' = "woken"
  /\ LoopFrame
  /\ UNCHANGED <<needTermination, needWait, jobVars, userVars, reportVars, loopVars,
                 readVars, tt, worldVars>>

(* What is wanted is taken under the lock, after the wait has reset the    *)
(* event: a close or a cancel between the two sets it again.               *)
TakeFlags ==
  /\ tpc = "woken"
  /\ term' = needTermination
  /\ wait' = needWait
  /\ needTermination' = {}
  /\ needWait' = FALSE
  /\ tpc' = "act"
  /\ LoopFrame
  /\ UNCHANGED <<event, jobVars, userVars, reportVars, exited, readVars, tt, worldVars>>

(* The thread waits on or gives the process up; then what has been loaded  *)
(* for the user stays loaded.                                              *)
Decide(wanted) ==
  /\ tpc' = IF wanted THEN "loop" ELSE "drain"
  /\ held' = IF wanted THEN held ELSE {}
  /\ leaked' = (leaked \/ (~wanted /\ held # {}))

Terminates == term \cap {"TerminateProcess", "TerminateProcessTree"} # {}

ActTree ==
  /\ tpc = "act"
  /\ Terminates
  /\ ~opt.sandboxed
  /\ CallTerminateTree("thread")
  /\ tpc' = "actTree"
  /\ LoopFrame
  /\ UNCHANGED <<askVars, jobVars, userVars, reportVars, loopVars, readVars, worldVars>>

(* The log of fg_TerminateProcessTree is never empty.                      *)
ActTreeDone ==
  /\ tpc = "actTree"
  /\ tt["thread"].at = "off"
  /\ Report("TerminateMessage")
  /\ Decide(wait)
  /\ LoopFrame
  /\ UNCHANGED <<askVars, jobVars, loopVars, readVars, tt, worldVars>>

(* fp_TerminateSandbox.  The handle is the only one of a job that kills    *)
(* what is in it when it is closed, also where the termination of the job  *)
(* has failed, which is all that the log is about.                         *)
ActSandbox ==
  /\ tpc = "act"
  /\ Terminates
  /\ opt.sandboxed
  /\ Kill(SandboxProcs)
  /\ sandbox' = FALSE
  /\ Decide(wait)
  /\ \/ UNCHANGED reportVars
     \/ sandbox /\ "terminate" \in opt.faults /\ Report("TerminateMessage")
  /\ LoopFrame
  /\ UNCHANGED <<askVars, job, loopVars, readVars, tt>>
  /\ DoomFrame

ActStop ==
  /\ tpc = "act"
  /\ ~Terminates
  /\ "StopProcess" \in term
  /\ \/ /\ CanStop /\ hasID
        /\ SendBreak
        /\ Decide(wait)
        /\ UNCHANGED reportVars
     \/ /\ ~CanStop \/ ~hasID \/ "stop" \in opt.faults
        /\ Report("TerminateMessage")
        /\ Decide(FALSE)
        /\ UNCHANGED worldVars
  /\ LoopFrame
  /\ UNCHANGED <<askVars, jobVars, loopVars, readVars, tt>>

ActNothing ==
  /\ tpc = "act"
  /\ term \cap Terminations = {}
  /\ Decide(wait)
  /\ LoopFrame
  /\ UNCHANGED <<askVars, jobVars, reportVars, loopVars, readVars, tt, worldVars>>

(* SleepEx until no callback is left to run.                               *)
NoneReadable == \A q \in Pipe : Reading(q) => ~Readable(q)

Drained ==
  /\ tpc = "drain"
  /\ NoneReadable
  /\ tpc' = "cancel"
  /\ LoopFrame
  /\ UNCHANGED <<askVars, jobVars, userVars, reportVars, loopVars, readVars, tt, worldVars>>

(* CancelIo ends the reads that have nothing to return.                    *)
CancelReads ==
  /\ tpc = "cancel"
  /\ io' = [q \in Pipe |-> IF Reading(q) /\ taken[q] = written[q] THEN "over" ELSE io[q]]
  /\ tpc' = "drain2"
  /\ LoopFrame
  /\ UNCHANGED <<askVars, jobVars, userVars, reportVars, loopVars, taken, tt, worldVars>>

CancelledReadsDone ==
  /\ tpc = "drain2"
  /\ NoneReadable
  /\ tpc' = "exit"
  /\ LoopFrame
  /\ UNCHANGED <<askVars, jobVars, userVars, reportVars, loopVars, readVars, tt, worldVars>>

OnExit ==
  /\ tpc = "exit"
  /\ ReportIf(exited, "Exited")
  /\ tpc' = "close"
  /\ LoopFrame
  /\ UNCHANGED <<askVars, jobVars, userVars, loopVars, readVars, tt, worldVars>>

(* fp_ClearSandbox and fp_Close                                            *)
CloseAll ==
  /\ tpc = "close"
  /\ CloseHandles
  /\ tpc' = "return"
  /\ UNCHANGED <<ownerVars, writing, askVars, hasID, job, userVars, refVars, suspended,
                 loopVars, readVars, tt, sent, seen, canceller, owed>>

(* f_DestroyThread, or the return of an unthreaded start.                  *)
Return ==
  /\ tpc = "return"
  /\ IF opt.threaded
       THEN DropRef /\ UNCHANGED opc
       ELSE opc' = "idle" /\ UNCHANGED refVars
  /\ tpc' = "done"
  /\ UNCHANGED <<flags, before, writing, askVars, handleVars, jobVars, userVars, suspended,
                 loopVars, readVars, tt, sent, seen, canceller, owed, worldVars>>

Main ==
  \/ OnLaunched \/ SeeExit \/ SeeEvent \/ TakeFlags
  \/ \E q \in Pipe : ReadChunk(q) \/ ReadEnd(q) \/ ReadError(q)
  \/ ActTree \/ ActTreeDone \/ ActSandbox \/ ActStop \/ ActNothing
  \/ Drained \/ CancelReads \/ CancelledReadsDone \/ OnExit \/ CloseAll \/ Return

Thread == Starting \/ Main \/ TerminateTreeStep("thread")

-----------------------------------------------------------------------------
(* The owner.                                                              *)

OwnerFrame == UNCHANGED <<handleVars, jobVars, userVars, suspended, loopVars, readVars,
                          sent, seen, canceller, owed>>

(* An unthreaded launch runs f_Main on the thread that starts it, with the *)
(* flags it will be closed with.                                           *)
Start ==
  /\ opc = "new"
  /\ tpc' = "start"
  /\ IF opt.threaded
       THEN opc' = "idle" /\ refs' = refs + 1 /\ UNCHANGED <<flags, askVars>>
       ELSE /\ opc' = "inline"
            /\ flags' \in opt.closes
            /\ RequestClose(flags')
            /\ UNCHANGED refs
  /\ OwnerFrame
  /\ UNCHANGED <<before, writing, freed, tt, worldVars>>

StopProcess ==
  /\ opc = "idle"
  /\ "Stop" \in opt.ops
  /\ CanStop
  /\ SendBreak
  /\ OwnerFrame
  /\ UNCHANGED <<ownerVars, writing, askVars, refVars, tpc, tt>>

TerminateTree ==
  /\ opc = "idle"
  /\ "TerminateTree" \in opt.ops
  /\ ~TreeLocked
  /\ CallTerminateTree("owner")
  /\ opc' = "terminating"
  /\ OwnerFrame
  /\ UNCHANGED <<flags, before, writing, askVars, refVars, tpc, worldVars>>

TerminateTreeReturns ==
  /\ opc = "terminating"
  /\ tt["owner"].at = "off"
  /\ opc' = "idle"
  /\ OwnerFrame
  /\ UNCHANGED <<flags, before, writing, askVars, refVars, tpc, tt, worldVars>>

SendStdIn ==
  /\ opc \in {"idle", "terminating"}
  /\ "Stdin" \in opt.ops
  /\ stdinOpen
  /\ ~writing
  /\ writing' = TRUE
  /\ OwnerFrame
  /\ UNCHANGED <<ownerVars, askVars, refVars, tpc, tt, worldVars>>

(* A write ends when there is room, or no process left that could read; a  *)
(* document gets pipes and no process that inherits them.                  *)
SendDone ==
  /\ writing
  /\ \/ stdinBuf < StdinCap /\ stdinBuf' = stdinBuf + 1
     \/ /\ Alive = {} \/ opt.target = "document"
        /\ tpc \notin StartPC \ {"unwind"}
        /\ UNCHANGED stdinBuf
  /\ writing' = FALSE
  /\ OwnerFrame
  /\ UNCHANGED <<ownerVars, askVars, refVars, tpc, tt, procVars, pipeVars>>

CloseStdIn ==
  /\ opc = "idle"
  /\ "Stdin" \in opt.ops
  /\ stdinOpen
  /\ ~writing
  /\ stdinOpen' = FALSE
  /\ UNCHANGED <<ownerVars, writing, askVars, hasHandle, hasID, rd, jobVars, userVars,
                 refVars, tpc, suspended, loopVars, readVars, tt, sent, seen,
                 canceller, owed, worldVars>>

(* f_Close: what is wanted is set under the lock and the event wakes the   *)
(* thread up.                                                              *)
Close ==
  /\ opc = "idle"
  /\ ~writing
  /\ flags' \in IF opt.threaded THEN opt.closes ELSE {flags}
  /\ RequestClose(flags')
  /\ before' = {e \in Earlier : IF e = "launched" THEN sent # <<>> /\ sent[1] = "Launched"
                                                  ELSE canceller # "idle"}
  /\ opc' = IF "TerminateProcessTree" \in flags' THEN "closeJob" ELSE "join"
  /\ OwnerFrame
  /\ UNCHANGED <<writing, refVars, tpc, tt, worldVars>>

(* Slip: the job is left to the launch thread.                             *)
CloseJobForgets ==
  /\ opc = "closeJob"
  /\ opc' = "join"
  /\ OwnerFrame
  /\ UNCHANGED <<flags, before, writing, askVars, refVars, tpc, tt, worldVars>>

(* The thread can be done with a process whose descendants live on.        *)
CloseJob ==
  /\ opc = "closeJob"
  /\ TerminateJob
  /\ opc' = "join"
  /\ OwnerFrame
  /\ UNCHANGED <<flags, before, writing, askVars, refVars, tpc, tt>>
  /\ DoomFrame

Join ==
  /\ opc = "join"
  /\ (flags \cap Waits = {} \/ "BlockOnExit" \in flags) => tpc \in {"none", "return", "done"}
  /\ opc' = "release"
  /\ OwnerFrame
  /\ UNCHANGED <<flags, before, writing, askVars, refVars, tpc, tt, worldVars>>

Release ==
  /\ opc = "release"
  /\ DropRef
  /\ opc' = "closed"
  /\ OwnerFrame
  /\ UNCHANGED <<flags, before, writing, askVars, tpc, tt, worldVars>>

OwnerStep == \/ TerminateTreeReturns \/ TerminateTreeStep("owner") \/ CloseJob
             \/ Join \/ Release
Owner == \/ Start \/ StopProcess \/ TerminateTree \/ SendStdIn \/ SendDone
         \/ CloseStdIn \/ Close \/ OwnerStep

-----------------------------------------------------------------------------
(* A callback that was handed to the dispatcher runs.                      *)
Dispatch ==
  /\ seen < Len(sent)
  /\ seen' = seen + 1
  /\ DropRef
  /\ UNCHANGED <<ownerVars, writing, askVars, handleVars, jobVars, userVars, tpc,
                 suspended, loopVars, readVars, tt, sent, canceller, owed, worldVars>>

(* Slip: the cancel does not set the event.                                *)
CancelAllSilent ==
  /\ canceller = "idle"
  /\ ~freed
  /\ canceller' = "waiting"
  /\ needWait' = FALSE
  /\ UNCHANGED <<ownerVars, writing, needTermination, event, handleVars, jobVars,
                 userVars, refVars, tpc, suspended, loopVars, readVars, tt, sent, seen,
                 owed, worldVars>>

(* fg_ProcessLaunch_CancelAll: f_Cancel of every launch there is, and then *)
(* it waits until there is none.                                           *)
CancelAll ==
  /\ canceller = "idle"
  /\ ~freed
  /\ canceller' = "waiting"
  /\ needWait' = FALSE
  /\ event' = TRUE
  /\ UNCHANGED <<ownerVars, writing, needTermination, handleVars, jobVars, userVars,
                 refVars, tpc, suspended, loopVars, readVars, tt, sent, seen, owed,
                 worldVars>>

CancelDone ==
  /\ canceller = "waiting"
  /\ freed
  /\ canceller' = "done"
  /\ UNCHANGED <<ownerVars, writing, askVars, handleVars, jobVars, userVars, refVars,
                 tpc, suspended, loopVars, readVars, tt, sent, seen, owed, worldVars>>

(* The processes run once theirs is not suspended any more.  A process     *)
(* that has ended is forgotten when nobody has a handle of it.             *)
Forget ==
  /\ pstate[Child] = "zombie"
  /\ ~hasHandle
  /\ tpc \notin StartPC
  /\ pstate' = [pstate EXCEPT ![Child] = "gone"]
  /\ UNCHANGED <<parent, outside, doomed, asked, pipeVars, stdinBuf, stranger, struck>>

Environment ==
  /\ ~suspended
  /\ World(FALSE, opt.habits) \/ Forget
  /\ owed' = IF pstate[Child] = "alive" /\ pstate'[Child] = "zombie" THEN written ELSE owed
  /\ UNCHANGED <<ownerVars, writing, askVars, handleVars, jobVars, userVars, refVars,
                 tpc, suspended, loopVars, readVars, tt, sent, seen, canceller>>

Finished == freed /\ UNCHANGED vars

Next ==
  \/ (Owner \/ Thread \/ Dispatch \/ CancelAll \/ CancelDone \/ Environment) /\ UNCHANGED opt
  \/ Finished

(* The scheduler runs every thread that can run, and a process that has    *)
(* been terminated ends.  Nothing makes the owner call an operation, or a  *)
(* process exit by itself, read its input or heed CTRL_BREAK.              *)
Fairness ==
  /\ WF_vars(Thread /\ UNCHANGED opt)
  /\ WF_vars(OwnerStep /\ UNCHANGED opt)
  /\ WF_vars(Dispatch /\ UNCHANGED opt)
  /\ WF_vars(CancelDone /\ UNCHANGED opt)
  /\ WF_vars(Environment /\ (\E p \in doomed : Die(p)) /\ UNCHANGED opt)

Spec == Init /\ [][Next]_vars
FairSpec == Spec /\ Fairness

-----------------------------------------------------------------------------
(* Properties.                                                             *)

ThreadEnded == tpc \in {"return", "done"}
HasReported(kind) == \E i \in DOMAIN sent : sent[i] = kind

(* CreateProcess is called for these alone: a document and an elevated     *)
(* process are run as whoever Windows runs them and outside of a sandbox,  *)
(* whatever else is asked for.                                             *)
Creates == opt.target \in {"executable", "deelevated"}

(* The callbacks follow LaunchContract, as those of the POSIX launch do.   *)
ReportsOver == tpc \in {"close", "return", "done"}
Contract == INSTANCE LaunchContract WITH reports <- sent, over <- ReportsOver

FollowsContract == Contract!Spec

(* The exit is reported after everything that had been written when the    *)
(* process ended has been read and passed on, however the end of the       *)
(* process and the completion of the reads race (unless a read fails).     *)
ExitedAfterOwnOutput ==
  HasReported("Exited") /\ "read" \notin opt.faults
    => \A q \in OutputPipes : taken[q] >= owed[q]

(* A launch that is reported as failed leaves no process behind that runs  *)
(* or waits to be resumed, and nothing loaded for its user - except for an *)
(* elevated process whose pipes were not connected, which runs on.         *)
FailureLeavesNothing ==
  HasReported("LaunchFailed")
    => /\ opt.target # "elevated" => Active = {}
       /\ ~suspended /\ held = {} /\ ~leaked /\ rd = {} /\ ~stdinOpen

(* What was loaded for the user of a process is not given back while the   *)
(* process runs, and once the thread is over it has been given back or is  *)
(* known to stay.                                                          *)
ProfileOutlivesProcess ==
  opt.user /\ opt.target = "executable"
    => /\ Child \in Active => held # {} \/ leaked
       /\ ThreadEnded => held = {}

(* While the redirector has the process handle, mp_ProcessID is the ID of  *)
(* the process: a stop reaches nobody else.                                *)
StopReachesTheProcess ==
  hasHandle => hasID /\ ~stranger

(* Whether f_Close can end the process.  It cannot where the launch was to *)
(* be in a sandbox and is in none, and outside of a sandbox where the      *)
(* process is elevated or the launcher is denied to terminate it.          *)
CanTerminate == IF opt.sandboxed THEN Creates ELSE ~MayBeDenied

(* A close that terminates the launch and waits for the thread has done    *)
(* so, where it can; what is in a sandbox never outlives the thread; and a *)
(* close that terminates the tree of a launch that had been reported       *)
(* leaves nothing in its job, also when it does not wait and the process   *)
(* has exited long since (unless the job cannot be terminated).            *)
(* fs_CancelAllLaunches before the close takes the thread away.            *)
TerminationTakesEffect ==
  /\ (opc = "closed" /\ ThreadEnded /\ opt.threaded /\ "cancelled" \notin before
      /\ flags \cap {"TerminateProcess", "TerminateProcessTree"} # {}
      /\ HasReported("Launched") /\ CanTerminate)
       => Child \notin Active
  /\ opt.sandboxed /\ Creates /\ ThreadEnded => Active = {}
  /\ (opc = "closed" /\ "launched" \in before /\ "TerminateProcessTree" \in flags
      /\ "terminate" \notin opt.faults)
       => JobProcs \subseteq doomed

(* A launch that is closed with LingerUntilDone or BlockOnExit reports its *)
(* exit, unless fs_CancelAllLaunches has ended the wait or the stop that   *)
(* was asked for was not possible.                                         *)
WaitedForExitIsReported ==
  (opc = "closed" /\ ThreadEnded /\ opt.threaded /\ canceller = "idle"
   /\ flags \cap Waits # {} /\ HasReported("Launched")
   /\ ("StopProcess" \in flags => CanStop /\ "stop" \notin opt.faults))
    => HasReported("Exited")

(* Nobody but its users deletes the redirector, and the last one does.     *)
Count(condition) == IF condition THEN 1 ELSE 0
RefsCountUsers ==
  /\ refs = Count(opc # "closed")
            + Count(opt.threaded /\ tpc \notin {"none", "done"})
            + (Len(sent) - seen)
  /\ freed = (refs = 0)

LaunchIsSound ==
  /\ ExitedAfterOwnOutput
  /\ FailureLeavesNothing
  /\ ProfileOutlivesProcess
  /\ StopReachesTheProcess
  /\ TerminationTakesEffect
  /\ WaitedForExitIsReported
  /\ RefsCountUsers

(* A close that terminates returns - where it cannot end the process, as   *)
(* in TerminationTakesEffect, at least when it is not to wait for it, with *)
(* BlockOnExit; fs_CancelAllLaunches ends the wait of a launch that had    *)
(* been closed before, however long it runs; a tree termination returns    *)
(* also while a write to the standard input blocks with mp_PipeLock held;  *)
(* and an exit is reported.                                                *)
CallsReturn ==
  /\ (opc \in {"closeJob", "join"} /\ flags \cap {"TerminateProcess", "TerminateProcessTree"} # {}
      /\ (CanTerminate \/ "BlockOnExit" \notin flags))
       ~> (opc = "closed")
  /\ (canceller = "waiting" /\ opc = "closed" /\ "cancelled" \notin before) ~> (canceller = "done")
  /\ (opc = "terminating") ~> (opc # "terminating")
  /\ (tpc = "loop" /\ pstate[Child] = "zombie") ~> HasReported("Exited")
=============================================================================
