----------------------------- MODULE PosixLaunch -----------------------------
(***************************************************************************)
(* One launch of CPOSIXLaunchContext: the thread that starts the process,  *)
(* forwards its output, reaps it and reports how it ended; the owner of    *)
(* the CProcessLaunch that stops, terminates and closes it at any moment;  *)
(* and fs_CancelAllLaunches, which gives up waiting for every launch.      *)
(*                                                                         *)
(* An action is what the code does between two places where another of     *)
(* these can run: a critical section, a system call, or a callback.  The   *)
(* operating system is module LaunchedProcesses.                           *)
(***************************************************************************)
EXTENDS LaunchedProcesses, Sequences

CONSTANTS
  Options,      \* the launches to consider, see Option
  MaxReadErrors \* bound: errors reported when a read may still fail

Flag   == {"TerminateProcess", "TerminateProcessTree", "StopProcess",
           "LingerUntilDone", "BlockOnExit"}
Fault  == {"wakeup", "noid", "poll", "wait", "kill", "read"}
Op     == {"Stop", "StopGroup", "TerminateTree", "Stdin"}

(* The launch parameters that steer the control flow, the system calls     *)
(* that may fail, the EProcessLaunchCloseFlag sets that the owner closes   *)
(* with, its other operations, and what the processes may do.              *)
Option == [group : BOOLEAN, sandboxed : BOOLEAN, redirect : BOOLEAN,
           separate : BOOLEAN, dispatcher : BOOLEAN, threaded : BOOLEAN,
           faults : SUBSET Fault, closes : SUBSET SUBSET Flag, ops : SUBSET Op,
           habits : SUBSET Habit]

ASSUME OptionsAssumption == Options \subseteq Option

VARIABLES
  opt,             \* mp_LastLaunchOptions and more, see Option
  \* the owner
  opc, flags,      \* where it is, and the flags it starts or closes with
  lingering,       \* bNeedWait of f_Close
  \* the context
  needTermination, \* mp_NeedTermination
  needWait,        \* mp_bNeedWait
  closed,          \* mp_bClosed
  wakeup,          \* the wakeup pipe has something to read
  hasID,           \* mp_ProcessID is not -1
  reaped,          \* mp_bReaped
  rd,              \* the output pipes whose read end is open
  stdinOpen,       \* mp_StdinWrite is not -1
  refs, freed,     \* m_RefCount, and the context has been deleted
  \* the launch thread
  tpc,             \* where it is
  woken,           \* revents of the wakeup pipe
  exited,          \* bExited
  term, wait,      \* NeedTermination and bNeedWait of f_Main
  eof,             \* the pipes whose end fp_RedirectOutput(true) has seen
  taken,           \* chunks read from each output pipe
  \* f_TerminateTree as called by the owner and by the thread
  tt,
  \* callbacks
  sent, seen,      \* the callbacks issued, and how many of them have run
  canceller        \* fg_ProcessLaunch_CancelAll

ownerVars   == <<opc, flags, lingering>>
askVars     == <<needTermination, needWait, closed>>
refVars     == <<refs, freed>>
threadVars  == <<woken, exited, term, wait>>
readVars    == <<rd, eof, taken>>
reportVars  == <<sent, seen, refs, freed>>
ctxVars     == <<hasID, reaped, stdinOpen>>
vars == <<opt, ownerVars, askVars, wakeup, ctxVars, refVars, tpc, threadVars,
          readVars, tt, sent, seen, canceller, worldVars>>

Actor == {"owner", "thread"}
OutputKind == {"StdOut", "StdErr", "GeneralError", "TerminateMessage"}
Kind  == OutputKind \cup {"Launched", "LaunchFailed", "Exited"}

OwnerPC  == {"new", "inline", "idle", "send", "terminating", "checkReaped",
             "closeTree", "join", "release", "closed", "leaked"}
ThreadPC == {"none", "start", "launched", "failed", "poll", "readOut",
             "readErr", "wait", "reap", "wakeup", "flags", "act", "actTree",
             "lastOut", "lastErr", "leave", "drain", "drainFlag", "drainTree",
             "drainOut", "drainErr", "exit", "close", "return", "done"}

TypeOK ==
  /\ WorldTypeOK
  /\ opt \in Option
  /\ opc \in OwnerPC
  /\ flags \in SUBSET Flag
  /\ lingering \in BOOLEAN
  /\ needTermination \in SUBSET Flag
  /\ needWait \in BOOLEAN
  /\ closed \in BOOLEAN
  /\ wakeup \in BOOLEAN
  /\ hasID \in BOOLEAN
  /\ reaped \in BOOLEAN
  /\ rd \in SUBSET Pipe
  /\ stdinOpen \in BOOLEAN
  /\ refs \in Nat
  /\ freed \in BOOLEAN
  /\ tpc \in ThreadPC
  /\ woken \in BOOLEAN
  /\ exited \in BOOLEAN
  /\ term \in SUBSET Flag
  /\ wait \in BOOLEAN
  /\ eof \in SUBSET Pipe
  /\ taken \in [Pipe -> Nat]
  /\ tt \in [Actor -> [at : {"off", "load", "kill", "probe", "group"},
                       reaped : BOOLEAN, ok : BOOLEAN, err : BOOLEAN]]
  /\ sent \in Seq(Kind)
  /\ seen \in Nat
  /\ canceller \in {"idle", "waiting", "done"}

Init ==
  /\ WorldInit
  /\ opt \in Options
  /\ opc = "new"
  /\ flags = {}
  /\ lingering = FALSE
  /\ needTermination = {}
  /\ needWait = FALSE
  /\ closed = FALSE
  /\ wakeup = FALSE
  /\ hasID = FALSE
  /\ reaped = FALSE
  /\ rd = {}
  /\ stdinOpen = FALSE
  /\ refs = 1
  /\ freed = FALSE
  /\ tpc = "none"
  /\ woken = FALSE
  /\ exited = FALSE
  /\ term = {}
  /\ wait = FALSE
  /\ eof = {}
  /\ taken = [q \in Pipe |-> 0]
  /\ tt = [a \in Actor |-> [at |-> "off", reaped |-> FALSE, ok |-> FALSE, err |-> FALSE]]
  /\ sent = <<>>
  /\ seen = 0
  /\ canceller = "idle"

-----------------------------------------------------------------------------
(* Shared pieces of the actions.                                           *)

Terminations == {"TerminateProcess", "TerminateProcessTree", "StopProcess"}
Waits        == {"LingerUntilDone", "BlockOnExit"}

(* The last reference deletes the context.                                 *)
DropRef ==
  /\ refs' = refs - 1
  /\ freed' = (refs = 1)

(* Slip: the callback handed to the dispatcher holds no reference.         *)
ReportUncounted(kind) ==
  /\ sent' = Append(sent, kind)
  /\ IF opt.dispatcher THEN UNCHANGED seen ELSE seen' = seen + 1
  /\ UNCHANGED refVars

(* A callback runs on the launch thread, or is handed to the dispatcher    *)
(* with a reference to the context.                                        *)
Report(kind) ==
  /\ sent' = Append(sent, kind)
  /\ IF opt.dispatcher
       THEN refs' = refs + 1 /\ UNCHANGED seen
       ELSE seen' = seen + 1 /\ UNCHANGED refs
  /\ UNCHANGED freed

ReportIf(condition, kind) ==
  IF condition THEN Report(kind) ELSE UNCHANGED reportVars

(* Slip: only BlockOnExit counts as waiting.                               *)
RequestCloseForgetsLinger(f) ==
  /\ needTermination' = f \cap Terminations
  /\ needWait' = (needWait \/ "BlockOnExit" \in f)
  /\ closed' = TRUE

(* What f_Start of an unthreaded launch, and f_Close, set under            *)
(* mp_NeedTerminationLock before they wake the launch thread up.           *)
RequestClose(f) ==
  /\ needTermination' = f \cap Terminations
  /\ needWait' = (needWait \/ f \cap Waits # {})
  /\ closed' = TRUE

SigKill(ps) == doomed' = doomed \cup (ps \cap Alive)
SigTerm(ps) == asked' = asked \cup (ps \cap Alive)

CallTerminateTree(a) ==
  tt' = [tt EXCEPT ![a] = [at |-> "load", reaped |-> FALSE, ok |-> FALSE, err |-> FALSE]]

-----------------------------------------------------------------------------
(* f_TerminateTree.  It is called by the launch thread and by the owner,   *)
(* takes no lock, and reads mp_bReaped before it looks for the process.    *)

TreeLoad(a) ==
  /\ tt[a].at = "load"
  /\ tt' = [tt EXCEPT ![a] = IF hasID THEN [@ EXCEPT !.at = "kill", !.reaped = reaped]
                                      ELSE [@ EXCEPT !.at = "off", !.err = TRUE]]
  /\ UNCHANGED <<ownerVars, askVars, wakeup, ctxVars, refVars, tpc, threadVars,
                 readVars, sent, seen, canceller, worldVars>>

(* Slip: the process group is terminated only after the reap.              *)
TreeKillForgetsGroup(a) ==
  /\ tt[a].at = "kill"
  /\ IF tt[a].reaped THEN UNCHANGED doomed ELSE SigKill({Child} \cup Tree)
  /\ tt' = [tt EXCEPT ![a].at = IF tt[a].reaped THEN "probe" ELSE "off", ![a].ok = TRUE]
  /\ UNCHANGED <<ownerVars, askVars, wakeup, ctxVars, refVars, tpc, threadVars,
                 readVars, sent, seen, canceller, struck,
                 pstate, parent, outside, asked, pipeVars, stdinBuf, stranger>>

(* fg_TerminateProcessTree finds the process ID in the process list and    *)
(* kills what it finds from there.  It fails when no process has the ID.   *)
TreeKill(a) ==
  /\ tt[a].at = "kill"
  /\ LET own   == pstate[Child] \in {"alive", "zombie"}
         found == own \/ stranger
         next  == IF ~opt.group THEN "off" ELSE IF tt[a].reaped THEN "probe" ELSE "group"
     IN IF tt[a].reaped
          THEN /\ tt' = [tt EXCEPT ![a].at = next, ![a].ok = TRUE]
               /\ UNCHANGED <<doomed, struck>>
          ELSE /\ struck' = IF stranger THEN struck \cup {Stranger} ELSE struck
               /\ \/ /\ IF own THEN SigKill({Child} \cup Tree) ELSE UNCHANGED doomed
                     /\ tt' = [tt EXCEPT ![a].at = next, ![a].ok = found, ![a].err = ~found]
                  \/ /\ "kill" \in opt.faults
                     /\ UNCHANGED doomed
                     /\ tt' = [tt EXCEPT ![a].at = next, ![a].ok = found, ![a].err = TRUE]
  /\ UNCHANGED <<ownerVars, askVars, wakeup, ctxVars, refVars, tpc, threadVars,
                 readVars, sent, seen, canceller,
                 pstate, parent, outside, asked, pipeVars, stdinBuf, stranger>>

(* A process with the ID of a reaped process means that the group is gone. *)
TreeProbe(a) ==
  /\ tt[a].at = "probe"
  /\ tt' = [tt EXCEPT ![a].at = IF stranger THEN "off" ELSE "group"]
  /\ UNCHANGED <<ownerVars, askVars, wakeup, ctxVars, refVars, tpc, threadVars,
                 readVars, sent, seen, canceller, worldVars>>

TreeGroup(a) ==
  /\ tt[a].at = "group"
  /\ \/ /\ Group # {} \/ stranger
        /\ SigKill(Group)
        /\ struck' = IF stranger THEN struck \cup {Stranger} ELSE struck
        /\ tt' = [tt EXCEPT ![a].at = "off", ![a].ok = TRUE]
     \/ /\ Group = {} /\ ~stranger
        /\ tt' = [tt EXCEPT ![a].at = "off"]
        /\ UNCHANGED <<doomed, struck>>
     \/ /\ "kill" \in opt.faults
        /\ tt' = [tt EXCEPT ![a].at = "off", ![a].err = TRUE]
        /\ UNCHANGED <<doomed, struck>>
  /\ UNCHANGED <<ownerVars, askVars, wakeup, ctxVars, refVars, tpc, threadVars,
                 readVars, sent, seen, canceller,
                 pstate, parent, outside, asked, pipeVars, stdinBuf, stranger>>

TerminateTreeStep(a) == TreeLoad(a) \/ TreeKill(a) \/ TreeProbe(a) \/ TreeGroup(a)

-----------------------------------------------------------------------------
(* The launch thread: f_Main.                                              *)

(* What the thread's own steps leave alone.                                *)
ThreadFrame == UNCHANGED <<ownerVars, askVars, canceller>>

OutputPipes == IF opt.redirect /\ opt.separate THEN Pipe ELSE {"stdout"}

(* fp_DoStart: the pipes are made and the process is started.              *)
StartChild ==
  /\ tpc = "start"
  /\ pstate' = [pstate EXCEPT ![Child] = "alive"]
  /\ writers' = [q \in Pipe |-> IF q \in OutputPipes THEN {Child} ELSE {}]
  /\ rd' = OutputPipes
  /\ stdinOpen' = opt.redirect
  /\ hasID' = TRUE
  /\ tpc' = "launched"
  /\ ThreadFrame
  /\ UNCHANGED <<wakeup, reaped, threadVars, eof, taken, tt, reportVars, parent,
                 outside, doomed, asked, written, stdinBuf, stranger, struck>>

(* A launch that works without telling the process ID, or does not work.   *)
StartOther ==
  /\ tpc = "start"
  /\ \/ "noid" \in opt.faults /\ tpc' = "launched"
     \/ tpc' = "failed"
  /\ ThreadFrame
  /\ UNCHANGED <<wakeup, ctxVars, threadVars, readVars, tt, reportVars, worldVars>>

OnLaunched ==
  /\ tpc = "launched"
  /\ Report("Launched")
  /\ exited' = ~hasID
  /\ tpc' = IF hasID THEN "poll" ELSE "drain"
  /\ ThreadFrame
  /\ UNCHANGED <<wakeup, ctxVars, woken, term, wait, readVars, tt, worldVars>>

(* Slip: f_Main does not return when the launch has failed.                *)
OnLaunchFailedGoesOn ==
  /\ tpc = "failed"
  /\ Report("LaunchFailed")
  /\ tpc' = "exit"
  /\ ThreadFrame
  /\ UNCHANGED <<wakeup, ctxVars, threadVars, readVars, tt, worldVars>>

OnLaunchFailed ==
  /\ tpc = "failed"
  /\ Report("LaunchFailed")
  /\ tpc' = "return"
  /\ ThreadFrame
  /\ UNCHANGED <<wakeup, ctxVars, threadVars, readVars, tt, worldVars>>

(* Slip: the end of a pipe does not wake the thread.                       *)
ReadableData(q) == q \in rd /\ written[q] > taken[q]

(* poll waits for the wakeup pipe and the open output pipes, and only for  *)
(* a millisecond when no output pipe is open.                              *)
Readable(q) == q \in rd /\ (written[q] > taken[q] \/ AtEOF(q))

Poll ==
  /\ tpc = "poll"
  /\ rd = {} \/ wakeup \/ \E q \in Pipe : Readable(q)
  /\ woken' = wakeup
  /\ tpc' = "readOut"
  /\ ThreadFrame
  /\ UNCHANGED <<wakeup, ctxVars, exited, term, wait, readVars, tt, reportVars, worldVars>>

(* A failing poll or wait4 ends the loop as if the process had exited.     *)
LoopFails ==
  /\ \/ tpc = "poll" /\ "poll" \in opt.faults
     \/ tpc = "wait" /\ "wait" \in opt.faults
  /\ Report("GeneralError")
  /\ exited' = TRUE
  /\ tpc' = "drain"
  /\ ThreadFrame
  /\ UNCHANGED <<wakeup, ctxVars, woken, term, wait, readVars, tt, worldVars>>

(* fp_RedirectOutput(false) reads what there is and closes a pipe at its   *)
(* end: in the loop, and once more when the thread leaves without waiting. *)
KindOf(q) == IF q = "stdout" THEN "StdOut" ELSE "StdErr"

TakeChunk(q) ==
  /\ q \in rd
  /\ written[q] > taken[q]
  /\ taken' = [taken EXCEPT ![q] = @ + 1]
  /\ ReportIf(opt.redirect, KindOf(q))
  /\ UNCHANGED <<rd, tpc>>

Redirect(q, here, next) ==
  /\ tpc = here
  /\ \/ TakeChunk(q)
     \/ /\ q \notin rd \/ written[q] = taken[q]
        /\ rd' = IF Readable(q) THEN rd \ {q} ELSE rd
        /\ tpc' = next
        /\ UNCHANGED <<taken, reportVars>>
  /\ ThreadFrame
  /\ UNCHANGED <<wakeup, ctxVars, threadVars, eof, tt, worldVars>>

RedirectOutput ==
  \/ Redirect("stdout", "readOut", "readErr")
  \/ Redirect("stderr", "readErr", "wait")
  \/ Redirect("stdout", "lastOut", "lastErr")
  \/ Redirect("stderr", "lastErr", "leave")

(* wait4 with WNOHANG.                                                     *)
WaitChild ==
  /\ tpc = "wait"
  /\ IF pstate[Child] = "zombie"
       THEN pstate' = [pstate EXCEPT ![Child] = "gone"] /\ tpc' = "reap"
       ELSE UNCHANGED pstate /\ tpc' = IF woken THEN "wakeup" ELSE "poll"
  /\ ThreadFrame
  /\ UNCHANGED <<wakeup, ctxVars, threadVars, readVars, tt, reportVars, parent,
                 outside, doomed, asked, pipeVars, stdinBuf, stranger, struck>>

(* The process is noted as reaped; one that a signal ended is reported so. *)
MarkReaped ==
  /\ tpc = "reap"
  /\ reaped' = TRUE
  /\ exited' = TRUE
  /\ \E signalled \in BOOLEAN : ReportIf(signalled, "GeneralError")
  /\ tpc' = "drain"
  /\ ThreadFrame
  /\ UNCHANGED <<wakeup, hasID, stdinOpen, woken, term, wait, readVars, tt, worldVars>>

DrainWakeup ==
  /\ tpc = "wakeup"
  /\ wakeup' = FALSE
  /\ tpc' = "flags"
  /\ ThreadFrame
  /\ UNCHANGED <<ctxVars, threadVars, readVars, tt, reportVars, worldVars>>

ReadFlags ==
  /\ tpc = "flags"
  /\ term' = needTermination
  /\ wait' = needWait
  /\ tpc' = IF closed THEN "act" ELSE "poll"
  /\ ThreadFrame
  /\ UNCHANGED <<wakeup, ctxVars, woken, exited, readVars, tt, reportVars, worldVars>>

(* The loop goes on only for an owner that waits for the process.          *)
Proceed(waits) == tpc' = IF waits THEN "poll" ELSE "lastOut"

WantsTree == "TerminateProcessTree" \in term \/ ("TerminateProcess" \in term /\ opt.sandboxed)

ActTree ==
  /\ tpc = "act"
  /\ WantsTree
  /\ CallTerminateTree("thread")
  /\ tpc' = "actTree"
  /\ ThreadFrame
  /\ UNCHANGED <<wakeup, ctxVars, threadVars, readVars, reportVars, worldVars>>

ActTreeDone ==
  /\ tpc = "actTree"
  /\ tt["thread"].at = "off"
  /\ wait' = (wait /\ tt["thread"].ok)
  /\ ReportIf(tt["thread"].err, "TerminateMessage")
  /\ Proceed(wait')
  /\ ThreadFrame
  /\ UNCHANGED <<wakeup, ctxVars, woken, exited, term, readVars, tt, worldVars>>

(* kill, with SIGKILL or SIGTERM: a failure is reported, and the thread    *)
(* stops waiting for the process.                                          *)
ActSignal ==
  /\ tpc = "act"
  /\ ~WantsTree
  /\ term \cap {"TerminateProcess", "StopProcess"} # {}
  /\ \/ /\ IF "TerminateProcess" \in term
             THEN SigKill({Child}) /\ UNCHANGED asked
             ELSE SigTerm({Child}) /\ UNCHANGED doomed
        /\ Proceed(wait)
        /\ UNCHANGED <<wait, reportVars>>
     \/ /\ "kill" \in opt.faults
        /\ Report("TerminateMessage")
        /\ wait' = FALSE
        /\ Proceed(FALSE)
        /\ UNCHANGED <<asked, doomed>>
  /\ ThreadFrame
  /\ UNCHANGED <<wakeup, ctxVars, woken, exited, term, readVars, tt, pstate,
                 parent, outside, pipeVars, stdinBuf, stranger, struck>>

ActNothing ==
  /\ tpc = "act"
  /\ term = {}
  /\ Proceed(wait)
  /\ ThreadFrame
  /\ UNCHANGED <<wakeup, ctxVars, threadVars, readVars, tt, reportVars, worldVars>>

(* Slip: what is left in the pipes is not read after the exit.             *)
DrainNothing ==
  /\ tpc = "drain"
  /\ eof' = Pipe \ rd
  /\ tpc' = "exit"
  /\ ThreadFrame
  /\ UNCHANGED <<wakeup, ctxVars, threadVars, rd, taken, tt, reportVars, worldVars>>

(* fp_RedirectOutput(bExited), for a process that has exited: each round   *)
(* looks for a tree termination before it reads, until every pipe ended.   *)
Drain ==
  /\ tpc = "drain"
  /\ eof' = Pipe \ rd
  /\ tpc' = IF rd = {} THEN "exit" ELSE "drainFlag"
  /\ ThreadFrame
  /\ UNCHANGED <<wakeup, ctxVars, threadVars, rd, taken, tt, reportVars, worldVars>>

DrainFails ==
  /\ tpc = "drainFlag"
  /\ "poll" \in opt.faults
  /\ Report("GeneralError")
  /\ tpc' = "exit"
  /\ ThreadFrame
  /\ UNCHANGED <<wakeup, ctxVars, threadVars, readVars, tt, worldVars>>

(* Slip: a tree termination is not looked for while output is drained.     *)
DrainFlagIgnored ==
  /\ tpc = "drainFlag"
  /\ tpc' = "drainOut"
  /\ ThreadFrame
  /\ UNCHANGED <<wakeup, ctxVars, threadVars, readVars, tt, reportVars, worldVars>>

DrainFlag ==
  /\ tpc = "drainFlag"
  /\ IF "TerminateProcessTree" \in needTermination
       THEN CallTerminateTree("thread") /\ tpc' = "drainTree"
       ELSE tpc' = "drainOut" /\ UNCHANGED tt
  /\ needTermination' = needTermination \ {"TerminateProcessTree"}
  /\ UNCHANGED <<ownerVars, needWait, closed, canceller, wakeup, ctxVars,
                 threadVars, readVars, reportVars, worldVars>>

DrainTreeDone ==
  /\ tpc = "drainTree"
  /\ tt["thread"].at = "off"
  /\ ReportIf(~tt["thread"].ok, "TerminateMessage")
  /\ tpc' = "drainOut"
  /\ ThreadFrame
  /\ UNCHANGED <<wakeup, ctxVars, threadVars, readVars, tt, worldVars>>

DrainPipe(q, here) ==
  /\ tpc = here
  /\ \/ TakeChunk(q) /\ q \notin eof /\ UNCHANGED eof
     \/ /\ q \in eof \/ written[q] = taken[q]
        /\ eof' = IF AtEOF(q) THEN eof \cup {q} ELSE eof
        /\ tpc' = CASE q = "stdout" -> "drainErr"
                   [] q = "stderr" /\ eof' = Pipe -> "exit"
                   [] OTHER -> "drainFlag"
        /\ UNCHANGED <<rd, taken, reportVars>>
  /\ ThreadFrame
  /\ UNCHANGED <<wakeup, ctxVars, threadVars, tt, worldVars>>

DrainOutput == DrainPipe("stdout", "drainOut") \/ DrainPipe("stderr", "drainErr")

(* A failing read is reported.  It is not the end of the pipe: the pipe is *)
(* read again in the next round, and the bound counts the errors so far.   *)
AfterRead == [readOut |-> "readErr", readErr |-> "wait", lastOut |-> "lastErr",
              lastErr |-> "leave", drainOut |-> "drainErr", drainErr |-> "drainFlag"]

ReadFails ==
  /\ tpc \in DOMAIN AfterRead
  /\ "read" \in opt.faults
  /\ IF tpc \in {"readOut", "lastOut", "drainOut"} THEN "stdout" \in rd \ eof
                                                 ELSE "stderr" \in rd \ eof
  /\ Cardinality({i \in DOMAIN sent : sent[i] = "GeneralError"}) < MaxReadErrors
  /\ Report("GeneralError")
  /\ tpc' = AfterRead[tpc]
  /\ ThreadFrame
  /\ UNCHANGED <<wakeup, ctxVars, threadVars, readVars, tt, worldVars>>

OnExit ==
  /\ tpc = "exit"
  /\ Report("Exited")
  /\ tpc' = "close"
  /\ ThreadFrame
  /\ UNCHANGED <<wakeup, ctxVars, threadVars, readVars, tt, worldVars>>

(* fp_Close waits for mp_PipeLock, which a blocked stdin write holds.      *)
ClosePipes ==
  /\ tpc \in {"leave", "close"}
  /\ opc # "send"
  /\ rd' = {}
  /\ stdinOpen' = FALSE
  /\ tpc' = "return"
  /\ ThreadFrame
  /\ UNCHANGED <<wakeup, hasID, reaped, threadVars, eof, taken, tt, reportVars, worldVars>>

(* Slip: an unthreaded launch gives back a reference it has not taken.     *)
ReturnUntaken ==
  /\ tpc = "return"
  /\ DropRef
  /\ tpc' = "done"
  /\ ThreadFrame
  /\ UNCHANGED <<wakeup, ctxVars, threadVars, readVars, tt, sent, seen, worldVars>>

(* f_DestroyThread gives back the reference of the thread.                 *)
Return ==
  /\ tpc = "return"
  /\ IF opt.threaded THEN DropRef ELSE UNCHANGED refVars
  /\ tpc' = "done"
  /\ ThreadFrame
  /\ UNCHANGED <<wakeup, ctxVars, threadVars, readVars, tt, sent, seen, worldVars>>

Thread ==
  \/ StartChild \/ StartOther \/ OnLaunched \/ OnLaunchFailed
  \/ Poll \/ LoopFails \/ RedirectOutput \/ WaitChild \/ MarkReaped
  \/ DrainWakeup \/ ReadFlags \/ ActTree \/ ActTreeDone \/ ActSignal \/ ActNothing
  \/ Drain \/ DrainFails \/ DrainFlag \/ DrainTreeDone \/ DrainOutput \/ ReadFails
  \/ OnExit \/ ClosePipes \/ Return
  \/ TerminateTreeStep("thread")

-----------------------------------------------------------------------------
(* The owner of the CProcessLaunch.                                        *)

OwnerFrame == UNCHANGED <<threadVars, readVars, canceller>>

(* f_Start.  An unthreaded launch is told to close before it runs f_Main   *)
(* on the thread of its owner.                                             *)
Start(f) ==
  /\ opc = "new"
  /\ tpc' = "start"
  /\ IF opt.threaded
       THEN /\ opc' = "idle"
            /\ refs' = refs + 1
            /\ UNCHANGED <<flags, askVars, wakeup>>
       ELSE /\ opc' = "inline"
            /\ flags' = f
            /\ RequestClose(f)
            /\ wakeup' = TRUE
            /\ UNCHANGED refs
  /\ OwnerFrame
  /\ UNCHANGED <<lingering, ctxVars, freed, tt, sent, seen, worldVars>>

(* The wakeup pipe cannot be made and f_Start throws: for a threaded       *)
(* launch out of the constructor of CProcessLaunch, whose destructor does  *)
(* not run then.                                                           *)
StartThrows ==
  /\ opc = "new"
  /\ "wakeup" \in opt.faults
  /\ opc' = IF opt.threaded THEN "leaked" ELSE "idle"
  /\ OwnerFrame
  /\ UNCHANGED <<flags, lingering, askVars, wakeup, ctxVars, refVars, tpc, tt,
                 sent, seen, worldVars>>

InlineDone ==
  /\ opc = "inline"
  /\ tpc = "done"
  /\ opc' = "idle"
  /\ OwnerFrame
  /\ UNCHANGED <<flags, lingering, askVars, wakeup, ctxVars, refVars, tpc, tt,
                 sent, seen, worldVars>>

(* f_Close.  A threaded launch is started by the constructor, so only an   *)
(* unthreaded one can be closed before it is started.                      *)
Close(f) ==
  /\ opc = "idle" \/ (opc = "new" /\ ~opt.threaded)
  /\ flags' = f
  /\ RequestClose(f)
  /\ lingering' = needWait'
  /\ wakeup' = (wakeup \/ tpc # "none")
  /\ opc' = "checkReaped"
  /\ OwnerFrame
  /\ UNCHANGED <<ctxVars, refVars, tpc, tt, sent, seen, worldVars>>

(* After the lock is released: the launch thread may be done with the      *)
(* process already, and then the owner terminates the tree itself.         *)
CheckReaped ==
  /\ opc = "checkReaped"
  /\ IF "TerminateProcessTree" \in flags /\ reaped
       THEN CallTerminateTree("owner") /\ opc' = "closeTree"
       ELSE opc' = "join" /\ UNCHANGED tt
  /\ OwnerFrame
  /\ UNCHANGED <<flags, lingering, askVars, wakeup, ctxVars, refVars, tpc, sent,
                 seen, worldVars>>

TreeDone ==
  /\ tt["owner"].at = "off"
  /\ \/ opc = "closeTree" /\ opc' = "join"
     \/ opc = "terminating" /\ opc' = "idle"
  /\ OwnerFrame
  /\ UNCHANGED <<flags, lingering, askVars, wakeup, ctxVars, refVars, tpc, tt,
                 sent, seen, worldVars>>

(* f_Stop(true) waits for the end of the thread.                           *)
Joins(f, lingers) == "BlockOnExit" \in f \/ ~lingers

(* Slip: only a blocking close waits for the launch thread.                *)
JoinBlockingOnly ==
  /\ opc = "join"
  /\ "BlockOnExit" \in flags => tpc \in {"none", "return", "done"}
  /\ opc' = "release"
  /\ OwnerFrame
  /\ UNCHANGED <<flags, lingering, askVars, wakeup, ctxVars, refVars, tpc, tt,
                 sent, seen, worldVars>>

Join ==
  /\ opc = "join"
  /\ Joins(flags, lingering) => tpc \in {"none", "return", "done"}
  /\ opc' = "release"
  /\ OwnerFrame
  /\ UNCHANGED <<flags, lingering, askVars, wakeup, ctxVars, refVars, tpc, tt,
                 sent, seen, worldVars>>

Release ==
  /\ opc = "release"
  /\ DropRef
  /\ opc' = "closed"
  /\ OwnerFrame
  /\ UNCHANGED <<flags, lingering, askVars, wakeup, ctxVars, tpc, tt, sent, seen,
                 worldVars>>

(* fg_ProcessLaunch_Stop and _StopGroup signal the process ID as it is:    *)
(* -1 before the process has one, and kill(-1) signals every process; the  *)
(* ID of a reaped process can be that of another one.                      *)
StopProcess(op) ==
  /\ opc = "idle"
  /\ op \in opt.ops
  /\ LET targets == IF op = "Stop" THEN {Child} \cap Group ELSE IF opt.group THEN Group ELSE {}
     IN /\ SigTerm(IF hasID THEN targets ELSE {})
        /\ struck' = CASE ~hasID -> struck \cup {IF op = "Stop" THEN Everyone ELSE Stranger}
                       [] hasID /\ stranger -> struck \cup {Stranger}
                       [] OTHER -> struck
  /\ OwnerFrame
  /\ UNCHANGED <<ownerVars, askVars, wakeup, ctxVars, refVars, tpc, tt, sent, seen,
                 pstate, parent, outside, doomed, pipeVars, stdinBuf, stranger>>

TerminateTree ==
  /\ opc = "idle"
  /\ "TerminateTree" \in opt.ops
  /\ CallTerminateTree("owner")
  /\ opc' = "terminating"
  /\ OwnerFrame
  /\ UNCHANGED <<flags, lingering, askVars, wakeup, ctxVars, refVars, tpc, sent,
                 seen, worldVars>>

(* f_SendText and f_SendBinary write under mp_PipeLock, and block there    *)
(* while the pipe is full and some process can still read it.              *)
SendStdIn ==
  /\ opc = "idle"
  /\ "Stdin" \in opt.ops
  /\ stdinOpen
  /\ opc' = "send"
  /\ OwnerFrame
  /\ UNCHANGED <<flags, lingering, askVars, wakeup, ctxVars, refVars, tpc, tt,
                 sent, seen, worldVars>>

SendDone ==
  /\ opc = "send"
  /\ \/ stdinBuf < StdinCap /\ stdinBuf' = stdinBuf + 1
     \/ Alive = {} /\ UNCHANGED stdinBuf
  /\ opc' = "idle"
  /\ OwnerFrame
  /\ UNCHANGED <<flags, lingering, askVars, wakeup, ctxVars, refVars, tpc, tt,
                 sent, seen, procVars, pipeVars>>

CloseStdIn ==
  /\ opc = "idle"
  /\ "Stdin" \in opt.ops
  /\ stdinOpen
  /\ stdinOpen' = FALSE
  /\ OwnerFrame
  /\ UNCHANGED <<ownerVars, askVars, wakeup, hasID, reaped, refVars, tpc, tt, sent,
                 seen, worldVars>>

(* What the owner does on its own once it has called f_Start or f_Close.   *)
OwnerStep ==
  \/ InlineDone \/ CheckReaped \/ TreeDone \/ Join \/ Release \/ SendDone
  \/ TerminateTreeStep("owner")

Owner ==
  \/ \E f \in opt.closes : Start(f) \/ Close(f)
  \/ StartThrows
  \/ \E op \in {"Stop", "StopGroup"} : StopProcess(op)
  \/ TerminateTree \/ SendStdIn \/ CloseStdIn
  \/ OwnerStep

-----------------------------------------------------------------------------
(* The dispatcher runs the callbacks in the order it was given them, and   *)
(* lets go of the reference each one holds.                                *)
Dispatch ==
  /\ seen < Len(sent)
  /\ seen' = seen + 1
  /\ DropRef
  /\ UNCHANGED <<ownerVars, askVars, wakeup, ctxVars, tpc, threadVars, readVars, tt,
                 sent, canceller, worldVars>>

(* Slip: a cancel that does not wake the launch thread.                    *)
CancelAllSilent ==
  /\ canceller = "idle"
  /\ ~freed
  /\ canceller' = "waiting"
  /\ needWait' = FALSE
  /\ UNCHANGED <<ownerVars, needTermination, closed, wakeup, ctxVars, refVars, tpc,
                 threadVars, readVars, tt, sent, seen, worldVars>>

(* fg_ProcessLaunch_CancelAll: under m_LaunchesLock it tells every launch  *)
(* there is to stop waiting, and then it waits until there is no launch.   *)
CancelAll ==
  /\ canceller = "idle"
  /\ ~freed
  /\ canceller' = "waiting"
  /\ needWait' = FALSE
  /\ wakeup' = (wakeup \/ tpc # "none")
  /\ UNCHANGED <<ownerVars, needTermination, closed, ctxVars, refVars, tpc,
                 threadVars, readVars, tt, sent, seen, worldVars>>

CancelDone ==
  /\ canceller = "waiting"
  /\ freed
  /\ canceller' = "done"
  /\ UNCHANGED <<ownerVars, askVars, wakeup, ctxVars, refVars, tpc, threadVars,
                 readVars, tt, sent, seen, worldVars>>

Environment ==
  /\ World(opt.group, opt.habits)
  /\ UNCHANGED <<ownerVars, askVars, wakeup, ctxVars, refVars, tpc, threadVars,
                 readVars, tt, sent, seen, canceller>>

(* The launch is over, or the constructor has thrown.                      *)
Finished ==
  /\ freed \/ opc = "leaked"
  /\ UNCHANGED vars

Next ==
  \/ (Owner \/ Thread \/ Dispatch \/ CancelAll \/ CancelDone \/ Environment) /\ UNCHANGED opt
  \/ Finished

(* The scheduler runs every thread that can run, and a process that has    *)
(* been sent SIGKILL ends.  Nothing makes the owner call an operation, a   *)
(* process exit by itself, read its input or heed SIGTERM.                 *)
KilledDies == \E p \in doomed : Die(p)

Fairness ==
  /\ WF_vars(Thread /\ UNCHANGED opt)
  /\ WF_vars(OwnerStep /\ UNCHANGED opt)
  /\ WF_vars(Dispatch /\ UNCHANGED opt)
  /\ WF_vars(CancelDone /\ UNCHANGED opt)
  /\ WF_vars(Environment /\ KilledDies /\ UNCHANGED opt)

Spec == Init /\ [][Next]_vars
FairSpec == Spec /\ Fairness

-----------------------------------------------------------------------------
(* Properties.                                                             *)

ThreadEnded == tpc \in {"return", "done"}
HasLaunched == sent # <<>> /\ sent[1] = "Launched"
HasExited   == sent # <<>> /\ sent[Len(sent)] = "Exited"

Count(condition) == IF condition THEN 1 ELSE 0

(* The callbacks follow LaunchContract: one report of how the launch went, *)
(* then output, then at most one report of the exit, and nothing after it, *)
(* whatever stops, closes and cancels come between them.                   *)
ReportsOver == tpc \in {"close", "return", "done"}
Contract == INSTANCE LaunchContract WITH reports <- sent, over <- ReportsOver

FollowsContract == Contract!Spec

(* The exit is reported after all output: when f_Main calls fp_OnExit,     *)
(* every chunk written to the pipes has been read and passed on, and no    *)
(* process is left that could write another one (unless a call fails).     *)
ExitedAfterAllOutput ==
  HasExited /\ opt.faults = {} => \A q \in OutputPipes : taken[q] = written[q] /\ AtEOF(q)

(* The reference count is the number of those that still use the context:  *)
(* the owner's handle, the launch thread, the callbacks that have not run. *)
(* So the context is deleted once, by the last of them, and none uses it   *)
(* afterwards.                                                             *)
RefsCountUsers ==
  /\ refs = Count(opc # "closed")
            + Count(opt.threaded /\ tpc \notin {"none", "done"})
            + (Len(sent) - seen)
  /\ freed = (refs = 0)

(* Once a close that joins the launch thread has returned, f_Main issues   *)
(* no more callbacks: the owner can destroy what they refer to.            *)
QuietAfterJoin ==
  [][opc = "closed" /\ Joins(flags, lingering) => sent' = sent]_vars

(* A launch that is closed with LingerUntilDone or BlockOnExit reports its *)
(* exit, unless fs_CancelAllLaunches has ended the wait or the signal it   *)
(* asked for could not be sent.                                            *)
WaitedForExitIsReported ==
  opt.threaded /\ "kill" \notin opt.faults /\ ThreadEnded /\ HasLaunched /\ ~HasExited
    => flags \cap Waits = {} \/ canceller # "idle"

(* A close that terminates or stops the process has done so when the       *)
(* launch thread is over: the process has ended or been sent SIGKILL or    *)
(* SIGTERM, in whatever order close, exit and start of the process came.   *)
(* An unthreaded launch has run f_Main before it is closed.                *)
TerminateTakesEffect ==
  opt.threaded /\ opt.faults = {} /\ ThreadEnded /\ closed
    => /\ flags \cap {"TerminateProcess", "TerminateProcessTree"} # {} => Child \notin Active
       /\ flags \cap Terminations = {"StopProcess"} => Child \in asked \/ Child \notin Active

(* A close takes effect, in whatever order close, cancel, exit and start   *)
(* of the process came: who waits hears of the exit, who terminates or     *)
(* stops has done so.                                                      *)
CloseTakesEffect == WaitedForExitIsReported /\ TerminateTakesEffect

(* A close that terminates the tree of a launch with a process group ends  *)
(* every process that is still in the group, also those whose parent has   *)
(* exited, and also once the process itself has been reaped.               *)
TreeCloseEndsGroup ==
  opc = "closed" /\ ThreadEnded /\ "TerminateProcessTree" \in flags /\ opt.group
    => Active \cap Group = {}

(* Nothing is signalled for a stop while the launch has no process ID.     *)
StopNeedsProcessID == Everyone \notin struck

(* A close that terminates the tree of a launch with a process group       *)
(* returns, also when it waits: no wakeup is lost, a killed process ends,  *)
(* and a descendant that holds the output after the exit is ended as well. *)
Closing == opc \in {"checkReaped", "closeTree", "join", "release"}
TreeCloseReturns ==
  (Closing /\ "TerminateProcessTree" \in flags /\ opt.group) ~> opc = "closed"

(* A process that has exited is reported as exited, or the launch has been *)
(* given up for the close that the owner asked for, unless a descendant    *)
(* holds its output - also while the owner blocks in a stdin write.        *)
HeldByDescendant == \E q \in rd : writers[q] \cap Descendants # {}
ExitIsReported ==
  (pstate[Child] = "zombie" /\ opt.faults = {})
    ~> (HasExited \/ (closed /\ ~needWait) \/ HeldByDescendant)

(* fs_CancelAllLaunches ends the launches that wait for a process which    *)
(* may never exit, also those their owner has left lingering - unless a    *)
(* descendant holds the output of a process that has exited.               *)
CancelEndsWaiting ==
  (canceller = "waiting" /\ (Closing \/ opc = "closed") /\ ~needWait)
    ~> (freed \/ HeldByDescendant)

(* Whoever waits for the launch thread is let go: the close of a tree, the *)
(* client that waits for the exit, and fs_CancelAllLaunches.               *)
CallsReturn == TreeCloseReturns /\ ExitIsReported /\ CancelEndsWaiting
=============================================================================
