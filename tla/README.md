# Verification of Malterlib_Process

TLA+ models of the part of the library that launches processes, TLC runs that
check them on small instances, and TLAPS proofs that hold for every instance.
`src/` below is the repository; P is `src/Source/Platform/Malterlib_Process_Platform_`.

## Inventory

| component | state | operations | with whom it interacts |
|---|---|---|---|
| `CPOSIXLaunchContext` (P`POSIX_Launch.cpp`) | flags of a close, wait flag, process ID, reaped, pipes, reference count | `f_Start`, `f_Main`, `f_Close`, `f_Cancel`, `f_TerminateTree`, stdin, stop | its own thread, the owner, the dispatcher of the callbacks, `fs_CancelAllLaunches`, the processes |
| `CProcessLaunch` (`Malterlib_Process_ProcessLaunch.cpp`) | a handle and its close flags | open, start, close, stop, terminate, stdin, `fs_LaunchBlock` | one launch context |
| command line encoding (same file) | none | encode and parse for Unix, Windows, bash | |
| Linux tree termination (P`Linux.cpp`) | the processes seen and paused | list, pause, kill, resume | the process list, which changes under it |
| CPU limiter (P`POSIX_LaunchLimiter.cpp`) | limiters by group, process IDs, what is paused | get, add, remove, update | launch threads, its own thread, the process list |
| `CProcessLaunchActor` | the launch, waiting callers, line buffers | launch, stop, send, signal, run to the end, destroy | `CProcessLaunch`, other actors |
| proxied launches (`Malterlib_Process_ProxiedProcessLaunch.cpp`) | launches by number on both sides | launch, close, stdin, stop, reports; loss of client or server | a helper process over its stdin and stdout |
| `CProcessLaunchHandler` (`Malterlib_Process_VirtualProcessLaunch.cpp`) | running, done and lingering launches | add, stop all, terminate all, reap, wait | the callbacks of its launches |
| standard input (`StdIn`, `StdInActor`, P`POSIX_StdInReader.cpp`) | buffers, readers, one shared file description | read, abort, reopen, destroy | the polling thread, actors |
| killing the processes of a directory (`..._KillInDir.cpp`) | none | stop, wait, terminate | the process list |
| Windows launch (P`Windows_Launch.cpp`) | as the POSIX one, with a job and completion callbacks | as the POSIX one | as the POSIX one |
| information, elevation, URL handlers, version | none | queries and calls of helpers | the operating system |

What is hard is in the first row: a launch has four actors that take no common
lock - the thread that runs it, the owner that closes it, the dispatcher that
still holds callbacks, and `fs_CancelAllLaunches` - and the processes behave as
they like: they exit between two system calls, leave descendants that hold the
output, leave the process group, and their IDs are given to others.

What makes each component correct:

- launch: callbacks in the promised order and none after a close that waits;
  the exit after all output; a requested termination takes effect whatever it
  races with; a close and a cancel return; the context is deleted once, by its
  last user;
- tree termination: every descendant that can be found is killed, also one that
  is forked meanwhile, and nothing is left paused;
- limiter: nothing stays paused that is no longer limited, the limiter lives as
  long as a launch refers to it;
- actor, proxy and handler: each keeps the launch contract towards its own
  clients, over a loss of the other side and over its own destruction;
- standard input: what is read for a read reaches it once, in order and whole, and
  the terminal is left as it was found.

`PROJECT.json` lists the hazards line by line.

## Plan

1. `LaunchedProcesses`, `PosixLaunch`, `LaunchContract` with their proofs - done.
2. `ProcessTree` with its proofs: the terminator of P`Linux.cpp` against a
   changing process list - done.
3. `LaunchLimiter` with its proofs - done.
4. `ProxiedLaunch` with its proofs: client and server of proxied launches - done.
5. `LaunchActor` with its proofs: `CProcessLaunchActor`, which promises `LaunchContract` upwards
   on top of a launch that keeps it - done.
6. `WindowsLaunch` with its proofs: the second implementation of `LaunchContract` -
   done.
7. `StdInReader` with its proofs: the readers that share the standard input, and
   `StdInClients` over it: the actor and the blocking reader - done.
8. `LaunchHandler` with its proofs: the handler over launches that keep the
   contract - done.
   Left: `ParamEncoding` and `LaunchPlan` as checked operators, the loop that kills
   the processes of a directory.
9. More proofs: `CloseTakesEffect` and `TreeCloseEndsGroup` of `PosixLaunch`, and the
   safety part of `HandlerKeepsWord` (`BlockedUntilTold`) - done.
10. Proofs about the clients of the standard input: `ClientsTypeOK`, `TextIsKept` and
   `ReadsAreWhole` for every input - done.

## Modules

`LaunchedProcesses` is the operating system for one launch (external code): the
process, its descendants, who holds the output pipes, the process group, signals
sent, and the reuse of the process ID.

`PosixLaunch` EXTENDS it with the code. Its variables are the fields of the
context (named in the module); `tpc` is the place of the launch thread in
`f_Main`, `opc` that of the owner, `tt` the calls of `f_TerminateTree` by either.
One action is what happens between two places where another actor can run: a
critical section, a system call, a callback.

| code | actions |
|---|---|
| `f_Start`, `fp_DoStart`, `fp_OnLaunched` | `Start`, `StartThrows`, `StartChild`, `StartOther`, `OnLaunched`, `OnLaunchFailed`, `InlineDone` |
| the loop of `f_Main` | `Poll`, `RedirectOutput`, `WaitChild`, `MarkReaped`, `LoopFails`, `DrainWakeup`, `ReadFlags`, `ActTree`, `ActTreeDone`, `ActSignal`, `ActNothing` |
| `fp_RedirectOutput(true)` | `Drain`, `DrainFlag`, `DrainTreeDone`, `DrainOutput`, `DrainFails` |
| a `read` of `fp_RedirectOutput` that fails (1382-1389) | `ReadFails`: reported, and the pipe is read again in the next round |
| the end of `f_Main` | `OnExit`, `ClosePipes`, `Return` |
| `f_TerminateTree` | `TreeLoad`, `TreeKill`, `TreeProbe`, `TreeGroup` |
| `f_Close`, `fg_ProcessLaunch_Close` | `Close`, `CheckReaped`, `TreeDone`, `Join`, `Release` |
| stop, terminate, stdin | `StopProcess`, `TerminateTree`, `SendStdIn`, `SendDone`, `CloseStdIn` |
| callbacks through `m_fDispatcher` | `Report`, `Dispatch` |
| `fs_CancelAllLaunches` | `CancelAll`, `CancelDone` |

`LaunchContract` is the abstract specification: the reports so far and whether
more will follow. `PosixLaunch` implements it with `reports <- sent` and
`over <- ReportsOver`.

`ProcessTree` models `fg_Linux_Process_TerminateTree` on its own, against
processes that start others, exit, are adopted and reaped at any moment.
`PosixLaunch` takes the whole of it as one step (`TreeKill`), which is what the
theorem `WholeTreeKilled` is about. `listed` is the process list of this round,
`known` and `link` are `m_AllProcesses` and `m_Children`, `tried` and `paused`
are `m_bTriedPause` and `m_pPausedToken`. Any number of processes is started, with IDs
not used before; only how many there are at a time is bounded. When one is gone, and
the terminator keeps no more of it than the way to its children, its name is used for
the next one (`Forgotten`).

| code | actions |
|---|---|
| `fg_Linux_Process_GetAllRunning` | `ReadNames`, `ReadStat` for one process at a time |
| the loop of `fg_Linux_Process_TerminateTree` | `RootNotFound`, `RootFound`, `AllPaused`, `AllKilled` |
| `f_PauseTree`, `f_KillTree`, the destructors | `PauseOne`, `KillOne`, `ResumeOne`, `Return` |

`LaunchLimiter` models the limiter of one group: `lpc` is where each launch
thread is between the start of its process and its end, `upc` where the update
thread is, `token` the entries with an `m_pPausedToken`, `ids` is
`m_ProcessIDs`. Process IDs are given out again after a reap; `twice` and `lost`
are history.

| code | actions |
|---|---|
| `f_Main` | `StartProcess`, `Reap`, `Leave` (a close that does not wait) |
| `fg_GetCPULimiter` | `GetCPULimiter` |
| `~CCPULimiterRef`, `~CProcessLaunchLimiter` | `DropRef`, `Join`, `DestroyEntry`, `Destroyed` |
| the update thread, `f_Update` | `EnumProcesses`, `ChooseTargets`, `PauseOne`, `ResumeOne`, `Updated` |

`ProxiedLaunch` models the client and the server of proxied launches, the pipe
between them, and the launches of the server in as much as the server sees of
them. `cq` and `sq` are the dispatch queues, `cdo` and `sdo` what the dispatch
threads are in the middle of, `cmap` and `smap` the maps of launch states,
`handle` and `pointer` the `m_pLaunch` and `mp_pServer` of a state, `thread` where
the launch thread of a launch is; `released` and `ignored` are history.

| code | actions |
|---|---|
| `CVirtualProcessLaunch_Client` | `AddLaunch`, `OpenLaunch`, `Request`, `Close`, `CloseReturns` |
| `~CInternal` of the client | `Destroy`, `ServerHasExited`, `WaitTimesOut`, `ClearServer`, `JoinThread` |
| dispatch thread of the client | `SendItem`, `FailSend`, `OnServerState`, `SetErrorOf`, `SetErrorDone`, `HandlePacket`, `DoReport`, `DoFinish`, `DoReply` |
| standard input reader of the server | `Read`, `ReadEnd` |
| dispatch thread of the server | `HandleLaunch`, `HandleClose`, `HandleRequest`, `HandleDisconnect`, `HandleReply`, `OnInputEnd`, `ConstructLaunch`, `OnReport`, `DestroyLaunch`, `BeginClear`, `ClearLaunch`, `LaunchCleared`, `DestroyReader` |
| `~CProxiedLaunchServer` | `DisconnectSeen`, `ServerQuits` |
| threads of its launches | `StartProcess`, `StartProcessFails`, `ReadOutput`, `Reap`, `NoServer`, `GetServer`, `Dispatch` |
| the server process | `StartServer`, `StartServerFails`, `ServerDies` |

`StdInReader` models the readers of the standard input on POSIX: `imp` is the
implementation the open `readers` share, `life` how far each implementation that
was ever made has come, from its registration to the acknowledged removal;
`place` is where the thread of its io loop is in `fp_OnReadable`, `closing` and
`pending` are the fields of the subsystem. The lock is held from `OnReadable` on,
except that a callback can take it again (`LockFree`).

| code | actions |
|---|---|
| `fg_Process_StdInReader_Open`, `f_Register` | `Open` |
| `~CPOSIXStdInReader` | `Close`, `Deregister`, `Clear`, `OnClosed` |
| `fp_OnReadable`, `fp_Read`, `fp_SendToReaders` | `OnReadable`, `ReadChunk`, `ReadEnd`, `ReadFails`, `ReadNothing`, `CallbacksDone` |
| io loop, other end of the input (external) | `CallBack`, `Write`, `EndInput` |

`StdInClients` EXTENDS it with `CStdInActor`, `CBlockingStdInReader` and others that
open readers. It says what is in the input: a character is its position, and what
kind of key it is depends on the configuration. `mail` is what the callbacks of
the actor's readers have dispatched to it, `buffer` and `entries` are
`m_BufferedStdIn` and `m_ReadEntries`; a call in `calls` keeps the input it has taken
and, for a prompt, the text and the cursor. `used`, `lost`, `given`, `late` and `ends`
are history. Each loop of the code is a function on the number of its passes, up to as
many as it can make: a pass over the keys takes one at least (`KeyPass`), one of
`f_HandleBufferedStdIn` that goes on has answered an entry (`TextPass`), and one of
`f_HandleBufferedStdInBinary` has answered an entry or taken a piece (`BinaryPass`).

| code | actions and operators |
|---|---|
| callbacks of the readers, in `fp_SendToReaders` | `DeliverChunk`, `DeliverEnd` (with `ReadChunk`, `ReadEnd`, `ReadFails`) |
| what they dispatch | `HandleMail` with `Insert` |
| `f_ReadLine`, `f_ReadPrompt`; `f_ReadBinary` | `ReadText`; `ReadBinary` |
| `f_HandleBufferedStdIn` | `HandleBufferedStdIn` with `TextPass`, `Line`, `Prompt`, `Keys` (`KeyPass`, `Key`, `Escape`, `Type`) |
| `f_HandleBufferedStdInBinary` | `HandleBufferedStdInBinary` with `BinaryPass` |
| `f_AbortReads`, `fp_Destroy` | `Abort`, `CloseText`, `CloseBinary`, `Delete` |
| `f_RegisterForInput`, `f_RegisterForInputBinary` | `Subscribe` |
| `CBlockingStdInReader` | `OpenBlocking`, `CallBlocking`, `Check` (`SimpleKey`), `Wake`, `CloseBlocking` |

`LaunchActor` models an actor that owns a launch. Below it the launch thread calls
back with what `LaunchContract` promises (`reports`, `over`); `mail` is what the
callbacks have dispatched to the actor; `told` and `got` are what its client has
seen, which is to keep `LaunchContract` again (`KeepsContract`: `reports <- told`).
The text of an output is numbered in the order it was written (`made`, `passed`,
`parsed`, `got`), and a configuration without lines also stands for binary output.

| code | actions |
|---|---|
| `f_Launch` and the two callbacks it gives the launch | `Launch`, `ReportLaunched`, `ReportLaunchFailed`, `ReportOutput`, `ReportExited` on the launch thread; `HandleLaunched`, `HandleEnd`, `HandleOutput` in the actor, with `ApplyPending` and `AnswerPending` |
| `f_LaunchSimple` | `OpenStdIn`, `StdInOpened`, `ForwardInput` with `SendStdInBuffer`, `HandleTell` |
| `f_StopProcess`, `f_StopProcessGroup`, `f_TerminateProcessTree` | `CallStop` |
| `f_SendStdIn` and its variants | `Send`, `StartSend`, `FinishSend` |
| `fp_Destroy` | `DestroyIdle`, `DestroyFails`, `Destroy`, `DestroySequencer`, `Destroyed` |
| `~CProcessLaunch` of the launch | `CloseLaunch` |

`LaunchHandler` models the handler and the launches in its list. `handle`,
`completion` and `kept` are `mp_pProcessLaunch`, `mp_Completion` and
`mp_DelayedOutput` of each entry, `changed` is the event `mp_LaunchChanged`;
`callback` is how far the callback of a launch has come, on the thread of the launch
or, from `queue`, on that of the owner. `owner` is what the owner does and the entries
its loop has still to visit. `reported`, `heard` and `strayed` (a callback that used an
entry or a handler that was gone) are history. Its operations are serialized, as
the comment above `f_ReapCompleted` (233-235) demands.

| code | actions |
|---|---|
| `f_AddLaunch` | `AddLaunch`, also with a factory that throws |
| the callbacks it gives the launch | `CallOutput`, `IgnoreCallback`, `KeepOutput`, `EnterCallback` with `m_DestroyLock`, `CallClient`, `FinishCallback`, `SignalChange` |
| `f_TerminateAll`, `f_ReapCompleted` | `Begin`, `TerminateNext`, `ReapNext`, `Join`, `Return` |
| `f_BlockOnExit` | `Begin`, `Check`, `Pause`, `BlockNext`, `Join`, `Return` |
| `f_GetFirstNotDone`, `f_WaitForChange` | `GetFirstNotDone`, `BeginWait`, `WaitForChange`, `WaitTimeout` |
| `~CProcessLaunchHandler` | `BeginDestroy`, `DestroyNext`, `Join`, `HandlerGone` |
| launches (external) | `Report`, `ThreadEnds`, `ChildEnds`, `TakeCallback` |

`MCLaunchOwners` instantiates `LaunchActor` and `LaunchHandler` for one run: either is
used while the other stays as it is at the start.

`WindowsLaunch` models `CConsoleRedirector`, with `LaunchedProcesses` read for
Windows: a job instead of a process group, handles instead of a reap. `io` is what
each outstanding read is doing, `held` what has been acquired for another user and
has to be given back, `job` and `sandbox` the job handles. `before` and `owed` are
history. Beside the owner that closes there is a second thread of it that writes.

| code | actions |
|---|---|
| `fp_DoStart`, `fp_LaunchChild` | `MakePipes`, `FindProgram`, `FindToken`, `LogOn`, `AccessStation`, `AccessDesktop`, `Prepare`, `CreateChild`, `EnterSandbox`, `EnterJob`, `Resume`, `StoreProcess`; `UndoLaunch`, `Unwind`, `OnLaunchFailed` when a step fails |
| launch of a document, of an elevated process | `LaunchDocument`; `LaunchElevated`, `ConnectPipes`, `ConnectFails` |
| the loop of `f_Main` | `OnLaunched`, `ReadChunk`, `ReadEnd`, `ReadError`, `SeeExit`, `SeeEvent` (the wait resets the event), `TakeFlags` (the flags are swapped under the lock), `ActTree`, `ActTreeDone`, `ActSandbox`, `ActStop`, `ActNothing` |
| the end of `f_Main` | `Drained`, `CancelReads`, `CancelledReadsDone`, `OnExit`, `CloseAll`, `Return` |
| `f_TerminateTree` | `TreeList`, `TreeKill` (`Opened`: it passes over what may not be opened to be terminated), `TreeJob` (`TerminateJob`, which may fail) |
| `f_Close` | `Close`, `CloseJob`, `Join`, `Release` |
| stop, terminate, stdin | `StopProcess`, `TerminateTree`, `SendStdIn`, `SendDone`, `CloseStdIn` |
| callbacks, cancel | `Report`, `Dispatch`; `CancelAll`, `CancelDone` |

Operators commented "Slip" are mutations of a mapped action; they are used in no
specification and only show that a property can be violated.

Abstractions of `PosixLaunch`: a chunk of output is a number;
`fg_TerminateProcessTree` is one step; a forked child is in its process group from
the start; the callbacks are set; one owner thread uses the handle;
`mp_ProcessID` is never 0.

## Runs

| run | shows |
|---|---|
| `PosixLaunch` | five configurations (plain, dispatcher with two pipes, unthreaded, two pipes on which every system call can fail, a descendant that may do anything with an owner that stops and terminates) closed in up to five ways, cancel at any moment: types, references, contract, the exit after all output, silence after a join, and `CloseTakesEffect`: who waits is told of the exit, and a termination that was asked for is carried out |
| `PosixLaunchTree` | under fairness, with a descendant that holds the output and a full stdin pipe: a tree-terminating close ends the group and returns, exits are reported, a cancel ends waits (`CallsReturn`) |
| `PosixLaunchLostTree` (violation) | a tree termination that races the reap is lost when the descendant has closed its output |
| `PosixLaunchStop` (violation) | a stop before the process has started goes to process ID -1 |
| `WindowsLaunch` | eight configurations (another user through a dispatcher, a process group with a descendant, one that may be left without a job, de-elevated and unthreaded, a sandbox, a document, an elevated process, a group of which neither the processes nor the job may be terminated) with failures at the steps of the launch: the contract, `LaunchIsSound` (references, what a failed launch leaves behind, output before the exit, stops and terminations that reach what they should, silence after a join), and under fairness a close and a cancel return. What the launcher may not terminate, as every elevated process, is excepted by name (`CanTerminate`) |
| `LaunchOwners` | an actor in five configurations (stopped, tree terminated, output as it comes, output in lines, simple launch) destroyed at any moment: the client sees the launch contract and all text once, in order and in whole lines; stops reach the process or are answered; nobody waits once the launch is over. A handler in six: its callbacks use no entry and no handler that is gone, except for a launch that lingers on its own thread; a client hears what its launch reports in order, and all of it before the end; and under fairness (`HandlerKeepsWord`) `f_BlockOnExit` returns when enough processes have ended and has then told their clients (but for a launch that could not be made, `Made`), a signal that comes before the wait is not lost, terminating, removing and destroying return |
| `ProcessTree` | a root and any number of descendants, three at a time, of which one may not be signalled: the tree is killed, nothing is left paused, and the terminator returns unless it is kept going (`KeptGoing`) |
| `LaunchLimiter` | two launches and two process IDs: the limiter outlives those that use it, what it stops it can resume, and under fairness (`NobodyIsHeld`) limited processes run again and launches are not blocked |
| `LaunchLimiterForgets` (violation) | a process that is paused when it stops being limited stays stopped while another launch keeps the limiter |
| `ProxiedLaunch` | one proxied launch with any order of requests, a close, the destruction or death of the client and the loss of the server: its end is reported once and last, nothing after a close that waits, closes and terminations take effect, a server that ends leaves no process behind, and under fairness (`LaunchesComeToAnEnd`) a close that terminates and waits returns, and a lost server ends the launch |
| `ProxiedLaunchOrphans` (violation) | when the client dies its server lives on with what it has launched |
| `StdInClients` | the standard input in eleven configurations, with readers opened and closed at any moment, also in callbacks: one registration at a time, the terminal in the mode the readers ask for, input read and not for nobody (`RegistrationIsSound`); what is read for lines and prompts is handed out once and in order (`TextIsKept`), in whole lines, and whatever the pieces it comes in (`ReadsAreWhole`); and under fairness the input is read, the first read is answered when its line has come, a binary read at the end, and a blocked owner wakes (`InputIsServed`) |

Bounds: one chunk per pipe and one descendant. Which pipe, before or after which
step, is what the properties tell apart, and a second chunk or descendant takes
the same steps again; the proofs have no bound. `MaxReadErrors` is 1 in `PosixLaunch`: an
error is reported at any of the six reads, and the next one would be as well. It is 0 in
the other runs of the module: a read that goes on failing at the end of a launch goes
round for ever (1421), so no promise that calls return survives it.

Fairness (`FairSpec`): every thread that can run does (weak fairness of the
launch thread, of what the owner has begun, of the dispatcher and the canceller),
and a process that was sent SIGKILL ends. No process is assumed to exit, read
or heed SIGTERM, and no owner to close.

In `WindowsLaunch` a configuration has only the choices that it is about (its
faults, ways of closing, habits of the processes and operations of the owner), so
that all eight fit one run; what they share - the loop, the callbacks, a cancel at
any moment - is in each. Fairness: the threads go on, and a process that was
terminated ends. A process need not exit, read or write, and nobody need close.
An elevated process can never be terminated by its launcher, which is not elevated
(1022-1031): `f_KillTree` (97) passes over it, and a close that terminates and waits with
`BlockOnExit` waits for as long as the process runs. Such a close is excepted, in
`TerminationTakesEffect` and `CallsReturn`, and so are the processes of a launch that
are "denied"; that a close without `BlockOnExit` returns is checked for these as well. A
job of which the termination fails ("terminate") may keep its processes, but for the
sandbox job, which ends them when its only handle is closed.

In `LaunchOwners` the actor has two callers that stop the process, so that one can
ask while the other waits; two characters of each kind give a line, a rest without a line end and text
of two chunks; two sends give one that waits behind one that blocks. Fairness: the
launch thread reports the launch and, once the process is over, its end; the actor
handles its mail and goes on with its destruction; a killed process ends; a write
to a process that is gone fails. A process need not end by itself or read. The run
has no deadlock check: an actor that has been destroyed does nothing more.

The handler of `LaunchOwners` has six setups: two launches that are terminated,
removed and waited for down to one (`_nMaxRunning`); two that are left to linger and
waited for; and one each that lingers, is removed and waited for with a time limit,
that may not be made at all, that has two pieces of delayed output, and whose callbacks
go through a dispatcher. Two launches give a removal beside an entry that stays, and
a wait in which one launch is over and the other is not; entries share nothing but
the event. The owner destroys the handler at any moment between two operations.
Fairness: the threads of the launches and that of the owner go on, and a process that
was terminated ends; a process need not end by itself and no owner need call.
A callback that has begun comes to its end (the client's functor returns). An
`f_BlockOnExit` after an `f_AddLaunch` that has thrown is the end of the owner
(`fault`): the code calls the launch that is not there (line 286). That is not a return:
`HandlerReturns` excepts this call by name (`Made`), and of everything else the owner
calls it demands that it comes back.

In `ProcessTree` three descendants at a time are enough for a chain of which the middle
exits, for a child started while its siblings are listed, and for one that
cannot be paused. How many are started is not bounded, so that forks can go on for ever.
Then the terminator does not always return: each child of a process that runs on because
it may not be signalled is new to the next round (226-241), which is therefore followed by
another (259-297), and 290 is never reached; the same if somebody else kills what has been
stopped again and again. `Terminates` excepts these two (`KeptGoing`) and shows that there
is no third as long as the number of processes at a time is bounded. Only the terminator is
assumed to go on; its processes need do nothing. The ID of a process that is still listed
is not reused: it would be taken for that process, by the code as well.

In `LaunchLimiter` two IDs give two launched processes, a launched process with a
descendant, and the reuse of an ID; the two safety properties are proved for any
number. The threads are assumed to go on (weak fairness), but a launch need not
end; the update thread starts no update after it has been asked to quit.

In `ProxiedLaunch` one launch is enough: launches share only the queues, whose
order the messages of a launch among each other already depend on, and the loops
of `f_SetError` and `f_ClearLaunches` treat each launch alike (the module takes
any set). One request and one chunk of output come before or after any other
message. The close sets are one that asks the server for nothing, one that
terminates and waits, and one that stops and lingers. Fairness: the threads of
both processes go on, and a process that is killed ends; no owner need close or
destroy anything, no process need end, and the server need not read the end of
its input. The run has no deadlock check, as both sides come to an end.

In `StdInClients` three readers of others give one that takes lines, one that takes
characters and one that wants to be alone; three implementations are enough for a
reader that is opened while two removals are outstanding. The other configurations
take one of the clients each, with two calls, so that one can wait behind the
other, and texts of two to six characters that can come in any pieces: lines that
an abort or the destruction of the actor comes between; a subscriber; lines and
binary input while another reader wants to be alone; prompts with a cursor that is
moved, with insertion and deletion, a string escape and a break; the blocking
reader. Fairness: the loop threads go on, and so do who has closed a reader, the
actor with its mail and with an abort it has begun, and the blocked owner once its
event is signalled; nobody need open, close, call, abort or write anything. The run
has no deadlock check: when all calls have been made nothing need happen any more.

`ReadsAreWhole` and `ReadsAreAnswered` have exceptions that the code makes necessary:
what a reader dispatched before an abort closed it is put into the buffer after the
abort, where the end of the input is a piece of text for a prompt and stands before
the next line for a line (`late`), and a string escape without an end in its piece
keeps the actor in its loop (`spinning`). Nothing in the repository promises
otherwise, so they are listed with their hazard and not as findings.

The four findings are described in `PROJECT.json` at their lines.

## Proofs

`PosixLaunchProofs` proves, for every value of the constants:

- `TypeCorrect` (`TypeOK`), `ReferencesCounted` (`RefsCountUsers`), `Quiet`
  (`QuietAfterJoin`), `Refinement` (`FollowsContract`), `OutputBeforeExit`
  (`ExitedAfterAllOutput`), `CloseEffective` (`CloseTakesEffect`);
- `TreeCloseEffective`: `TreeCloseEndsGroup` for a launch that is `Dependable`, which is
  threaded, of which no system call fails, and whose processes do not close their output
  before they end. Without the last hypothesis the property is false: that is the
  finding of `PosixLaunchLostTree`. The launches of the run `PosixLaunchTree` satisfy
  all three.

Assumptions: those the modules name (`OptionsAssumption`, `ChildAssumption`,
`FiniteAssumption`, `BoundsAssumption`).

`TypeOK` alone is not inductive: a reference count of 0 could be decreased. The
invariant `Inv` adds `RefsCountUsers`, `StartInv` (who runs `f_Main`, and that the
dispatcher runs no callback it was not given), `ReportInv` (where the thread is
when nothing has been reported yet) and `JoinInv` (a close that joined has found
the thread at its end). Most of its conjuncts see little of a step, so every step
is first shown to be one of the few shapes of `Skeleton`, and the rest of the
argument is about those. `OutputInv` adds, for the exit after all output, that a
pipe the thread has left had ended (`Ended`), which no step of the processes can
undo (`EndedStable`).

`CloseTakesEffect` needs four invariants more, together `CloseInv`. `ChildInv`: while
`f_Main` loops there is a process with an ID that has not been reaped, one that has
failed to start never was, and where nothing fails it is gone when its output is
drained. `AskInv`: what a threaded launch is asked for when it is closed stays what the
loop finds under the lock, until `fs_CancelAllLaunches` takes back the waiting; this is
where the order of close, start and cancel matters. `TreeInv`: a tree termination of the
loop succeeds, and when it is over the process and, with a process group, the whole group
are killed. `LeaveInv`: so the loop is left for a close (`lastOut`) only when the signal
has been sent (`Signalled`) and nobody waits. That nothing undoes this is `Moves`: no
step but the start and the reap of the process makes a process run again, and a
descendant of a process outside the group is outside. For `TreeCloseEndsGroup`, where the
thread has not left the loop for the close but has seen the exit, `HoldInv` says that
every process that runs holds the standard output, which has ended by then.

`ProcessTreeProofs` proves, for any set of processes, `TypeCorrect` (`TypeOK`),
`NothingPaused` (`NothingLeftPaused`) and `WholeTreeKilled` (`KillsWholeTree`)
from `RootAssumption`, `ProtectedAssumption` and `MarksAssumption`. The argument
is that of the comment in the code ("no more processes were found this round"):
what has been tried to pause and may be signalled stands still (`PauseInv`), so
its children are there when the next listing begins and are listed and linked in
it (`LinkInv`); in a round that finds nothing new, what is found has therefore no
child that is not found, and so it stays until all of it is killed (`KillInv`).
`SeenInv` says that a process is listed, linked or paused only after it has
started, so that one started later is in none of these sets.

`LaunchLimiterProofs` proves `TypeCorrect`, `StoppedProcessesHaveEntries`
(`StoppedHasEntry`) and `LaunchesKeepLimiter` (`LimiterOutlivesLaunches`) from
`NamesAssumption`. `LockInv` ties the lock to the launch that destroys the
limiter and to the set of IDs being empty; `HolderInv` says that the IDs of two
launches differ as long as none has been added twice, so that a launch that
removes its own leaves those of the others; `ExistsInv` that without a limiter
no update thread is left to stop anything.

`LaunchHandlerProofs` proves `TypeCorrect` (`HandlerTypeOK`), `CallbacksFound`
(`CallbacksFindTheirLaunch`), `ToldInOrder` (`LaunchesAreTold`) and `BlockTold`
(`BlockedUntilTold`) for any launches, any amount of output and any way to use the
handler; of `HandlerAssumption` it needs only that `_nMaxRunning` is a number, and that
for `BlockTold`. A callback reaches into the list when its
launch may have been removed, and into the handler when its destructor may be
over. Against the first, `ListInv` says that a launch that has been added and is
not in the list was done, and `EndInv` that the callback which makes it done is its
last and is past its uses of the entry by then: once the end is reported nothing
more is queued. Against the second, `OwnerInv` and `ThreadInv` say that the
destructor has joined every launch it has closed, that a callback of a launch runs
on its thread unless it is dispatched, and that a dispatched one begins only after
the destructor, when it sees `m_Destroyed`. What is left over is the launch closed
to linger, whose thread nobody joins: that is the exception the property makes.

For `ToldInOrder` the reports of a launch are followed on their way: `Order` says that,
before the destructor, what the client has heard, what is kept for it, the report of the
callback that runs and those in the queue are in this order all that was reported
(`Lined` maps each report that is still to come to its place in the queue, so that the
reports of other launches in between do not matter; `LinedReport` and `LinedTail` are
what appending and taking do to it). The order holds although what was kept overtakes
the exit, as `Order` and `EndInv` leave nothing in the queue when the exit is taken.
After the destructor callbacks are ignored, and the order is lost; `Telling` says what is not:
a launch begins once, ends once, and the end is told only to a client that has heard
everything else.

`BlockTold` proves `BlockedUntilTold`, the safety part of `HandlerKeepsWord`. What
`f_BlockOnExit` counts, `m_Completion`, is set before the client is called, so the
count alone does not say that the clients have been told; the joins do. `WaitInv` says
that until the destructor every launch is closed in a way that waits for its end, so
that its thread ends with that, and `BlockInv` that no more than `_nMaxRunning`
launches remain that run, or that the loop has come by without joining them. When
the loop is over the others have been joined, so that no callback of theirs is under
way, and by `Order` their clients have heard all that they reported (`EndedIsTold`).
This is so without a dispatcher only, and `BlockedUntilTold` says so: `f_BlockOnExit`
waits on the thread to which the callbacks would be dispatched, and when a launch was
closed before it does not count it as running, so its client may not have been told.

`WindowsLaunchProofs` proves `TypeCorrect` (`TypeOK`), `Sound` (`LaunchIsSound`) and
`Refinement` (`FollowsContract`) for any options, descendants and bounds, from
`OptionsAssumption`, `ChildAssumption` and `BoundsAssumption`. Every promise of
`LaunchIsSound` speaks of the end of the launch and is earned at its beginning or in
the loop, so the invariant `Inv` follows each of them along the thread:

- `ReportInv` and `ReadInv`: what has been reported where, and that a read that has
  ended leaves nothing behind, so that the drain after the exit gets all that was
  owed then;
- `TargetInv`, `ProcInv`: what is launched decides which steps are taken; until the
  thread gives up, its process exists and the handle is the process's;
- `FailInv`, `UserInv`, `SandboxInv`, `JobInv`: at each step what a failure or the end
  still has to undo is there to be undone - the sandbox job is entered before the
  process is resumed, and a job once emptied by the close stays empty, as only a
  process that runs in it could start another;
- `KillInv`: the flags of a close are either with the event, or with the thread that
  has taken them, or carried out; `QuietInv`: until a close or a cancel there is no
  event, which is why a thread that is over has seen the exit, and the flags it acts
  on are all of those of the close.

`StepKinds` and `AskStep` sort the steps by what they can disturb, so that each part
is proved against the few steps that matter to it. The proof showed what the runs
had not: a document or an elevated process is launched outside of the sandbox and
not as the other user that were asked for, and a close that terminates does nothing
to one for which a sandbox was asked. `ProfileOutlivesProcess`,
`TerminationTakesEffect` and `CallsReturn` now say so (`Creates` in `CanTerminate`),
and the run has such a document. `CanTerminate` also excepts what the launcher may not
open; where it may, `KillInv` has `TreeKill` end all that was found.

`ProxiedLaunchProofs` proves `TypeCorrect` (`TypeOK`), `NoneOrphaned` (`NoOrphans`),
`EndLast` (`EndIsLast`), `Quiet` (`QuietAfterClose`) and `LateReach`
(`LateRequestsReachLaunch`) for any launches, requests, output and faults, from
`LaunchesAssumption`, `ClosesAssumption` and `LimitsAssumption`. What the client is told of a launch passes
through two queues and may meet the loss of the server or a failed send on the way;
none of the properties is inductive without what is under way:

- `OnceInv`: the message that opens a launch is in one place - the client's queue, its
  buffer, the pipe, the server's queue, the queue again as the construction - or the
  launch has been constructed, so it is constructed once; `NewInv`: a launch that has
  not been opened has left no trace anywhere;
- `TransitOf`, `LostInv`: no report follows the final one in either queue, and none
  follows the loss of the server in the client's; a final report is under way only when
  the thread of the launch is over or held (`Silent`), which lasts; after an error
  nothing of a launch is under way and the server is gone for good;
- `EndOf`: a launch that has ended, or is being reported as ended, is not running, its
  thread is silent and nothing of it is under way. So neither a late packet nor
  `f_SetError` nor a failed send reports it again;
- `QuietInv`: `m_FinishedEvent` is signalled only for a launch that was told its end,
  and a request that could not be sent is reported only after an error;
- `LateInv`: as long as the server has not constructed a launch, nothing of it has been
  reported or is under way, so its owner has not been told `Launched` and marks every
  request as early;
- `OrphanInv`: on a server that is up, what runs has an open handle, or has been closed
  for its client, and an open handle is found through `m_LaunchStates` or is the one that
  is being cleared; `FreshInv`: a server that is not up has forgotten everything.

`Moves` and `ReportMoves` sort the steps by what they do to the queues and to what the
client reports, so that each invariant is proved against these few shapes.

`LaunchActorProofs` proves `TypeCorrect` (`TypeOK`), `WholeOutput` (`OutputIsWhole`),
`StopsServed` (`StopsAreServed`) and `Refinement` (`KeepsContract`) for any callers,
uses of the actor, finitely many kinds of output and any bound on their text, from
`ActorAssumption`. The actor hears of the launch only through its mailbox, so what it
promises its client depends on what is under way in it:

- `StartInv`: nothing is dispatched, read or told before the first report; `BeginInv`:
  how the launch went is before everything else in the mailbox and not told yet, and a
  client with callbacks that has heard nothing will find it there; `EndInv`: how it
  ended is behind everything else, and has been told only when nothing is under way;
- `HookInv`: who still has callbacks. Only a simple launch tells itself through the
  mailbox, and its callbacks are there until it has told its end, so its result is
  never dropped;
- `TextInv` with `OutputIsWhole`: the pieces of an output in the mailbox begin where
  the client's text ends, each where the one before it ended, up to what has been
  passed; what was scanned without the end of a line fits between that and what was
  read. The flush at the end sends one piece per output with text left, in any order;
- `StopInv`: a waiter has one pending stop, one that was run has reached the process,
  and the actor knows of the end from a thread that is over.

Each step is first shown to be one of `StillStep`, `DeleteStep`, `DropStep`,
`MoveStep`, `ToldStep` and `ReportStep`: it leaves the mailbox alone, clears it, drops
or takes its first message, or appends to it; `BeginInv`, `EndInv` and the pieces are
proved against these. `LargestExists` is an induction over a constant bound, done
with the least number principle instead of an induction theorem.

The invariants of the readers and of the clients are in `StdInInvariant`, where TLC can
read them. `StdInProofs` proves, of the readers, `TypeCorrect` (`TypeOK` of `StdInReader`) and
`RegistrationSound` (`RegistrationIsSound`) for any readers
from `ReadersAssumption` and `InputAssumption`. Readers come and go while the removal
of an earlier registration is still under way, also from within callbacks, so the
registration, the saved mode and the readers that wait are tied together:

- `LifeInv`: at most one implementation is waiting or registered, the current one, and
  there is one exactly when a reader is open;
- `CountInv`: `m_nClosing` counts the removals under way, and a registration is put off
  only while there is one;
- `SavedInv`: an implementation saves the settings when it registers, and what it saves
  are those the terminal had before the first; with none in the loop the terminal has
  them again;
- `HeldInv`: an implementation in `fp_OnReadable` with the lock is the registered one,
  unless a callback it makes has taken it out.

`ReadStep` disposes of the steps that read and hand out; opening, `Close`, `Deregister`,
`Clear` and `OnClosed` are taken one by one. The theorem is about readers that do
anything. `ClientsUseReaders` says that the clients of `StdInClients` are such readers
(`ClientsSpec => Spec`, the identity as the refinement mapping), and `ClientsRegister`
states `RegistrationIsSound` of them.

Of the clients it proves `ClientsTypeCorrect` (`ClientsTypeOK`), `TextKept`
(`TextIsKept`) and `ReadsWhole` (`ReadsAreWhole`) for any input cut into any pieces and
for any number of calls, aborts and subscriptions, from the same assumptions and
`ClientsAssumption`. The argument has two halves. The first is about the loops, which
do nothing but compute:

- A loop is a function on its passes, so a fact about one pass is carried to the whole
  loop with `UpTo`, an induction over a set of passes with the least number principle.
  `KeysRun` and `SimpleKeysRun` say that the keys of a piece are such a run.
- `KeysCompose` and `SimpleKeysCompose`: a prompt that has taken all of a piece and is
  given another is where it would be if both had come at once. Hence what a waiting
  prompt holds is always what its keys make of all it has got (`Goes`, `WaitsHere`),
  whatever the pieces were, and so is an answer (`Fits`).
- `TextLoopKeeps` and `BinaryLoopKeeps`: whatever the buffers and entries are, a pass
  keeps the calls, their answers and the order of what is on its way.

The second half follows the input from the loop thread to the calls. What has been
read goes through callbacks, the mail of the actor and its buffers, all of which an
abort, an error or the end of the input can come between, so `ClientsInv` adds to `Inv`

- `LoopInv`: nothing is read for an implementation that is not registered any more, nor
  after the end of the input, and one that waits is not woken before the removals are
  over - so a reader hears the input from where it was opened, without a gap;
- `FieldsInv`, `CallsInv`, `DoingInv`: the types, which calls wait where, and how far an
  abort or the destruction has come in closing the readers;
- `KeptInv`: each piece of what the calls have used, the buffer and the mail comes
  after those before it (`Sorted`), and together with what was lost they are all that
  was given. That is `TextIsKept`;
- `StreamsInv` and `BlockingInv`: what one reader has heard since it was opened is what
  its first waiting call has got, then the buffer, then its mail, in order, and no
  character is missing between any two of them (`Flow`); the end of the input is last.
  A call that is answered takes a beginning of this, which makes it whole.

`StreamsInv` holds only until a piece comes late from a reader that an abort has closed
(`late`), which is where the code itself gives up the order; `KeptInv` holds on. TLC
checked `ClientsInv` as an invariant on the configurations of the run `StdInClients`
before it was proved.

Only model-checked: the liveness properties (out of the prover's reach), which are
`InputIsServed` of `StdInClients`, `CallsReturn` of the launches and the actor,
`Terminates` of `ProcessTree`, `NobodyIsHeld` of `LaunchLimiter`,
`LaunchesComeToAnEnd` of `ProxiedLaunch`, and `HandlerReturns` in `HandlerKeepsWord` of
`LaunchHandler`; and `TreeCloseEndsGroup` of `PosixLaunch` for a launch that is not
`Dependable`, where the run `PosixLaunchLostTree` refutes it in part.

## Not modelled

- Command line encoding: conversions of strings without state.
- `fs_LaunchBlock`, and `CVirtualProcessLaunch_Default`, which passes its calls on. Of
  the handler: `f_StopAll`, which changes nothing of it, and statistics.
- Of the standard input: what a prompt draws, code points and line ends that come in
  parts, how a subscriber's input is cut to size, a second subscriber.
- Killing the processes of a directory: a loop over process lists whose promise
  (nothing of the directory runs) holds only as long as nothing is started there.
- The standard input and the console of Windows: translations of console records.
- Elevation, URL handlers, startup registration, process and version information:
  straight calls to helper programs and stateless queries of the system.
- In the POSIX launch: how `fp_LaunchChild` chooses `posix_spawn`, `fork` or a
  helper program, statistics. In the Windows launch: what the choice of a token, a
  file association or an environment depends on, the job that a CPU limit or a
  priority makes, impersonation, and what a read does that is still outstanding
  when the redirector has been deleted.
- In the actor: logging, the hooks of subclasses, `f_Signal`, statistics. In the
  proxy: packets that cannot be decoded, the connect message, and what the handlers of
  unanswered messages report (1867-1880) when the client's destructor drops them after it
  has joined its thread, to owners that have closed. Both dispatch threads test for their
  quit once their queue was empty; in the model they may leave it after any item, which
  allows every order of the code and more.
