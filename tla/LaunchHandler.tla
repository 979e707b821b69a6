--------------------------- MODULE LaunchHandler ---------------------------
(***************************************************************************)
(* CProcessLaunchHandler                                                   *)
(* (src/Source/Malterlib_Process_VirtualProcessLaunch.cpp): a list of      *)
(* launches with an owner that adds them, waits for them, terminates them  *)
(* and removes those that are done.  Each launch keeps LaunchContract; its *)
(* callbacks run on its own thread, or on that of the owner, when a        *)
(* dispatcher takes them there.                                            *)
(*                                                                         *)
(* A callback is taken apart where the owner can come between: what it     *)
(* does with m_DestroyLock, the client's functor, the end of the callback, *)
(* and the signal.  Not in the model: f_StopAll, which changes nothing of  *)
(* the handler, and statistics; the time limits only say whether a wait    *)
(* may end by itself.                                                      *)
(* Operators commented "Slip" are mutations, used in no specification.     *)
(***************************************************************************)
EXTENDS Integers, Sequences, FiniteSets, SequencesExt

CONSTANTS
    Launches,   \* the launches that are added, once each
    MaxOutput,  \* bound: pieces of output of a launch
    Setups      \* how the handler is used

Operation == {"terminate", "linger", "reap", "block", "wait"}
Output == {"StdOut", "StdErr"}
End == {"LaunchFailed", "Exited"}
Kind == {"Launched"} \cup Output \cup End

ASSUME HandlerAssumption ==
    /\ MaxOutput \in Nat
    /\ Setups \subseteq [launches : SUBSET Launches, output : 0 .. MaxOutput,
                         delayed : BOOLEAN, dispatched : BOOLEAN, throws : BOOLEAN,
                         timed : BOOLEAN, most : Nat, operations : SUBSET Operation]

VARIABLES
    setup,       \* _bDelayOutput, m_fDispatcher, _nMaxRunning, ...
    owner,       \* what the owner does, the launches to come, the one it joins
    added,       \* mp_Launches
    handle,      \* mp_pProcessLaunch of each
    completion,  \* mp_Completion
    kept,        \* mp_DelayedOutput
    destroyed,   \* m_Destroyed
    changed,     \* mp_LaunchChanged
    thread,      \* the thread of each launch
    closing,     \* how each has been closed
    killed,      \* those that are terminated
    child,       \* the process of each
    reported,    \* what each has called back with
    callback,    \* the callback of each that is running
    queue,       \* the callbacks that have been dispatched
    heard,       \* the client: what it has been called with
    strayed      \* history: a callback used a launch or a handler that was gone

listVars == <<added, handle, completion, kept, destroyed, changed>>
launchVars == <<thread, closing, killed, child, reported>>
callVars == <<callback, queue, heard, strayed>>
handlerVars == <<setup, owner, listVars, launchVars, callVars>>

Idle == [kind |-> "none", at |-> "none"]
Nothing == [does |-> "nothing", todo |-> <<>>, joins |-> {}]

HandlerInit ==
    /\ setup \in Setups
    /\ owner = Nothing
    /\ added = <<>> /\ destroyed = FALSE /\ changed = FALSE
    /\ handle = [l \in Launches |-> "unmade"]
    /\ completion = [l \in Launches |-> "Running"]
    /\ kept = [l \in Launches |-> <<>>]
    /\ thread = [l \in Launches |-> "none"]
    /\ closing = [l \in Launches |-> "open"]
    /\ killed = {}
    /\ child = [l \in Launches |-> "none"]
    /\ reported = [l \in Launches |-> <<>>]
    /\ callback = [l \in Launches |-> Idle]
    /\ queue = <<>>
    /\ heard = [l \in Launches |-> <<>>]
    /\ strayed = {}

----------------------------------------------------------------------------
(* The launches.                                                           *)

Ended(l) == reported[l] # <<>> /\ Last(reported[l]) \in End

\* A thread that runs its callbacks itself does nothing else meanwhile.
Free(l) == thread[l] = "running" /\ (setup.dispatched \/ callback[l] = Idle)

Report(l, kind) ==
    /\ Free(l) /\ ~Ended(l)
    /\ IF reported[l] = <<>> THEN kind \in {"Launched", "LaunchFailed"}
       ELSE \/ kind \in Output /\ Len(reported[l]) <= setup.output
            \/ kind = "Exited" /\ child[l] = "gone"
    /\ child' = IF kind = "Launched" THEN [child EXCEPT ![l] = "running"] ELSE child
    /\ reported' = [reported EXCEPT ![l] = Append(@, kind)]
    /\ IF setup.dispatched
       THEN queue' = Append(queue, [launch |-> l, kind |-> kind]) /\ UNCHANGED callback
       ELSE callback' = [callback EXCEPT ![l] = [kind |-> kind, at |-> "entering"]]
            /\ UNCHANGED queue
    /\ UNCHANGED <<setup, owner, listVars, thread, closing, killed, heard, strayed>>

\* It has reported the end, or it was closed and does not wait for the end.
ThreadEnds(l) ==
    /\ Free(l)
    /\ Ended(l) \/ (closing[l] = "none" /\ reported[l] # <<>>)
    /\ thread' = [thread EXCEPT ![l] = "ended"]
    /\ UNCHANGED <<setup, owner, listVars, closing, killed, child, reported, callVars>>

ChildEnds(l) ==
    /\ child[l] = "running"
    /\ child' = [child EXCEPT ![l] = "gone"]
    /\ UNCHANGED <<setup, owner, listVars, thread, closing, killed, reported, callVars>>

----------------------------------------------------------------------------
(* The callbacks.                                                          *)

\* The owner's thread runs what was dispatched when it does nothing else.
TakeCallback ==
    /\ owner.does \in {"nothing", "gone"} /\ queue # <<>>
    /\ \A l \in Launches : callback[l] = Idle
    /\ queue' = Tail(queue)
    /\ callback' = [callback EXCEPT ![Head(queue).launch] =
                       [kind |-> Head(queue).kind, at |-> "entering"]]
    /\ UNCHANGED <<setup, owner, listVars, launchVars, heard, strayed>>

Uses(l) == strayed' = IF l \in ToSet(added) THEN strayed ELSE strayed \cup {l}

\* The client's own functor, unless its calls are delayed.
CallOutput(l) ==
    /\ callback[l].at = "entering" /\ callback[l].kind \in Output /\ ~setup.delayed
    /\ heard' = [heard EXCEPT ![l] = Append(@, callback[l].kind)]
    /\ callback' = [callback EXCEPT ![l] = Idle]
    /\ UNCHANGED <<setup, owner, listVars, launchVars, queue, strayed>>

\* With m_DestroyLock: nothing happens any more once the handler is destroyed,
IgnoreCallback(l) ==
    /\ callback[l].at = "entering" /\ destroyed
    /\ callback[l].kind \in Output => setup.delayed
    /\ callback' = [callback EXCEPT ![l] = Idle]
    /\ UNCHANGED <<setup, owner, listVars, launchVars, queue, heard, strayed>>

\* output is kept,
KeepOutput(l) ==
    /\ callback[l].at = "entering" /\ ~destroyed
    /\ callback[l].kind \in Output /\ setup.delayed
    /\ kept' = [kept EXCEPT ![l] = Append(@, callback[l].kind)]
    /\ callback' = [callback EXCEPT ![l] = Idle]
    /\ Uses(l)
    /\ UNCHANGED <<setup, owner, added, handle, completion, destroyed, changed, launchVars,
                   queue, heard>>

\* Slip: the functors are cleared before what was kept is delivered.
EnterCallbackSlip(l) ==
    /\ callback[l].at = "entering" /\ ~destroyed /\ callback[l].kind \notin Output
    /\ completion' = [completion EXCEPT ![l] = IF callback[l].kind \in End THEN "Reported"
                                                                          ELSE @]
    /\ callback' = [callback EXCEPT ![l].at = "reported"]
    /\ Uses(l)
    /\ UNCHANGED <<setup, owner, added, handle, kept, destroyed, changed, launchVars, queue,
                   heard>>

\* and what was kept is delivered before the exit.
EnterCallback(l) ==
    /\ callback[l].at = "entering" /\ ~destroyed /\ callback[l].kind \notin Output
    /\ heard' = [heard EXCEPT ![l] = IF callback[l].kind = "Exited" THEN @ \o kept[l] ELSE @]
    /\ completion' = [completion EXCEPT ![l] = IF callback[l].kind \in End THEN "Reported"
                                                                          ELSE @]
    /\ callback' = [callback EXCEPT ![l].at = "reported"]
    /\ Uses(l)
    /\ UNCHANGED <<setup, owner, added, handle, kept, destroyed, changed, launchVars, queue>>

\* Without the lock: the client's functor,
CallClient(l) ==
    /\ callback[l].at = "reported"
    /\ heard' = [heard EXCEPT ![l] = Append(@, callback[l].kind)]
    /\ callback' = [callback EXCEPT ![l].at = "told"]
    /\ UNCHANGED <<setup, owner, listVars, launchVars, queue, strayed>>

\* the end of the callback in the list,
FinishCallback(l) ==
    /\ callback[l].at = "told"
    /\ IF callback[l].kind \in End
       THEN completion' = [completion EXCEPT ![l] = "CallbackFinished"] /\ Uses(l)
       ELSE UNCHANGED <<completion, strayed>>
    /\ callback' = [callback EXCEPT ![l].at = "finished"]
    /\ UNCHANGED <<setup, owner, added, handle, kept, destroyed, changed, launchVars, queue,
                   heard>>

\* Slip: only an owner that waits already is woken.
SignalChangeSlip(l) ==
    /\ callback[l].at = "finished"
    /\ changed' = (owner.does \in {"wait", "pause"})
    /\ strayed' = IF owner.does = "gone" THEN strayed \cup {l} ELSE strayed
    /\ callback' = [callback EXCEPT ![l] = Idle]
    /\ UNCHANGED <<setup, owner, added, handle, completion, kept, destroyed, launchVars,
                   queue, heard>>

\* and the signal.
SignalChange(l) ==
    /\ callback[l].at = "finished"
    /\ changed' = TRUE
    /\ strayed' = IF owner.does = "gone" THEN strayed \cup {l} ELSE strayed
    /\ callback' = [callback EXCEPT ![l] = Idle]
    /\ UNCHANGED <<setup, owner, added, handle, completion, kept, destroyed, launchVars,
                   queue, heard>>

----------------------------------------------------------------------------
(* The owner, whose operations are serialized with each other and, with a  *)
(* dispatcher, with the callbacks.                                         *)

MayCall ==
    /\ owner.does = "nothing"
    /\ setup.dispatched => \A l \in Launches : callback[l] = Idle

\* f_AddLaunch; when the launch cannot be made its entry stays without it.
AddLaunch(l) ==
    /\ MayCall /\ l \in setup.launches /\ handle[l] = "unmade"
    /\ added' = Append(added, l)
    /\ \/ handle' = [handle EXCEPT ![l] = "open"]
          /\ thread' = [thread EXCEPT ![l] = "running"]
       \/ setup.throws /\ handle' = [handle EXCEPT ![l] = "null"] /\ UNCHANGED thread
    /\ UNCHANGED <<setup, owner, completion, kept, destroyed, changed, closing, killed,
                   child, reported, callVars>>

\* fp_Lingering
Lingering(l) == handle[l] \in {"open", "lingering"}
Running(l) == completion[l] = "Running" /\ Lingering(l)

\* f_TerminateAll, f_ReapCompleted, f_BlockOnExit
Begin(operation) ==
    /\ MayCall /\ operation \in setup.operations \ {"wait"}
    /\ owner' = [Nothing EXCEPT !.does = IF operation = "block" THEN "check" ELSE operation,
                                !.todo = IF operation = "block" THEN <<>> ELSE added]
    /\ UNCHANGED <<setup, listVars, launchVars, callVars>>

\* f_GetFirstNotDone: as long as it finds one, the owner waits for a change.
GetFirstNotDone ==
    /\ MayCall /\ "wait" \in setup.operations
    /\ \E i \in DOMAIN added :
         /\ Running(added[i]) /\ \A j \in 1 .. i - 1 : ~Running(added[j])
         /\ owner' = [Nothing EXCEPT !.does = "found", !.todo = <<added[i]>>]
    /\ UNCHANGED <<setup, listVars, launchVars, callVars>>

\* f_Close of a launch, after which the owner waits for its thread, or does not.
CloseHandle(l, way, todo) ==
    /\ handle' = [handle EXCEPT ![l] = IF way = "linger" THEN "lingering" ELSE "closed"]
    /\ closing' = [closing EXCEPT ![l] = way]
    /\ owner' = [owner EXCEPT !.todo = todo, !.joins = IF way = "linger" THEN {} ELSE {l}]

Join ==
    /\ \E l \in owner.joins : thread[l] = "ended"
    /\ owner' = [owner EXCEPT !.joins = {}]
    /\ UNCHANGED <<setup, listVars, launchVars, callVars>>

\* Slip: the loop does not wait for the launch that it has closed.
VisitsSlip(does, l) ==
    /\ owner.does \in does
    /\ owner.todo # <<>> /\ l = Head(owner.todo)

\* The launch that the loop of an operation has come to.
Visits(does, l) ==
    /\ owner.does \in does /\ owner.joins = {}
    /\ owner.todo # <<>> /\ l = Head(owner.todo)

PassBy == owner' = [owner EXCEPT !.todo = Tail(@)]

\* f_TerminateAll
TerminateNext(l) ==
    /\ Visits({"terminate", "linger"}, l)
    /\ IF handle[l] = "open"
       THEN /\ CloseHandle(l, IF owner.does = "linger" THEN "linger" ELSE "wait",
                           Tail(owner.todo))
            /\ killed' = killed \cup {l}
       ELSE PassBy /\ UNCHANGED <<handle, closing, killed>>
    /\ UNCHANGED <<setup, added, completion, kept, destroyed, changed, thread, child,
                   reported, callVars>>

\* mp_Launches.f_Remove
RemoveLaunch(l) ==
    \E i \in DOMAIN added : added[i] = l /\ added' = RemoveAt(added, i)

\* Slip: a launch is removed as soon as it has reported its end.
ReapNextSlip(l) ==
    /\ Visits({"reap"}, l)
    /\ IF completion[l] = "Running"
       THEN PassBy /\ UNCHANGED <<handle, closing, added>>
       ELSE RemoveLaunch(l) /\ PassBy /\ UNCHANGED <<handle, closing>>
    /\ UNCHANGED <<setup, completion, kept, destroyed, changed, thread, killed, child,
                   reported, callVars>>

\* f_ReapCompleted: one that is done is closed and joined, and then removed.
ReapNext(l) ==
    /\ Visits({"reap"}, l)
    /\ CASE completion[l] # "CallbackFinished" ->
              PassBy /\ UNCHANGED <<handle, closing, added>>
         [] completion[l] = "CallbackFinished" /\ handle[l] = "open" ->
              CloseHandle(l, "wait", owner.todo) /\ UNCHANGED added
         [] OTHER ->
              RemoveLaunch(l) /\ PassBy /\ UNCHANGED <<handle, closing>>
    /\ UNCHANGED <<setup, completion, kept, destroyed, changed, thread, killed, child,
                   reported, callVars>>

\* f_BlockOnExit: how many are running is counted again after each change, or
\* after some time.
Check ==
    /\ owner.does = "check"
    /\ IF Cardinality({l \in ToSet(added) : Running(l)}) <= setup.most
       THEN owner' = [Nothing EXCEPT !.does = "block", !.todo = added]
       ELSE \/ owner' = [Nothing EXCEPT !.does = "pause"]
            \/ setup.timed /\ owner' = Nothing
    /\ UNCHANGED <<setup, listVars, launchVars, callVars>>

Pause ==
    /\ owner.does = "pause"
    /\ owner' = [Nothing EXCEPT !.does = "check"]
    /\ changed' = FALSE
    /\ UNCHANGED <<setup, added, handle, completion, kept, destroyed, launchVars, callVars>>

\* Slip: those that are done are not joined.
BlockNextSlip(l) ==
    /\ Visits({"block"}, l)
    /\ PassBy /\ UNCHANGED <<handle, closing>>
    /\ UNCHANGED <<setup, added, completion, kept, destroyed, changed, thread, killed, child,
                   reported, callVars>>

\* Those that are done are joined.  It is not asked whether there is a launch: a
\* call through the null pointer of an entry without one is a fault.
BlockNext(l) ==
    /\ Visits({"block"}, l)
    /\ CASE Running(l) -> PassBy /\ UNCHANGED <<handle, closing>>
         [] ~Running(l) /\ handle[l] = "null" ->
              owner' = [Nothing EXCEPT !.does = "fault"] /\ UNCHANGED <<handle, closing>>
         [] ~Running(l) /\ handle[l] = "open" -> CloseHandle(l, "wait", Tail(owner.todo))
         [] OTHER -> PassBy /\ UNCHANGED <<handle, closing>>
    /\ UNCHANGED <<setup, added, completion, kept, destroyed, changed, thread, killed, child,
                   reported, callVars>>

Return ==
    /\ owner.does \in {"terminate", "linger", "reap", "block"}
    /\ owner.todo = <<>> /\ owner.joins = {}
    /\ owner' = Nothing
    /\ UNCHANGED <<setup, listVars, launchVars, callVars>>

\* f_WaitForChange
BeginWait ==
    /\ owner.does = "found"
    /\ owner' = [owner EXCEPT !.does = "wait"]
    /\ UNCHANGED <<setup, listVars, launchVars, callVars>>

WaitForChange ==
    /\ owner.does = "wait" /\ changed
    /\ changed' = FALSE
    /\ owner' = Nothing
    /\ UNCHANGED <<setup, added, handle, completion, kept, destroyed, launchVars, callVars>>

WaitTimeout ==
    /\ owner.does = "wait" /\ setup.timed
    /\ owner' = Nothing
    /\ UNCHANGED <<setup, listVars, launchVars, callVars>>

\* ~CProcessLaunchHandler
BeginDestroy ==
    /\ MayCall /\ setup.launches # {}
    /\ destroyed' = TRUE
    /\ owner' = [Nothing EXCEPT !.does = "destroy", !.todo = added]
    /\ UNCHANGED <<setup, added, handle, completion, kept, changed, launchVars, callVars>>

DestroyNext(l) ==
    /\ Visits({"destroy"}, l)
    /\ IF handle[l] = "open"
       THEN /\ CloseHandle(l, "none", Tail(owner.todo))
            /\ completion' = [completion EXCEPT ![l] = "Reported"]
       ELSE PassBy /\ UNCHANGED <<handle, closing, completion>>
    /\ UNCHANGED <<setup, added, kept, destroyed, changed, thread, killed, child, reported,
                   callVars>>

HandlerGone ==
    /\ owner.does = "destroy" /\ owner.todo = <<>> /\ owner.joins = {}
    /\ owner' = [Nothing EXCEPT !.does = "gone"]
    /\ added' = <<>>
    /\ UNCHANGED <<setup, handle, completion, kept, destroyed, changed, launchVars, callVars>>

----------------------------------------------------------------------------
LaunchStep(l) == ThreadEnds(l) \/ \E kind \in Kind : Report(l, kind)

CallbackStep(l) ==
    \/ CallOutput(l) \/ IgnoreCallback(l) \/ KeepOutput(l) \/ EnterCallback(l)
    \/ CallClient(l) \/ FinishCallback(l) \/ SignalChange(l)

OwnerStep ==
    \/ Join \/ Check \/ Pause \/ Return \/ BeginWait \/ WaitForChange \/ HandlerGone
    \/ \E l \in Launches : TerminateNext(l) \/ ReapNext(l) \/ BlockNext(l) \/ DestroyNext(l)

HandlerNext ==
    \/ \E l \in Launches : AddLaunch(l) \/ LaunchStep(l) \/ ChildEnds(l) \/ CallbackStep(l)
    \/ \E operation \in Operation : Begin(operation)
    \/ GetFirstNotDone \/ TakeCallback \/ BeginDestroy \/ OwnerStep \/ WaitTimeout

HandlerSpec == HandlerInit /\ [][HandlerNext]_handlerVars

\* Who runs: the thread of a launch, and the owner's.
LaunchThread(l) ==
    \/ ThreadEnds(l) \/ Report(l, "Launched") \/ Report(l, "Exited")
    \/ ~setup.dispatched /\ CallbackStep(l)
OwnerThread ==
    \/ OwnerStep \/ TakeCallback
    \/ setup.dispatched /\ \E l \in Launches : CallbackStep(l)

\* The threads go on, and a process that was terminated ends.
HandlerFairness ==
    /\ \A l \in Launches : WF_handlerVars(LaunchThread(l))
    /\ WF_handlerVars(OwnerThread) /\ WF_handlerVars(\E l \in killed : ChildEnds(l))

----------------------------------------------------------------------------
(* Properties                                                              *)

Reports == Seq(Kind)

HandlerTypeOK ==
    /\ setup \in Setups
    /\ owner \in [does : Operation \cup {"nothing", "check", "pause", "found", "fault",
                                         "destroy", "gone"},
                  todo : Seq(Launches), joins : SUBSET Launches]
    /\ added \in Seq(Launches) /\ IsInjective(added)
    /\ handle \in [Launches -> {"unmade", "null", "open", "lingering", "closed"}]
    /\ completion \in [Launches -> {"Running", "Reported", "CallbackFinished"}]
    /\ kept \in [Launches -> Seq(Output)] /\ destroyed \in BOOLEAN /\ changed \in BOOLEAN
    /\ thread \in [Launches -> {"none", "running", "ended"}]
    /\ closing \in [Launches -> {"open", "wait", "linger", "none"}]
    /\ killed \subseteq Launches
    /\ child \in [Launches -> {"none", "running", "gone"}]
    /\ reported \in [Launches -> Reports] /\ heard \in [Launches -> Reports]
    /\ callback \in [Launches -> {Idle} \cup [kind : Kind,
                                              at : {"entering", "reported", "told",
                                                    "finished"}]]
    /\ queue \in Seq([launch : Launches, kind : Kind])
    /\ strayed \subseteq Launches
    /\ \A l \in Launches :
         handle[l] = "closed" /\ l \notin owner.joins => thread[l] = "ended"

Told(l) == heard[l] # <<>> /\ Last(heard[l]) \in End

\* No callback uses the entry of a launch that was removed, or the handler when
\* it is destroyed, but for launches that have been closed to linger and run
\* their callbacks on their own threads.
CallbacksFindTheirLaunch ==
    strayed \subseteq {l \in Launches : handle[l] = "lingering" /\ ~setup.dispatched}

\* The client of a launch hears what the launch has reported and in that order,
\* also when its output is delayed, and all of it before it hears of the exit.
LaunchesAreTold ==
    \A l \in Launches :
        /\ ~destroyed => IsPrefix(heard[l], reported[l])
        /\ Told(l) => heard[l] = reported[l]

\* When f_BlockOnExit has waited, the clients of all but _nMaxRunning launches
\* have been told of the end, those aside that linger.  With a dispatcher it does
\* not wait for the callbacks, which run on the thread that waits.
BlockedUntilTold ==
    [][ ~setup.dispatched /\ owner.does = "block" /\ owner'.does = "nothing" =>
          Cardinality({l \in ToSet(added) : handle[l] # "lingering" /\ ~Told(l)}) <= setup.most
      ]_handlerVars

\* The owner comes back: from a termination, a removal and its destruction in any
\* case, from f_BlockOnExit when the processes have ended, and from
\* f_WaitForChange when the process ends that f_GetFirstNotDone has found.
\* Excepted is f_BlockOnExit while the list has an entry whose launch could not
\* be made: it does not come back, it calls through the null pointer of it.
Made == \A l \in ToSet(added) : handle[l] # "null"

MustReturn ==
    \/ owner.does \in {"terminate", "linger", "reap", "destroy"}
    \/ owner.does = "block" /\ Made
    \/ owner.does = "pause" /\ Made /\ \A l \in ToSet(added) : child[l] = "gone" \/ Ended(l)
    \/ owner.does = "wait" /\ child[Head(owner.todo)] = "gone"

HandlerReturns == MustReturn ~> owner.does \in {"nothing", "gone"}

HandlerKeepsWord == BlockedUntilTold /\ HandlerReturns
=============================================================================
