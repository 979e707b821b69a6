---------------------------- MODULE LaunchActor ----------------------------
(***************************************************************************)
(* CProcessLaunchActor (src/Source/Malterlib_Process_ProcessLaunchActor.cpp): *)
(* an actor that owns a launch.  The launch thread calls it back with what *)
(* LaunchContract promises; the actor hands that on to its client, collects *)
(* the output in lines, and answers who has asked it to stop the process.  *)
(*                                                                         *)
(* What the callbacks dispatch to the actor goes through "mail", in order; *)
(* a call of the actor is handled in one step at any moment.  The text of  *)
(* an output is numbered in the order in which it was written, so that a   *)
(* piece of it is an interval.  Not in the model: logging, the filters of  *)
(* subclasses, exit codes, statistics, and a process ID that was reused.   *)
(* Operators commented "Slip" are mutations, used in no specification.     *)
(***************************************************************************)
EXTENDS Integers, Sequences, FiniteSets, SequencesExt

CONSTANTS
    Callers,     \* those that ask for the process to be stopped, once each
    OutputKind,  \* the kinds of output
    MaxText,     \* bound: characters of each kind
    MaxSends,    \* bound: sends to the standard input, and what is forwarded
    Configs,     \* the launches to consider, and what is done with them
    StopsMayFail \* a signal may be refused

Stop == {"Process", "ProcessGroup", "TerminateProcessTree"}   \* EStop

ASSUME ActorAssumption ==
    /\ MaxText \in Nat /\ MaxSends \in Nat /\ StopsMayFail \in BOOLEAN
    /\ IsFiniteSet(OutputKind)
    /\ OutputKind \cap {"Launched", "LaunchFailed", "Exited"} = {}
    /\ "fp_Destroy" \notin Callers
    /\ Configs \subseteq [tree : BOOLEAN, group : BOOLEAN, lines : BOOLEAN,
                          simple : BOOLEAN, text : 0 .. MaxText,
                          sends : 0 .. MaxSends, stops : SUBSET Stop]

VARIABLES
    config,    \* the tree flag of m_DestructFlags, m_bWholeLineOutput, ...
    launch,    \* m_pProcessLaunch, and whether it has been closed
    process,   \* the process
    doomed,    \* it was sent SIGKILL
    children,  \* what descendants of it hold
    signals,   \* the stops that have reached the process or its group
    reports,   \* what the launch thread has called back with
    over,      \* it calls back no more
    made,      \* the text of each kind that was read from the process
    ends,      \* the line ends in it
    passed,    \* what of it has been dispatched to the actor
    parsed,    \* m_OutputBuffersParsedChars
    mail,      \* what is dispatched to the actor
    running,   \* m_bProcessRunning
    exited,    \* m_bProcessExited
    pending,   \* m_PendingProcessStops
    answer,    \* what each caller has got
    hooked,    \* the client's functors are there
    told,      \* the client: reports it has got
    got,       \* the client: the text of each kind it has got
    asked,     \* sends: that have been asked for,
    started,   \* that are on a blocking thread,
    finished,  \* and that are done
    actor,     \* how far the destruction of the actor is
    refused,   \* history: a stop has failed
    simple     \* CState of f_LaunchSimple

worldVars == <<process, doomed, children, signals>>
threadVars == <<reports, over, made, ends, passed, parsed>>
stopVars == <<running, exited, pending, answer>>
clientVars == <<hooked, told, got>>
sendVars == <<asked, started, finished>>
vars == <<config, launch, worldVars, threadVars, mail, stopVars, clientVars,
          sendVars, actor, refused, simple>>

Destroyer == "fp_Destroy"                 \* waits like a caller
Waiters == Callers \cup {Destroyer}
Final == {"Exited", "LaunchFailed"}

Contract == INSTANCE LaunchContract

Init ==
    /\ config \in Configs
    /\ launch = "none"
    /\ process = "none" /\ doomed = FALSE /\ children = {} /\ signals = {}
    /\ Contract!Init
    /\ made = [k \in OutputKind |-> 0]
    /\ ends = [k \in OutputKind |-> {}]
    /\ passed = made /\ parsed = made
    /\ mail = <<>>
    /\ running = FALSE /\ exited = FALSE /\ pending = {}
    /\ answer = [c \in Waiters |-> "unasked"]
    /\ hooked = FALSE /\ told = <<>> /\ got = made
    /\ asked = 0 /\ started = 0 /\ finished = 0
    /\ actor = "alive" /\ refused = FALSE
    /\ simple = [stdin |-> "closed", read |-> 0, sent |-> 0,
                 launched |-> FALSE, promise |-> "unset"]

----------------------------------------------------------------------------
(* The launch: f_Launch, and f_LaunchSimple around it.                     *)

\* CProcessLaunch is constructed, or its constructor throws.
Launch ==
    /\ actor = "alive" /\ launch = "none"
    /\ launch' \in {"open", "threw"}
    /\ hooked' = TRUE
    /\ UNCHANGED <<config, worldVars, threadVars, mail, stopVars, told, got,
                   sendVars, actor, refused, simple>>

\* ESimpleLaunchFlag_ForwardStdInput: the input is opened before the launch.
OpenStdIn ==
    /\ config.simple /\ actor = "alive" /\ launch = "none"
    /\ simple.stdin = "closed"
    /\ simple' = [simple EXCEPT !.stdin = "opening"]
    /\ UNCHANGED <<config, launch, worldVars, threadVars, mail, stopVars,
                   clientVars, sendVars, actor, refused>>

\* The reader answers; its subscription is kept while there is no result.
StdInOpened ==
    /\ actor # "gone" /\ simple.stdin = "opening"
    /\ simple' = [simple EXCEPT !.stdin = IF simple.promise = "unset" THEN "open"
                                                                       ELSE "closed"]
    /\ UNCHANGED <<config, launch, worldVars, threadVars, mail, stopVars,
                   clientVars, sendVars, actor, refused>>

\* fSendStdInBuffer, once there is a process: what is in m_StdInBuffer is sent.
SendStdInBuffer(s) ==
    /\ simple' = IF s.launched THEN [s EXCEPT !.sent = s.read] ELSE s
    /\ asked' = IF s.launched /\ s.sent < s.read THEN asked + 1 ELSE asked

ForwardInput ==
    /\ actor # "gone" /\ simple.stdin \in {"opening", "open"} /\ simple.read < config.sends
    /\ SendStdInBuffer([simple EXCEPT !.read = @ + 1])
    /\ UNCHANGED <<config, launch, worldVars, threadVars, mail, stopVars,
                   clientVars, started, finished, actor, refused>>

----------------------------------------------------------------------------
(* The launch thread, which keeps LaunchContract.                          *)

\* ThisWeak.f_Lock and the dispatch: nothing arrives at an actor that is gone.
Dispatch(items) == mail' = IF actor = "gone" THEN mail ELSE mail \o items

State(s) == [do |-> "state", kind |-> s, from |-> 0, to |-> 0]
Text(k, a, b) == [do |-> "output", kind |-> k, from |-> a, to |-> b]

\* The piece of the buffer that f_ProcessOutput dispatches, if any.
Piece(k, b) == IF b > passed[k] THEN <<Text(k, passed[k] + 1, b)>> ELSE <<>>

\* Slip: only what ends a line is passed on.
FlushOutputLines ==
    /\ passed' = passed
    /\ parsed' = [k \in OutputKind |-> 0]

\* CState::f_FlushOutput
FlushOutput ==
    /\ passed' = made
    /\ parsed' = [k \in OutputKind |-> 0]

\* The kinds with something left are flushed one after the other.
Flushed ==
    LET late == SetToSeq({k \in OutputKind : passed'[k] > passed[k]})
    IN  [i \in DOMAIN late |-> Text(late[i], passed[late[i]] + 1, passed'[late[i]])]

ReportLaunched ==
    /\ launch = "open" /\ reports = <<>>
    /\ Contract!Report("Launched")
    /\ process' = "running"
    /\ Dispatch(<<State("Launched")>>)
    /\ UNCHANGED <<config, launch, doomed, children, signals, made, ends, passed,
                   parsed, stopVars, clientVars, sendVars, actor, refused, simple>>

ReportLaunchFailed ==
    /\ launch = "open" /\ reports = <<>>
    /\ Contract!Report("LaunchFailed")
    /\ FlushOutput
    /\ Dispatch(Flushed \o <<State("LaunchFailed")>>)
    /\ UNCHANGED <<config, launch, worldVars, made, ends, stopVars, clientVars,
                   sendVars, actor, refused, simple>>

\* m_fOnOutput: text of kind k is read up to n, of which e are line ends, and
\* f_ProcessOutput passes on the whole lines, or everything.
ReportOutput(k, n, e) ==
    LET found == {p \in ends'[k] : p > passed[k] + parsed[k]}
        upTo == IF config.lines
                THEN IF found = {} THEN passed[k] ELSE CHOOSE p \in found : \A q \in found : q <= p
                ELSE n
    IN  /\ process # "none" /\ made[k] < n /\ e \subseteq made[k] + 1 .. n
        /\ process = "running" \/ "output" \in children
        /\ Contract!Report(k)
        /\ made' = [made EXCEPT ![k] = n]
        /\ ends' = [ends EXCEPT ![k] = @ \cup e]
        /\ passed' = [passed EXCEPT ![k] = upTo]
        /\ parsed' = [parsed EXCEPT ![k] = IF upTo = passed[k] THEN n - passed[k] ELSE 0]
        /\ Dispatch(Piece(k, upTo))
        /\ UNCHANGED <<config, launch, worldVars, stopVars, clientVars, sendVars,
                       actor, refused, simple>>

\* Slip: the state is dispatched before the rest of the output.
ReportExitedFirst ==
    /\ process = "gone" /\ "output" \notin children
    /\ Contract!Report("Exited")
    /\ FlushOutput
    /\ Dispatch(<<State("Exited")>> \o Flushed)
    /\ UNCHANGED <<config, launch, worldVars, made, ends, stopVars, clientVars,
                   sendVars, actor, refused, simple>>

\* The exit is reported when the output is at its end.
ReportExited ==
    /\ process = "gone" /\ "output" \notin children
    /\ Contract!Report("Exited")
    /\ FlushOutput
    /\ Dispatch(Flushed \o <<State("Exited")>>)
    /\ UNCHANGED <<config, launch, worldVars, made, ends, stopVars, clientVars,
                   sendVars, actor, refused, simple>>

----------------------------------------------------------------------------
(* The process and its descendants.                                        *)

Fork ==
    /\ process = "running" /\ ~doomed /\ children = {}
    /\ children' \in SUBSET {"stdin", "output"} \ {{}}
    /\ UNCHANGED <<config, launch, process, doomed, signals, threadVars, mail,
                   stopVars, clientVars, sendVars, actor, refused, simple>>

Exit ==
    /\ process = "running"
    /\ process' = "gone"
    /\ UNCHANGED <<config, launch, doomed, children, signals, threadVars, mail,
                   stopVars, clientVars, sendVars, actor, refused, simple>>

ChildExits ==
    /\ children # {}
    /\ children' = {}
    /\ UNCHANGED <<config, launch, process, doomed, signals, threadVars, mail,
                   stopVars, clientVars, sendVars, actor, refused, simple>>

\* CInternal::f_Stop.  The descendants of a process that has exited are found
\* by their process group only.
RunStops(stops) ==
    LET tree == "TerminateProcessTree" \in stops
    IN  /\ signals' = signals \cup stops
        /\ doomed' = (doomed \/ (tree /\ process = "running"))
        /\ children' = IF tree /\ (process = "running" \/ config.group) THEN {}
                                                                       ELSE children

\* It throws when there is no process to signal, or the signal is refused.
MayFail(stop) ==
    StopsMayFail \/ (process = "gone" /\ stop # "TerminateProcessTree")

----------------------------------------------------------------------------
(* The actor: what is dispatched to it.                                    *)

\* f_CallDiscard of a functor: the client of a simple launch is the actor.
Tell(item) ==
    IF ~hooked THEN mail' = Tail(mail) /\ UNCHANGED <<told, got>>
    ELSE IF config.simple
    THEN mail' = Append(Tail(mail), [item EXCEPT !.do = "tell"]) /\ UNCHANGED <<told, got>>
    ELSE /\ mail' = Tail(mail)
         /\ told' = Append(told, item.kind)
         /\ got' = IF item.do = "output" THEN [got EXCEPT ![item.kind] = item.to] ELSE got

HandleOutput ==
    /\ actor # "gone" /\ mail # <<>> /\ Head(mail).do = "output"
    /\ Tell(Head(mail))
    /\ UNCHANGED <<config, launch, worldVars, threadVars, stopVars, hooked,
                   sendVars, actor, refused, simple>>

\* Slip: a stop that was asked for before the launch only waits.
ApplyPendingLater == UNCHANGED <<signals, doomed, children, answer, pending, refused>>

\* The stops that were asked for before the process was there are run, or fail.
ApplyPending ==
    LET waiting == {p \in pending : ~p.run}
    IN  \E failed \in SUBSET {p \in waiting : MayFail(p.stop)} :
           /\ pending' = {p \in pending : p.run}
                             \cup {[p EXCEPT !.run = TRUE] : p \in waiting \ failed}
           /\ answer' = [c \in Waiters |-> IF \E p \in failed : p.who = c THEN "error"
                                                                        ELSE answer[c]]
           /\ RunStops({p.stop : p \in waiting \ failed})
           /\ refused' = (refused \/ failed # {})

HandleLaunched ==
    /\ actor # "gone" /\ mail # <<>> /\ Head(mail) = State("Launched")
    /\ Tell(Head(mail))
    /\ running' = TRUE
    /\ ApplyPending
    /\ UNCHANGED <<config, launch, process, threadVars, exited, hooked, sendVars,
                   actor, simple>>

\* Slip: those that wait are not told.
AnswerNobody == UNCHANGED <<pending, answer>>

AnswerPending ==
    /\ pending' = {}
    /\ answer' = [c \in Waiters |-> IF \E p \in pending : p.who = c THEN "exit"
                                                                 ELSE answer[c]]

HandleEnd ==
    /\ actor # "gone" /\ mail # <<>> /\ Head(mail).do = "state"
    /\ Head(mail).kind \in Final
    /\ Tell(Head(mail))
    /\ AnswerPending
    /\ exited' = TRUE
    /\ UNCHANGED <<config, launch, worldVars, threadVars, running, hooked,
                   sendVars, actor, refused, simple>>

\* The subscription that f_Launch has returned is dropped, and its closure run.
Unsubscribe ==
    /\ actor = "alive" /\ hooked /\ ~config.simple
    /\ hooked' = FALSE
    /\ UNCHANGED <<config, launch, worldVars, threadVars, mail, stopVars, told, got,
                   sendVars, actor, refused, simple>>

\* The callbacks of f_LaunchSimple.
HandleTell ==
    /\ actor # "gone" /\ mail # <<>> /\ Head(mail).do = "tell"
    /\ mail' = Tail(mail)
    /\ LET item == Head(mail)
       IN  /\ told' = Append(told, item.kind)
           /\ got' = IF item.kind \in OutputKind THEN [got EXCEPT ![item.kind] = item.to]
                                                 ELSE got
           /\ hooked' = (hooked /\ item.kind \notin Final)
           /\ CASE item.kind = "Launched" ->
                     SendStdInBuffer([simple EXCEPT !.launched = TRUE])
                [] item.kind \in Final ->
                     /\ simple' = [simple EXCEPT
                           !.stdin = IF @ = "open" THEN "closed" ELSE @,
                           !.promise = IF item.kind = "Exited" THEN "result" ELSE "error"]
                     /\ UNCHANGED asked
                [] OTHER -> UNCHANGED <<simple, asked>>
    /\ UNCHANGED <<config, launch, worldVars, threadVars, stopVars, started, finished, actor, refused>>

----------------------------------------------------------------------------
(* The actor: what it is called with.                                      *)

\* fp_StopProcess
CallStop(c, stop) ==
    /\ actor = "alive" /\ answer[c] = "unasked"
    /\ \/ launch # "open"
          /\ answer' = [answer EXCEPT ![c] = "idle"]
          /\ UNCHANGED <<signals, doomed, children, pending, refused>>
       \/ /\ launch = "open" /\ exited
          /\ answer' = [answer EXCEPT ![c] = "exit"]
          /\ RunStops({stop} \cap {"TerminateProcessTree"})
          /\ UNCHANGED <<pending, refused>>
       \/ /\ launch = "open" /\ (exited \/ running) /\ MayFail(stop)
          /\ exited => stop = "TerminateProcessTree"
          /\ answer' = [answer EXCEPT ![c] = "error"]
          /\ refused' = TRUE
          /\ UNCHANGED <<signals, doomed, children, pending>>
       \/ /\ launch = "open" /\ ~exited
          /\ pending' = pending \cup {[who |-> c, stop |-> stop, run |-> running]}
          /\ answer' = [answer EXCEPT ![c] = "waiting"]
          /\ RunStops(IF running THEN {stop} ELSE {})
          /\ UNCHANGED refused
    /\ UNCHANGED <<config, launch, process, threadVars, mail, running, exited,
                   clientVars, sendVars, actor, simple>>

\* f_SendStdIn, f_SendStdInBinary and f_CloseStdIn: f_RunBlocking.
Send ==
    /\ actor = "alive" /\ ~config.simple /\ launch = "open" /\ asked < config.sends
    /\ asked' = asked + 1
    /\ UNCHANGED <<config, launch, worldVars, threadVars, mail, stopVars, clientVars,
                   started, finished, actor, refused, simple>>

\* m_SendSequencer lets one of them go to a blocking thread at a time,
StartSend ==
    /\ actor \in {"alive", "stopping"} /\ started = finished /\ started < asked
    /\ started' = started + 1
    /\ UNCHANGED <<config, launch, worldVars, threadVars, mail, stopVars, clientVars,
                   asked, finished, actor, refused, simple>>

\* where it is blocked for as long as someone could read and does not.
FinishSend ==
    /\ finished < started
    /\ finished' = finished + 1
    /\ UNCHANGED <<config, launch, worldVars, threadVars, mail, stopVars, clientVars,
                   asked, started, actor, refused, simple>>

NoReader == process # "running" /\ "stdin" \notin children

\* The actor is deleted: the promises it holds are given up.
Delete ==
    /\ actor' = "gone"
    /\ mail' = <<>> /\ pending' = {} /\ hooked' = FALSE /\ asked' = started
    /\ answer' = [c \in Waiters |-> IF answer[c] = "waiting" THEN "lost" ELSE answer[c]]

\* fp_Destroy when there is nothing to wait for: descendants can still be left,
DestroyIdle ==
    /\ actor = "alive" /\ (launch # "open" \/ exited)
    /\ RunStops(IF launch = "open" /\ config.tree THEN {"TerminateProcessTree"} ELSE {})
    /\ Delete
    /\ UNCHANGED <<config, launch, process, threadVars, running, exited, told, got,
                   started, finished, refused, simple>>

DestroyStop == IF config.tree THEN "TerminateProcessTree" ELSE "Process"

\* when the process cannot be stopped,
DestroyFails ==
    /\ actor = "alive" /\ launch = "open"
    /\ \/ exited /\ config.tree
       \/ ~exited /\ running
    /\ MayFail(DestroyStop)
    /\ Delete
    /\ refused' = TRUE
    /\ UNCHANGED <<config, launch, worldVars, threadVars, running, exited, told, got,
                   started, finished, simple>>

\* and when it is stopped, now or once it has started, and waited for;
Destroy ==
    /\ actor = "alive" /\ launch = "open" /\ ~exited
    /\ RunStops(IF running THEN {DestroyStop} ELSE {})
    /\ pending' = pending \cup {[who |-> Destroyer, stop |-> DestroyStop, run |-> running]}
    /\ answer' = [answer EXCEPT ![Destroyer] = "waiting"]
    /\ actor' = "stopping"
    /\ UNCHANGED <<config, launch, process, threadVars, mail, running, exited,
                   clientVars, sendVars, refused, simple>>

\* Slip: the send that is going on is not counted.
DestroySequencerAll ==
    /\ actor = "stopping" /\ answer[Destroyer] = "exit"
    /\ actor' = "sends"
    /\ asked' = finished
    /\ UNCHANGED <<config, launch, worldVars, threadVars, mail, stopVars, clientVars,
                   started, finished, refused, simple>>

\* then the sequencer is destroyed, and waits for the send that is going on.
DestroySequencer ==
    /\ actor = "stopping" /\ answer[Destroyer] = "exit"
    /\ actor' = "sends"
    /\ asked' = started
    /\ UNCHANGED <<config, launch, worldVars, threadVars, mail, stopVars, clientVars,
                   started, finished, refused, simple>>

Destroyed ==
    /\ \/ actor = "sends" /\ started = finished
       \/ actor = "stopping" /\ answer[Destroyer] = "error"
    /\ Delete
    /\ UNCHANGED <<config, launch, worldVars, threadVars, running, exited, told, got,
                   started, finished, refused, simple>>

\* ~CProcessLaunch, when neither the actor nor a send holds the launch.
CloseLaunch ==
    /\ actor = "gone" /\ launch = "open" /\ started = finished
    /\ launch' = "closed"
    /\ RunStops({DestroyStop})
    /\ UNCHANGED <<config, process, threadVars, mail, stopVars, clientVars, sendVars,
                   actor, refused, simple>>

----------------------------------------------------------------------------
ThreadStep ==
    \/ ReportLaunched \/ ReportLaunchFailed \/ ReportExited
    \/ \E k \in OutputKind : \E n \in 1 .. config.text : \E e \in SUBSET (1 .. config.text) :
          ReportOutput(k, n, e)

ActorStep ==
    \/ HandleOutput \/ HandleLaunched \/ HandleEnd \/ HandleTell
    \/ DestroySequencer \/ Destroyed \/ StartSend

ClientStep ==
    \/ Launch \/ OpenStdIn \/ ForwardInput \/ Unsubscribe \/ Send
    \/ DestroyIdle \/ DestroyFails \/ Destroy
    \/ \E c \in Callers, stop \in config.stops : CallStop(c, stop)

WorldStep == Fork \/ Exit \/ ChildExits \/ (FinishSend /\ ~NoReader) \/ StdInOpened

Next ==
    \/ ThreadStep \/ ActorStep \/ ClientStep \/ WorldStep \/ CloseLaunch
    \/ FinishSend /\ NoReader

Spec == Init /\ [][Next]_vars

\* The threads and the actor go on, a process that was killed ends, and a write
\* that nobody can read fails.
Fairness ==
    /\ WF_vars(ReportLaunched \/ ReportLaunchFailed) /\ WF_vars(ReportExited)
    /\ WF_vars(ActorStep) /\ WF_vars(CloseLaunch)
    /\ WF_vars(doomed /\ Exit) /\ WF_vars(FinishSend /\ NoReader)

FairSpec == Spec /\ Fairness

----------------------------------------------------------------------------
(* Properties                                                              *)

Text0 == 0 .. MaxText
Item == [do : {"state", "output", "tell"}, kind : OutputKind \cup Final \cup {"Launched"},
         from : Text0, to : Text0]

TypeOK ==
    /\ config \in Configs
    /\ launch \in {"none", "open", "threw", "closed"}
    /\ process \in {"none", "running", "gone"} /\ doomed \in BOOLEAN
    /\ children \subseteq {"stdin", "output"} /\ signals \subseteq Stop
    /\ reports \in Seq(OutputKind \cup Final \cup {"Launched"}) /\ over \in BOOLEAN
    /\ made \in [OutputKind -> Text0] /\ ends \in [OutputKind -> SUBSET (1 .. MaxText)]
    /\ passed \in [OutputKind -> Text0] /\ parsed \in [OutputKind -> Text0]
    /\ mail \in Seq(Item)
    /\ running \in BOOLEAN /\ exited \in BOOLEAN
    /\ pending \subseteq [who : Waiters, stop : Stop, run : BOOLEAN]
    /\ answer \in [Waiters -> {"unasked", "waiting", "idle", "exit", "error", "lost"}]
    /\ hooked \in BOOLEAN /\ told \in Seq(OutputKind \cup Final \cup {"Launched"})
    /\ got \in [OutputKind -> Text0]
    /\ asked \in Nat /\ started \in 0 .. asked /\ finished \in 0 .. started
    /\ actor \in {"alive", "stopping", "sends", "gone"} /\ refused \in BOOLEAN
    /\ simple \in [stdin : {"closed", "opening", "open"}, read : 0 .. MaxSends,
                    sent : 0 .. MaxSends, launched : BOOLEAN,
                    promise : {"unset", "result", "error"}]

\* What the client of the actor gets is what a launch promises too: how it went,
\* output, how it ended, nothing after that or after the subscription is gone.
ClientOver == told # <<>> /\ (Last(told) \in Final \/ ~hooked)
Client == INSTANCE LaunchContract WITH reports <- told, over <- ClientOver
KeepsContract == Client!Spec

\* The pieces of text of a kind that are on their way to the client, and which of
\* two dispatches comes first: those that a simple launch has been told of.
Pieces(k) == {i \in DOMAIN mail : mail[i].do # "state" /\ mail[i].kind = k}
Before(i, j) ==
    IF (mail[i].do = "tell") = (mail[j].do = "tell") THEN i < j ELSE mail[i].do = "tell"

\* f_ProcessOutput and f_FlushOutput lose, repeat and reorder no text: what has been
\* passed on and the client does not have is in a piece, pieces are in order and
\* have nothing in common, and the client has all when it hears of the end.  A
\* piece ends with a line, but for the last one, and a whole line is not kept back.
OutputIsWhole ==
    \A k \in OutputKind :
        /\ hooked /\ actor # "gone" => \A c \in 1 .. passed[k] :
              c <= got[k] \/ \E i \in Pieces(k) : c \in mail[i].from .. mail[i].to
        /\ \A i \in Pieces(k) : got[k] < mail[i].from /\ mail[i].to <= passed[k]
        /\ \A i, j \in Pieces(k) : Before(i, j) => mail[i].to < mail[j].from
        /\ told # <<>> /\ Last(told) = "Exited" => got[k] = made[k]
        /\ config.lines =>
             /\ \A i \in Pieces(k) : mail[i].to \in ends[k] \/ (over /\ mail[i].to = made[k])
             /\ \A p \in ends[k] : p <= passed[k]

\* A stop that a caller waits for is run when the process has been launched, no
\* caller is told of an exit before there was one, and none is left waiting when
\* the actor knows of the end.
StopsAreServed ==
    /\ running => \A p \in pending : p.run /\ p.stop \in signals
    /\ \A c \in Waiters : answer[c] = "exit" => over
    /\ \A c \in Waiters : answer[c] = "waiting" <=> \E p \in pending : p.who = c
    /\ exited => pending = {}

\* Who waits for the end is answered; and when the actor is destroyed to terminate
\* the tree of a process group, nothing it has started keeps the launch.
CallsReturn ==
    /\ \A c \in Waiters : answer[c] = "waiting" /\ over ~> answer[c] # "waiting"
    /\ actor # "alive" /\ launch = "open" /\ config.tree /\ config.group
          ~> launch = "closed" \/ refused
=============================================================================
