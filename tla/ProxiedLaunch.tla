--------------------------- MODULE ProxiedLaunch ---------------------------
(***************************************************************************)
(* Launches that are made by another process, the proxy server             *)
(* (src/Source/Malterlib_Process_ProxiedProcessLaunch.cpp).  The client     *)
(* keeps a state for every launch and sends its requests to the standard   *)
(* input of the server; the server launches the process, closes it as it   *)
(* is told to, and sends what the launch reports back.                     *)
(*                                                                         *)
(* Each side has one dispatch thread with a queue.  The client's queue     *)
(* holds the sends of the owner and what the launch thread of the server   *)
(* process dispatches: its output, one packet an item, and its state       *)
(* changes.  The server's queue holds the packets that its standard input  *)
(* reader dispatches, the launches still to be constructed, and what the   *)
(* threads of its launches dispatch.                                       *)
(*                                                                         *)
(* Not in the model: the connect message and the replies of the server,    *)
(* which have no effect, the decoding of packets, the dispatcher that the  *)
(* owner of a launch may have set, and what ~CInternal of the client does  *)
(* after it has joined its thread: the handlers of the messages that were  *)
(* not answered report that they failed, to owners that have closed.  The  *)
(* two dispatch threads test for their quit once their queue was empty; in *)
(* the model they may leave it after any item, which allows more. The      *)
(* standard output of the server and the thread that reads it keep the     *)
(* order: they are one step. To push an item and to take m_ThreadLock for  *)
(* the signal is one step as long as the lock is free: the threads only    *)
(* differ by it when it is not.                                            *)
(* Operators commented "Slip" are mutations, used in no specification.     *)
(***************************************************************************)
EXTENDS Integers, Sequences, FiniteSets

CONSTANTS
    Launches,      \* the launches a client makes, by their number
    NoLaunch,      \* the launch of a message that is about none
    ClosesWith,    \* the sets of flags an owner closes with
    MaxRequests,   \* bound: stops and inputs sent for each launch
    MaxOutput,     \* bound: chunks of output of each process
    Faults         \* what may go wrong, of {"client", "server", "read"}

CloseFlags == {"Terminate", "Stop", "Block", "Linger"}

ASSUME LaunchesAssumption == NoLaunch \notin Launches
ASSUME ClosesAssumption == ClosesWith \subseteq SUBSET CloseFlags
ASSUME LimitsAssumption == MaxRequests \in Nat /\ MaxOutput \in Nat
ASSUME FaultsAssumption == Faults \subseteq {"client", "server", "read"}

VARIABLES
    \* the client
    client,        \* its life: up, the steps of its destructor, gone or dead
    cq,            \* m_DispatchQueue
    cdo,           \* what its dispatch thread does
    buffered,      \* m_BufferedSendData
    launched,      \* m_bLaunched
    cerror,        \* m_Error is set
    serverExited,  \* m_ServerExited
    cmap,          \* m_LaunchStates
    owner,         \* where the owner of each launch is
    flags,         \* the flags each launch was closed with
    asked,         \* the stops and inputs sent for each launch
    running,       \* the launches with m_bIsRunning
    finished,      \* the launches with m_FinishedEvent signalled
    reports,       \* what the callbacks of each launch were given
    \* the pipe to the server, and the server
    c2s,           \* its standard input
    server,        \* its process
    reader,        \* the thread of its standard input reader
    sq,            \* m_DispatchQueue
    sdo,           \* what its dispatch thread does
    main,          \* ~CProxiedLaunchServer
    disconnect,    \* m_DisconnectEvent
    smap,          \* m_LaunchStates
    handle,        \* m_pLaunch of each state: null, open or closed
    pointer,       \* the states whose mp_pServer is set
    thread,        \* where the thread of each launch is
    written,       \* the chunks each process has written
    process,       \* the launched processes
    kill,          \* the launches closed with TerminateProcess
    released,      \* history: the launches closed on behalf of the client
    ignored        \* history: the requests dropped before the construction

clientVars == <<client, cq, cdo, buffered, launched, cerror, serverExited, cmap,
                owner, flags, asked, running, finished, reports>>
serverVars == <<server, reader, sq, sdo, main, disconnect, smap, handle,
                pointer, thread, written, process, kill, released, ignored>>
vars == <<clientVars, c2s, serverVars>>

dispatchVars == <<cq, cdo, buffered, launched, cerror, serverExited>>
ownerVars == <<cmap, owner, flags, asked, running, finished, reports>>
launchVars == <<handle, pointer, thread, written, process, kill>>
historyVars == <<released, ignored>>

----------------------------------------------------------------------------
(* Messages, queue items and what the threads do.                          *)

States == {"Launched", "LaunchFailed", "Exited"}
Final == {"LaunchFailed", "Exited"}
Reports == States \cup {"Output"}

\* "early" marks a request made before the owner was told Launched.
Message(t, l, f, e) == [type |-> t, launch |-> l, flags |-> f, early |-> e]
Messages == [type : {"Launch", "Request", "Close", "Disconnect", "Reply"},
             launch : Launches \cup {NoLaunch},
             flags : SUBSET CloseFlags,
             early : BOOLEAN]

Send(m) == [item |-> "send", message |-> m]
ServerState(s) == [item |-> "server", state |-> s]
Packet(l, r) == [item |-> "packet", launch |-> l, report |-> r]
ClientItems == [item : {"send"}, message : Messages]
               \cup [item : {"server"},
                     state : {"Launched", "LaunchFailed", "Exited", "Crashed"}]
               \cup [item : {"packet"}, launch : Launches, report : Reports]

Received(m) == [item |-> "received", message |-> m]
Construct(l) == [item |-> "construct", launch |-> l]
Report(l, r) == [item |-> "report", launch |-> l, report |-> r]
InputEnd(why) == [item |-> "end", why |-> why]
ServerItems == [item : {"received"}, message : Messages]
               \cup [item : {"construct"}, launch : Launches]
               \cup [item : {"report"}, launch : Launches, report : Reports]
               \cup [item : {"end"}, why : {"GeneralError", "EndOfFile"}]

\* The dispatch threads: at rest, or in the middle of an item.  "from" is what
\* made the client report, "left" the launches its f_SetError has yet to visit.
ClientDoes(do, l, r, from, left) ==
    [do |-> do, launch |-> l, report |-> r, from |-> from, left |-> left]
ClientIdle == ClientDoes("idle", NoLaunch, "Output", "send", {})
ClientDoing == [do : {"idle", "report", "finish", "reply", "error"},
                launch : Launches \cup {NoLaunch},
                report : Reports \cup {"GeneralError"},
                from : {"send", "packet", "error"},
                left : SUBSET Launches]

\* Slip: the termination is not passed on.
RemoteFlagsSlip(f) == (f \cap {"Stop"}) \cup {"Linger"}

\* f_Close has only some flags for the server, and always lingers there.
RemoteFlags(f) == (f \cap {"Terminate", "Stop"}) \cup {"Linger"}

ClientRuns == client \in {"up", "waiting", "clearing", "joining"}
\* f_SetError holds m_LaunchStatesLock while it reports.
StatesLocked == cdo.from = "error"
\* ~CInternal of the server holds m_ThreadLock while it joins the thread.
ThreadLocked == main = "joining"
\* The thread of a launch that is in f_Dispatch holds a read lock of its state.
HoldsServer(l) == thread[l].at = "held"

\* The memory of each side, as it begins and when it is gone.
ClientFresh ==
    /\ cq = <<>> /\ cdo = ClientIdle
    /\ buffered = <<>> /\ launched = FALSE /\ cerror = FALSE
    /\ serverExited = FALSE
    /\ cmap = {} /\ running = {} /\ finished = {}
    /\ owner = [l \in Launches |-> "none"]
    /\ flags = [l \in Launches |-> {}]
    /\ asked = [l \in Launches |-> 0]
    /\ reports = [l \in Launches |-> <<>>]

ServerFresh ==
    /\ reader = "idle" /\ c2s = <<>> /\ sq = <<>>
    /\ sdo = [do |-> "loop", launch |-> NoLaunch] /\ main = "wait"
    /\ disconnect = FALSE
    /\ smap = {} /\ pointer = {} /\ kill = {}
    /\ handle = [l \in Launches |-> "null"]
    /\ thread = [l \in Launches |-> [at |-> "none", report |-> "Launched"]]
    /\ written = [l \in Launches |-> 0]
    /\ ignored = [l \in Launches |-> {}]

ClientForgets ==
    /\ cq' = <<>> /\ cdo' = ClientIdle
    /\ buffered' = <<>> /\ launched' = FALSE /\ cerror' = FALSE
    /\ serverExited' = FALSE
    /\ cmap' = {} /\ running' = {} /\ finished' = {}
    /\ owner' = [l \in Launches |-> "none"]
    /\ flags' = [l \in Launches |-> {}]
    /\ asked' = [l \in Launches |-> 0]
    /\ reports' = [l \in Launches |-> <<>>]

ServerForgets ==
    /\ reader' = "idle" /\ c2s' = <<>> /\ sq' = <<>>
    /\ sdo' = [do |-> "loop", launch |-> NoLaunch] /\ main' = "wait"
    /\ disconnect' = FALSE
    /\ smap' = {} /\ pointer' = {} /\ kill' = {}
    /\ handle' = [l \in Launches |-> "null"]
    /\ thread' = [l \in Launches |-> [at |-> "none", report |-> "Launched"]]
    /\ written' = [l \in Launches |-> 0]
    /\ ignored' = [l \in Launches |-> {}]

Init ==
    /\ client = "up" /\ ClientFresh
    /\ server = "none" /\ ServerFresh
    /\ process = [l \in Launches |-> "none"]
    /\ released = {}

----------------------------------------------------------------------------
\* What the server writes, and what becomes of its process, goes to the queue
\* of the client.
ToClient(item) == IF ClientRuns THEN cq' = Append(cq, item) ELSE UNCHANGED cq

\* The server process ends, and the threads of its launches with it.
ServerEnds(how, told) ==
    /\ server' = how
    /\ ServerForgets
    /\ ToClient(ServerState(told))
    /\ UNCHANGED <<process, released>>

----------------------------------------------------------------------------
(* The owners of the launches, and the owner of the client.                *)

\* f_SendMessageAsync: the dispatch thread sends it.
SendMessage(m) == cq' = Append(cq, Send(m))

\* The construction of a launch: its state is added ...
AddLaunch(l) ==
    /\ client = "up" /\ owner[l] = "none" /\ ~StatesLocked
    /\ cmap' = cmap \cup {l}
    /\ owner' = [owner EXCEPT ![l] = "added"]
    /\ UNCHANGED <<dispatchVars, flags, asked, running, finished, reports,
                   client, c2s, serverVars>>

\* ... before it is marked as running and its message is sent.
OpenLaunch(l) ==
    /\ client = "up" /\ owner[l] = "added"
    /\ running' = running \cup {l}
    /\ owner' = [owner EXCEPT ![l] = "open"]
    /\ SendMessage(Message("Launch", l, {}, FALSE))
    /\ UNCHANGED <<cdo, buffered, launched, cerror, serverExited, cmap, flags,
                   asked, finished, reports, client, c2s, serverVars>>

ToldLaunched(l) == \E i \in DOMAIN reports[l] : reports[l][i] = "Launched"

\* f_StopProcess, f_SendStdIn, f_CloseStdIn: what they ask for is left out.
Request(l) ==
    /\ client = "up" /\ owner[l] = "open" /\ asked[l] < MaxRequests
    /\ asked' = [asked EXCEPT ![l] = @ + 1]
    /\ SendMessage(Message("Request", l, {}, ~ToldLaunched(l)))
    /\ UNCHANGED <<cdo, buffered, launched, cerror, serverExited, cmap, owner,
                   flags, running, finished, reports, client, c2s, serverVars>>

\* f_Close asks the server only for what ends the process ...
Close(l, f) ==
    /\ client = "up" /\ owner[l] = "open"
    /\ owner' = [owner EXCEPT ![l] = "closing"]
    /\ flags' = [flags EXCEPT ![l] = f]
    /\ IF f \cap {"Terminate", "Stop"} # {}
       THEN SendMessage(Message("Close", l, RemoteFlags(f), ~ToldLaunched(l)))
       ELSE UNCHANGED cq
    /\ UNCHANGED <<cdo, buffered, launched, cerror, serverExited, cmap, asked,
                   running, finished, reports, client, c2s, serverVars>>

\* ... then waits for the end, and forgets the launch.
CloseReturns(l) ==
    /\ client = "up" /\ owner[l] = "closing"
    /\ "Block" \in flags[l] => l \in finished
    /\ IF "Linger" \in flags[l]
       THEN UNCHANGED cmap
       ELSE ~StatesLocked /\ cmap' = cmap \ {l}
    /\ owner' = [owner EXCEPT ![l] = "closed"]
    /\ UNCHANGED <<dispatchVars, flags, asked, running, finished, reports,
                   client, c2s, serverVars>>

\* ~CInternal of the client, which no launch may outlive: it says that it
\* disconnects,
Destroy ==
    /\ client = "up"
    /\ \A l \in Launches : owner[l] \in {"none", "closed"}
    /\ client' = "waiting"
    /\ SendMessage(Message("Disconnect", NoLaunch, {}, FALSE))
    /\ UNCHANGED <<cdo, buffered, launched, cerror, serverExited, ownerVars,
                   c2s, serverVars>>

\* waits for the server to exit,
ServerHasExited ==
    /\ client = "waiting" /\ serverExited
    /\ client' = "clearing"
    /\ UNCHANGED <<dispatchVars, ownerVars, c2s, serverVars>>

\* but no longer than five seconds, after which it terminates the server,
WaitTimesOut ==
    /\ client = "waiting" /\ ~serverExited /\ server # "none"
    /\ client' = "clearing"
    /\ IF server = "up" THEN ServerEnds("killed", "Crashed")
                        ELSE UNCHANGED <<cq, c2s, serverVars>>
    /\ UNCHANGED <<cdo, buffered, launched, cerror, serverExited, ownerVars>>

\* clears m_pServer and takes m_ThreadLock to join the dispatch thread.
ClearServer ==
    /\ client = "clearing"
    /\ client' = "joining"
    /\ UNCHANGED <<dispatchVars, ownerVars, c2s, serverVars>>

\* The dispatch thread as well leaves what it has not taken when it quits.
JoinThread ==
    /\ client = "joining" /\ cdo.do = "idle"
    /\ client' = "gone"
    /\ ClientForgets
    /\ UNCHANGED <<c2s, serverVars>>

\* The process of the client ends in another way.
ClientDies ==
    /\ "client" \in Faults /\ ClientRuns
    /\ client' = "dead"
    /\ ClientForgets
    /\ UNCHANGED <<c2s, serverVars>>

----------------------------------------------------------------------------
(* The dispatch thread of the client.                                      *)

\* m_pServer->f_SendStdIn: what a server that is gone was sent is lost, and so
\* is what is sent while m_pServer is cleared, if the client survives that.
Write(ms) ==
    c2s' = IF server = "up" /\ client \in {"up", "waiting"} THEN c2s \o ms
                                                            ELSE c2s

\* Reports that begin: m_bIsRunning lets one end through.
BeginReport(l, r, from, left) ==
    /\ cdo' = ClientDoes("report", l, r, from, left)
    /\ running' = IF r \in Final THEN running \ {l} ELSE running

NextItem(kind) ==
    /\ ClientRuns /\ cdo.do = "idle" /\ cq # <<>> /\ Head(cq).item = kind

\* Slip: a launch is reported as launched when its message has been sent.
SendItemSlip ==
    /\ NextItem("send")
    /\ ~cerror
    /\ cq' = Tail(cq)
    /\ LET m == Head(cq).message
       IN  /\ IF launched
              THEN Write(<<m>>) /\ UNCHANGED buffered
              ELSE buffered' = Append(buffered, m) /\ UNCHANGED c2s
           /\ cdo' = IF m.type = "Launch"
                     THEN ClientDoes("report", m.launch, "Launched", "send", {})
                     ELSE cdo
    /\ UNCHANGED <<launched, cerror, serverExited, ownerVars, client, serverVars>>

\* A send: written, kept until the server is launched, or failed.
SendItem ==
    /\ NextItem("send")
    /\ ~cerror
    /\ cq' = Tail(cq)
    /\ IF launched
       THEN Write(<<Head(cq).message>>) /\ UNCHANGED buffered
       ELSE buffered' = Append(buffered, Head(cq).message) /\ UNCHANGED c2s
    /\ UNCHANGED <<cdo, launched, cerror, serverExited, ownerVars, client,
                   serverVars>>

\* Slip: a launch that could not be sent is not reported.
FailSendSlip ==
    /\ NextItem("send")
    /\ cerror
    /\ cq' = Tail(cq)
    /\ LET m == Head(cq).message
       IN  IF m.type \in {"Request", "Close"}
           THEN BeginReport(m.launch, "GeneralError", "send", {})
           ELSE UNCHANGED <<cdo, running>>
    /\ UNCHANGED <<buffered, launched, cerror, serverExited, cmap, owner, flags,
                   asked, finished, reports, client, c2s, serverVars>>

\* A send after an error is told to who sent it.
FailSend ==
    /\ NextItem("send")
    /\ cerror
    /\ cq' = Tail(cq)
    /\ LET m == Head(cq).message
           l == m.launch
       IN  CASE m.type = "Launch" /\ l \in running ->
                    BeginReport(l, "LaunchFailed", "send", {})
             [] m.type \in {"Request", "Close"} ->
                    BeginReport(l, "GeneralError", "send", {})
             [] OTHER -> UNCHANGED <<cdo, running>>
    /\ UNCHANGED <<buffered, launched, cerror, serverExited, cmap, owner, flags,
                   asked, finished, reports, client, c2s, serverVars>>

\* The state changes of the server process.  f_SetError is done once.
BeginSetError ==
    /\ cerror' = TRUE
    /\ cdo' = IF cerror THEN ClientDoes("error", NoLaunch, "Output", "error", {})
              ELSE ClientDoes("error", NoLaunch, "Output", "error", cmap)

OnServerState ==
    /\ NextItem("server")
    /\ cq' = Tail(cq)
    /\ LET s == Head(cq).state
       IN  /\ IF s = "Launched"
              THEN launched' = TRUE /\ buffered' = <<>> /\ Write(buffered)
              ELSE UNCHANGED <<launched, buffered, c2s>>
           /\ IF s \in {"LaunchFailed", "Crashed"}
              THEN BeginSetError
              ELSE UNCHANGED <<cerror, cdo>>
           /\ serverExited' = (serverExited \/ s = "Exited")
    /\ UNCHANGED <<ownerVars, client, serverVars>>

\* Slip: a launch that has ended is reported again.
SetErrorOfSlip(l) ==
    /\ ClientRuns /\ cdo.do = "error" /\ l \in cdo.left
    /\ BeginReport(l, "LaunchFailed", "error", cdo.left \ {l})
    /\ UNCHANGED <<cq, buffered, launched, cerror, serverExited, cmap, owner,
                   flags, asked, finished, reports, client, c2s, serverVars>>

\* The loop of f_SetError: every launch that still runs has failed.
SetErrorOf(l) ==
    /\ ClientRuns /\ cdo.do = "error" /\ l \in cdo.left
    /\ IF l \in running
       THEN BeginReport(l, "LaunchFailed", "error", cdo.left \ {l})
       ELSE /\ cdo' = [cdo EXCEPT !.left = @ \ {l}]
            /\ UNCHANGED running
    /\ UNCHANGED <<cq, buffered, launched, cerror, serverExited, cmap, owner,
                   flags, asked, finished, reports, client, c2s, serverVars>>

SetErrorDone ==
    /\ ClientRuns /\ cdo.do = "error" /\ cdo.left = {}
    /\ cdo' = ClientIdle
    /\ serverExited' = TRUE
    /\ UNCHANGED <<cq, buffered, launched, cerror, ownerVars, client, c2s,
                   serverVars>>

\* Every packet is answered, for which f_Dispatch takes m_ThreadLock.  Before
\* the client is destroyed this is of no consequence, and left out.
Replying == IF client = "up" THEN ClientIdle
            ELSE ClientDoes("reply", NoLaunch, "Output", "packet", {})

DoReply ==
    /\ ClientRuns /\ cdo.do = "reply" /\ client # "joining"
    /\ cdo' = ClientIdle
    /\ SendMessage(Message("Reply", NoLaunch, {}, FALSE))
    /\ UNCHANGED <<buffered, launched, cerror, serverExited, ownerVars, client,
                   c2s, serverVars>>

\* Slip: m_FinishedEvent is signalled before the end is reported.
HandlePacketSlip ==
    /\ NextItem("packet")
    /\ cq' = Tail(cq)
    /\ LET l == Head(cq).launch
           r == Head(cq).report
       IN  IF l \in cmap /\ (r \in Final => l \in running)
           THEN /\ BeginReport(l, r, "packet", {})
                /\ finished' = IF r \in Final THEN finished \cup {l} ELSE finished
           ELSE /\ cdo' = Replying
                /\ UNCHANGED <<running, finished>>
    /\ UNCHANGED <<buffered, launched, cerror, serverExited, cmap, owner, flags,
                   asked, reports, client, c2s, serverVars>>

\* A packet of the server: the state of the launch is looked up, and the end
\* of one that is not running is not reported.
HandlePacket ==
    /\ NextItem("packet")
    /\ cq' = Tail(cq)
    /\ LET l == Head(cq).launch
           r == Head(cq).report
       IN  IF l \in cmap /\ (r \in Final => l \in running)
           THEN BeginReport(l, r, "packet", {})
           ELSE /\ cdo' = Replying
                /\ UNCHANGED running
    /\ UNCHANGED <<buffered, launched, cerror, serverExited, cmap, owner, flags,
                   asked, finished, reports, client, c2s, serverVars>>

\* What follows a report: the next launch, the reply, or the next item.
Continue ==
    CASE cdo.from = "error" ->
             ClientDoes("error", NoLaunch, "Output", "error", cdo.left)
      [] cdo.from = "packet" -> Replying
      [] OTHER -> ClientIdle

\* f_ReportStateChange, f_ReportLaunchFailed, f_ReportOutput
DoReport ==
    /\ ClientRuns /\ cdo.do = "report"
    /\ reports' = [reports EXCEPT ![cdo.launch] = Append(@, cdo.report)]
    /\ cdo' = IF cdo.report \in Final THEN [cdo EXCEPT !.do = "finish"]
                                      ELSE Continue
    /\ UNCHANGED <<cq, buffered, launched, cerror, serverExited, cmap, owner,
                   flags, asked, running, finished, client, c2s, serverVars>>

\* m_FinishedEvent
DoFinish ==
    /\ ClientRuns /\ cdo.do = "finish"
    /\ finished' = finished \cup {cdo.launch}
    /\ cdo' = Continue
    /\ UNCHANGED <<cq, buffered, launched, cerror, serverExited, cmap, owner,
                   flags, asked, running, reports, client, c2s, serverVars>>

----------------------------------------------------------------------------
(* The server process, its standard input and its main thread.             *)

StartServer ==
    /\ server = "none" /\ ClientRuns
    /\ server' = "up"
    /\ ToClient(ServerState("Launched"))
    /\ UNCHANGED <<cdo, buffered, launched, cerror, serverExited, ownerVars,
                   client, c2s, reader, sq, sdo, main, disconnect, smap,
                   launchVars, historyVars>>

StartServerFails ==
    /\ "server" \in Faults
    /\ server = "none" /\ ClientRuns
    /\ server' = "failed"
    /\ ToClient(ServerState("LaunchFailed"))
    /\ UNCHANGED <<cdo, buffered, launched, cerror, serverExited, ownerVars,
                   client, c2s, reader, sq, sdo, main, disconnect, smap,
                   launchVars, historyVars>>

ServerDies ==
    /\ "server" \in Faults
    /\ server = "up"
    /\ ServerEnds("killed", "Crashed")
    /\ UNCHANGED <<cdo, buffered, launched, cerror, serverExited, ownerVars,
                   client>>

\* The reader dispatches what it read.  From the moment that ~CInternal of the
\* server has m_ThreadLock, it is held in f_Dispatch.
Read ==
    /\ server = "up" /\ reader = "idle" /\ c2s # <<>>
    /\ c2s' = Tail(c2s)
    /\ sq' = Append(sq, Received(Head(c2s)))
    /\ reader' = IF ThreadLocked THEN "held" ELSE "idle"
    /\ UNCHANGED <<clientVars, server, sdo, main, disconnect, smap, launchVars,
                   historyVars>>

\* It stops at the end of the file, or when it cannot read.
ReadEnd ==
    /\ server = "up" /\ reader = "idle"
    /\ \/ /\ "read" \in Faults
          /\ sq' = Append(sq, InputEnd("GeneralError"))
       \/ /\ ~ClientRuns /\ c2s = <<>>
          /\ sq' = Append(sq, InputEnd("EndOfFile"))
    /\ reader' = IF ThreadLocked THEN "held" ELSE "finished"
    /\ UNCHANGED <<clientVars, c2s, server, sdo, main, disconnect, smap,
                   launchVars, historyVars>>

\* ~CProxiedLaunchServer
DisconnectSeen ==
    /\ server = "up" /\ main = "wait" /\ disconnect
    /\ main' = "joining"
    /\ UNCHANGED <<clientVars, c2s, server, reader, sq, sdo, disconnect, smap,
                   launchVars, historyVars>>

ServerQuits ==
    /\ server = "up" /\ main = "joining" /\ sdo.do = "ended"
    /\ ServerEnds("quit", "Exited")
    /\ UNCHANGED <<cdo, buffered, launched, cerror, serverExited, ownerVars,
                   client>>

----------------------------------------------------------------------------
(* The dispatch thread of the server.                                      *)

ServerNext(kind) ==
    server = "up" /\ sdo.do = "loop" /\ sq # <<>> /\ Head(sq).item = kind

Handling(type) == ServerNext("received") /\ Head(sq).message.type = type

\* Slip: the state of a launch is not added.
HandleLaunchSlip ==
    /\ Handling("Launch") /\ ~ThreadLocked
    /\ LET l == Head(sq).message.launch
       IN  /\ pointer' = pointer \cup {l}
           /\ sq' = Append(Tail(sq), Construct(l))
    /\ UNCHANGED <<clientVars, c2s, server, reader, sdo, main, disconnect, smap,
                   handle, thread, written, process, kill, historyVars>>

\* A launch is added, and its construction dispatched.
HandleLaunch ==
    /\ Handling("Launch") /\ ~ThreadLocked
    /\ LET l == Head(sq).message.launch
       IN  /\ smap' = smap \cup {l}
           /\ pointer' = pointer \cup {l}
           /\ sq' = Append(Tail(sq), Construct(l))
    /\ UNCHANGED <<clientVars, c2s, server, reader, sdo, main, disconnect,
                   handle, thread, written, process, kill, historyVars>>

\* Only a launch that has been constructed and is open is closed.
HandleClose ==
    /\ Handling("Close")
    /\ LET m == Head(sq).message
           l == m.launch
       IN  IF handle[l] = "open"
           THEN /\ handle' = [handle EXCEPT ![l] = "closed"]
                /\ kill' = IF "Terminate" \in m.flags THEN kill \cup {l} ELSE kill
                /\ released' = released \cup {l}
                /\ UNCHANGED ignored
           ELSE /\ ignored' = IF thread[l].at = "none"
                              THEN [ignored EXCEPT ![l] = @ \cup {m.early}]
                              ELSE ignored
                /\ UNCHANGED <<handle, kill, released>>
    /\ sq' = Tail(sq)
    /\ UNCHANGED <<clientVars, c2s, server, reader, sdo, main, disconnect, smap,
                   pointer, thread, written, process>>

\* The same for a stop or for input, which the process may heed or not.
HandleRequest ==
    /\ Handling("Request")
    /\ LET m == Head(sq).message
           l == m.launch
       IN  ignored' = IF thread[l].at = "none"
                      THEN [ignored EXCEPT ![l] = @ \cup {m.early}]
                      ELSE ignored
    /\ sq' = Tail(sq)
    /\ UNCHANGED <<clientVars, c2s, server, reader, sdo, main, disconnect, smap,
                   launchVars, released>>

HandleDisconnect ==
    /\ Handling("Disconnect")
    /\ disconnect' = TRUE
    /\ sq' = Tail(sq)
    /\ UNCHANGED <<clientVars, c2s, server, reader, sdo, main, smap, launchVars,
                   historyVars>>

\* No one waits for an answer.
HandleReply ==
    /\ Handling("Reply")
    /\ sq' = Tail(sq)
    /\ UNCHANGED <<clientVars, c2s, server, reader, sdo, main, disconnect, smap,
                   launchVars, historyVars>>

\* An error of the reader ends the server; the end of the file does not.
OnInputEnd ==
    /\ ServerNext("end")
    /\ disconnect' = (disconnect \/ Head(sq).why = "GeneralError")
    /\ sq' = Tail(sq)
    /\ UNCHANGED <<clientVars, c2s, server, reader, sdo, main, smap, launchVars,
                   historyVars>>

ConstructLaunch ==
    /\ ServerNext("construct")
    /\ LET l == Head(sq).launch
       IN  /\ handle' = [handle EXCEPT ![l] = "open"]
           /\ thread' = [thread EXCEPT ![l].at = "start"]
    /\ sq' = Tail(sq)
    /\ UNCHANGED <<clientVars, c2s, server, reader, sdo, main, disconnect, smap,
                   pointer, written, process, kill, historyVars>>

\* The callbacks of a launch: what it reports is sent to the client, and the
\* launch of a final state is destroyed.
OnReport ==
    /\ ServerNext("report")
    /\ LET l == Head(sq).launch
           r == Head(sq).report
       IN  /\ IF l \in pointer THEN ToClient(Packet(l, r)) ELSE UNCHANGED cq
           /\ sdo' = IF l \in pointer /\ r \in Final
                     THEN [do |-> "destroy", launch |-> l] ELSE sdo
    /\ sq' = Tail(sq)
    /\ UNCHANGED <<cdo, buffered, launched, cerror, serverExited, ownerVars,
                   client, c2s, server, reader, main, disconnect, smap,
                   launchVars, historyVars>>

\* f_Close of a launch that is open joins its thread; once closed it does not.
Joined(l) == handle[l] = "open" => thread[l].at = "over"

DestroyLaunch ==
    /\ server = "up" /\ sdo.do = "destroy" /\ Joined(sdo.launch)
    /\ handle' = [handle EXCEPT ![sdo.launch] = "null"]
    /\ sdo' = [do |-> "loop", launch |-> NoLaunch]
    /\ UNCHANGED <<clientVars, c2s, server, reader, sq, main, disconnect, smap,
                   pointer, thread, written, process, kill, historyVars>>

\* The thread is told to quit, which it tests for before it takes what was put
\* into the queue meanwhile: that may be left.  It clears the launches.
BeginClear ==
    /\ server = "up" /\ sdo.do = "loop" /\ main = "joining"
    /\ sdo' = [do |-> "clear", launch |-> NoLaunch]
    /\ UNCHANGED <<clientVars, c2s, server, reader, sq, main, disconnect, smap,
                   launchVars, historyVars>>

\* f_ClearLaunches: f_SetServer(nullptr) waits for the readers of the state ...
ClearLaunch(l) ==
    /\ server = "up" /\ sdo.do = "clear" /\ l \in pointer /\ ~HoldsServer(l)
    /\ pointer' = pointer \ {l}
    /\ kill' = IF handle[l] = "open" THEN kill \cup {l} ELSE kill
    /\ sdo' = [do |-> "join", launch |-> l]
    /\ UNCHANGED <<clientVars, c2s, server, reader, sq, main, disconnect, smap,
                   handle, thread, written, process, historyVars>>

\* Slip: it is terminated, but not waited for.
LaunchClearedSlip ==
    /\ server = "up" /\ sdo.do = "join"
    /\ handle' = [handle EXCEPT ![sdo.launch] = "null"]
    /\ sdo' = [do |-> "clear", launch |-> NoLaunch]
    /\ UNCHANGED <<clientVars, c2s, server, reader, sq, main, disconnect, smap,
                   pointer, thread, written, process, kill, historyVars>>

\* ... and an open launch is terminated and waited for.
LaunchCleared ==
    /\ server = "up" /\ sdo.do = "join" /\ Joined(sdo.launch)
    /\ handle' = [handle EXCEPT ![sdo.launch] = "null"]
    /\ sdo' = [do |-> "clear", launch |-> NoLaunch]
    /\ UNCHANGED <<clientVars, c2s, server, reader, sq, main, disconnect, smap,
                   pointer, thread, written, process, kill, historyVars>>

\* The reader is destroyed under the lock in which it dispatches.
DestroyReader ==
    /\ server = "up" /\ sdo.do = "clear" /\ pointer = {}
    /\ reader \in {"idle", "finished"}
    /\ reader' = "finished"
    /\ sdo' = [do |-> "ended", launch |-> NoLaunch]
    /\ UNCHANGED <<clientVars, c2s, server, sq, main, disconnect, smap,
                   launchVars, historyVars>>

----------------------------------------------------------------------------
(* The launches of the server (external to this file: they keep the        *)
(* contract of a launch), and the processes they launch.                   *)

ThreadAt(l, at) == server = "up" /\ thread[l].at = at
Goes(l, at, r) == thread' = [thread EXCEPT ![l] = [at |-> at, report |-> r]]

threadRest == <<clientVars, c2s, server, reader, sdo, main, disconnect, smap,
                handle, pointer, kill, historyVars>>

StartProcess(l) ==
    /\ ThreadAt(l, "start")
    /\ process' = [process EXCEPT ![l] = "running"]
    /\ Goes(l, "dispatch", "Launched")
    /\ UNCHANGED <<threadRest, sq, written>>

StartProcessFails(l) ==
    /\ ThreadAt(l, "start")
    /\ process' = [process EXCEPT ![l] = "failed"]
    /\ Goes(l, "dispatch", "LaunchFailed")
    /\ UNCHANGED <<threadRest, sq, written>>

ReadOutput(l) ==
    /\ ThreadAt(l, "run") /\ process[l] = "running" /\ written[l] < MaxOutput
    /\ written' = [written EXCEPT ![l] = @ + 1]
    /\ Goes(l, "dispatch", "Output")
    /\ UNCHANGED <<threadRest, sq, process>>

Reap(l) ==
    /\ ThreadAt(l, "run") /\ process[l] = "dead"
    /\ Goes(l, "dispatch", "Exited")
    /\ UNCHANGED <<threadRest, sq, written, process>>

\* Where the thread is after it has dispatched r.
After(r) == IF r \in Final THEN "over" ELSE "run"

\* m_fDispatcher: a launch without a server dispatches nothing.
NoServer(l) ==
    /\ ThreadAt(l, "dispatch") /\ l \notin pointer
    /\ Goes(l, After(thread[l].report), thread[l].report)
    /\ UNCHANGED <<threadRest, sq, written, process>>

\* f_GetServer reads mp_pServer before it has the lock: it may have read what
\* is about to be cleared.
GetServer(l) ==
    /\ ThreadAt(l, "dispatch") /\ l \in pointer /\ ThreadLocked
    /\ Goes(l, "got", thread[l].report)
    /\ UNCHANGED <<threadRest, sq, written, process>>

\* f_Dispatch pushes, and takes m_ThreadLock with the lock of the state held.
Dispatch(l) ==
    /\ \/ ThreadAt(l, "got")
       \/ ThreadAt(l, "dispatch") /\ l \in pointer
    /\ sq' = Append(sq, Report(l, thread[l].report))
    /\ Goes(l, IF ThreadLocked THEN "held" ELSE After(thread[l].report),
            thread[l].report)
    /\ UNCHANGED <<threadRest, written, process>>

ProcessEnds(l) ==
    /\ process[l] = "running"
    /\ process' = [process EXCEPT ![l] = "dead"]
    /\ UNCHANGED <<clientVars, c2s, server, reader, sq, sdo, main, disconnect,
                   smap, handle, pointer, thread, written, kill, historyVars>>

\* The thread of the launch terminates the process it was told to.
Killed(l) == server = "up" /\ l \in kill /\ ProcessEnds(l)

----------------------------------------------------------------------------
OwnerStep ==
    \/ \E l \in Launches :
          \/ AddLaunch(l) \/ OpenLaunch(l) \/ Request(l) \/ CloseReturns(l)
          \/ \E f \in ClosesWith : Close(l, f)
    \/ Destroy \/ ServerHasExited \/ WaitTimesOut \/ ClearServer \/ JoinThread

ClientStep ==
    \/ SendItem \/ FailSend \/ OnServerState \/ HandlePacket
    \/ DoReport \/ DoFinish \/ DoReply
    \/ SetErrorDone \/ \E l \in Launches : SetErrorOf(l)

ReaderStep == Read \/ ReadEnd

ServerStep ==
    \/ HandleLaunch \/ HandleClose \/ HandleRequest \/ HandleDisconnect
    \/ HandleReply \/ OnInputEnd \/ ConstructLaunch \/ OnReport
    \/ DestroyLaunch \/ BeginClear \/ LaunchCleared \/ DestroyReader
    \/ \E l \in Launches : ClearLaunch(l)

MainStep == DisconnectSeen \/ ServerQuits

ThreadStep(l) ==
    \/ StartProcess(l) \/ StartProcessFails(l) \/ ReadOutput(l) \/ Reap(l)
    \/ NoServer(l) \/ GetServer(l) \/ Dispatch(l)

Next ==
    \/ OwnerStep \/ ClientStep
    \/ StartServer \/ StartServerFails \/ ClientDies \/ ServerDies
    \/ ReaderStep \/ ServerStep \/ MainStep
    \/ \E l \in Launches : ThreadStep(l) \/ ProcessEnds(l)

Spec == Init /\ [][Next]_vars

\* Every thread that can go on does, and what is killed ends.  No owner is
\* assumed to ask, close or destroy anything, and no process to end.
FairSpec ==
    /\ Spec
    /\ WF_vars(ClientStep) /\ WF_vars(StartServer)
    /\ WF_vars(ServerHasExited \/ WaitTimesOut) /\ WF_vars(ClearServer)
    /\ WF_vars(JoinThread)
    /\ WF_vars(Read) /\ WF_vars(ServerStep) /\ WF_vars(MainStep)
    /\ \A l \in Launches :
          /\ WF_vars(OpenLaunch(l)) /\ WF_vars(CloseReturns(l))
          /\ WF_vars(ThreadStep(l)) /\ WF_vars(Killed(l))

----------------------------------------------------------------------------
(* Properties                                                              *)

TypeOK ==
    /\ client \in {"up", "waiting", "clearing", "joining", "gone", "dead"}
    /\ cq \in Seq(ClientItems) /\ cdo \in ClientDoing
    /\ buffered \in Seq(Messages) /\ c2s \in Seq(Messages)
    /\ launched \in BOOLEAN /\ cerror \in BOOLEAN /\ serverExited \in BOOLEAN
    /\ cmap \subseteq Launches /\ running \subseteq Launches
    /\ finished \subseteq Launches
    /\ owner \in [Launches -> {"none", "added", "open", "closing", "closed"}]
    /\ flags \in [Launches -> SUBSET CloseFlags]
    /\ asked \in [Launches -> 0 .. MaxRequests]
    /\ reports \in [Launches -> Seq(Reports \cup {"GeneralError"})]
    /\ server \in {"none", "up", "failed", "killed", "quit"}
    /\ reader \in {"idle", "held", "finished"}
    /\ sq \in Seq(ServerItems)
    /\ sdo \in [do : {"loop", "destroy", "clear", "join", "ended"},
                launch : Launches \cup {NoLaunch}]
    /\ main \in {"wait", "joining"} /\ disconnect \in BOOLEAN
    /\ smap \subseteq Launches /\ pointer \subseteq smap
    /\ kill \subseteq Launches /\ released \subseteq Launches
    /\ handle \in [Launches -> {"null", "open", "closed"}]
    /\ thread \in [Launches -> [at : {"none", "start", "run", "dispatch", "got",
                                      "held", "over"},
                                report : Reports]]
    /\ written \in [Launches -> 0 .. MaxOutput]
    /\ process \in [Launches -> {"none", "running", "dead", "failed"}]
    /\ ignored \in [Launches -> SUBSET BOOLEAN]

\* The end of a launch is reported once, after its output and its start,
\* whichever of the server, its loss and a failed send it is learnt from
\* (m_bIsRunning).  Only errors of requests that could not be sent may follow.
EndIsLast ==
    \A l \in Launches : \A i, j \in DOMAIN reports[l] :
        i < j /\ reports[l][i] \in Final => reports[l][j] = "GeneralError"

\* After a close that waits and does not linger, the callbacks of the launch
\* are not called any more, as long as the server is not lost (f_Close,
\* m_FinishedEvent).  If it is, the close request may fail afterwards.
QuietAfterClose ==
    [][\A l \in Launches :
          owner[l] = "closed" /\ "Block" \in flags[l] /\ ~cerror /\ ClientRuns'
          => reports'[l] = reports[l]]_vars

\* No request made after the owner was told that the process is launched is
\* dropped by the server because it has not constructed the launch.
LateRequestsReachLaunch == \A l \in Launches : FALSE \notin ignored[l]

\* A server that has ended by itself leaves no process running, except one
\* whose launch was closed for its client and lingers (f_ClearLaunches).
NoOrphans ==
    server = "quit" =>
        \A l \in Launches : process[l] = "running" => l \in released

\* A close that terminates and waits returns, also when the server is lost,
\* unless its request came before the launch was constructed on the server, or
\* the server gave up reading requests.
ClosesReturn ==
    \A l \in Launches :
        owner[l] = "closing" /\ "Terminate" \in flags[l] ~>
            \/ owner[l] = "closed" \/ client = "dead"
            \/ TRUE \in ignored[l] \/ reader = "finished" \/ server = "quit"

\* When the server is lost, every launch the client still knows ends (f_SetError,
\* and the failure of the send for a launch that is made at that moment).
LostServerEndsLaunches ==
    \A l \in Launches :
        l \in running \cap cmap /\ server \in {"failed", "killed"} ~>
            l \notin running \cap cmap \/ client # "up"

\* A launch comes to an end for its client, by a close that returns or by the
\* end that is reported for it when the server is lost.
LaunchesComeToAnEnd == ClosesReturn /\ LostServerEndsLaunches

\* "Without a client every launch is terminated" (f_ClearLaunches): when the
\* client is gone or dead, the processes of a server that lives are ended.
LaunchesEndWithoutClient ==
    \A l \in Launches :
        client = "dead" /\ server = "up" /\ process[l] = "running" ~>
            process[l] # "running"

=============================================================================
