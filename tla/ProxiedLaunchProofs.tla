------------------------- MODULE ProxiedLaunchProofs -------------------------
(***************************************************************************)
(* Theorems about ProxiedLaunch for every value of its constants: its      *)
(* types, that no process is orphaned, that the end of a launch is its     *)
(* last report, that a close which waited is followed by silence, and that *)
(* requests made late enough reach the launch.  First what queues hold and *)
(* in which order; then the invariant, and lemmas that sort the steps by   *)
(* what they do to the queues and to the client's reports.                 *)
(***************************************************************************)
EXTENDS ProxiedLaunch, SequenceTheorems, TLAPS

-----------------------------------------------------------------------------
(* What is in a queue, and what comes in it after what.                    *)

Items(s) == {s[i] : i \in DOMAIN s}
NothingAfter(s, A, B) == \A i, j \in DOMAIN s : i < j /\ s[i] \in A => s[j] \notin B

-----------------------------------------------------------------------------
(* The inductive invariant.                                                *)

(* The types that the messages really have: all but a disconnect and a     *)
(* reply are about a launch, and there is one that opens it.               *)
AboutLaunch == {"Launch", "Request", "Close"}
LaunchMsg(l) == Message("Launch", l, {}, FALSE)
Msgs   == {m \in Messages : /\ m.type \in AboutLaunch => m.launch \in Launches
                            /\ m.type = "Launch" => m = LaunchMsg(m.launch)}
CItems == [item : {"send"}, message : Msgs]
          \cup [item : {"server"}, state : {"Launched", "LaunchFailed", "Exited", "Crashed"}]
          \cup [item : {"packet"}, launch : Launches, report : Reports]
SItems == [item : {"received"}, message : Msgs]
          \cup [item : {"construct"}, launch : Launches]
          \cup [item : {"report"}, launch : Launches, report : Reports]
          \cup [item : {"end"}, why : {"GeneralError", "EndOfFile"}]

QueueT == /\ cq \in Seq(CItems) /\ sq \in Seq(SItems)
          /\ buffered \in Seq(Msgs) /\ c2s \in Seq(Msgs)
DoT    == /\ cdo \in ClientDoing /\ (cdo.do \in {"report", "finish"} => cdo.launch \in Launches)
          /\ sdo \in [do : {"loop", "destroy", "clear", "join", "ended"},
                      launch : Launches \cup {NoLaunch}]
          /\ sdo.do \in {"destroy", "join"} => sdo.launch \in Launches
ClientT == /\ client \in {"up", "waiting", "clearing", "joining", "gone", "dead"}
           /\ launched \in BOOLEAN /\ cerror \in BOOLEAN /\ serverExited \in BOOLEAN
OwnerT == /\ cmap \subseteq Launches /\ running \subseteq Launches /\ finished \subseteq Launches
          /\ owner \in [Launches -> {"none", "added", "open", "closing", "closed"}]
          /\ flags \in [Launches -> SUBSET CloseFlags]
          /\ asked \in [Launches -> 0 .. MaxRequests]
          /\ reports \in [Launches -> Seq(Reports \cup {"GeneralError"})]
ServerT == /\ server \in {"none", "up", "failed", "killed", "quit"}
           /\ reader \in {"idle", "held", "finished"}
           /\ main \in {"wait", "joining"} /\ disconnect \in BOOLEAN
           /\ smap \subseteq Launches /\ pointer \subseteq smap
           /\ kill \subseteq Launches /\ released \subseteq Launches
           /\ handle \in [Launches -> {"null", "open", "closed"}]
           /\ ignored \in [Launches -> SUBSET BOOLEAN]
ThreadT == /\ thread \in [Launches -> [at : {"none", "start", "run", "dispatch", "got", "held",
                                             "over"}, report : Reports]]
           /\ written \in [Launches -> 0 .. MaxOutput]
           /\ process \in [Launches -> {"none", "running", "dead", "failed"}]
TypeInv == QueueT /\ DoT /\ ClientT /\ OwnerT /\ ServerT /\ ThreadT

(* A server that is not up has forgotten everything, and one that has not  *)
(* been started has started nothing.                                       *)
Constructed(l) == thread[l].at # "none"
FreshInv ==
  /\ server # "up" => /\ c2s = <<>> /\ sq = <<>> /\ pointer = {} /\ sdo.do = "loop"
                     /\ \A l \in Launches : ~Constructed(l) /\ handle[l] = "null"
  /\ server = "none" => \A l \in Launches : process[l] = "none"

(* Of what a server that is up has launched, that runs which has a handle  *)
(* that is open, or has been closed for its client.                        *)
Clearing(l) == sdo.do = "join" /\ sdo.launch = l
Over(l)     == \/ thread[l].at = "over"
               \/ thread[l].at \in {"dispatch", "got", "held"} /\ thread[l].report \in Final
OrphanOf(l) ==
  /\ handle[l] = "null" => \/ l \in released
                           \/ process[l] # "running" /\ thread[l].at \in {"none", "over"}
  /\ handle[l] = "closed" => l \in released
  /\ handle[l] = "open" => l \in pointer \/ Clearing(l)
  /\ sdo.do \in {"loop", "destroy"} /\ Construct(l) \in Items(sq) => l \in pointer
  /\ ~Constructed(l) \/ Over(l) => process[l] # "running"
OrphanInv ==
  /\ server = "up" => \A l \in Launches : OrphanOf(l)
  /\ server = "up" /\ sdo.do = "ended" => pointer = {}
  /\ NoOrphans

(* The message that opens a launch is in one place, or has been followed.  *)
Sent(l)       == Send(LaunchMsg(l)) \in Items(cq)
Buffered(l)   == LaunchMsg(l) \in Items(buffered)
Piped(l)      == LaunchMsg(l) \in Items(c2s)
Arrived(l)    == Received(LaunchMsg(l)) \in Items(sq)
Dispatched(l) == Construct(l) \in Items(sq)
OrderOf(l) ==
  /\ NothingAfter(cq, {Send(LaunchMsg(l))}, {Send(LaunchMsg(l))})
  /\ NothingAfter(buffered, {LaunchMsg(l)}, {LaunchMsg(l)})
  /\ NothingAfter(c2s, {LaunchMsg(l)}, {LaunchMsg(l)})
  /\ NothingAfter(sq, {Received(LaunchMsg(l))}, {Received(LaunchMsg(l))})
  /\ NothingAfter(sq, {Construct(l)}, {Construct(l)})
PlaceOf(l) ==
  /\ Sent(l) => ~Buffered(l) /\ ~Piped(l) /\ ~Arrived(l) /\ ~Dispatched(l) /\ ~Constructed(l)
  /\ Buffered(l) => ~Piped(l) /\ ~Arrived(l) /\ ~Dispatched(l) /\ ~Constructed(l)
  /\ Piped(l) => ~Arrived(l) /\ ~Dispatched(l) /\ ~Constructed(l)
  /\ Arrived(l) => ~Dispatched(l) /\ ~Constructed(l)
  /\ Dispatched(l) => ~Constructed(l)
OnceInv == \A l \in Launches : OrderOf(l) /\ PlaceOf(l)

(* What is under way about a launch.                                       *)
Packets(l)      == {Packet(l, r) : r \in Reports}
FinalPackets(l) == {Packet(l, r) : r \in Final}
ReportsOf(l)    == {Report(l, r) : r \in Reports}
FinalReports(l) == {Report(l, r) : r \in Final}
ErrorStates     == {ServerState("LaunchFailed"), ServerState("Crashed")}
MessagesOf(l)   == {m \in Msgs : m.type \in AboutLaunch /\ m.launch = l}

(* A launch that has not been opened has left no trace.                    *)
Absent(m)    == /\ Send(m) \notin Items(cq) /\ m \notin Items(buffered)
                /\ m \notin Items(c2s) /\ Received(m) \notin Items(sq)
Reporting(l) == cdo.do \in {"report", "finish"} /\ cdo.launch = l
Hushed(l)    == Items(cq) \cap Packets(l) = {} /\ Items(sq) \cap ReportsOf(l) = {}
IsNew(l)     == ClientRuns /\ owner[l] \in {"none", "added"}
NewOf(l) ==
  /\ l \notin running /\ reports[l] = <<>> /\ ~Reporting(l)
  /\ \A m \in MessagesOf(l) : Absent(m)
  /\ ~Dispatched(l) /\ ~Constructed(l) /\ Hushed(l)
NewInv == \A l \in Launches : IsNew(l) => NewOf(l)

(* Nothing is reported of a launch behind its end, on any part of the way; *)
(* and nothing at all behind the loss of the server.                       *)
Ended(l)  == \E i \in DOMAIN reports[l] : reports[l][i] \in Final
Ending(l) == cdo.do = "report" /\ cdo.launch = l /\ cdo.report \in Final
Silent(l) == server # "none" /\ (server = "up" => thread[l].at \in {"held", "over"})
TransitOf(l) ==
  /\ NothingAfter(sq, FinalReports(l), ReportsOf(l))
  /\ NothingAfter(cq, FinalPackets(l), Packets(l))
  /\ NothingAfter(cq, ErrorStates, Packets(l))
  /\ Items(sq) \cap FinalReports(l) # {} => Silent(l)
  /\ Items(cq) \cap FinalPackets(l) # {} => Silent(l) /\ Items(sq) \cap ReportsOf(l) = {}
  /\ cerror => Items(cq) \cap Packets(l) = {}
LostInv ==
  /\ cerror \/ Items(cq) \cap ErrorStates # {} => server \in {"failed", "killed"}
  /\ cdo.do = "error" => cdo.from = "error"
  /\ cdo.from = "error" => cerror
EndOf(l) ==
  /\ Ended(l) \/ Ending(l) => l \notin running /\ Silent(l) /\ Hushed(l)
  /\ cdo.do = "report" /\ cdo.launch = l /\ cdo.report # "GeneralError" => ~Ended(l)
EndInv == LostInv /\ EndIsLast /\ \A l \in Launches : TransitOf(l) /\ EndOf(l)

(* A launch whose owner has waited for its end has been told of it.        *)
QuietInv ==
  /\ \A l \in Launches : l \in finished \/ (cdo.do = "finish" /\ cdo.launch = l) => Ended(l)
  /\ cdo.do = "report" /\ cdo.report = "GeneralError" => cerror
  /\ \A l \in Launches : owner[l] = "closed" /\ "Block" \in flags[l] => l \in finished

(* Who has been told that a launch is launched, or is about to be, has it  *)
(* constructed; and so have the requests made since.                       *)
LateOf(l) == {m \in MessagesOf(l) : m.type # "Launch" /\ ~m.early}
Unborn(l) == server \in {"none", "up"} /\ ~Constructed(l)
LateInv ==
  /\ \A l \in Launches : Unborn(l) =>
       /\ ~ToldLaunched(l) /\ ~(Reporting(l) /\ cdo.report = "Launched")
       /\ Hushed(l) /\ \A m \in LateOf(l) : Absent(m)
  /\ LateRequestsReachLaunch

Inv == /\ TypeInv /\ FreshInv /\ OrphanInv /\ OnceInv /\ NewInv /\ EndInv /\ QuietInv /\ LateInv

-----------------------------------------------------------------------------
(* What a queue holds when an item is put at its end or taken from its      *)
(* head, when two are joined, and what then comes after what.               *)

LEMMA ItemsOfNone ==
  /\ Items(<<>>) = {}
  /\ \A A, B : NothingAfter(<<>>, A, B)
BY DEF Items, NothingAfter

LEMMA ItemsAreTyped ==
  ASSUME NEW T, NEW s \in Seq(T)
  PROVE  Items(s) \subseteq T
BY ElementOfSeq DEF Items

LEMMA ItemsOfAppend ==
  ASSUME NEW T, NEW s \in Seq(T), NEW e \in T
  PROVE  /\ Append(s, e) \in Seq(T)
         /\ Items(Append(s, e)) = Items(s) \cup {e}
<1>1. /\ Append(s, e) \in Seq(T)
      /\ Len(Append(s, e)) = Len(s) + 1
      /\ \A i \in 1 .. Len(s) : Append(s, e)[i] = s[i]
      /\ Append(s, e)[Len(s) + 1] = e
  BY AppendProperties
<1>2. Len(s) \in Nat /\ DOMAIN s = 1 .. Len(s) /\ DOMAIN Append(s, e) = 1 .. (Len(s) + 1)
  BY <1>1, LenProperties
<1>3. Items(Append(s, e)) \subseteq Items(s) \cup {e}
  <2>1. SUFFICES ASSUME NEW i \in 1 .. (Len(s) + 1) PROVE Append(s, e)[i] \in Items(s) \cup {e}
    BY <1>2 DEF Items
  <2>2. CASE i = Len(s) + 1 BY <1>1, <2>2
  <2>3. CASE i # Len(s) + 1
    <3>1. i \in DOMAIN s BY <1>2, <2>1, <2>3
    <3>2. QED BY <3>1, <1>1, <1>2 DEF Items
  <2>4. QED BY <2>2, <2>3
<1>4. Items(s) \subseteq Items(Append(s, e))
  <2>1. SUFFICES ASSUME NEW i \in DOMAIN s PROVE s[i] \in Items(Append(s, e))
    BY DEF Items
  <2>2. i \in DOMAIN Append(s, e) /\ Append(s, e)[i] = s[i] BY <1>1, <1>2
  <2>3. QED BY <2>2 DEF Items
<1>5. e \in Items(Append(s, e))
  <2>1. Len(s) + 1 \in DOMAIN Append(s, e) BY <1>2
  <2>2. QED BY <2>1, <1>1 DEF Items
<1>6. QED BY <1>1, <1>3, <1>4, <1>5

LEMMA ItemsOfTail ==
  ASSUME NEW T, NEW s \in Seq(T), s # <<>>
  PROVE  /\ Tail(s) \in Seq(T) /\ Head(s) \in T
         /\ Head(s) \in Items(s) /\ Items(Tail(s)) \subseteq Items(s)
<1>1. /\ Head(s) \in T /\ Tail(s) \in Seq(T)
      /\ Head(s) = s[1]
      /\ Len(Tail(s)) = Len(s) - 1
      /\ \A i \in 1 .. Len(Tail(s)) : Tail(s)[i] = s[i + 1]
  BY HeadTailProperties
<1>2. /\ Len(s) \in Nat /\ Len(s) > 0 /\ DOMAIN s = 1 .. Len(s)
      /\ DOMAIN Tail(s) = 1 .. (Len(s) - 1)
  BY <1>1, LenProperties, EmptySeq
<1>3. Head(s) \in Items(s)
  <2>1. 1 \in DOMAIN s BY <1>2
  <2>2. QED BY <2>1, <1>1 DEF Items
<1>4. Items(Tail(s)) \subseteq Items(s)
  <2>1. SUFFICES ASSUME NEW i \in DOMAIN Tail(s) PROVE Tail(s)[i] \in Items(s)
    BY DEF Items
  <2>2. i + 1 \in DOMAIN s /\ Tail(s)[i] = s[i + 1] BY <1>1, <1>2
  <2>3. QED BY <2>2 DEF Items
<1>5. QED BY <1>1, <1>3, <1>4

LEMMA ItemsOfConcat ==
  ASSUME NEW T, NEW s \in Seq(T), NEW t \in Seq(T)
  PROVE  /\ s \o t \in Seq(T)
         /\ Items(s \o t) \subseteq Items(s) \cup Items(t)
<1>1. /\ s \o t \in Seq(T) /\ Len(s \o t) = Len(s) + Len(t)
      /\ \A i \in 1 .. (Len(s) + Len(t)) :
            (s \o t)[i] = IF i <= Len(s) THEN s[i] ELSE t[i - Len(s)]
  BY ConcatProperties
<1>2. /\ Len(s) \in Nat /\ Len(t) \in Nat /\ DOMAIN s = 1 .. Len(s) /\ DOMAIN t = 1 .. Len(t)
      /\ DOMAIN (s \o t) = 1 .. (Len(s) + Len(t))
  BY <1>1, LenProperties
<1>3. SUFFICES ASSUME NEW i \in DOMAIN (s \o t) PROVE (s \o t)[i] \in Items(s) \cup Items(t)
  BY <1>1 DEF Items
<1>4. CASE i <= Len(s)
  <2>1. i \in DOMAIN s /\ (s \o t)[i] = s[i] BY <1>1, <1>2, <1>4
  <2>2. QED BY <2>1 DEF Items
<1>5. CASE ~(i <= Len(s))
  <2>1. i - Len(s) \in DOMAIN t /\ (s \o t)[i] = t[i - Len(s)] BY <1>1, <1>2, <1>5
  <2>2. QED BY <2>1 DEF Items
<1>6. QED BY <1>4, <1>5

LEMMA AfterAppend ==
  ASSUME NEW T, NEW s \in Seq(T), NEW e \in T, NEW A, NEW B, NothingAfter(s, A, B),
         Items(s) \cap A = {} \/ e \notin B
  PROVE  NothingAfter(Append(s, e), A, B)
<1>1. /\ Append(s, e) \in Seq(T)
      /\ Len(Append(s, e)) = Len(s) + 1
      /\ \A i \in 1 .. Len(s) : Append(s, e)[i] = s[i]
      /\ Append(s, e)[Len(s) + 1] = e
  BY AppendProperties
<1>2. Len(s) \in Nat /\ DOMAIN s = 1 .. Len(s) /\ DOMAIN Append(s, e) = 1 .. (Len(s) + 1)
  BY <1>1, LenProperties
<1>3. SUFFICES ASSUME NEW i \in DOMAIN Append(s, e), NEW j \in DOMAIN Append(s, e), i < j,
                      Append(s, e)[i] \in A
               PROVE  Append(s, e)[j] \notin B
  BY DEF NothingAfter
<1>4. i \in DOMAIN s /\ Append(s, e)[i] = s[i] BY <1>1, <1>2, <1>3
<1>5. CASE j = Len(s) + 1
  <2>1. s[i] \in Items(s) \cap A BY <1>3, <1>4 DEF Items
  <2>2. QED BY <2>1, <1>1, <1>5
<1>6. CASE j # Len(s) + 1
  <2>1. j \in DOMAIN s /\ Append(s, e)[j] = s[j] BY <1>1, <1>2, <1>3, <1>6
  <2>2. QED BY <2>1, <1>3, <1>4 DEF NothingAfter
<1>7. QED BY <1>5, <1>6

LEMMA AfterTail ==
  ASSUME NEW T, NEW s \in Seq(T), s # <<>>, NEW A, NEW B, NothingAfter(s, A, B)
  PROVE  /\ NothingAfter(Tail(s), A, B)
         /\ Head(s) \in A => Items(Tail(s)) \cap B = {}
<1>1. /\ Tail(s) \in Seq(T)
      /\ Head(s) = s[1]
      /\ Len(Tail(s)) = Len(s) - 1
      /\ \A i \in 1 .. Len(Tail(s)) : Tail(s)[i] = s[i + 1]
  BY HeadTailProperties
<1>2. /\ Len(s) \in Nat /\ Len(s) > 0 /\ DOMAIN s = 1 .. Len(s)
      /\ DOMAIN Tail(s) = 1 .. (Len(s) - 1)
  BY <1>1, LenProperties, EmptySeq
<1>3. NothingAfter(Tail(s), A, B)
  <2>1. SUFFICES ASSUME NEW i \in DOMAIN Tail(s), NEW j \in DOMAIN Tail(s), i < j,
                        Tail(s)[i] \in A
                 PROVE  Tail(s)[j] \notin B
    BY DEF NothingAfter
  <2>2. /\ i + 1 \in DOMAIN s /\ j + 1 \in DOMAIN s /\ i + 1 < j + 1
        /\ Tail(s)[i] = s[i + 1] /\ Tail(s)[j] = s[j + 1]
    BY <1>1, <1>2, <2>1
  <2>3. QED BY <2>1, <2>2 DEF NothingAfter
<1>4. ASSUME Head(s) \in A PROVE Items(Tail(s)) \cap B = {}
  <2>1. SUFFICES ASSUME NEW j \in DOMAIN Tail(s) PROVE Tail(s)[j] \notin B
    BY DEF Items
  <2>2. 1 \in DOMAIN s /\ j + 1 \in DOMAIN s /\ 1 < j + 1 /\ Tail(s)[j] = s[j + 1]
    BY <1>1, <1>2, <2>1
  <2>3. QED BY <1>1, <1>4, <2>2 DEF NothingAfter
<1>5. QED BY <1>3, <1>4

LEMMA AfterConcat ==
  ASSUME NEW T, NEW s \in Seq(T), NEW t \in Seq(T), NEW A, NEW B,
         NothingAfter(s, A, B), NothingAfter(t, A, B),
         Items(s) \cap A = {} \/ Items(t) \cap B = {}
  PROVE  NothingAfter(s \o t, A, B)
<1>1. /\ s \o t \in Seq(T) /\ Len(s \o t) = Len(s) + Len(t)
      /\ \A i \in 1 .. (Len(s) + Len(t)) :
            (s \o t)[i] = IF i <= Len(s) THEN s[i] ELSE t[i - Len(s)]
  BY ConcatProperties
<1>2. /\ Len(s) \in Nat /\ Len(t) \in Nat /\ DOMAIN s = 1 .. Len(s) /\ DOMAIN t = 1 .. Len(t)
      /\ DOMAIN (s \o t) = 1 .. (Len(s) + Len(t))
  BY <1>1, LenProperties
<1>3. SUFFICES ASSUME NEW i \in DOMAIN (s \o t), NEW j \in DOMAIN (s \o t), i < j,
                      (s \o t)[i] \in A
               PROVE  (s \o t)[j] \notin B
  BY DEF NothingAfter
<1>4. CASE j <= Len(s)
  <2>1. i \in DOMAIN s /\ j \in DOMAIN s /\ (s \o t)[i] = s[i] /\ (s \o t)[j] = s[j]
    BY <1>1, <1>2, <1>3, <1>4
  <2>2. QED BY <2>1, <1>3 DEF NothingAfter
<1>5. CASE i > Len(s)
  <2>1. /\ i - Len(s) \in DOMAIN t /\ j - Len(s) \in DOMAIN t /\ i - Len(s) < j - Len(s)
        /\ (s \o t)[i] = t[i - Len(s)] /\ (s \o t)[j] = t[j - Len(s)]
    BY <1>1, <1>2, <1>3, <1>5
  <2>2. QED BY <2>1, <1>3 DEF NothingAfter
<1>6. CASE i <= Len(s) /\ j > Len(s)
  <2>1. /\ i \in DOMAIN s /\ j - Len(s) \in DOMAIN t
        /\ (s \o t)[i] = s[i] /\ (s \o t)[j] = t[j - Len(s)]
    BY <1>1, <1>2, <1>3, <1>6
  <2>2. s[i] \in Items(s) /\ t[j - Len(s)] \in Items(t) BY <2>1 DEF Items
  <2>3. QED BY <2>1, <2>2, <1>3
<1>7. QED BY <1>2, <1>4, <1>5, <1>6

-----------------------------------------------------------------------------
(* Messages and items.                                                     *)

LEMMA ClientItem ==
  ASSUME NEW e \in CItems
  PROVE  /\ e.item = "send" => e.message \in Msgs /\ e = Send(e.message)
         /\ e.item = "server" => /\ e.state \in {"Launched", "LaunchFailed", "Exited", "Crashed"}
                                 /\ e = ServerState(e.state)
         /\ e.item = "packet" => /\ e.launch \in Launches /\ e.report \in Reports
                                 /\ e = Packet(e.launch, e.report)
<1>1. CASE e \in [item : {"send"}, message : Msgs]
  BY <1>1 DEF Send
<1>2. CASE e \in [item : {"server"},
                  state : {"Launched", "LaunchFailed", "Exited", "Crashed"}]
  BY <1>2 DEF ServerState
<1>3. CASE e \in [item : {"packet"}, launch : Launches, report : Reports]
  BY <1>3 DEF Packet
<1>4. QED BY <1>1, <1>2, <1>3 DEF CItems

LEMMA ServerItem ==
  ASSUME NEW e \in SItems
  PROVE  /\ e.item = "received" => e.message \in Msgs /\ e = Received(e.message)
         /\ e.item = "construct" => e.launch \in Launches /\ e = Construct(e.launch)
         /\ e.item = "report" => /\ e.launch \in Launches /\ e.report \in Reports
                                 /\ e = Report(e.launch, e.report)
         /\ e.item = "end" => e.why \in {"GeneralError", "EndOfFile"} /\ e = InputEnd(e.why)
<1>1. CASE e \in [item : {"received"}, message : Msgs]
  BY <1>1 DEF Received
<1>2. CASE e \in [item : {"construct"}, launch : Launches]
  BY <1>2 DEF Construct
<1>3. CASE e \in [item : {"report"}, launch : Launches, report : Reports]
  BY <1>3 DEF Report
<1>4. CASE e \in [item : {"end"}, why : {"GeneralError", "EndOfFile"}]
  BY <1>4 DEF InputEnd
<1>5. QED BY <1>1, <1>2, <1>3, <1>4 DEF SItems

LEMMA ItemTypes ==
  /\ \A m \in Msgs : Send(m) \in CItems /\ Received(m) \in SItems
  /\ \A s \in {"Launched", "LaunchFailed", "Exited", "Crashed"} : ServerState(s) \in CItems
  /\ \A l \in Launches, r \in Reports : Packet(l, r) \in CItems /\ Report(l, r) \in SItems
  /\ \A l \in Launches : Construct(l) \in SItems
  /\ InputEnd("GeneralError") \in SItems /\ InputEnd("EndOfFile") \in SItems
BY DEF Send, Received, ServerState, Packet, Report, Construct, InputEnd, CItems, SItems

LEMMA MessageTypes ==
  /\ \A t \in {"Request", "Close"}, l \in Launches, f \in SUBSET CloseFlags, e \in BOOLEAN :
        Message(t, l, f, e) \in Msgs
  /\ \A l \in Launches : LaunchMsg(l) \in Msgs
  /\ Message("Disconnect", NoLaunch, {}, FALSE) \in Msgs
  /\ Message("Reply", NoLaunch, {}, FALSE) \in Msgs
BY DEF Message, Messages, Msgs, LaunchMsg, AboutLaunch

(* Two items are the same only if they say the same.                       *)
LEMMA ItemsDiffer ==
  /\ \A m, n : (Send(m) = Send(n) <=> m = n) /\ (Received(m) = Received(n) <=> m = n)
  /\ \A l, k, r, q : /\ Packet(l, r) = Packet(k, q) <=> l = k /\ r = q
                     /\ Report(l, r) = Report(k, q) <=> l = k /\ r = q
  /\ \A l, k : Construct(l) = Construct(k) <=> l = k
  /\ \A m, s, l, r : /\ Send(m) # ServerState(s) /\ Send(m) # Packet(l, r)
                     /\ ServerState(s) # Packet(l, r)
  /\ \A m, l, k, r : /\ Received(m) # Construct(l) /\ Received(m) # Report(l, r)
                     /\ Construct(k) # Report(l, r)
  /\ \A m, l, k, r, w : /\ InputEnd(w) # Construct(l) /\ InputEnd(w) # Report(l, r)
                        /\ InputEnd(w) # Received(m)
  /\ \A t, u, l, k, f, g, d, e :
        Message(t, l, f, d) = Message(u, k, g, e) <=> t = u /\ l = k /\ f = g /\ d = e
<1>1. \A m, n : (Send(m) = Send(n) <=> m = n) /\ (Received(m) = Received(n) <=> m = n)
  BY DEF Send, Received
<1>2. \A l, k, r, q : /\ Packet(l, r) = Packet(k, q) <=> l = k /\ r = q
                      /\ Report(l, r) = Report(k, q) <=> l = k /\ r = q
  BY DEF Packet, Report
<1>3. \A l, k : Construct(l) = Construct(k) <=> l = k
  BY DEF Construct
<1>4. \A m, s, l, r : /\ Send(m).item = "send" /\ ServerState(s).item = "server"
                      /\ Packet(l, r).item = "packet" /\ Received(m).item = "received"
                      /\ Construct(l).item = "construct" /\ Report(l, r).item = "report"
                      /\ InputEnd(s).item = "end"
  BY DEF Send, ServerState, Packet, Received, Construct, Report, InputEnd
<1>5. /\ \A m, s, l, r : /\ Send(m) # ServerState(s) /\ Send(m) # Packet(l, r)
                         /\ ServerState(s) # Packet(l, r)
      /\ \A m, l, k, r : /\ Received(m) # Construct(l) /\ Received(m) # Report(l, r)
                         /\ Construct(k) # Report(l, r)
      /\ \A m, l, k, r, w : /\ InputEnd(w) # Construct(l) /\ InputEnd(w) # Report(l, r)
                            /\ InputEnd(w) # Received(m)
  <2>1. "send" # "server" /\ "send" # "packet" /\ "server" # "packet" /\ "received" # "construct"
        /\ "received" # "report" /\ "construct" # "report" /\ "end" # "construct"
        /\ "end" # "report" /\ "end" # "received"
    OBVIOUS
  <2>2. QED BY <1>4, <2>1, Zenon
<1>6. \A t, u, l, k, f, g, d, e :
        Message(t, l, f, d) = Message(u, k, g, e) <=> t = u /\ l = k /\ f = g /\ d = e
  BY DEF Message
<1>7. QED BY <1>1, <1>2, <1>3, <1>5, <1>6

-----------------------------------------------------------------------------
(* What a step does to the queues and the pipe.                            *)

Same      == UNCHANGED <<cq, buffered, c2s, sq>>
Says(e)   == cq' = Append(cq, e) /\ UNCHANGED <<buffered, c2s, sq>>
Forgets   == cq' = <<>> /\ buffered' = <<>> /\ UNCHANGED <<c2s, sq>>
FromQueue(e) == cq # <<>> /\ Head(cq) = e /\ cq' = Tail(cq)
Drops(e)  == FromQueue(e) /\ UNCHANGED <<buffered, c2s, sq>>
Keeps(m)  == FromQueue(Send(m)) /\ buffered' = Append(buffered, m) /\ UNCHANGED <<c2s, sq>>
Writes(m) == FromQueue(Send(m)) /\ c2s' = c2s \o <<m>> /\ UNCHANGED <<buffered, sq>>
Flushes(e) == /\ FromQueue(e) /\ buffered' = <<>> /\ UNCHANGED sq
              /\ c2s' = c2s \o buffered \/ UNCHANGED c2s
Loses(s)  == /\ c2s' = <<>> /\ sq' = <<>> /\ UNCHANGED buffered
             /\ cq' = Append(cq, ServerState(s)) \/ UNCHANGED cq
Reads(m)  == /\ c2s # <<>> /\ Head(c2s) = m /\ c2s' = Tail(c2s)
             /\ sq' = Append(sq, Received(m)) /\ UNCHANGED <<cq, buffered>>
Puts(e)   == sq' = Append(sq, e) /\ UNCHANGED <<cq, buffered, c2s>>
FromServerQueue(e) == sq # <<>> /\ Head(sq) = e /\ UNCHANGED <<buffered, c2s>>
Takes(e)  == FromServerQueue(e) /\ sq' = Tail(sq) /\ UNCHANGED cq
Tells(l, r) == FromServerQueue(Report(l, r)) /\ sq' = Tail(sq) /\ cq' = Append(cq, Packet(l, r))
Adds(l, m)  == FromServerQueue(Received(m)) /\ sq' = Append(Tail(sq), Construct(l)) /\ UNCHANGED cq

LEMMA QueuesKeepTypes ==
  ASSUME QueueT
  PROVE  /\ Same \/ Forgets => QueueT'
         /\ \A e \in CItems : Says(e) \/ Drops(e) \/ Flushes(e) => QueueT'
         /\ \A m \in Msgs : Keeps(m) \/ Writes(m) \/ Reads(m) => QueueT'
         /\ \A s \in {"Exited", "Crashed"} : Loses(s) => QueueT'
         /\ \A e \in SItems : Puts(e) \/ Takes(e) => QueueT'
         /\ \A l \in Launches : /\ \A r \in Reports : Tells(l, r) => QueueT'
                                /\ \A m \in Msgs : Adds(l, m) => QueueT'
<1>1. \A T : <<>> \in Seq(T)
  OBVIOUS
<1>2. Same \/ Forgets => QueueT'
  BY <1>1 DEF Same, Forgets, QueueT
<1>3. ASSUME NEW e \in CItems, Says(e) \/ Drops(e) \/ Flushes(e) PROVE QueueT'
  <2>1. CASE Says(e) BY <2>1, ItemsOfAppend DEF Says, QueueT
  <2>2. CASE Drops(e) BY <2>2, ItemsOfTail DEF Drops, FromQueue, QueueT
  <2>3. CASE Flushes(e)
    BY <1>1, <2>3, ItemsOfTail, ItemsOfConcat DEF Flushes, FromQueue, QueueT
  <2>4. QED BY <1>3, <2>1, <2>2, <2>3
<1>4. ASSUME NEW m \in Msgs, Keeps(m) \/ Writes(m) \/ Reads(m) PROVE QueueT'
  <2>1. CASE Keeps(m)
    BY <2>1, ItemsOfAppend, ItemsOfTail DEF Keeps, FromQueue, QueueT
  <2>2. CASE Writes(m)
    <3>1. <<m>> \in Seq(Msgs) OBVIOUS
    <3>2. QED BY <2>2, <3>1, ItemsOfConcat, ItemsOfTail DEF Writes, FromQueue, QueueT
  <2>3. CASE Reads(m)
    BY <2>3, ItemTypes, ItemsOfAppend, ItemsOfTail DEF Reads, QueueT
  <2>4. QED BY <1>4, <2>1, <2>2, <2>3
<1>5. ASSUME NEW s \in {"Exited", "Crashed"}, Loses(s) PROVE QueueT'
  <2>1. ServerState(s) \in CItems BY ItemTypes
  <2>2. cq \in Seq(CItems) BY DEF QueueT
  <2>3. Append(cq, ServerState(s)) \in Seq(CItems) BY <2>1, <2>2, ItemsOfAppend
  <2>4. QED BY <1>1, <1>5, <2>2, <2>3 DEF Loses, QueueT
<1>6. ASSUME NEW e \in SItems, Puts(e) \/ Takes(e) PROVE QueueT'
  <2>1. CASE Puts(e) BY <2>1, ItemsOfAppend DEF Puts, QueueT
  <2>2. CASE Takes(e) BY <2>2, ItemsOfTail DEF Takes, FromServerQueue, QueueT
  <2>3. QED BY <1>6, <2>1, <2>2
<1>7. ASSUME NEW l \in Launches, NEW r \in Reports, Tells(l, r) PROVE QueueT'
  BY <1>7, ItemTypes, ItemsOfAppend, ItemsOfTail DEF Tells, FromServerQueue, QueueT
<1>8. ASSUME NEW l \in Launches, NEW m \in Msgs, Adds(l, m) PROVE QueueT'
  BY <1>8, ItemTypes, ItemsOfAppend, ItemsOfTail DEF Adds, FromServerQueue, QueueT
<1>9. QED BY <1>2, <1>3, <1>4, <1>5, <1>6, <1>7, <1>8

(* The same of every action.                                               *)
LEMMA OwnerMoves ==
  ASSUME QueueT
  PROVE  /\ \A l \in Launches : AddLaunch(l) \/ CloseReturns(l) => Same
         /\ \A l \in Launches : OpenLaunch(l) => Says(Send(LaunchMsg(l)))
         /\ \A l \in Launches :
              Request(l) => Says(Send(Message("Request", l, {}, ~ToldLaunched(l))))
         /\ \A l \in Launches, f \in ClosesWith :
              Close(l, f) =>
                 Same \/ Says(Send(Message("Close", l, RemoteFlags(f), ~ToldLaunched(l))))
         /\ Destroy => Says(Send(Message("Disconnect", NoLaunch, {}, FALSE)))
         /\ ServerHasExited \/ ClearServer => Same
         /\ WaitTimesOut => Same \/ Loses("Crashed")
         /\ JoinThread \/ ClientDies => Forgets
<1>1. ASSUME NEW l \in Launches, AddLaunch(l) \/ CloseReturns(l) PROVE Same
  BY <1>1 DEF AddLaunch, CloseReturns, Same, dispatchVars, serverVars
<1>2. ASSUME NEW l \in Launches, OpenLaunch(l) PROVE Says(Send(LaunchMsg(l)))
  BY <1>2 DEF OpenLaunch, SendMessage, Says, LaunchMsg, serverVars
<1>3. ASSUME NEW l \in Launches, Request(l)
      PROVE  Says(Send(Message("Request", l, {}, ~ToldLaunched(l))))
  BY <1>3 DEF Request, SendMessage, Says, serverVars
<1>4. ASSUME NEW l \in Launches, NEW f \in ClosesWith, Close(l, f)
      PROVE  Same \/ Says(Send(Message("Close", l, RemoteFlags(f), ~ToldLaunched(l))))
  BY <1>4 DEF Close, SendMessage, Same, Says, serverVars
<1>5. Destroy => Says(Send(Message("Disconnect", NoLaunch, {}, FALSE)))
  BY DEF Destroy, SendMessage, Says, serverVars
<1>6. ServerHasExited \/ ClearServer => Same
  BY DEF ServerHasExited, ClearServer, Same, dispatchVars, serverVars
<1>7. WaitTimesOut => Same \/ Loses("Crashed")
  BY DEF WaitTimesOut, ServerEnds, ServerForgets, ToClient, Same, Loses, serverVars
<1>8. JoinThread \/ ClientDies => Forgets
  BY DEF JoinThread, ClientDies, ClientForgets, Forgets, serverVars
<1>9. QED BY <1>1, <1>2, <1>3, <1>4, <1>5, <1>6, <1>7, <1>8

LEMMA NextItemIsHead ==
  ASSUME QueueT, NEW k, NextItem(k), cq' = Tail(cq)
  PROVE  /\ FromQueue(Head(cq)) /\ Head(cq) \in CItems /\ Head(cq).item = k
         /\ ClientRuns /\ cdo.do = "idle"
<1>1. cq # <<>> /\ Head(cq).item = k /\ ClientRuns /\ cdo.do = "idle" BY DEF NextItem
<1>2. cq \in Seq(CItems) BY DEF QueueT
<1>3. Head(cq) \in CItems BY <1>1, <1>2, ItemsOfTail
<1>4. QED BY <1>1, <1>3 DEF FromQueue

LEMMA ClientMoves ==
  ASSUME QueueT
  PROVE  /\ SendItem => \E m \in Msgs : Keeps(m) \/ Writes(m) \/ Drops(Send(m))
         /\ FailSend => \E m \in Msgs : Head(cq) = Send(m) /\ Drops(Send(m))
         /\ OnServerState =>
              \E s \in {"Launched", "LaunchFailed", "Exited", "Crashed"} :
                 /\ Head(cq) = ServerState(s)
                 /\ IF s = "Launched" THEN Flushes(ServerState(s)) ELSE Drops(ServerState(s))
         /\ HandlePacket => \E l \in Launches, r \in Reports :
                               Head(cq) = Packet(l, r) /\ Drops(Packet(l, r))
         /\ DoReport \/ DoFinish \/ SetErrorDone => Same
         /\ \A l \in Launches : SetErrorOf(l) => Same
         /\ DoReply => Says(Send(Message("Reply", NoLaunch, {}, FALSE)))
<1>1. ASSUME SendItem PROVE \E m \in Msgs : Keeps(m) \/ Writes(m) \/ Drops(Send(m))
  <2>1. NextItem("send") /\ cq' = Tail(cq) BY <1>1 DEF SendItem
  <2>2. FromQueue(Head(cq)) /\ Head(cq).message \in Msgs /\ Head(cq) = Send(Head(cq).message)
    BY <2>1, NextItemIsHead, ClientItem
  <2>3. \/ buffered' = Append(buffered, Head(cq).message) /\ UNCHANGED <<c2s, sq>>
        \/ c2s' = c2s \o <<Head(cq).message>> /\ UNCHANGED <<buffered, sq>>
        \/ UNCHANGED <<c2s, buffered, sq>>
    BY <1>1 DEF SendItem, Write, serverVars
  <2>4. \/ Keeps(Head(cq).message) \/ Writes(Head(cq).message)
        \/ Drops(Send(Head(cq).message))
    BY <2>2, <2>3 DEF Keeps, Writes, Drops
  <2>5. QED BY <2>2, <2>4
<1>2. ASSUME FailSend PROVE \E m \in Msgs : Head(cq) = Send(m) /\ Drops(Send(m))
  <2>1. NextItem("send") /\ cq' = Tail(cq) BY <1>2 DEF FailSend
  <2>2. FromQueue(Head(cq)) /\ Head(cq).message \in Msgs /\ Head(cq) = Send(Head(cq).message)
    BY <2>1, NextItemIsHead, ClientItem
  <2>3. UNCHANGED <<c2s, buffered, sq>> BY <1>2 DEF FailSend, serverVars
  <2>4. QED BY <2>2, <2>3 DEF Drops
<1>3. ASSUME OnServerState
      PROVE  \E s \in {"Launched", "LaunchFailed", "Exited", "Crashed"} :
                /\ Head(cq) = ServerState(s)
                /\ IF s = "Launched" THEN Flushes(ServerState(s)) ELSE Drops(ServerState(s))
  <2>1. NextItem("server") /\ cq' = Tail(cq) BY <1>3 DEF OnServerState
  <2>2. /\ FromQueue(Head(cq))
        /\ Head(cq).state \in {"Launched", "LaunchFailed", "Exited", "Crashed"}
        /\ Head(cq) = ServerState(Head(cq).state)
    BY <2>1, NextItemIsHead, ClientItem
  <2>3. IF Head(cq).state = "Launched"
        THEN buffered' = <<>> /\ UNCHANGED sq /\ (c2s' = c2s \o buffered \/ UNCHANGED c2s)
        ELSE UNCHANGED <<c2s, buffered, sq>>
    BY <1>3 DEF OnServerState, Write, serverVars
  <2>4. QED BY <2>2, <2>3 DEF Drops, Flushes
<1>4. ASSUME HandlePacket
      PROVE  \E l \in Launches, r \in Reports : Head(cq) = Packet(l, r) /\ Drops(Packet(l, r))
  <2>1. NextItem("packet") /\ cq' = Tail(cq) BY <1>4 DEF HandlePacket
  <2>2. /\ FromQueue(Head(cq)) /\ Head(cq).launch \in Launches /\ Head(cq).report \in Reports
        /\ Head(cq) = Packet(Head(cq).launch, Head(cq).report)
    BY <2>1, NextItemIsHead, ClientItem
  <2>3. UNCHANGED <<c2s, buffered, sq>> BY <1>4 DEF HandlePacket, serverVars
  <2>4. QED BY <2>2, <2>3 DEF Drops
<1>5. DoReport \/ DoFinish \/ SetErrorDone => Same
  BY DEF DoReport, DoFinish, SetErrorDone, Same, serverVars
<1>6. ASSUME NEW l \in Launches, SetErrorOf(l) PROVE Same
  BY <1>6 DEF SetErrorOf, Same, serverVars
<1>7. DoReply => Says(Send(Message("Reply", NoLaunch, {}, FALSE)))
  BY DEF DoReply, SendMessage, Says, serverVars
<1>8. QED BY <1>1, <1>2, <1>3, <1>4, <1>5, <1>6, <1>7

LEMMA ServerMoves ==
  ASSUME QueueT
  PROVE  /\ StartServer => Says(ServerState("Launched"))
         /\ StartServerFails => Says(ServerState("LaunchFailed"))
         /\ ServerDies => Loses("Crashed")
         /\ ServerQuits => Loses("Exited")
         /\ Read => \E m \in Msgs : Reads(m)
         /\ ReadEnd => \E w \in {"GeneralError", "EndOfFile"} : Puts(InputEnd(w))
         /\ DisconnectSeen \/ DestroyLaunch \/ BeginClear \/ LaunchCleared \/ DestroyReader => Same
         /\ \A l \in Launches : ClearLaunch(l) => Same
<1>1. StartServer => Says(ServerState("Launched"))
  BY DEF StartServer, ToClient, Says
<1>2. StartServerFails => Says(ServerState("LaunchFailed"))
  BY DEF StartServerFails, ToClient, Says
<1>3. ServerDies => Loses("Crashed")
  BY DEF ServerDies, ServerEnds, ServerForgets, ToClient, Loses
<1>4. ServerQuits => Loses("Exited")
  BY DEF ServerQuits, ServerEnds, ServerForgets, ToClient, Loses
<1>5. ASSUME Read PROVE \E m \in Msgs : Reads(m)
  <2>1. c2s \in Seq(Msgs) /\ c2s # <<>> BY <1>5 DEF Read, QueueT
  <2>2. Head(c2s) \in Msgs BY <2>1, ItemsOfTail
  <2>3. Reads(Head(c2s)) BY <1>5 DEF Read, Reads, clientVars
  <2>4. QED BY <2>2, <2>3
<1>6. ReadEnd => \E w \in {"GeneralError", "EndOfFile"} : Puts(InputEnd(w))
  BY DEF ReadEnd, Puts, clientVars
<1>7. DisconnectSeen \/ DestroyLaunch \/ BeginClear \/ LaunchCleared \/ DestroyReader => Same
  BY DEF DisconnectSeen, DestroyLaunch, BeginClear, LaunchCleared, DestroyReader, Same, clientVars
<1>8. ASSUME NEW l \in Launches, ClearLaunch(l) PROVE Same
  BY <1>8 DEF ClearLaunch, Same, clientVars
<1>9. QED BY <1>1, <1>2, <1>3, <1>4, <1>5, <1>6, <1>7, <1>8

LEMMA ServerNextIsHead ==
  ASSUME QueueT, NEW k, ServerNext(k)
  PROVE  /\ sq # <<>> /\ Head(sq) \in SItems /\ Head(sq).item = k
         /\ server = "up" /\ sdo.do = "loop"
<1>1. sq # <<>> /\ Head(sq).item = k /\ server = "up" /\ sdo.do = "loop" BY DEF ServerNext
<1>2. sq \in Seq(SItems) BY DEF QueueT
<1>3. Head(sq) \in SItems BY <1>1, <1>2, ItemsOfTail
<1>4. QED BY <1>1, <1>3

(* The message that is handled.                                            *)
Handles(m) == server = "up" /\ sdo.do = "loop" /\ Head(sq) = Received(m)

LEMMA HandlerMoves ==
  ASSUME QueueT
  PROVE  /\ HandleLaunch => \E m \in Msgs : /\ Handles(m) /\ m.type = "Launch"
                                            /\ m.launch \in Launches /\ Adds(m.launch, m)
         /\ HandleClose => \E m \in Msgs : /\ Handles(m) /\ m.type = "Close"
                                           /\ m.launch \in Launches /\ Takes(Received(m))
         /\ HandleRequest => \E m \in Msgs : /\ Handles(m) /\ m.type = "Request"
                                             /\ m.launch \in Launches /\ Takes(Received(m))
         /\ HandleDisconnect \/ HandleReply =>
              \E m \in Msgs : Handles(m) /\ m.type \notin AboutLaunch /\ Takes(Received(m))
         /\ OnInputEnd =>
              \E w \in {"GeneralError", "EndOfFile"} :
                 server = "up" /\ sdo.do = "loop" /\ Takes(InputEnd(w))
         /\ ConstructLaunch =>
              \E l \in Launches : /\ server = "up" /\ sdo.do = "loop" /\ Head(sq) = Construct(l)
                                  /\ Takes(Construct(l))
         /\ OnReport =>
              \E l \in Launches, r \in Reports :
                 /\ server = "up" /\ sdo.do = "loop" /\ Head(sq) = Report(l, r)
                 /\ Tells(l, r) \/ Takes(Report(l, r))
<1>1. ASSUME NEW t, Handling(t)
      PROVE  /\ sq # <<>> /\ Head(sq).message \in Msgs /\ Handles(Head(sq).message)
             /\ Head(sq).message.type = t
             /\ t \in AboutLaunch => Head(sq).message.launch \in Launches
  <2>1. ServerNext("received") /\ Head(sq).message.type = t BY <1>1 DEF Handling
  <2>2. /\ sq # <<>> /\ Head(sq).message \in Msgs /\ Head(sq) = Received(Head(sq).message)
        /\ server = "up" /\ sdo.do = "loop"
    BY <2>1, ServerNextIsHead, ServerItem
  <2>3. QED BY <2>1, <2>2 DEF Handles, Msgs
<1>2. ASSUME HandleLaunch
      PROVE  \E m \in Msgs : /\ Handles(m) /\ m.type = "Launch"
                             /\ m.launch \in Launches /\ Adds(m.launch, m)
  <2>1. Handling("Launch") BY <1>2 DEF HandleLaunch
  <2>2. Adds(Head(sq).message.launch, Head(sq).message)
    BY <1>1, <2>1, <1>2 DEF HandleLaunch, Adds, FromServerQueue, clientVars, Handles
  <2>3. QED BY <1>1, <2>1, <2>2 DEF AboutLaunch
<1>3. ASSUME HandleClose
      PROVE  \E m \in Msgs : /\ Handles(m) /\ m.type = "Close"
                             /\ m.launch \in Launches /\ Takes(Received(m))
  <2>1. Handling("Close") BY <1>3 DEF HandleClose
  <2>2. sq' = Tail(sq) /\ UNCHANGED <<cq, buffered, c2s>> BY <1>3 DEF HandleClose, clientVars
  <2>3. Takes(Received(Head(sq).message))
    BY <1>1, <2>1, <2>2 DEF Takes, FromServerQueue, Handles
  <2>4. QED BY <1>1, <2>1, <2>3 DEF AboutLaunch
<1>4. ASSUME HandleRequest
      PROVE  \E m \in Msgs : /\ Handles(m) /\ m.type = "Request"
                             /\ m.launch \in Launches /\ Takes(Received(m))
  <2>1. Handling("Request") BY <1>4 DEF HandleRequest
  <2>2. sq' = Tail(sq) /\ UNCHANGED <<cq, buffered, c2s>> BY <1>4 DEF HandleRequest, clientVars
  <2>3. Takes(Received(Head(sq).message))
    BY <1>1, <2>1, <2>2 DEF Takes, FromServerQueue, Handles
  <2>4. QED BY <1>1, <2>1, <2>3 DEF AboutLaunch
<1>5. ASSUME HandleDisconnect \/ HandleReply
      PROVE  \E m \in Msgs : Handles(m) /\ m.type \notin AboutLaunch /\ Takes(Received(m))
  <2>1. Handling("Disconnect") \/ Handling("Reply") BY <1>5 DEF HandleDisconnect, HandleReply
  <2>2. sq' = Tail(sq) /\ UNCHANGED <<cq, buffered, c2s>>
    BY <1>5 DEF HandleDisconnect, HandleReply, clientVars
  <2>3. Takes(Received(Head(sq).message))
    BY <1>1, <2>1, <2>2 DEF Takes, FromServerQueue, Handles
  <2>4. QED BY <1>1, <2>1, <2>3 DEF AboutLaunch
<1>6. ASSUME OnInputEnd
      PROVE  \E w \in {"GeneralError", "EndOfFile"} :
                server = "up" /\ sdo.do = "loop" /\ Takes(InputEnd(w))
  <2>1. ServerNext("end") BY <1>6 DEF OnInputEnd
  <2>2. /\ sq # <<>> /\ Head(sq).why \in {"GeneralError", "EndOfFile"}
        /\ Head(sq) = InputEnd(Head(sq).why) /\ server = "up" /\ sdo.do = "loop"
    BY <2>1, ServerNextIsHead, ServerItem
  <2>3. sq' = Tail(sq) /\ UNCHANGED <<cq, buffered, c2s>> BY <1>6 DEF OnInputEnd, clientVars
  <2>4. QED BY <2>2, <2>3 DEF Takes, FromServerQueue
<1>7. ASSUME ConstructLaunch
      PROVE  \E l \in Launches : /\ server = "up" /\ sdo.do = "loop" /\ Head(sq) = Construct(l)
                                 /\ Takes(Construct(l))
  <2>1. ServerNext("construct") BY <1>7 DEF ConstructLaunch
  <2>2. /\ sq # <<>> /\ Head(sq).launch \in Launches
        /\ Head(sq) = Construct(Head(sq).launch) /\ server = "up" /\ sdo.do = "loop"
    BY <2>1, ServerNextIsHead, ServerItem
  <2>3. sq' = Tail(sq) /\ UNCHANGED <<cq, buffered, c2s>> BY <1>7 DEF ConstructLaunch, clientVars
  <2>4. QED BY <2>2, <2>3 DEF Takes, FromServerQueue
<1>8. ASSUME OnReport
      PROVE  \E l \in Launches, r \in Reports :
                /\ server = "up" /\ sdo.do = "loop" /\ Head(sq) = Report(l, r)
                /\ Tells(l, r) \/ Takes(Report(l, r))
  <2>1. ServerNext("report") BY <1>8 DEF OnReport
  <2>2. /\ sq # <<>> /\ Head(sq).launch \in Launches /\ Head(sq).report \in Reports
        /\ Head(sq) = Report(Head(sq).launch, Head(sq).report)
        /\ server = "up" /\ sdo.do = "loop"
    BY <2>1, ServerNextIsHead, ServerItem
  <2>3. /\ sq' = Tail(sq) /\ UNCHANGED <<buffered, c2s>>
        /\ \/ cq' = Append(cq, Packet(Head(sq).launch, Head(sq).report))
           \/ UNCHANGED cq
    BY <1>8 DEF OnReport, ToClient
  <2>4. QED BY <2>2, <2>3 DEF Takes, Tells, FromServerQueue
<1>9. QED BY <1>2, <1>3, <1>4, <1>5, <1>6, <1>7, <1>8

LEMMA ThreadMoves ==
  ASSUME NEW l \in Launches
  PROVE  /\ StartProcess(l) \/ StartProcessFails(l) \/ ReadOutput(l) \/ Reap(l) => Same
         /\ NoServer(l) \/ GetServer(l) \/ ProcessEnds(l) => Same
         /\ Dispatch(l) => Puts(Report(l, thread[l].report))
<1>1. StartProcess(l) \/ StartProcessFails(l) \/ ReadOutput(l) \/ Reap(l) => Same
  BY DEF StartProcess, StartProcessFails, ReadOutput, Reap, threadRest, clientVars, Same
<1>2. NoServer(l) \/ GetServer(l) \/ ProcessEnds(l) => Same
  BY DEF NoServer, GetServer, ProcessEnds, threadRest, clientVars, Same
<1>3. Dispatch(l) => Puts(Report(l, thread[l].report))
  BY DEF Dispatch, threadRest, clientVars, Puts
<1>4. QED BY <1>1, <1>2, <1>3

-----------------------------------------------------------------------------
(* The types, part by part.                                                *)

LEMMA StepKinds ==
  ASSUME [Next]_vars
  PROVE  \/ UNCHANGED vars
         \/ \E l \in Launches : AddLaunch(l) \/ OpenLaunch(l) \/ Request(l) \/ CloseReturns(l)
         \/ \E l \in Launches, f \in ClosesWith : Close(l, f)
         \/ Destroy \/ ServerHasExited \/ WaitTimesOut \/ ClearServer \/ JoinThread \/ ClientDies
         \/ SendItem \/ FailSend \/ OnServerState \/ HandlePacket
         \/ DoReport \/ DoFinish \/ DoReply \/ SetErrorDone
         \/ \E l \in Launches : SetErrorOf(l)
         \/ StartServer \/ StartServerFails \/ ServerDies \/ ServerQuits
         \/ Read \/ ReadEnd \/ DisconnectSeen
         \/ HandleLaunch \/ HandleClose \/ HandleRequest \/ HandleDisconnect \/ HandleReply
         \/ OnInputEnd \/ ConstructLaunch \/ OnReport
         \/ DestroyLaunch \/ BeginClear \/ LaunchCleared \/ DestroyReader
         \/ \E l \in Launches : ClearLaunch(l)
         \/ \E l \in Launches : \/ StartProcess(l) \/ StartProcessFails(l) \/ ReadOutput(l)
                                \/ Reap(l) \/ NoServer(l) \/ GetServer(l) \/ ProcessEnds(l)
                                \/ Dispatch(l)
<1>1. CASE OwnerStep BY <1>1 DEF OwnerStep
<1>2. CASE ClientStep BY <1>2 DEF ClientStep
<1>3. CASE ReaderStep \/ MainStep BY <1>3 DEF ReaderStep, MainStep
<1>4. CASE ServerStep BY <1>4 DEF ServerStep
<1>5. CASE \E l \in Launches : ThreadStep(l) \/ ProcessEnds(l) BY <1>5 DEF ThreadStep
<1>6. QED BY <1>1, <1>2, <1>3, <1>4, <1>5 DEF Next

LEMMA QueueTypes ==
  ASSUME TypeInv, [Next]_vars
  PROVE  QueueT'
<1>1. QueueT BY DEF TypeInv
<1>2. CASE UNCHANGED vars
  <2>1. Same BY <1>2 DEF Same, vars, clientVars, serverVars
  <2>2. QED BY <1>1, <2>1, QueuesKeepTypes
<1>3. ASSUME NEW l \in Launches, AddLaunch(l) \/ OpenLaunch(l) \/ Request(l) \/ CloseReturns(l)
      PROVE  QueueT'
  <2>1. LaunchMsg(l) \in Msgs /\ Message("Request", l, {}, ~ToldLaunched(l)) \in Msgs
    BY MessageTypes DEF ToldLaunched
  <2>2. QED BY <1>1, <1>3, <2>1, OwnerMoves, QueuesKeepTypes, ItemTypes
<1>4. ASSUME NEW l \in Launches, NEW f \in ClosesWith, Close(l, f) PROVE QueueT'
  <2>1. Message("Close", l, RemoteFlags(f), ~ToldLaunched(l)) \in Msgs
    BY MessageTypes DEF ToldLaunched, RemoteFlags, CloseFlags
  <2>2. QED BY <1>1, <1>4, <2>1, OwnerMoves, QueuesKeepTypes, ItemTypes
<1>5. CASE Destroy \/ ServerHasExited \/ WaitTimesOut \/ ClearServer \/ JoinThread \/ ClientDies
  BY <1>1, <1>5, OwnerMoves, QueuesKeepTypes, ItemTypes, MessageTypes
<1>6. CASE SendItem \/ FailSend \/ OnServerState \/ HandlePacket
  BY <1>1, <1>6, ClientMoves, QueuesKeepTypes, ItemTypes
<1>7. CASE DoReport \/ DoFinish \/ DoReply \/ SetErrorDone
  BY <1>1, <1>7, ClientMoves, QueuesKeepTypes, ItemTypes, MessageTypes
<1>8. CASE \E l \in Launches : SetErrorOf(l)
  BY <1>1, <1>8, ClientMoves, QueuesKeepTypes
<1>9. CASE StartServer \/ StartServerFails \/ ServerDies \/ ServerQuits
  BY <1>1, <1>9, ServerMoves, QueuesKeepTypes, ItemTypes
<1>10. CASE Read \/ ReadEnd \/ DisconnectSeen
  BY <1>1, <1>10, ServerMoves, QueuesKeepTypes, ItemTypes
<1>11. CASE HandleLaunch \/ HandleClose \/ HandleRequest \/ HandleDisconnect \/ HandleReply
  BY <1>1, <1>11, HandlerMoves, QueuesKeepTypes, ItemTypes
<1>12. CASE OnInputEnd \/ ConstructLaunch \/ OnReport
  BY <1>1, <1>12, HandlerMoves, QueuesKeepTypes, ItemTypes
<1>13. CASE DestroyLaunch \/ BeginClear \/ LaunchCleared \/ DestroyReader
  BY <1>1, <1>13, ServerMoves, QueuesKeepTypes
<1>14. CASE \E l \in Launches : ClearLaunch(l)
  BY <1>1, <1>14, ServerMoves, QueuesKeepTypes
<1>15. ASSUME NEW l \in Launches,
              \/ StartProcess(l) \/ StartProcessFails(l) \/ ReadOutput(l)
              \/ Reap(l) \/ NoServer(l) \/ GetServer(l) \/ ProcessEnds(l)
       PROVE  QueueT'
  BY <1>1, <1>15, ThreadMoves, QueuesKeepTypes
<1>16. ASSUME NEW l \in Launches, Dispatch(l) PROVE QueueT'
  <2>1. thread[l].report \in Reports BY DEF TypeInv, ThreadT
  <2>2. QED BY <1>1, <1>16, <2>1, ThreadMoves, QueuesKeepTypes, ItemTypes
<1>17. QED
  BY <1>2, <1>3, <1>4, <1>5, <1>6, <1>7, <1>8, <1>9, <1>10, <1>11, <1>12, <1>13, <1>14, <1>15,
     <1>16, StepKinds
(* The steps of the client leave the server alone, and those of the server *)
(* leave all of the client alone but its queue.                            *)
OwnerMove  == \/ \E l \in Launches : AddLaunch(l) \/ OpenLaunch(l) \/ Request(l) \/ CloseReturns(l)
              \/ \E l \in Launches, f \in ClosesWith : Close(l, f)
              \/ Destroy \/ ServerHasExited \/ ClearServer \/ JoinThread \/ ClientDies
ClientMove == \/ SendItem \/ FailSend \/ OnServerState \/ HandlePacket
              \/ DoReport \/ DoFinish \/ DoReply \/ SetErrorDone
              \/ \E l \in Launches : SetErrorOf(l)
ServerMove == \/ StartServer \/ StartServerFails \/ ServerDies \/ ServerQuits
              \/ Read \/ ReadEnd \/ DisconnectSeen
              \/ HandleLaunch \/ HandleClose \/ HandleRequest \/ HandleDisconnect \/ HandleReply
              \/ OnInputEnd \/ ConstructLaunch \/ OnReport
              \/ DestroyLaunch \/ BeginClear \/ LaunchCleared \/ DestroyReader
              \/ \E l \in Launches : ClearLaunch(l)
ThreadMove == \E l \in Launches : \/ StartProcess(l) \/ StartProcessFails(l) \/ ReadOutput(l)
                                  \/ Reap(l) \/ NoServer(l) \/ GetServer(l) \/ ProcessEnds(l)
                                  \/ Dispatch(l)
clientRest == <<client, cdo, buffered, launched, cerror, serverExited, ownerVars>>
serverRest == <<server, reader, sq, sdo, main, disconnect, smap, launchVars, historyVars>>

LEMMA Sides ==
  /\ [Next]_vars => UNCHANGED vars \/ OwnerMove \/ ClientMove \/ ServerMove \/ ThreadMove
                    \/ WaitTimesOut
  /\ OwnerMove \/ ClientMove => UNCHANGED serverRest
  /\ OwnerMove => UNCHANGED <<c2s, launched, cerror, serverExited>> \/ JoinThread \/ ClientDies
  /\ ServerMove \/ ThreadMove => UNCHANGED clientRest
  /\ ThreadMove => UNCHANGED <<cq, c2s, server, reader, sdo, main, disconnect, smap, handle,
                               pointer, kill, historyVars>>
<1>1. [Next]_vars => UNCHANGED vars \/ OwnerMove \/ ClientMove \/ ServerMove \/ ThreadMove
                     \/ WaitTimesOut
  BY StepKinds, Zenon DEF OwnerMove, ClientMove, ServerMove, ThreadMove
<1>2. OwnerMove \/ ClientMove => UNCHANGED serverRest
  <2>1. ASSUME NEW l \in Launches, AddLaunch(l) \/ OpenLaunch(l) \/ Request(l) \/ CloseReturns(l)
        PROVE  UNCHANGED serverRest
    BY <2>1 DEF AddLaunch, OpenLaunch, Request, CloseReturns, serverVars, serverRest, launchVars,
                historyVars
  <2>2. ASSUME NEW l \in Launches, NEW f \in ClosesWith, Close(l, f) PROVE UNCHANGED serverRest
    BY <2>2 DEF Close, serverVars, serverRest, launchVars, historyVars
  <2>3. CASE Destroy \/ ServerHasExited \/ ClearServer \/ JoinThread \/ ClientDies
    BY <2>3 DEF Destroy, ServerHasExited, ClearServer, JoinThread, ClientDies, serverVars,
                serverRest, launchVars, historyVars
  <2>4. CASE SendItem \/ FailSend \/ OnServerState \/ HandlePacket
    BY <2>4 DEF SendItem, FailSend, OnServerState, HandlePacket, serverVars, serverRest,
                launchVars, historyVars
  <2>5. CASE DoReport \/ DoFinish \/ DoReply \/ SetErrorDone
    BY <2>5 DEF DoReport, DoFinish, DoReply, SetErrorDone, serverVars, serverRest, launchVars,
                historyVars
  <2>6. ASSUME NEW l \in Launches, SetErrorOf(l) PROVE UNCHANGED serverRest
    BY <2>6 DEF SetErrorOf, serverVars, serverRest, launchVars, historyVars
  <2>7. QED BY <2>1, <2>2, <2>3, <2>4, <2>5, <2>6 DEF OwnerMove, ClientMove
<1>3. ServerMove => UNCHANGED clientRest
  <2>1. CASE StartServer \/ StartServerFails \/ ServerDies \/ ServerQuits
    BY <2>1 DEF StartServer, StartServerFails, ServerDies, ServerQuits, clientRest
  <2>2. CASE Read \/ ReadEnd \/ DisconnectSeen
    BY <2>2 DEF Read, ReadEnd, DisconnectSeen, clientVars, clientRest, ownerVars
  <2>3. CASE HandleLaunch \/ HandleClose \/ HandleRequest \/ HandleDisconnect \/ HandleReply
    BY <2>3 DEF HandleLaunch, HandleClose, HandleRequest, HandleDisconnect, HandleReply,
                clientVars, clientRest, ownerVars
  <2>4. CASE OnInputEnd \/ ConstructLaunch \/ OnReport
    BY <2>4 DEF OnInputEnd, ConstructLaunch, OnReport, clientVars, clientRest, ownerVars
  <2>5. CASE DestroyLaunch \/ BeginClear \/ LaunchCleared \/ DestroyReader
    BY <2>5 DEF DestroyLaunch, BeginClear, LaunchCleared, DestroyReader, clientVars, clientRest,
                ownerVars
  <2>6. ASSUME NEW l \in Launches, ClearLaunch(l) PROVE UNCHANGED clientRest
    BY <2>6 DEF ClearLaunch, clientVars, clientRest, ownerVars
  <2>7. QED BY <2>1, <2>2, <2>3, <2>4, <2>5, <2>6 DEF ServerMove
<1>4. ThreadMove => /\ UNCHANGED clientRest
                    /\ UNCHANGED <<cq, c2s, server, reader, sdo, main, disconnect, smap, handle,
                                   pointer, kill, historyVars>>
  <2>1. ASSUME NEW l \in Launches,
               StartProcess(l) \/ StartProcessFails(l) \/ ReadOutput(l) \/ Reap(l)
        PROVE  UNCHANGED threadRest
    BY <2>1 DEF StartProcess, StartProcessFails, ReadOutput, Reap
  <2>2. ASSUME NEW l \in Launches, NoServer(l) \/ GetServer(l) \/ ProcessEnds(l) \/ Dispatch(l)
        PROVE  UNCHANGED threadRest
    BY <2>2 DEF NoServer, GetServer, ProcessEnds, Dispatch, threadRest, historyVars
  <2>3. UNCHANGED threadRest => /\ UNCHANGED clientRest
                                /\ UNCHANGED <<cq, c2s, server, reader, sdo, main, disconnect,
                                               smap, handle, pointer, kill, historyVars>>
    BY DEF threadRest, clientVars, clientRest, ownerVars
  <2>4. QED BY <2>1, <2>2, <2>3 DEF ThreadMove
<1>5. OwnerMove => UNCHANGED <<c2s, launched, cerror, serverExited>> \/ JoinThread \/ ClientDies
  <2>1. ASSUME NEW l \in Launches, AddLaunch(l) \/ OpenLaunch(l) \/ Request(l) \/ CloseReturns(l)
        PROVE  UNCHANGED <<c2s, launched, cerror, serverExited>>
    BY <2>1 DEF AddLaunch, OpenLaunch, Request, CloseReturns, dispatchVars
  <2>2. ASSUME NEW l \in Launches, NEW f \in ClosesWith, Close(l, f)
        PROVE  UNCHANGED <<c2s, launched, cerror, serverExited>>
    BY <2>2 DEF Close
  <2>3. CASE Destroy \/ ServerHasExited \/ ClearServer
    BY <2>3 DEF Destroy, ServerHasExited, ClearServer, dispatchVars
  <2>4. QED BY <2>1, <2>2, <2>3 DEF OwnerMove
<1>6. QED BY <1>1, <1>2, <1>3, <1>4, <1>5

DoC == cdo \in ClientDoing /\ (cdo.do \in {"report", "finish"} => cdo.launch \in Launches)
DoS == /\ sdo \in [do : {"loop", "destroy", "clear", "join", "ended"},
                   launch : Launches \cup {NoLaunch}]
       /\ sdo.do \in {"destroy", "join"} => sdo.launch \in Launches

(* What the client reports is about a launch, and what it visits are some. *)
LEMMA ClientDoesTyped ==
  /\ \A l \in Launches, r \in Reports \cup {"GeneralError"}, f \in {"send", "packet", "error"},
        k \in SUBSET Launches : /\ ClientDoes("report", l, r, f, k) \in ClientDoing
                                /\ ClientDoes("report", l, r, f, k).launch = l
  /\ \A k \in SUBSET Launches : ClientDoes("error", NoLaunch, "Output", "error", k) \in ClientDoing
  /\ ClientIdle \in ClientDoing
  /\ ClientDoes("reply", NoLaunch, "Output", "packet", {}) \in ClientDoing
  /\ \A l, r, f, k, d : ClientDoes(d, l, r, f, k).do = d
BY DEF ClientDoes, ClientIdle, ClientDoing, Reports, States

LEMMA ClientDoTypes ==
  ASSUME TypeInv, [Next]_vars
  PROVE  DoC'
<1>1. DoC BY DEF TypeInv, DoT, DoC
<1>2. SUFFICES cdo' = cdo \/ DoC'
  BY <1>1 DEF DoC
<1>3. CASE OwnerMove
  <2>1. ASSUME NEW l \in Launches, AddLaunch(l) \/ OpenLaunch(l) \/ Request(l) \/ CloseReturns(l)
        PROVE  cdo' = cdo
    BY <2>1 DEF AddLaunch, OpenLaunch, Request, CloseReturns, dispatchVars
  <2>2. ASSUME NEW l \in Launches, NEW f \in ClosesWith, Close(l, f) PROVE cdo' = cdo
    BY <2>2 DEF Close
  <2>3. CASE Destroy \/ ServerHasExited \/ ClearServer
    BY <2>3 DEF Destroy, ServerHasExited, ClearServer, dispatchVars
  <2>4. CASE JoinThread \/ ClientDies
    <3>1. cdo' = ClientIdle BY <2>4 DEF JoinThread, ClientDies, ClientForgets
    <3>2. QED BY <3>1, ClientDoesTyped DEF DoC, ClientIdle
  <2>5. QED BY <1>3, <2>1, <2>2, <2>3, <2>4 DEF OwnerMove
<1>4. CASE SendItem
  BY <1>4 DEF SendItem
<1>5. CASE FailSend
  <2>1. PICK m \in Msgs : Head(cq) = Send(m) BY <1>5, ClientMoves DEF TypeInv
  <2>2. Head(cq).message = m BY <2>1 DEF Send
  <2>3. m.type \in AboutLaunch => m.launch \in Launches BY DEF Msgs
  <2>4. \/ cdo' = cdo
        \/ /\ m.type \in AboutLaunch
           /\ \E r \in Reports \cup {"GeneralError"} :
                 cdo' = ClientDoes("report", m.launch, r, "send", {})
    BY <1>5, <2>2 DEF FailSend, BeginReport, AboutLaunch, Reports, States
  <2>5. QED BY <2>3, <2>4, ClientDoesTyped DEF DoC
<1>6. CASE OnServerState
  <2>1. \/ cdo' = cdo
        \/ \E k \in SUBSET Launches : cdo' = ClientDoes("error", NoLaunch, "Output", "error", k)
    BY <1>6 DEF OnServerState, BeginSetError, TypeInv, OwnerT
  <2>2. QED BY <2>1, ClientDoesTyped DEF DoC
<1>7. CASE HandlePacket
  <2>1. PICK l \in Launches, r \in Reports : Head(cq) = Packet(l, r)
    BY <1>7, ClientMoves DEF TypeInv
  <2>2. Head(cq).launch = l /\ Head(cq).report = r BY <2>1 DEF Packet
  <2>3. cdo' = ClientDoes("report", l, r, "packet", {}) \/ cdo' = Replying
    BY <1>7, <2>2 DEF HandlePacket, BeginReport
  <2>4. QED BY <2>3, ClientDoesTyped DEF DoC, Replying, ClientIdle
<1>8. CASE DoReport \/ DoFinish
  <2>1. cdo.left \in SUBSET Launches BY <1>1 DEF DoC, ClientDoing
  <2>2. Continue \in ClientDoing /\ Continue.do \notin {"report", "finish"}
    BY <2>1, ClientDoesTyped DEF Continue, Replying, ClientIdle
  <2>3. cdo' = Continue \/ (cdo.do = "report" /\ cdo' = [cdo EXCEPT !.do = "finish"])
    BY <1>8 DEF DoReport, DoFinish
  <2>4. CASE cdo' = Continue BY <2>2, <2>4 DEF DoC
  <2>5. CASE cdo.do = "report" /\ cdo' = [cdo EXCEPT !.do = "finish"]
    BY <1>1, <2>5 DEF DoC, ClientDoing
  <2>6. QED BY <2>3, <2>4, <2>5
<1>9. CASE DoReply \/ SetErrorDone
  <2>1. cdo' = ClientIdle BY <1>9 DEF DoReply, SetErrorDone
  <2>2. QED BY <2>1, ClientDoesTyped DEF DoC, ClientIdle
<1>10. ASSUME NEW l \in Launches, SetErrorOf(l) PROVE DoC'
  <2>1. cdo.left \ {l} \in SUBSET Launches BY <1>1 DEF DoC, ClientDoing
  <2>2. \/ cdo' = ClientDoes("report", l, "LaunchFailed", "error", cdo.left \ {l})
        \/ cdo.do = "error" /\ cdo' = [cdo EXCEPT !.left = @ \ {l}]
    BY <1>10 DEF SetErrorOf, BeginReport
  <2>3. "LaunchFailed" \in Reports BY DEF Reports, States
  <2>4. CASE cdo' = ClientDoes("report", l, "LaunchFailed", "error", cdo.left \ {l})
    BY <2>1, <2>3, <2>4, ClientDoesTyped DEF DoC
  <2>5. CASE cdo.do = "error" /\ cdo' = [cdo EXCEPT !.left = @ \ {l}]
    BY <1>1, <2>1, <2>5 DEF DoC, ClientDoing
  <2>6. QED BY <2>2, <2>4, <2>5
<1>11. CASE UNCHANGED vars \/ ServerMove \/ ThreadMove \/ WaitTimesOut
  BY <1>11, Sides DEF vars, clientVars, clientRest, WaitTimesOut
<1>12. QED
  BY <1>3, <1>4, <1>5, <1>6, <1>7, <1>8, <1>9, <1>10, <1>11, Sides DEF ClientMove

LEMMA ClientTypes ==
  ASSUME TypeInv, [Next]_vars
  PROVE  ClientT'
<1>1. ClientT BY DEF TypeInv
<1>2. CASE UNCHANGED vars \/ ServerMove \/ ThreadMove
  BY <1>1, <1>2, Sides DEF vars, clientVars, clientRest, ClientT
<1>3. CASE WaitTimesOut
  BY <1>1, <1>3 DEF WaitTimesOut, ClientT
<1>4. ASSUME NEW l \in Launches, AddLaunch(l) \/ OpenLaunch(l) \/ Request(l) \/ CloseReturns(l)
      PROVE  ClientT'
  BY <1>1, <1>4 DEF AddLaunch, OpenLaunch, Request, CloseReturns, dispatchVars, ClientT
<1>5. ASSUME NEW l \in Launches, NEW f \in ClosesWith, Close(l, f) PROVE ClientT'
  BY <1>1, <1>5 DEF Close, ClientT
<1>6. CASE Destroy \/ ServerHasExited \/ ClearServer
  BY <1>1, <1>6 DEF Destroy, ServerHasExited, ClearServer, dispatchVars, ClientT
<1>7. CASE JoinThread \/ ClientDies
  BY <1>1, <1>7 DEF JoinThread, ClientDies, ClientForgets, ClientT
<1>8. CASE SendItem \/ FailSend \/ HandlePacket
  BY <1>1, <1>8 DEF SendItem, FailSend, HandlePacket, ClientT
<1>9. CASE OnServerState
  BY <1>1, <1>9 DEF OnServerState, BeginSetError, ClientT
<1>10. CASE DoReport \/ DoFinish \/ DoReply \/ SetErrorDone
  BY <1>1, <1>10 DEF DoReport, DoFinish, DoReply, SetErrorDone, ClientT
<1>11. ASSUME NEW l \in Launches, SetErrorOf(l) PROVE ClientT'
  BY <1>1, <1>11 DEF SetErrorOf, ClientT
<1>12. QED
  BY <1>2, <1>3, <1>4, <1>5, <1>6, <1>7, <1>8, <1>9, <1>10, <1>11, Sides DEF OwnerMove, ClientMove

LEMMA OwnerTypes ==
  ASSUME TypeInv, [Next]_vars
  PROVE  OwnerT'
<1>1. OwnerT /\ DoC BY DEF TypeInv, DoT, DoC
<1>2. CASE UNCHANGED vars \/ ServerMove \/ ThreadMove \/ WaitTimesOut
  <2>1. UNCHANGED ownerVars
    BY <1>2, Sides DEF vars, clientVars, clientRest, WaitTimesOut, ownerVars
  <2>2. QED BY <1>1, <2>1 DEF OwnerT, ownerVars
<1>3. ASSUME NEW l \in Launches, AddLaunch(l) PROVE OwnerT'
  BY <1>1, <1>3 DEF AddLaunch, OwnerT
<1>4. ASSUME NEW l \in Launches, OpenLaunch(l) PROVE OwnerT'
  BY <1>1, <1>4 DEF OpenLaunch, OwnerT
<1>5. ASSUME NEW l \in Launches, Request(l) PROVE OwnerT'
  <2>1. asked' \in [Launches -> 0 .. MaxRequests]
    BY <1>1, <1>5, LimitsAssumption DEF Request, OwnerT
  <2>2. UNCHANGED <<cmap, owner, flags, running, finished, reports>> BY <1>5 DEF Request
  <2>3. QED BY <1>1, <2>1, <2>2 DEF OwnerT
<1>6. ASSUME NEW l \in Launches, CloseReturns(l) PROVE OwnerT'
  BY <1>1, <1>6 DEF CloseReturns, OwnerT
<1>7. ASSUME NEW l \in Launches, NEW f \in ClosesWith, Close(l, f) PROVE OwnerT'
  <2>1. f \in SUBSET CloseFlags BY ClosesAssumption
  <2>2. /\ owner' = [owner EXCEPT ![l] = "closing"] /\ flags' = [flags EXCEPT ![l] = f]
        /\ UNCHANGED <<cmap, asked, running, finished, reports>>
    BY <1>7 DEF Close
  <2>3. flags' \in [Launches -> SUBSET CloseFlags] BY <1>1, <2>1, <2>2 DEF OwnerT
  <2>4. QED BY <1>1, <2>2, <2>3 DEF OwnerT
<1>8. CASE Destroy \/ ServerHasExited \/ ClearServer
  BY <1>1, <1>8 DEF Destroy, ServerHasExited, ClearServer, ownerVars, OwnerT
<1>9. CASE JoinThread \/ ClientDies
  <2>1. /\ cmap' = {} /\ running' = {} /\ finished' = {}
        /\ owner' = [k \in Launches |-> "none"] /\ flags' = [k \in Launches |-> {}]
        /\ asked' = [k \in Launches |-> 0] /\ reports' = [k \in Launches |-> <<>>]
    BY <1>9 DEF JoinThread, ClientDies, ClientForgets
  <2>2. <<>> \in Seq(Reports \cup {"GeneralError"}) /\ 0 \in 0 .. MaxRequests
    BY LimitsAssumption
  <2>3. QED BY <2>1, <2>2 DEF OwnerT
<1>10. CASE SendItem BY <1>1, <1>10 DEF SendItem, ownerVars, OwnerT
<1>11. CASE FailSend \/ HandlePacket
  <2>1. /\ UNCHANGED <<cmap, owner, flags, asked, finished, reports>>
        /\ running' \subseteq running
    BY <1>11 DEF FailSend, HandlePacket, BeginReport
  <2>2. QED BY <1>1, <2>1 DEF OwnerT
<1>12. CASE OnServerState \/ DoReply \/ SetErrorDone
  BY <1>1, <1>12 DEF OnServerState, DoReply, SetErrorDone, ownerVars, OwnerT
<1>13. CASE DoReport
  <2>1. cdo.launch \in Launches /\ cdo.report \in Reports \cup {"GeneralError"}
    BY <1>1, <1>13 DEF DoReport, DoC, ClientDoing
  <2>2. /\ reports' = [reports EXCEPT ![cdo.launch] = Append(@, cdo.report)]
        /\ UNCHANGED <<cmap, owner, flags, asked, running, finished>>
    BY <1>13 DEF DoReport
  <2>3. Append(reports[cdo.launch], cdo.report) \in Seq(Reports \cup {"GeneralError"})
    BY <1>1, <2>1, AppendProperties DEF OwnerT
  <2>4. reports' \in [Launches -> Seq(Reports \cup {"GeneralError"})]
    BY <1>1, <2>2, <2>3 DEF OwnerT
  <2>5. QED BY <1>1, <2>2, <2>4 DEF OwnerT
<1>14. CASE DoFinish
  <2>1. cdo.launch \in Launches BY <1>1, <1>14 DEF DoFinish, DoC
  <2>2. QED BY <1>1, <1>14, <2>1 DEF DoFinish, OwnerT
<1>15. ASSUME NEW l \in Launches, SetErrorOf(l) PROVE OwnerT'
  <2>1. /\ UNCHANGED <<cmap, owner, flags, asked, finished, reports>>
        /\ running' \subseteq running
    BY <1>15 DEF SetErrorOf, BeginReport
  <2>2. QED BY <1>1, <2>1 DEF OwnerT
<1>16. QED
  BY <1>2, <1>3, <1>4, <1>5, <1>6, <1>7, <1>8, <1>9, <1>10, <1>11, <1>12, <1>13, <1>14, <1>15, Sides
     DEF OwnerMove, ClientMove

LEMMA ServerDoTypes ==
  ASSUME TypeInv, [Next]_vars
  PROVE  DoS'
<1>1. DoS /\ QueueT /\ NoLaunch \notin Launches BY LaunchesAssumption DEF TypeInv, DoT, DoS
<1>2. CASE UNCHANGED vars \/ OwnerMove \/ ClientMove \/ ThreadMove
  BY <1>1, <1>2, Sides DEF vars, serverVars, serverRest, DoS
<1>3. CASE WaitTimesOut \/ ServerDies \/ ServerQuits
  <2>1. sdo' = sdo \/ sdo' = [do |-> "loop", launch |-> NoLaunch]
    BY <1>3 DEF WaitTimesOut, ServerDies, ServerQuits, ServerEnds, ServerForgets, serverVars
  <2>2. QED BY <1>1, <2>1 DEF DoS
<1>4. CASE StartServer \/ StartServerFails \/ Read \/ ReadEnd \/ DisconnectSeen
  BY <1>1, <1>4 DEF StartServer, StartServerFails, Read, ReadEnd, DisconnectSeen, DoS
<1>5. CASE HandleLaunch \/ HandleClose \/ HandleRequest \/ HandleDisconnect \/ HandleReply
  BY <1>1, <1>5 DEF HandleLaunch, HandleClose, HandleRequest, HandleDisconnect, HandleReply, DoS
<1>6. CASE OnInputEnd \/ ConstructLaunch
  BY <1>1, <1>6 DEF OnInputEnd, ConstructLaunch, DoS
<1>7. CASE OnReport
  <2>1. PICK l \in Launches, r \in Reports : Head(sq) = Report(l, r)
    BY <1>1, <1>7, HandlerMoves
  <2>2. sdo' = sdo \/ sdo' = [do |-> "destroy", launch |-> l]
    BY <1>7, <2>1 DEF OnReport, Report
  <2>3. QED BY <1>1, <2>2 DEF DoS
<1>8. CASE DestroyLaunch \/ BeginClear \/ LaunchCleared \/ DestroyReader
  <2>1. \E d \in {"loop", "clear", "ended"} : sdo' = [do |-> d, launch |-> NoLaunch]
    BY <1>8 DEF DestroyLaunch, BeginClear, LaunchCleared, DestroyReader
  <2>2. QED BY <1>1, <2>1 DEF DoS
<1>9. ASSUME NEW l \in Launches, ClearLaunch(l) PROVE DoS'
  <2>1. sdo' = [do |-> "join", launch |-> l] BY <1>9 DEF ClearLaunch
  <2>2. QED BY <1>1, <2>1 DEF DoS
<1>10. QED
  BY <1>2, <1>3, <1>4, <1>5, <1>6, <1>7, <1>8, <1>9, Sides DEF ServerMove

LEMMA ServerTypes ==
  ASSUME TypeInv, [Next]_vars
  PROVE  ServerT'
<1>1. ServerT /\ QueueT /\ DoS BY DEF TypeInv, DoT, DoS
<1>2. CASE UNCHANGED vars \/ OwnerMove \/ ClientMove
  BY <1>1, <1>2, Sides DEF vars, serverVars, serverRest, launchVars, historyVars, ServerT
<1>3. CASE ThreadMove
  BY <1>1, <1>3, Sides DEF historyVars, ServerT
<1>4. ASSUME ServerForgets, released' = released, server' \in {"killed", "quit"} PROVE ServerT'
  <2>1. /\ reader' = "idle" /\ main' = "wait" /\ disconnect' = FALSE
        /\ smap' = {} /\ pointer' = {} /\ kill' = {}
        /\ handle' = [l \in Launches |-> "null"] /\ ignored' = [l \in Launches |-> {}]
    BY <1>4 DEF ServerForgets
  <2>2. QED BY <1>1, <1>4, <2>1 DEF ServerT
<1>5. CASE WaitTimesOut \/ ServerDies \/ ServerQuits
  <2>1. \/ UNCHANGED serverRest /\ UNCHANGED reader
        \/ ServerForgets /\ released' = released /\ server' \in {"killed", "quit"}
    BY <1>5 DEF WaitTimesOut, ServerDies, ServerQuits, ServerEnds, serverVars, serverRest,
                launchVars, historyVars
  <2>2. QED
    BY <1>1, <1>4, <2>1 DEF serverRest, launchVars, historyVars, ServerT
<1>6. CASE StartServer \/ StartServerFails \/ Read \/ ReadEnd \/ DisconnectSeen
  BY <1>1, <1>6 DEF StartServer, StartServerFails, Read, ReadEnd, DisconnectSeen, launchVars,
                    historyVars, ServerT
<1>7. CASE HandleLaunch
  <2>1. PICK m \in Msgs : Head(sq) = Received(m) /\ m.launch \in Launches
    BY <1>1, <1>7, HandlerMoves DEF Handles
  <2>2. /\ smap' = smap \cup {m.launch} /\ pointer' = pointer \cup {m.launch}
        /\ UNCHANGED <<server, reader, main, disconnect, kill, released, handle, ignored>>
    BY <1>7, <2>1 DEF HandleLaunch, Received, historyVars
  <2>3. QED BY <1>1, <2>1, <2>2 DEF ServerT
<1>8. CASE HandleClose \/ HandleRequest
  <2>1. PICK m \in Msgs : Head(sq) = Received(m) /\ m.launch \in Launches
    BY <1>1, <1>8, HandlerMoves DEF Handles
  <2>2. m.early \in BOOLEAN BY DEF Msgs, Messages
  <2>3. /\ ignored' = ignored \/ ignored' = [ignored EXCEPT ![m.launch] = @ \cup {m.early}]
        /\ kill' = kill \/ kill' = kill \cup {m.launch}
        /\ released' = released \/ released' = released \cup {m.launch}
        /\ handle' = handle \/ handle' = [handle EXCEPT ![m.launch] = "closed"]
        /\ UNCHANGED <<server, reader, main, disconnect, smap, pointer>>
    BY <1>8, <2>1 DEF HandleClose, HandleRequest, Received, launchVars
  <2>4. ignored' \in [Launches -> SUBSET BOOLEAN] BY <1>1, <2>1, <2>2, <2>3 DEF ServerT
  <2>5. handle' \in [Launches -> {"null", "open", "closed"}] BY <1>1, <2>1, <2>3 DEF ServerT
  <2>6. kill' \subseteq Launches /\ released' \subseteq Launches BY <1>1, <2>1, <2>3 DEF ServerT
  <2>7. QED BY <1>1, <2>3, <2>4, <2>5, <2>6 DEF ServerT
<1>9. CASE HandleDisconnect \/ HandleReply \/ OnInputEnd
  <2>1. UNCHANGED <<server, reader, main, smap, pointer, kill, released, handle, ignored>>
    BY <1>9 DEF HandleDisconnect, HandleReply, OnInputEnd, launchVars, historyVars
  <2>2. disconnect' \in BOOLEAN
    BY <1>1, <1>9 DEF HandleDisconnect, HandleReply, OnInputEnd, ServerT
  <2>3. QED BY <1>1, <2>1, <2>2 DEF ServerT
<1>10. CASE ConstructLaunch
  <2>1. PICK l \in Launches : Head(sq) = Construct(l) BY <1>1, <1>10, HandlerMoves
  <2>2. Head(sq).launch = l BY <2>1 DEF Construct
  <2>3. /\ handle' = [handle EXCEPT ![l] = "open"]
        /\ UNCHANGED <<server, reader, main, disconnect, smap, pointer, kill, released, ignored>>
    BY <1>10, <2>2 DEF ConstructLaunch, historyVars
  <2>4. QED BY <1>1, <2>1, <2>3 DEF ServerT
<1>11. CASE OnReport \/ BeginClear \/ DestroyReader
  BY <1>1, <1>11 DEF OnReport, BeginClear, DestroyReader, launchVars, historyVars, ServerT
<1>12. CASE DestroyLaunch \/ LaunchCleared
  <2>1. /\ handle' = [handle EXCEPT ![sdo.launch] = "null"]
        /\ UNCHANGED <<server, reader, main, disconnect, smap, pointer, kill, released, ignored>>
    BY <1>12 DEF DestroyLaunch, LaunchCleared, historyVars
  <2>2. QED BY <1>1, <2>1 DEF ServerT
<1>13. ASSUME NEW l \in Launches, ClearLaunch(l) PROVE ServerT'
  BY <1>1, <1>13 DEF ClearLaunch, historyVars, ServerT
<1>14. QED
  BY <1>2, <1>3, <1>5, <1>6, <1>7, <1>8, <1>9, <1>10, <1>11, <1>12, <1>13, Sides DEF ServerMove

LEMMA ThreadTypes ==
  ASSUME TypeInv, [Next]_vars
  PROVE  ThreadT'
<1>1. ThreadT /\ QueueT BY DEF TypeInv
<1>2. UNCHANGED <<thread, written, process>> => ThreadT'
  BY <1>1 DEF ThreadT
<1>3. CASE UNCHANGED vars \/ OwnerMove \/ ClientMove
  BY <1>2, <1>3, Sides DEF vars, serverVars, serverRest, launchVars
<1>4. CASE WaitTimesOut \/ ServerDies \/ ServerQuits
  <2>1. \/ UNCHANGED <<thread, written, process>>
        \/ /\ process' = process /\ written' = [l \in Launches |-> 0]
           /\ thread' = [l \in Launches |-> [at |-> "none", report |-> "Launched"]]
    BY <1>4 DEF WaitTimesOut, ServerDies, ServerQuits, ServerEnds, ServerForgets, serverVars
  <2>2. "Launched" \in Reports /\ 0 \in 0 .. MaxOutput
    BY LimitsAssumption DEF Reports, States
  <2>3. QED BY <1>1, <1>2, <2>1, <2>2 DEF ThreadT
<1>5. CASE StartServer \/ StartServerFails \/ Read \/ ReadEnd \/ DisconnectSeen
  BY <1>2, <1>5 DEF StartServer, StartServerFails, Read, ReadEnd, DisconnectSeen, launchVars
<1>6. CASE HandleLaunch \/ HandleClose \/ HandleRequest \/ HandleDisconnect \/ HandleReply
  BY <1>2, <1>6 DEF HandleLaunch, HandleClose, HandleRequest, HandleDisconnect, HandleReply,
                    launchVars
<1>7. CASE OnInputEnd \/ OnReport \/ DestroyLaunch \/ BeginClear \/ LaunchCleared \/ DestroyReader
  BY <1>2, <1>7 DEF OnInputEnd, OnReport, DestroyLaunch, BeginClear, LaunchCleared, DestroyReader,
                    launchVars
<1>8. ASSUME NEW l \in Launches, ClearLaunch(l) PROVE ThreadT'
  BY <1>2, <1>8 DEF ClearLaunch
<1>9. CASE ConstructLaunch
  <2>1. PICK l \in Launches : Head(sq) = Construct(l) BY <1>1, <1>9, HandlerMoves
  <2>2. Head(sq).launch = l BY <2>1 DEF Construct
  <2>3. /\ thread' = [thread EXCEPT ![l].at = "start"]
        /\ UNCHANGED <<written, process>>
    BY <1>9, <2>2 DEF ConstructLaunch
  <2>4. QED BY <1>1, <2>1, <2>3 DEF ThreadT
<1>10. ASSUME NEW l \in Launches, NEW a, NEW r, Goes(l, a, r),
              a \in {"run", "dispatch", "got", "held", "over"}, r \in Reports
       PROVE  thread' \in [Launches -> [at : {"none", "start", "run", "dispatch", "got", "held",
                                              "over"}, report : Reports]]
  BY <1>1, <1>10 DEF Goes, ThreadT
<1>11. ASSUME NEW l \in Launches, StartProcess(l) \/ StartProcessFails(l) PROVE ThreadT'
  <2>1. /\ process' = [process EXCEPT ![l] = "running"]
           \/ process' = [process EXCEPT ![l] = "failed"]
        /\ Goes(l, "dispatch", "Launched") \/ Goes(l, "dispatch", "LaunchFailed")
        /\ written' = written
    BY <1>11 DEF StartProcess, StartProcessFails
  <2>2. "Launched" \in Reports /\ "LaunchFailed" \in Reports BY DEF Reports, States
  <2>3. QED BY <1>1, <1>10, <2>1, <2>2 DEF ThreadT
<1>12. ASSUME NEW l \in Launches, ReadOutput(l) \/ Reap(l) PROVE ThreadT'
  <2>1. /\ \/ written[l] < MaxOutput /\ written' = [written EXCEPT ![l] = @ + 1]
           \/ written' = written
        /\ Goes(l, "dispatch", "Output") \/ Goes(l, "dispatch", "Exited")
        /\ process' = process
    BY <1>12 DEF ReadOutput, Reap
  <2>2. "Output" \in Reports /\ "Exited" \in Reports BY DEF Reports, States
  <2>3. written' \in [Launches -> 0 .. MaxOutput] BY <1>1, <2>1, LimitsAssumption DEF ThreadT
  <2>4. QED BY <1>1, <1>10, <2>1, <2>2, <2>3 DEF ThreadT
<1>13. ASSUME NEW l \in Launches, NoServer(l) \/ GetServer(l) \/ Dispatch(l) PROVE ThreadT'
  <2>1. thread[l].report \in Reports BY <1>1 DEF ThreadT
  <2>2. /\ UNCHANGED <<written, process>>
        /\ \E a \in {"run", "got", "held", "over"} : Goes(l, a, thread[l].report)
    BY <1>13 DEF NoServer, GetServer, Dispatch, After
  <2>3. QED BY <1>1, <1>10, <2>1, <2>2 DEF ThreadT
<1>14. ASSUME NEW l \in Launches, ProcessEnds(l) PROVE ThreadT'
  BY <1>1, <1>14 DEF ProcessEnds, ThreadT
<1>15. QED
  BY <1>3, <1>4, <1>5, <1>6, <1>7, <1>8, <1>9, <1>11, <1>12, <1>13, <1>14, Sides
     DEF ServerMove, ThreadMove

LEMMA TypeStep ==
  ASSUME TypeInv, [Next]_vars
  PROVE  TypeInv'
<1>1. DoC' /\ DoS' BY ClientDoTypes, ServerDoTypes
<1>2. DoT' BY <1>1 DEF DoC, DoS, DoT
<1>3. QED
  BY <1>2, QueueTypes, ClientTypes, OwnerTypes, ServerTypes, ThreadTypes DEF TypeInv

LEMMA TypeInit == Init => TypeInv
<1>1. SUFFICES ASSUME Init PROVE TypeInv
  OBVIOUS
<1>2. \A T : <<>> \in Seq(T) OBVIOUS
<1>3. "Launched" \in Reports /\ 0 \in 0 .. MaxOutput /\ 0 \in 0 .. MaxRequests
  BY LimitsAssumption DEF Reports, States
<1>4. QueueT BY <1>1, <1>2 DEF Init, ClientFresh, ServerFresh, QueueT
<1>5. DoT
  <2>1. cdo = ClientIdle /\ sdo = [do |-> "loop", launch |-> NoLaunch]
    BY <1>1 DEF Init, ClientFresh, ServerFresh
  <2>2. QED BY <2>1, ClientDoesTyped DEF ClientIdle, DoT
<1>6. ClientT BY <1>1 DEF Init, ClientFresh, ClientT
<1>7. OwnerT BY <1>1, <1>2, <1>3 DEF Init, ClientFresh, OwnerT
<1>8. ServerT BY <1>1 DEF Init, ServerFresh, ServerT
<1>9. ThreadT BY <1>1, <1>3 DEF Init, ServerFresh, ThreadT
<1>10. QED BY <1>4, <1>5, <1>6, <1>7, <1>8, <1>9 DEF TypeInv

LEMMA TypesAreOK == TypeInv => TypeOK
<1>1. SUFFICES ASSUME TypeInv PROVE TypeOK
  OBVIOUS
<1>2. Msgs \subseteq Messages BY DEF Msgs
<1>3. CItems \subseteq ClientItems /\ SItems \subseteq ServerItems
  <2>1. CItems \subseteq ClientItems BY <1>2 DEF CItems, ClientItems
  <2>2. SItems \subseteq ServerItems BY <1>2 DEF SItems, ServerItems
  <2>3. QED BY <2>1, <2>2
<1>4. /\ cq \in Seq(ClientItems) /\ sq \in Seq(ServerItems)
      /\ buffered \in Seq(Messages) /\ c2s \in Seq(Messages)
  <2>1. /\ Seq(CItems) \subseteq Seq(ClientItems) /\ Seq(SItems) \subseteq Seq(ServerItems)
        /\ Seq(Msgs) \subseteq Seq(Messages)
    BY <1>2, <1>3, SeqMonotonic
  <2>2. QED BY <1>1, <2>1 DEF TypeInv, QueueT
<1>5. QED BY <1>1, <1>4 DEF TypeInv, TypeOK, DoT, ClientT, OwnerT, ServerT, ThreadT

(* Every variable stays within its type, for every number of launches, set *)
(* of closing flags, bound and set of faults.                              *)
THEOREM TypeCorrect == Spec => []TypeOK
<1>1. TypeInv /\ UNCHANGED vars => TypeInv' BY TypeStep
<1>2. TypeInv /\ Next => TypeInv' BY TypeStep
<1>3. QED BY <1>1, <1>2, TypeInit, TypesAreOK, PTL DEF Spec

-----------------------------------------------------------------------------
(* What the queues hold after a step.                                      *)

LEMMA ClientQueueItems ==
  ASSUME QueueT
  PROVE  /\ \A e \in CItems : Says(e) => Items(cq') = Items(cq) \cup {e}
         /\ \A e : FromQueue(e) => e \in Items(cq) /\ Items(cq') \subseteq Items(cq)
         /\ \A m \in Msgs : Keeps(m) => Items(buffered') = Items(buffered) \cup {m}
         /\ \A m \in Msgs : Writes(m) => Items(c2s') \subseteq Items(c2s) \cup {m}
         /\ \A e : Flushes(e) => /\ Items(buffered') = {}
                                 /\ Items(c2s') \subseteq Items(c2s) \cup Items(buffered)
         /\ Forgets => Items(cq') = {} /\ Items(buffered') = {}
<1>1. cq \in Seq(CItems) /\ buffered \in Seq(Msgs) /\ c2s \in Seq(Msgs) BY DEF QueueT
<1>2. ASSUME NEW e \in CItems, Says(e) PROVE Items(cq') = Items(cq) \cup {e}
  BY <1>1, <1>2, ItemsOfAppend DEF Says
<1>3. ASSUME NEW e, FromQueue(e) PROVE e \in Items(cq) /\ Items(cq') \subseteq Items(cq)
  BY <1>1, <1>3, ItemsOfTail DEF FromQueue
<1>4. ASSUME NEW m \in Msgs, Keeps(m) PROVE Items(buffered') = Items(buffered) \cup {m}
  BY <1>1, <1>4, ItemsOfAppend DEF Keeps
<1>5. ASSUME NEW m \in Msgs, Writes(m) PROVE Items(c2s') \subseteq Items(c2s) \cup {m}
  <2>1. <<m>> \in Seq(Msgs) OBVIOUS
  <2>2. Items(<<m>>) = {m} BY DEF Items
  <2>3. Items(c2s \o <<m>>) \subseteq Items(c2s) \cup Items(<<m>>)
    BY <1>1, <2>1, ItemsOfConcat
  <2>4. QED BY <1>5, <2>2, <2>3 DEF Writes
<1>6. ASSUME NEW e, Flushes(e)
      PROVE  Items(buffered') = {} /\ Items(c2s') \subseteq Items(c2s) \cup Items(buffered)
  BY <1>1, <1>6, ItemsOfConcat, ItemsOfNone DEF Flushes
<1>7. Forgets => Items(cq') = {} /\ Items(buffered') = {}
  BY ItemsOfNone DEF Forgets
<1>8. QED BY <1>2, <1>3, <1>4, <1>5, <1>6, <1>7

LEMMA ServerQueueItems ==
  ASSUME QueueT
  PROVE  /\ \A e \in SItems : Puts(e) => Items(sq') = Items(sq) \cup {e}
         /\ \A e : Takes(e) => e \in Items(sq) /\ Items(sq') \subseteq Items(sq)
         /\ \A l \in Launches, r \in Reports :
              Tells(l, r) => /\ Report(l, r) \in Items(sq) /\ Items(sq') \subseteq Items(sq)
                             /\ Items(cq') = Items(cq) \cup {Packet(l, r)}
         /\ \A l \in Launches, m \in Msgs :
              Adds(l, m) => /\ Received(m) \in Items(sq)
                            /\ Items(sq') \subseteq Items(sq) \cup {Construct(l)}
         /\ \A m \in Msgs :
              Reads(m) => /\ m \in Items(c2s) /\ Items(c2s') \subseteq Items(c2s)
                          /\ Items(sq') = Items(sq) \cup {Received(m)}
         /\ \A s \in {"Exited", "Crashed"} :
              Loses(s) => /\ Items(c2s') = {} /\ Items(sq') = {}
                          /\ Items(cq') \subseteq Items(cq) \cup {ServerState(s)}
<1>1. cq \in Seq(CItems) /\ sq \in Seq(SItems) /\ c2s \in Seq(Msgs) BY DEF QueueT
<1>2. ASSUME NEW e \in SItems, Puts(e) PROVE Items(sq') = Items(sq) \cup {e}
  BY <1>1, <1>2, ItemsOfAppend DEF Puts
<1>3. ASSUME NEW e, Takes(e) PROVE e \in Items(sq) /\ Items(sq') \subseteq Items(sq)
  BY <1>1, <1>3, ItemsOfTail DEF Takes, FromServerQueue
<1>4. ASSUME NEW l \in Launches, NEW r \in Reports, Tells(l, r)
      PROVE  /\ Report(l, r) \in Items(sq) /\ Items(sq') \subseteq Items(sq)
             /\ Items(cq') = Items(cq) \cup {Packet(l, r)}
  <2>1. Report(l, r) \in Items(sq) /\ Items(sq') \subseteq Items(sq)
    BY <1>1, <1>4, ItemsOfTail DEF Tells, FromServerQueue
  <2>2. Items(cq') = Items(cq) \cup {Packet(l, r)}
    BY <1>1, <1>4, ItemsOfAppend, ItemTypes DEF Tells
  <2>3. QED BY <2>1, <2>2
<1>5. ASSUME NEW l \in Launches, NEW m \in Msgs, Adds(l, m)
      PROVE  /\ Received(m) \in Items(sq)
             /\ Items(sq') \subseteq Items(sq) \cup {Construct(l)}
  <2>1. /\ Tail(sq) \in Seq(SItems) /\ Received(m) \in Items(sq)
        /\ Items(Tail(sq)) \subseteq Items(sq)
    BY <1>1, <1>5, ItemsOfTail DEF Adds, FromServerQueue
  <2>2. Items(sq') = Items(Tail(sq)) \cup {Construct(l)}
    BY <1>5, <2>1, ItemsOfAppend, ItemTypes DEF Adds
  <2>3. QED BY <2>1, <2>2
<1>6. ASSUME NEW m \in Msgs, Reads(m)
      PROVE  /\ m \in Items(c2s) /\ Items(c2s') \subseteq Items(c2s)
             /\ Items(sq') = Items(sq) \cup {Received(m)}
  <2>1. m \in Items(c2s) /\ Items(c2s') \subseteq Items(c2s)
    BY <1>1, <1>6, ItemsOfTail DEF Reads
  <2>2. Items(sq') = Items(sq) \cup {Received(m)}
    BY <1>1, <1>6, ItemsOfAppend, ItemTypes DEF Reads
  <2>3. QED BY <2>1, <2>2
<1>7. ASSUME NEW s \in {"Exited", "Crashed"}, Loses(s)
      PROVE  /\ Items(c2s') = {} /\ Items(sq') = {}
             /\ Items(cq') \subseteq Items(cq) \cup {ServerState(s)}
  <2>1. Items(c2s') = {} /\ Items(sq') = {} BY <1>7, ItemsOfNone DEF Loses
  <2>2. ServerState(s) \in CItems BY ItemTypes
  <2>3. Items(Append(cq, ServerState(s))) = Items(cq) \cup {ServerState(s)}
    BY <1>1, <2>2, ItemsOfAppend
  <2>4. QED BY <1>7, <2>1, <2>3 DEF Loses
<1>8. QED BY <1>2, <1>3, <1>4, <1>5, <1>6, <1>7

-----------------------------------------------------------------------------
(* A server that is not up.                                                *)

LEMMA ServerGoes ==
  ASSUME TypeInv
  PROVE  /\ WaitTimesOut => \/ UNCHANGED serverRest /\ UNCHANGED <<c2s, cq>>
                            \/ ServerEnds("killed", "Crashed")
         /\ ServerDies => ServerEnds("killed", "Crashed")
         /\ ServerQuits => ServerEnds("quit", "Exited")
         /\ \A how, told : ServerEnds(how, told) =>
              /\ server' = how /\ c2s' = <<>> /\ sq' = <<>> /\ pointer' = {} /\ sdo'.do = "loop"
              /\ released' = released /\ process' = process
              /\ \A l \in Launches : ~Constructed(l)' /\ handle'[l] = "null"
<1>1. WaitTimesOut => \/ UNCHANGED serverRest /\ UNCHANGED <<c2s, cq>>
                      \/ ServerEnds("killed", "Crashed")
  BY DEF WaitTimesOut, serverRest, serverVars, launchVars, historyVars
<1>2. ServerDies => ServerEnds("killed", "Crashed") BY DEF ServerDies
<1>3. ServerQuits => ServerEnds("quit", "Exited") BY DEF ServerQuits
<1>4. ASSUME NEW how, NEW told, ServerEnds(how, told)
      PROVE  /\ server' = how /\ c2s' = <<>> /\ sq' = <<>> /\ pointer' = {} /\ sdo'.do = "loop"
             /\ released' = released /\ process' = process
             /\ \A l \in Launches : ~Constructed(l)' /\ handle'[l] = "null"
  BY <1>4 DEF ServerEnds, ServerForgets, Constructed
<1>5. QED BY <1>1, <1>2, <1>3, <1>4

LEMMA ServerIsUp ==
  /\ ServerMove => \/ server = "up" /\ server' = "up"
                   \/ StartServer \/ StartServerFails \/ ServerDies \/ ServerQuits
  /\ ThreadMove => server' = server
  /\ \A l \in Launches :
        \/ StartProcess(l) \/ StartProcessFails(l) \/ ReadOutput(l) \/ Reap(l)
        \/ NoServer(l) \/ GetServer(l) \/ Dispatch(l)
        => server = "up"
<1>1. ThreadMove => server' = server BY Sides
<1>2. ASSUME NEW l \in Launches,
             \/ StartProcess(l) \/ StartProcessFails(l) \/ ReadOutput(l) \/ Reap(l)
             \/ NoServer(l) \/ GetServer(l) \/ Dispatch(l)
      PROVE  server = "up"
  BY <1>2 DEF StartProcess, StartProcessFails, ReadOutput, Reap, NoServer, GetServer, Dispatch,
              ThreadAt
<1>3. ServerMove => \/ server = "up" /\ server' = "up"
                    \/ StartServer \/ StartServerFails \/ ServerDies \/ ServerQuits
  <2>1. CASE Read \/ ReadEnd \/ DisconnectSeen
    BY <2>1 DEF Read, ReadEnd, DisconnectSeen
  <2>2. CASE HandleLaunch \/ HandleClose \/ HandleRequest \/ HandleDisconnect \/ HandleReply
    BY <2>2 DEF HandleLaunch, HandleClose, HandleRequest, HandleDisconnect, HandleReply, Handling,
                ServerNext
  <2>3. CASE OnInputEnd \/ ConstructLaunch \/ OnReport
    BY <2>3 DEF OnInputEnd, ConstructLaunch, OnReport, ServerNext
  <2>4. CASE DestroyLaunch \/ BeginClear \/ LaunchCleared \/ DestroyReader
    BY <2>4 DEF DestroyLaunch, BeginClear, LaunchCleared, DestroyReader
  <2>5. ASSUME NEW l \in Launches, ClearLaunch(l) PROVE server = "up" /\ server' = "up"
    BY <2>5 DEF ClearLaunch
  <2>6. QED BY <2>1, <2>2, <2>3, <2>4, <2>5 DEF ServerMove
<1>4. QED BY <1>1, <1>2, <1>3

LEMMA FreshStep ==
  ASSUME TypeInv, FreshInv, [Next]_vars
  PROVE  FreshInv'
<1>1. UNCHANGED serverRest /\ (UNCHANGED c2s \/ server = "up") => FreshInv'
  BY DEF serverRest, launchVars, FreshInv, Constructed
<1>2. CASE UNCHANGED vars
  BY <1>1, <1>2 DEF vars, serverVars, serverRest, launchVars, historyVars
<1>3. CASE OwnerMove
  <2>1. UNCHANGED c2s
    BY <1>3, Sides DEF JoinThread, ClientDies
  <2>2. QED BY <1>1, <1>3, <2>1, Sides
<1>4. CASE ClientMove
  <2>1. SendItem \/ OnServerState => UNCHANGED c2s \/ server = "up"
    BY DEF SendItem, OnServerState, Write
  <2>2. FailSend \/ HandlePacket \/ DoReport \/ DoFinish \/ DoReply \/ SetErrorDone => UNCHANGED c2s
    BY DEF FailSend, HandlePacket, DoReport, DoFinish, DoReply, SetErrorDone
  <2>3. ASSUME NEW l \in Launches, SetErrorOf(l) PROVE UNCHANGED c2s
    BY <2>3 DEF SetErrorOf
  <2>4. UNCHANGED c2s \/ server = "up" BY <1>4, <2>1, <2>2, <2>3 DEF ClientMove
  <2>5. QED BY <1>1, <1>4, <2>4, Sides
<1>5. ASSUME NEW how \in {"killed", "quit"}, NEW told, ServerEnds(how, told) PROVE FreshInv'
  BY <1>5, ServerGoes DEF FreshInv
<1>6. CASE WaitTimesOut \/ ServerDies \/ ServerQuits
  BY <1>1, <1>5, <1>6, ServerGoes
<1>7. CASE StartServer \/ StartServerFails
  BY <1>7 DEF StartServer, StartServerFails, launchVars, FreshInv, Constructed
<1>8. CASE server = "up" /\ server' = "up"
  BY <1>8 DEF FreshInv
<1>9. ASSUME NEW l \in Launches, ProcessEnds(l) PROVE FreshInv'
  BY <1>9 DEF ProcessEnds, FreshInv, Constructed
<1>10. CASE ServerMove
  BY <1>6, <1>7, <1>8, <1>10, ServerIsUp
<1>11. CASE ThreadMove
  BY <1>8, <1>9, <1>11, ServerIsUp DEF ThreadMove
<1>12. QED BY <1>2, <1>3, <1>4, <1>6, <1>10, <1>11, Sides

-----------------------------------------------------------------------------
(* A server that ends by itself.                                           *)

LEMMA OrphanOfStep ==
  ASSUME TypeInv, FreshInv, OrphanInv, [Next]_vars, NEW l \in Launches, server' = "up"
  PROVE  OrphanOf(l)'
<1>1. QueueT /\ ServerT /\ ThreadT /\ DoS BY DEF TypeInv, DoT, DoS
<1>2. server = "up" => OrphanOf(l) BY DEF OrphanInv
<1>3. ASSUME UNCHANGED <<server, released, process, thread, handle, pointer, sdo>>,
             Construct(l) \in Items(sq') => Construct(l) \in Items(sq)
      PROVE  OrphanOf(l)'
  BY <1>2, <1>3 DEF OrphanOf, Clearing, Over, Constructed
<1>4. CASE UNCHANGED vars \/ OwnerMove \/ ClientMove
  <2>1. UNCHANGED serverRest
    BY <1>4, Sides DEF vars, serverVars, serverRest, launchVars, historyVars
  <2>2. QED BY <1>3, <2>1 DEF serverRest, launchVars, historyVars
<1>5. CASE WaitTimesOut \/ ServerDies \/ ServerQuits
  <2>1. UNCHANGED serverRest BY <1>5, ServerGoes
  <2>2. QED BY <1>3, <2>1 DEF serverRest, launchVars, historyVars
<1>6. CASE StartServer \/ StartServerFails
  <2>1. /\ server = "none" /\ UNCHANGED <<released, process, thread, handle, pointer, sdo, sq>>
    BY <1>6 DEF StartServer, StartServerFails, launchVars, historyVars
  <2>2. Items(sq) = {} BY <2>1, ItemsOfNone DEF FreshInv
  <2>3. thread[l].at = "none" /\ handle[l] = "null" /\ process[l] = "none"
    BY <2>1 DEF FreshInv, Constructed
  <2>4. QED BY <2>1, <2>2, <2>3 DEF OrphanOf, Over, Constructed
<1>7. CASE Read \/ ReadEnd
  <2>1. UNCHANGED <<server, released, process, thread, handle, pointer, sdo>>
    BY <1>7 DEF Read, ReadEnd, launchVars, historyVars
  <2>2. \/ \E m : Items(sq') = Items(sq) \cup {Received(m)}
        \/ \E w : Items(sq') = Items(sq) \cup {InputEnd(w)}
    BY <1>1, <1>7, ServerMoves, ServerQueueItems, ItemTypes
  <2>3. QED BY <1>3, <2>1, <2>2, ItemsDiffer
<1>8. CASE DisconnectSeen
  BY <1>3, <1>8 DEF DisconnectSeen, launchVars, historyVars
<1>9. CASE HandleLaunch
  <2>1. PICK m \in Msgs : Handles(m) /\ m.launch \in Launches /\ Adds(m.launch, m)
    BY <1>1, <1>9, HandlerMoves
  <2>2. Head(sq).message.launch = m.launch BY <2>1 DEF Handles, Received
  <2>3. /\ pointer' = pointer \cup {m.launch}
        /\ UNCHANGED <<server, sdo, released, process, thread, handle>>
    BY <1>9, <2>2 DEF HandleLaunch, historyVars
  <2>4. Items(sq') \subseteq Items(sq) \cup {Construct(m.launch)}
    BY <1>1, <2>1, ServerQueueItems
  <2>5. Construct(l) \in Items(sq') => Construct(l) \in Items(sq) \/ l = m.launch
    BY <2>4, ItemsDiffer
  <2>6. QED BY <1>2, <2>3, <2>5 DEF OrphanOf, Clearing, Over, Constructed
<1>10. CASE HandleClose
  <2>1. PICK m \in Msgs : Handles(m) /\ m.launch \in Launches /\ Takes(Received(m))
    BY <1>1, <1>10, HandlerMoves
  <2>2. Head(sq).message.launch = m.launch /\ Items(sq') \subseteq Items(sq)
    BY <1>1, <2>1, ServerQueueItems DEF Handles, Received
  <2>3. /\ UNCHANGED <<server, sdo, process, thread, pointer>>
        /\ \/ /\ handle' = [handle EXCEPT ![m.launch] = "closed"]
              /\ released' = released \cup {m.launch}
           \/ UNCHANGED <<handle, released>>
    BY <1>10, <2>2 DEF HandleClose
  <2>4. /\ handle'[l] = handle[l] \/ (handle'[l] = "closed" /\ l \in released')
        /\ released \subseteq released'
    BY <1>1, <2>1, <2>3 DEF ServerT
  <2>5. QED BY <1>2, <2>2, <2>3, <2>4 DEF OrphanOf, Clearing, Over, Constructed
<1>11. CASE HandleRequest \/ HandleDisconnect \/ HandleReply \/ OnInputEnd
  <2>1. UNCHANGED <<server, released, process, thread, handle, pointer, sdo>>
    BY <1>11 DEF HandleRequest, HandleDisconnect, HandleReply, OnInputEnd, launchVars, historyVars
  <2>2. Items(sq') \subseteq Items(sq)
    BY <1>1, <1>11, HandlerMoves, ServerQueueItems
  <2>3. QED BY <1>3, <2>1, <2>2
<1>12. CASE ConstructLaunch
  <2>1. PICK k \in Launches : /\ server = "up" /\ sdo.do = "loop" /\ Head(sq) = Construct(k)
                              /\ Takes(Construct(k))
    BY <1>1, <1>12, HandlerMoves
  <2>2. Head(sq).launch = k BY <2>1 DEF Construct
  <2>3. /\ handle' = [handle EXCEPT ![k] = "open"]
        /\ thread' = [thread EXCEPT ![k].at = "start"]
        /\ UNCHANGED <<server, sdo, released, process, pointer>>
    BY <1>12, <2>2 DEF ConstructLaunch, historyVars
  <2>4. Construct(k) \in Items(sq) /\ Items(sq') \subseteq Items(sq)
    BY <1>1, <2>1, ServerQueueItems
  <2>5. CASE l = k
    <3>1. thread'[l].at = "start" /\ handle'[l] = "open" /\ l \in pointer'
      BY <1>1, <1>2, <2>1, <2>3, <2>4, <2>5 DEF ServerT, ThreadT, OrphanOf
    <3>2. QED BY <3>1 DEF OrphanOf, Over, Constructed
  <2>6. CASE l # k
    <3>1. thread'[l] = thread[l] /\ handle'[l] = handle[l]
      BY <1>1, <2>3, <2>6 DEF ServerT, ThreadT
    <3>2. QED BY <1>2, <2>1, <2>3, <2>4, <3>1 DEF OrphanOf, Clearing, Over, Constructed
  <2>7. QED BY <2>5, <2>6
<1>13. CASE OnReport
  <2>1. PICK k \in Launches, r \in Reports :
           /\ server = "up" /\ sdo.do = "loop" /\ Head(sq) = Report(k, r)
           /\ Tells(k, r) \/ Takes(Report(k, r))
    BY <1>1, <1>13, HandlerMoves
  <2>2. Items(sq') \subseteq Items(sq) BY <1>1, <2>1, ServerQueueItems
  <2>3. /\ UNCHANGED <<server, released, process, thread, handle, pointer>>
        /\ sdo' = sdo \/ sdo'.do = "destroy"
    BY <1>13 DEF OnReport, launchVars, historyVars
  <2>4. QED BY <1>2, <2>1, <2>2, <2>3 DEF OrphanOf, Clearing, Over, Constructed
<1>14. CASE DestroyLaunch \/ LaunchCleared
  <2>1. /\ sdo.do \in {"destroy", "join"} /\ Joined(sdo.launch)
        /\ handle' = [handle EXCEPT ![sdo.launch] = "null"]
        /\ sdo.do = "destroy" => sdo'.do = "loop"
        /\ sdo.do = "join" => sdo'.do = "clear"
        /\ UNCHANGED <<server, sq, pointer, thread, process, released>>
    BY <1>14 DEF DestroyLaunch, LaunchCleared, historyVars
  <2>2. CASE l = sdo.launch
    <3>1. handle'[l] = "null" BY <1>1, <2>1, <2>2 DEF ServerT
    <3>2. l \in released \/ (process[l] # "running" /\ thread[l].at \in {"none", "over"})
      BY <1>1, <1>2, <2>1, <2>2 DEF ServerT, OrphanOf, Joined, Over
    <3>3. QED BY <1>2, <2>1, <3>1, <3>2 DEF OrphanOf, Clearing, Over, Constructed
  <2>3. CASE l # sdo.launch
    <3>1. handle'[l] = handle[l] BY <1>1, <2>1, <2>3 DEF ServerT
    <3>2. QED BY <1>2, <2>1, <2>3, <3>1 DEF OrphanOf, Clearing, Over, Constructed
  <2>4. QED BY <2>2, <2>3
<1>15. CASE BeginClear \/ DestroyReader
  <2>1. /\ sdo.do \in {"loop", "clear"} /\ sdo'.do \in {"clear", "ended"}
        /\ UNCHANGED <<server, sq, pointer, thread, process, released, handle>>
    BY <1>15 DEF BeginClear, DestroyReader, launchVars, historyVars
  <2>2. QED BY <1>2, <2>1 DEF OrphanOf, Clearing, Over, Constructed
<1>16. ASSUME NEW k \in Launches, ClearLaunch(k) PROVE OrphanOf(l)'
  <2>1. /\ sdo.do = "clear" /\ sdo' = [do |-> "join", launch |-> k] /\ pointer' = pointer \ {k}
        /\ UNCHANGED <<server, sq, thread, process, released, handle>>
    BY <1>16 DEF ClearLaunch, historyVars
  <2>2. QED BY <1>2, <2>1 DEF OrphanOf, Clearing, Over, Constructed
<1>17. ASSUME NEW k \in Launches, UNCHANGED <<server, released, handle, pointer, sdo>>,
              server = "up", Construct(l) \in Items(sq') => Construct(l) \in Items(sq),
              \A j \in Launches : j # k => thread'[j] = thread[j] /\ process'[j] = process[j],
              Constructed(k), Constructed(k)',
              thread[k].at = "start" \/ process'[k] # "running" \/ process[k] = "running",
              thread[k].at # "over", Over(k)' => process'[k] # "running"
       PROVE  OrphanOf(l)'
  BY <1>2, <1>17 DEF OrphanOf, Clearing, Over, Constructed
<1>18. ASSUME NEW k \in Launches, StartProcess(k) \/ StartProcessFails(k) PROVE OrphanOf(l)'
  <2>1. /\ server = "up" /\ thread[k].at = "start"
        /\ UNCHANGED <<server, released, handle, pointer, sdo, sq>>
        /\ \/ /\ process' = [process EXCEPT ![k] = "running"]
              /\ thread' = [thread EXCEPT ![k] = [at |-> "dispatch", report |-> "Launched"]]
           \/ /\ process' = [process EXCEPT ![k] = "failed"]
              /\ thread' = [thread EXCEPT ![k] = [at |-> "dispatch", report |-> "LaunchFailed"]]
    BY <1>18, ServerIsUp
       DEF StartProcess, StartProcessFails, ThreadAt, Goes, threadRest, historyVars
  <2>2. \A j \in Launches : j # k => thread'[j] = thread[j] /\ process'[j] = process[j]
    BY <1>1, <2>1 DEF ThreadT
  <2>3. \/ process'[k] = "running" /\ thread'[k] = [at |-> "dispatch", report |-> "Launched"]
        \/ process'[k] = "failed" /\ thread'[k] = [at |-> "dispatch", report |-> "LaunchFailed"]
    BY <1>1, <2>1 DEF ThreadT
  <2>4. Over(k)' => process'[k] # "running" BY <2>3 DEF Over, Final
  <2>5. QED BY <1>17, <2>1, <2>2, <2>3, <2>4 DEF Constructed
<1>19. ASSUME NEW k \in Launches, ReadOutput(k) \/ Reap(k) PROVE OrphanOf(l)'
  <2>1. /\ server = "up" /\ thread[k].at = "run"
        /\ UNCHANGED <<server, released, handle, pointer, sdo, sq, process>>
        /\ \/ thread' = [thread EXCEPT ![k] = [at |-> "dispatch", report |-> "Output"]]
           \/ /\ thread' = [thread EXCEPT ![k] = [at |-> "dispatch", report |-> "Exited"]]
              /\ process[k] = "dead"
    BY <1>19 DEF ReadOutput, Reap, ThreadAt, Goes, threadRest, historyVars
  <2>2. \A j \in Launches : j # k => thread'[j] = thread[j] /\ process'[j] = process[j]
    BY <1>1, <2>1 DEF ThreadT
  <2>3. \/ thread'[k] = [at |-> "dispatch", report |-> "Output"]
        \/ process[k] = "dead" /\ thread'[k] = [at |-> "dispatch", report |-> "Exited"]
    BY <1>1, <2>1 DEF ThreadT
  <2>4. Over(k)' => process'[k] # "running" BY <2>1, <2>3 DEF Over, Final
  <2>5. process'[k] # "running" \/ process[k] = "running" BY <2>1
  <2>6. Constructed(k) /\ Constructed(k)' BY <2>1, <2>3 DEF Constructed
  <2>7. QED BY <1>17, <2>1, <2>2, <2>4, <2>5, <2>6
<1>20. ASSUME NEW k \in Launches, NoServer(k) \/ GetServer(k) \/ Dispatch(k) PROVE OrphanOf(l)'
  <2>1. /\ server = "up" /\ thread[k].at \in {"dispatch", "got"}
        /\ UNCHANGED <<server, released, handle, pointer, sdo, process>>
        /\ \E a \in {"got", "held", After(thread[k].report)} :
              thread' = [thread EXCEPT ![k] = [at |-> a, report |-> thread[k].report]]
    BY <1>20 DEF NoServer, GetServer, Dispatch, ThreadAt, Goes, threadRest, historyVars
  <2>2. \A j \in Launches : j # k => thread'[j] = thread[j] /\ process'[j] = process[j]
    BY <1>1, <2>1 DEF ThreadT
  <2>3. \E a \in {"got", "held", After(thread[k].report)} :
           thread'[k] = [at |-> a, report |-> thread[k].report]
    BY <1>1, <2>1 DEF ThreadT
  <2>4. Over(k)' => Over(k) BY <2>1, <2>3 DEF Over, After
  <2>5. Over(k) => process[k] # "running" BY <2>1 DEF OrphanInv, OrphanOf
  <2>6. Construct(l) \in Items(sq') => Construct(l) \in Items(sq)
    <3>1. sq' = sq \/ Puts(Report(k, thread[k].report))
      BY <1>20, ThreadMoves DEF Same
    <3>2. Report(k, thread[k].report) \in SItems BY <1>1, ItemTypes DEF ThreadT
    <3>3. QED BY <1>1, <3>1, <3>2, ServerQueueItems, ItemsDiffer
  <2>7. Constructed(k) /\ Constructed(k)' BY <2>1, <2>3 DEF Constructed, After
  <2>8. process'[k] # "running" \/ process[k] = "running" BY <2>1
  <2>9. QED BY <1>17, <2>1, <2>2, <2>4, <2>5, <2>6, <2>7, <2>8
<1>21. ASSUME NEW k \in Launches, ProcessEnds(k) PROVE OrphanOf(l)'
  <2>1. /\ process' = [process EXCEPT ![k] = "dead"]
        /\ UNCHANGED <<server, released, thread, handle, pointer, sdo, sq>>
    BY <1>21 DEF ProcessEnds, historyVars
  <2>2. process'[l] = process[l] \/ process'[l] = "dead" BY <1>1, <2>1 DEF ThreadT
  <2>3. QED BY <1>2, <2>1, <2>2 DEF OrphanOf, Clearing, Over, Constructed
<1>22. CASE ServerMove
  BY <1>5, <1>6, <1>7, <1>8, <1>9, <1>10, <1>11, <1>12, <1>13, <1>14, <1>15, <1>16, <1>22
     DEF ServerMove
<1>23. CASE ThreadMove BY <1>18, <1>19, <1>20, <1>21, <1>23 DEF ThreadMove
<1>24. QED BY <1>4, <1>5, <1>22, <1>23, Sides

LEMMA OrphanStep ==
  ASSUME TypeInv, FreshInv, OrphanInv, [Next]_vars
  PROVE  OrphanInv'
<1>1. QueueT /\ ServerT /\ ThreadT /\ DoS BY DEF TypeInv, DoT, DoS
<1>2. server' = "up" => \A l \in Launches : OrphanOf(l)'
  BY OrphanOfStep
<1>3. ASSUME UNCHANGED <<server, pointer>>, sdo'.do = "ended" => sdo.do = "ended"
      PROVE  server' = "up" /\ sdo'.do = "ended" => pointer' = {}
  BY <1>3 DEF OrphanInv
<1>4. UNCHANGED serverRest => (server' = "up" /\ sdo'.do = "ended" => pointer' = {})
  BY <1>3 DEF serverRest, launchVars
<1>5. server' = "up" /\ sdo'.do = "ended" => pointer' = {}
  <2>1. CASE UNCHANGED vars \/ OwnerMove \/ ClientMove
    BY <1>4, <2>1, Sides DEF vars, serverVars, serverRest, launchVars, historyVars
  <2>2. CASE WaitTimesOut \/ ServerDies \/ ServerQuits
    BY <1>4, <2>2, ServerGoes
  <2>3. CASE StartServer \/ StartServerFails \/ Read \/ ReadEnd \/ DisconnectSeen
    BY <1>3, <2>3 DEF StartServer, StartServerFails, Read, ReadEnd, DisconnectSeen,
                      launchVars, FreshInv
  <2>4. CASE HandleLaunch
    <3>1. sdo.do = "loop" /\ sdo' = sdo
      BY <2>4 DEF HandleLaunch, Handling, ServerNext
    <3>2. QED BY <3>1
  <2>5. CASE HandleClose \/ HandleRequest \/ HandleDisconnect \/ HandleReply \/ OnInputEnd
    BY <1>3, <2>5 DEF HandleClose, HandleRequest, HandleDisconnect, HandleReply, OnInputEnd,
                      launchVars
  <2>6. CASE ConstructLaunch \/ OnReport \/ DestroyLaunch \/ BeginClear \/ LaunchCleared
    BY <1>3, <2>6 DEF ConstructLaunch, OnReport, DestroyLaunch, BeginClear, LaunchCleared,
                      launchVars
  <2>7. CASE DestroyReader
    BY <2>7 DEF DestroyReader, launchVars
  <2>8. ASSUME NEW l \in Launches, ClearLaunch(l) PROVE sdo'.do # "ended"
    BY <2>8 DEF ClearLaunch
  <2>9. CASE ThreadMove BY <1>3, <2>9, Sides
  <2>10. QED
    BY <2>1, <2>2, <2>3, <2>4, <2>5, <2>6, <2>7, <2>8, <2>9, Sides DEF ServerMove
<1>6. NoOrphans'
  <2>1. SUFFICES ASSUME server' = "quit", NEW l \in Launches, process'[l] = "running"
                 PROVE  l \in released'
    BY DEF NoOrphans
  <2>2. ASSUME UNCHANGED <<server, released, process>> PROVE l \in released'
    BY <2>1, <2>2 DEF OrphanInv, NoOrphans
  <2>3. CASE UNCHANGED vars \/ OwnerMove \/ ClientMove
    BY <2>2, <2>3, Sides DEF vars, serverVars, serverRest, launchVars, historyVars
  <2>4. CASE WaitTimesOut
    BY <2>1, <2>2, <2>4, ServerGoes DEF serverRest, launchVars, historyVars
  <2>5. CASE ServerQuits
    <3>1. server = "up" /\ sdo.do = "ended" /\ UNCHANGED <<process, released>>
      BY <2>5 DEF ServerQuits, ServerEnds
    <3>2. pointer = {} /\ OrphanOf(l) BY <3>1 DEF OrphanInv
    <3>3. handle[l] # "open" BY <3>1, <3>2 DEF OrphanOf, Clearing
    <3>4. handle[l] \in {"null", "open", "closed"} BY <1>1 DEF ServerT
    <3>5. QED BY <2>1, <3>1, <3>2, <3>3, <3>4 DEF OrphanOf
  <2>6. CASE ServerMove
    <3>1. server' = "quit" => ServerQuits
      BY <2>6, ServerIsUp, ServerGoes DEF StartServer, StartServerFails
    <3>2. QED BY <2>1, <2>5, <3>1
  <2>7. ASSUME NEW k \in Launches, ProcessEnds(k) PROVE l \in released'
    <3>1. process' = [process EXCEPT ![k] = "dead"] /\ UNCHANGED <<server, released>>
      BY <2>7 DEF ProcessEnds, historyVars
    <3>2. process[l] = "running" BY <1>1, <2>1, <3>1 DEF ThreadT
    <3>3. QED BY <2>1, <3>1, <3>2 DEF OrphanInv, NoOrphans
  <2>8. CASE ThreadMove
    <3>1. server = "quit" BY <2>1, <2>8, Sides
    <3>2. PICK k \in Launches : ProcessEnds(k) BY <2>8, <3>1, ServerIsUp DEF ThreadMove
    <3>3. QED BY <2>7, <3>2
  <2>9. QED BY <2>3, <2>4, <2>6, <2>8, Sides
<1>7. QED BY <1>2, <1>5, <1>6 DEF OrphanInv

(* A server that has ended by itself leaves no process running, except one *)
(* whose launch was closed for its client and lingers: whatever is put to  *)
(* the server while it clears its launches, and however many there are.    *)
THEOREM NoneOrphaned == Spec => []NoOrphans
<1>1. Init => FreshInv /\ OrphanInv
  BY DEF Init, ServerFresh, FreshInv, Constructed, OrphanInv, NoOrphans
<1>2. TypeInv /\ FreshInv /\ OrphanInv /\ [Next]_vars => (TypeInv /\ FreshInv /\ OrphanInv)'
  BY TypeStep, FreshStep, OrphanStep
<1>3. OrphanInv => NoOrphans BY DEF OrphanInv
<1>4. QED BY <1>1, <1>2, <1>3, TypeInit, PTL DEF Spec

-----------------------------------------------------------------------------
(* What is put in which queue, when, and by which step.                    *)

LEMMA ClientFrame ==
  ASSUME TypeInv, ClientMove
  PROVE  UNCHANGED <<client, cmap, owner, flags, asked>>
<1>1. SendItem \/ OnServerState \/ DoReply \/ SetErrorDone
      => UNCHANGED <<client, cmap, owner, flags, asked>>
  BY DEF SendItem, OnServerState, DoReply, SetErrorDone, ownerVars
<1>2. FailSend \/ HandlePacket \/ DoReport \/ DoFinish
      => UNCHANGED <<client, cmap, owner, flags, asked>>
  BY DEF FailSend, HandlePacket, DoReport, DoFinish
<1>3. ASSUME NEW l \in Launches, SetErrorOf(l) PROVE UNCHANGED <<client, cmap, owner, flags, asked>>
  BY <1>3 DEF SetErrorOf
<1>4. QED BY <1>1, <1>2, <1>3 DEF ClientMove

Dispatching(l) == /\ server = "up" /\ thread[l].at \in {"dispatch", "got"}
                  /\ server' = "up" /\ thread'[l].at \in {"held", After(thread[l].report)}

LEMMA Moves ==
  ASSUME TypeInv, [Next]_vars
  PROVE  \/ Same
         \/ \E l \in Launches : OpenLaunch(l) /\ Says(Send(LaunchMsg(l)))
         \/ \E l \in Launches, t \in {"Request", "Close"}, f \in SUBSET CloseFlags :
               owner[l] = "open" /\ Says(Send(Message(t, l, f, ~ToldLaunched(l))))
         \/ \E m \in Msgs : m.type \notin AboutLaunch /\ Says(Send(m))
         \/ \E s \in {"Launched", "LaunchFailed"} :
               Says(ServerState(s)) /\ (s = "LaunchFailed" => server' = "failed")
         \/ Forgets
         \/ \E m \in Msgs : Keeps(m) \/ Writes(m)
         \/ \E e \in CItems : Drops(e)
         \/ Flushes(ServerState("Launched"))
         \/ \E s \in {"Exited", "Crashed"} : Loses(s) /\ (s = "Crashed" => server' = "killed")
         \/ \E m \in Msgs : Reads(m)
         \/ \E w \in {"GeneralError", "EndOfFile"} : Puts(InputEnd(w))
         \/ \E l \in Launches : Dispatching(l) /\ Puts(Report(l, thread[l].report))
         \/ \E l \in Launches : Adds(l, LaunchMsg(l))
         \/ \E e \in SItems : Takes(e)
         \/ \E l \in Launches, r \in Reports : Tells(l, r)
<1>1. QueueT /\ ThreadT BY DEF TypeInv
<1>2. CASE UNCHANGED vars BY <1>2 DEF vars, clientVars, serverVars, Same
<1>3. CASE OwnerMove \/ WaitTimesOut
  <2>1. ASSUME NEW l \in Launches, AddLaunch(l) \/ CloseReturns(l) PROVE Same
    BY <1>1, <2>1, OwnerMoves
  <2>2. ASSUME NEW l \in Launches, OpenLaunch(l) PROVE Says(Send(LaunchMsg(l)))
    BY <1>1, <2>2, OwnerMoves
  <2>3. ASSUME NEW l \in Launches, Request(l)
        PROVE  owner[l] = "open" /\ Says(Send(Message("Request", l, {}, ~ToldLaunched(l))))
    BY <1>1, <2>3, OwnerMoves DEF Request
  <2>4. ASSUME NEW l \in Launches, NEW f \in ClosesWith, Close(l, f)
        PROVE  \/ Same
               \/ /\ owner[l] = "open" /\ RemoteFlags(f) \in SUBSET CloseFlags
                  /\ Says(Send(Message("Close", l, RemoteFlags(f), ~ToldLaunched(l))))
    BY <1>1, <2>4, OwnerMoves DEF Close, RemoteFlags, CloseFlags
  <2>5. ASSUME Destroy PROVE \E m \in Msgs : m.type \notin AboutLaunch /\ Says(Send(m))
    <3>1. Message("Disconnect", NoLaunch, {}, FALSE).type \notin AboutLaunch
      BY DEF Message, AboutLaunch
    <3>2. QED BY <1>1, <2>5, <3>1, OwnerMoves, MessageTypes
  <2>6. ServerHasExited \/ ClearServer => Same BY <1>1, OwnerMoves
  <2>7. JoinThread \/ ClientDies => Forgets BY <1>1, OwnerMoves
  <2>8. WaitTimesOut => Same \/ (Loses("Crashed") /\ server' = "killed")
    BY <1>1, OwnerMoves DEF WaitTimesOut, ServerEnds, serverVars, Same
  <2>9. QED BY <1>3, <2>1, <2>2, <2>3, <2>4, <2>5, <2>6, <2>7, <2>8 DEF OwnerMove
<1>4. CASE ClientMove
  <2>1. SendItem => \E m \in Msgs : Keeps(m) \/ Writes(m) \/ (Send(m) \in CItems /\ Drops(Send(m)))
    BY <1>1, ClientMoves, ItemTypes
  <2>2. FailSend \/ HandlePacket => \E e \in CItems : Drops(e)
    BY <1>1, ClientMoves, ItemTypes
  <2>3. OnServerState => Flushes(ServerState("Launched")) \/ \E e \in CItems : Drops(e)
    BY <1>1, ClientMoves, ItemTypes
  <2>4. DoReport \/ DoFinish \/ SetErrorDone => Same BY <1>1, ClientMoves
  <2>5. ASSUME NEW l \in Launches, SetErrorOf(l) PROVE Same BY <1>1, <2>5, ClientMoves
  <2>6. ASSUME DoReply PROVE \E m \in Msgs : m.type \notin AboutLaunch /\ Says(Send(m))
    <3>1. Message("Reply", NoLaunch, {}, FALSE).type \notin AboutLaunch
      BY DEF Message, AboutLaunch
    <3>2. QED BY <1>1, <2>6, <3>1, ClientMoves, MessageTypes
  <2>7. QED BY <1>4, <2>1, <2>2, <2>3, <2>4, <2>5, <2>6 DEF ClientMove
<1>5. CASE ServerMove
  <2>1. StartServer \/ StartServerFails
        => \E s \in {"Launched", "LaunchFailed"} :
              Says(ServerState(s)) /\ (s = "LaunchFailed" => server' = "failed")
    BY <1>1, ServerMoves DEF StartServerFails
  <2>2. ServerDies \/ ServerQuits
        => \E s \in {"Exited", "Crashed"} : Loses(s) /\ (s = "Crashed" => server' = "killed")
    BY <1>1, ServerMoves DEF ServerDies, ServerEnds
  <2>3. Read => \E m \in Msgs : Reads(m) BY <1>1, ServerMoves
  <2>4. ReadEnd => \E w \in {"GeneralError", "EndOfFile"} : Puts(InputEnd(w)) BY <1>1, ServerMoves
  <2>5. DisconnectSeen \/ DestroyLaunch \/ BeginClear \/ LaunchCleared \/ DestroyReader => Same
    BY <1>1, ServerMoves
  <2>6. ASSUME NEW l \in Launches, ClearLaunch(l) PROVE Same BY <1>1, <2>6, ServerMoves
  <2>7. ASSUME HandleLaunch PROVE \E l \in Launches : Adds(l, LaunchMsg(l))
    <3>1. PICK m \in Msgs : m.type = "Launch" /\ m.launch \in Launches /\ Adds(m.launch, m)
      BY <1>1, <2>7, HandlerMoves
    <3>2. m = LaunchMsg(m.launch) BY <3>1 DEF Msgs
    <3>3. QED BY <3>1, <3>2
  <2>8. HandleClose \/ HandleRequest \/ HandleDisconnect \/ HandleReply
        => \E e \in SItems : Takes(e)
    BY <1>1, HandlerMoves, ItemTypes
  <2>9. OnInputEnd \/ ConstructLaunch => \E e \in SItems : Takes(e)
    BY <1>1, HandlerMoves, ItemTypes
  <2>10. OnReport => \/ \E e \in SItems : Takes(e)
                     \/ \E l \in Launches, r \in Reports : Tells(l, r)
    BY <1>1, HandlerMoves, ItemTypes
  <2>11. QED
    BY <1>5, <2>1, <2>2, <2>3, <2>4, <2>5, <2>6, <2>7, <2>8, <2>9, <2>10 DEF ServerMove
<1>6. CASE ThreadMove
  <2>1. ASSUME NEW l \in Launches, Dispatch(l)
        PROVE  Dispatching(l) /\ Puts(Report(l, thread[l].report))
    <3>1. /\ server = "up" /\ thread[l].at \in {"dispatch", "got"} /\ server' = server
          /\ \E a \in {"held", After(thread[l].report)} :
                thread' = [thread EXCEPT ![l] = [at |-> a, report |-> thread[l].report]]
      BY <2>1 DEF Dispatch, ThreadAt, Goes, threadRest
    <3>2. thread'[l].at \in {"held", After(thread[l].report)} BY <1>1, <3>1 DEF ThreadT
    <3>3. QED BY <2>1, <3>1, <3>2, ThreadMoves DEF Dispatching
  <2>2. ASSUME NEW l \in Launches,
               \/ StartProcess(l) \/ StartProcessFails(l) \/ ReadOutput(l)
               \/ Reap(l) \/ NoServer(l) \/ GetServer(l) \/ ProcessEnds(l)
        PROVE  Same
    BY <2>2, ThreadMoves
  <2>3. QED BY <1>6, <2>1, <2>2 DEF ThreadMove
<1>7. QED BY <1>2, <1>3, <1>4, <1>5, <1>6, Sides

(* A launch is constructed once, by the item that was put for it, and stays *)
(* so as long as the server is up.                                          *)
LEMMA Births ==
  ASSUME TypeInv, FreshInv, [Next]_vars, NEW l \in Launches
  PROVE  /\ Constructed(l)' => Constructed(l) \/ Takes(Construct(l))
         /\ server' \in {"none", "up"} => /\ server \in {"none", "up"}
                                          /\ Constructed(l) => Constructed(l)'
<1>1. QueueT /\ ServerT /\ ThreadT BY DEF TypeInv
<1>2. UNCHANGED <<server, thread>> => /\ Constructed(l)' <=> Constructed(l)
                                      /\ server' = server
  BY DEF Constructed
<1>3. CASE UNCHANGED vars \/ OwnerMove \/ ClientMove
  BY <1>2, <1>3, Sides DEF vars, serverVars, serverRest, launchVars
<1>4. CASE WaitTimesOut \/ ServerDies \/ ServerQuits
  <2>1. \/ UNCHANGED <<server, thread>>
        \/ server' \in {"killed", "quit"} /\ ~Constructed(l)'
    BY <1>4, ServerGoes DEF serverRest, launchVars
  <2>2. QED BY <1>2, <2>1
<1>5. CASE StartServer \/ StartServerFails
  BY <1>5 DEF StartServer, StartServerFails, launchVars, Constructed
<1>6. CASE Read \/ ReadEnd \/ DisconnectSeen
  BY <1>2, <1>6 DEF Read, ReadEnd, DisconnectSeen, launchVars
<1>7. CASE HandleLaunch \/ HandleClose \/ HandleRequest \/ HandleDisconnect \/ HandleReply
  BY <1>2, <1>7 DEF HandleLaunch, HandleClose, HandleRequest, HandleDisconnect, HandleReply,
                    launchVars
<1>8. CASE OnInputEnd \/ OnReport \/ DestroyLaunch \/ BeginClear \/ LaunchCleared \/ DestroyReader
  BY <1>2, <1>8 DEF OnInputEnd, OnReport, DestroyLaunch, BeginClear, LaunchCleared, DestroyReader,
                    launchVars
<1>9. ASSUME NEW k \in Launches, ClearLaunch(k) PROVE UNCHANGED <<server, thread>>
  BY <1>9 DEF ClearLaunch
<1>10. CASE ConstructLaunch
  <2>1. PICK k \in Launches : Head(sq) = Construct(k) /\ Takes(Construct(k)) /\ server = "up"
    BY <1>1, <1>10, HandlerMoves
  <2>2. Head(sq).launch = k BY <2>1 DEF Construct
  <2>3. thread' = [thread EXCEPT ![k].at = "start"] /\ UNCHANGED server
    BY <1>10, <2>2 DEF ConstructLaunch
  <2>4. CASE l = k
    <3>1. thread'[l].at = "start" BY <1>1, <2>3, <2>4 DEF ThreadT
    <3>2. QED BY <2>1, <2>3, <2>4, <3>1 DEF Constructed
  <2>5. CASE l # k
    <3>1. thread'[l] = thread[l] BY <1>1, <2>3, <2>5 DEF ThreadT
    <3>2. QED BY <2>1, <2>3, <3>1 DEF Constructed
  <2>6. QED BY <2>4, <2>5
<1>11. ASSUME NEW k \in Launches, NEW a, NEW r, Goes(k, a, r), a # "none", Constructed(k),
              UNCHANGED server
       PROVE  (Constructed(l)' <=> Constructed(l)) /\ server' = server
  <2>1. thread' = [thread EXCEPT ![k] = [at |-> a, report |-> r]] BY <1>11 DEF Goes
  <2>2. CASE l = k
    <3>1. thread'[l].at = a BY <1>1, <2>1, <2>2 DEF ThreadT
    <3>2. QED BY <1>11, <2>2, <3>1 DEF Constructed
  <2>3. CASE l # k
    <3>1. thread'[l] = thread[l] BY <1>1, <2>1, <2>3 DEF ThreadT
    <3>2. QED BY <1>11, <3>1 DEF Constructed
  <2>4. QED BY <2>2, <2>3
<1>12. ASSUME NEW k \in Launches,
              \/ StartProcess(k) \/ StartProcessFails(k) \/ ReadOutput(k) \/ Reap(k)
              \/ NoServer(k) \/ GetServer(k) \/ Dispatch(k)
       PROVE  (Constructed(l)' <=> Constructed(l)) /\ server' = server
  <2>1. /\ Constructed(k) /\ UNCHANGED server
        /\ \E a \in {"run", "dispatch", "got", "held", "over"} : \E r : Goes(k, a, r)
    <3>1. CASE StartProcess(k) \/ StartProcessFails(k) \/ ReadOutput(k) \/ Reap(k)
      BY <3>1 DEF StartProcess, StartProcessFails, ReadOutput, Reap, ThreadAt, Constructed,
                  threadRest
    <3>2. CASE NoServer(k) \/ GetServer(k) \/ Dispatch(k)
      BY <3>2 DEF NoServer, GetServer, Dispatch, ThreadAt, Constructed, threadRest, After
    <3>3. QED BY <1>12, <3>1, <3>2
  <2>2. PICK a \in {"run", "dispatch", "got", "held", "over"} : \E r : Goes(k, a, r) BY <2>1
  <2>3. QED BY <1>11, <2>1, <2>2
<1>13. ASSUME NEW k \in Launches, ProcessEnds(k) PROVE UNCHANGED <<server, thread>>
  BY <1>13 DEF ProcessEnds
<1>14. CASE ServerMove
  BY <1>2, <1>4, <1>5, <1>6, <1>7, <1>8, <1>9, <1>10, <1>14 DEF ServerMove
<1>15. CASE ThreadMove
  BY <1>2, <1>12, <1>13, <1>15 DEF ThreadMove
<1>16. QED BY <1>3, <1>4, <1>14, <1>15, Sides

(* What comes after what in the queues.                                    *)
LEMMA ClientQueueAfter ==
  ASSUME QueueT, NEW A, NEW B, NothingAfter(cq, A, B)
  PROVE  /\ \A e \in CItems : Says(e) /\ (Items(cq) \cap A = {} \/ e \notin B)
                              => NothingAfter(cq', A, B)
         /\ \A e : FromQueue(e) => /\ NothingAfter(cq', A, B)
                                   /\ e \in A => Items(cq') \cap B = {}
         /\ cq' = <<>> \/ UNCHANGED cq => NothingAfter(cq', A, B)
         /\ \A s \in {"Exited", "Crashed"} :
               Loses(s) /\ (Items(cq) \cap A = {} \/ ServerState(s) \notin B)
               => NothingAfter(cq', A, B)
         /\ \A l \in Launches, r \in Reports :
               Tells(l, r) /\ (Items(cq) \cap A = {} \/ Packet(l, r) \notin B)
               => NothingAfter(cq', A, B)
<1>1. cq \in Seq(CItems) BY DEF QueueT
<1>2. ASSUME NEW e \in CItems, Items(cq) \cap A = {} \/ e \notin B
      PROVE  NothingAfter(Append(cq, e), A, B)
  BY <1>1, <1>2, AfterAppend
<1>3. ASSUME NEW e, FromQueue(e)
      PROVE  NothingAfter(cq', A, B) /\ (e \in A => Items(cq') \cap B = {})
  BY <1>1, <1>3, AfterTail DEF FromQueue
<1>4. cq' = <<>> \/ UNCHANGED cq => NothingAfter(cq', A, B)
  BY ItemsOfNone
<1>5. ASSUME NEW s \in {"Exited", "Crashed"}, Loses(s),
             Items(cq) \cap A = {} \/ ServerState(s) \notin B
      PROVE  NothingAfter(cq', A, B)
  <2>1. ServerState(s) \in CItems BY ItemTypes
  <2>2. QED BY <1>2, <1>4, <1>5, <2>1 DEF Loses
<1>6. ASSUME NEW l \in Launches, NEW r \in Reports, Tells(l, r),
             Items(cq) \cap A = {} \/ Packet(l, r) \notin B
      PROVE  NothingAfter(cq', A, B)
  <2>1. Packet(l, r) \in CItems BY ItemTypes
  <2>2. QED BY <1>2, <1>6, <2>1 DEF Tells
<1>7. ASSUME NEW e \in CItems, Says(e), Items(cq) \cap A = {} \/ e \notin B
      PROVE  NothingAfter(cq', A, B)
  BY <1>2, <1>7 DEF Says
<1>8. QED BY <1>3, <1>4, <1>5, <1>6, <1>7

LEMMA ServerQueueAfter ==
  ASSUME QueueT, NEW A, NEW B, NothingAfter(sq, A, B)
  PROVE  /\ \A e \in SItems : Puts(e) /\ (Items(sq) \cap A = {} \/ e \notin B)
                              => NothingAfter(sq', A, B)
         /\ \A e : Takes(e) => /\ NothingAfter(sq', A, B)
                               /\ e \in A => Items(sq') \cap B = {}
         /\ sq' = <<>> \/ UNCHANGED sq => NothingAfter(sq', A, B)
         /\ \A m \in Msgs :
               Reads(m) /\ (Items(sq) \cap A = {} \/ Received(m) \notin B)
               => NothingAfter(sq', A, B)
         /\ \A l \in Launches, r \in Reports :
               Tells(l, r) => /\ NothingAfter(sq', A, B)
                              /\ Report(l, r) \in A => Items(sq') \cap B = {}
         /\ \A l \in Launches, m \in Msgs :
               Adds(l, m) =>
                 /\ Items(sq) \cap A = {} \/ Construct(l) \notin B => NothingAfter(sq', A, B)
                 /\ Received(m) \in A /\ Construct(l) \notin B => Items(sq') \cap B = {}
<1>1. sq \in Seq(SItems) BY DEF QueueT
<1>2. ASSUME NEW e \in SItems, Items(sq) \cap A = {} \/ e \notin B
      PROVE  NothingAfter(Append(sq, e), A, B)
  BY <1>1, <1>2, AfterAppend
<1>3. ASSUME NEW e, Takes(e)
      PROVE  NothingAfter(sq', A, B) /\ (e \in A => Items(sq') \cap B = {})
  BY <1>1, <1>3, AfterTail DEF Takes, FromServerQueue
<1>4. sq' = <<>> \/ UNCHANGED sq => NothingAfter(sq', A, B)
  BY ItemsOfNone
<1>5. ASSUME NEW m \in Msgs, Reads(m), Items(sq) \cap A = {} \/ Received(m) \notin B
      PROVE  NothingAfter(sq', A, B)
  <2>1. Received(m) \in SItems BY ItemTypes
  <2>2. QED BY <1>2, <1>5, <2>1 DEF Reads
<1>6. ASSUME NEW l \in Launches, NEW r \in Reports, Tells(l, r)
      PROVE  NothingAfter(sq', A, B) /\ (Report(l, r) \in A => Items(sq') \cap B = {})
  BY <1>1, <1>6, AfterTail DEF Tells, FromServerQueue
<1>7. ASSUME NEW l \in Launches, NEW m \in Msgs, Adds(l, m)
      PROVE  /\ Items(sq) \cap A = {} \/ Construct(l) \notin B => NothingAfter(sq', A, B)
             /\ Received(m) \in A /\ Construct(l) \notin B => Items(sq') \cap B = {}
  <2>1. sq # <<>> /\ Head(sq) = Received(m) /\ sq' = Append(Tail(sq), Construct(l))
    BY <1>7 DEF Adds, FromServerQueue
  <2>2. Tail(sq) \in Seq(SItems) /\ Items(Tail(sq)) \subseteq Items(sq) /\ Construct(l) \in SItems
    BY <1>1, <2>1, ItemsOfTail, ItemTypes
  <2>3. /\ NothingAfter(Tail(sq), A, B)
        /\ Received(m) \in A => Items(Tail(sq)) \cap B = {}
    BY <1>1, <2>1, AfterTail
  <2>4. Items(Append(Tail(sq), Construct(l))) = Items(Tail(sq)) \cup {Construct(l)}
    <3>1. \A t \in Seq(SItems), e \in SItems : Items(Append(t, e)) = Items(t) \cup {e}
      BY ItemsOfAppend
    <3>2. QED BY <2>2, <3>1
  <2>5. ASSUME Items(sq) \cap A = {} \/ Construct(l) \notin B PROVE NothingAfter(sq', A, B)
    <3>1. Items(Tail(sq)) \cap A = {} \/ Construct(l) \notin B BY <2>2, <2>5
    <3>2. QED BY <2>1, <2>2, <2>3, <3>1, AfterAppend
  <2>6. QED BY <2>1, <2>3, <2>4, <2>5
<1>8. ASSUME NEW e \in SItems, Puts(e), Items(sq) \cap A = {} \/ e \notin B
      PROVE  NothingAfter(sq', A, B)
  BY <1>2, <1>8 DEF Puts
<1>9. QED BY <1>3, <1>4, <1>5, <1>6, <1>7, <1>8

LEMMA PipeAfter ==
  ASSUME QueueT, NEW m \in Msgs
  PROVE  /\ NothingAfter(buffered, {m}, {m}) =>
              /\ \A n \in Msgs : Keeps(n) /\ (m \notin Items(buffered) \/ n # m)
                                 => NothingAfter(buffered', {m}, {m})
              /\ buffered' = <<>> \/ UNCHANGED buffered => NothingAfter(buffered', {m}, {m})
         /\ NothingAfter(c2s, {m}, {m}) =>
              /\ \A n \in Msgs : Writes(n) /\ (m \notin Items(c2s) \/ n # m)
                                 => NothingAfter(c2s', {m}, {m})
              /\ \A e : /\ Flushes(e) /\ NothingAfter(buffered, {m}, {m})
                        /\ m \notin Items(buffered) \/ m \notin Items(c2s)
                        => NothingAfter(c2s', {m}, {m})
              /\ \A n \in Msgs : Reads(n) => /\ NothingAfter(c2s', {m}, {m})
                                             /\ n = m => m \notin Items(c2s')
              /\ c2s' = <<>> \/ UNCHANGED c2s => NothingAfter(c2s', {m}, {m})
<1>1. buffered \in Seq(Msgs) /\ c2s \in Seq(Msgs) BY DEF QueueT
<1>2. ASSUME NothingAfter(buffered, {m}, {m}), NEW n \in Msgs, Keeps(n),
             m \notin Items(buffered) \/ n # m
      PROVE  NothingAfter(buffered', {m}, {m})
  <2>1. Items(buffered) \cap {m} = {} \/ n \notin {m} BY <1>2
  <2>2. NothingAfter(Append(buffered, n), {m}, {m}) BY <1>1, <1>2, <2>1, AfterAppend
  <2>3. QED BY <1>2, <2>2 DEF Keeps
<1>3. NothingAfter(<<>>, {m}, {m}) BY ItemsOfNone
<1>4. ASSUME NothingAfter(c2s, {m}, {m}), NEW n \in Msgs, Writes(n), m \notin Items(c2s) \/ n # m
      PROVE  NothingAfter(c2s', {m}, {m})
  <2>1. <<n>> \in Seq(Msgs) /\ Items(<<n>>) = {n} BY DEF Items
  <2>2. NothingAfter(<<n>>, {m}, {m}) BY DEF NothingAfter
  <2>3. Items(c2s) \cap {m} = {} \/ Items(<<n>>) \cap {m} = {} BY <1>4, <2>1
  <2>4. NothingAfter(c2s \o <<n>>, {m}, {m}) BY <1>1, <1>4, <2>1, <2>2, <2>3, AfterConcat
  <2>5. QED BY <1>4, <2>4 DEF Writes
<1>5. ASSUME NothingAfter(c2s, {m}, {m}), NEW e, Flushes(e), NothingAfter(buffered, {m}, {m}),
             m \notin Items(buffered) \/ m \notin Items(c2s)
      PROVE  NothingAfter(c2s', {m}, {m})
  <2>1. Items(c2s) \cap {m} = {} \/ Items(buffered) \cap {m} = {} BY <1>5
  <2>2. NothingAfter(c2s \o buffered, {m}, {m}) BY <1>1, <1>5, <2>1, AfterConcat
  <2>3. QED BY <1>5, <2>2 DEF Flushes
<1>6. ASSUME NothingAfter(c2s, {m}, {m}), NEW n \in Msgs, Reads(n)
      PROVE  NothingAfter(c2s', {m}, {m}) /\ (n = m => m \notin Items(c2s'))
  <2>1. c2s # <<>> /\ Head(c2s) = n /\ c2s' = Tail(c2s) BY <1>6 DEF Reads
  <2>2. /\ NothingAfter(Tail(c2s), {m}, {m})
        /\ Head(c2s) \in {m} => Items(Tail(c2s)) \cap {m} = {}
    BY <1>1, <1>6, <2>1, AfterTail
  <2>3. QED BY <2>1, <2>2
<1>7. QED BY <1>2, <1>3, <1>4, <1>5, <1>6

-----------------------------------------------------------------------------
(* The message that opens a launch.                                        *)

LEMMA LaunchMsgsDiffer ==
  /\ \A k, l : LaunchMsg(k) = LaunchMsg(l) <=> k = l
  /\ \A l : LaunchMsg(l).type = "Launch" /\ LaunchMsg(l).launch = l
  /\ \A t, k, f, e : Message(t, k, f, e).type = t /\ Message(t, k, f, e).launch = k
BY DEF LaunchMsg, Message

(* A step that adds no second copy keeps the order, and the place.         *)
Nowhere(l) == Absent(LaunchMsg(l)) /\ ~Dispatched(l) /\ ~Constructed(l)

LEMMA SaysOnce ==
  ASSUME QueueT, NEW l \in Launches, OrderOf(l), PlaceOf(l), Constructed(l)' => Constructed(l),
         NEW e \in CItems, Says(e), e = Send(LaunchMsg(l)) => Nowhere(l)
  PROVE  OrderOf(l)' /\ PlaceOf(l)'
<1>1. /\ Items(cq') = Items(cq) \cup {e} /\ UNCHANGED <<buffered, c2s, sq>>
  BY ClientQueueItems DEF Says
<1>2. Items(cq) \cap {Send(LaunchMsg(l))} = {} \/ e \notin {Send(LaunchMsg(l))}
  BY DEF Nowhere, Absent
<1>3. NothingAfter(cq', {Send(LaunchMsg(l))}, {Send(LaunchMsg(l))})
  BY <1>2, ClientQueueAfter DEF OrderOf
<1>4. OrderOf(l)' BY <1>1, <1>3 DEF OrderOf
<1>5. PlaceOf(l)'
  BY <1>1 DEF PlaceOf, Nowhere, Absent, Sent, Buffered, Piped, Arrived, Dispatched
<1>6. QED BY <1>4, <1>5

LEMMA PassesOnce ==
  ASSUME QueueT, NEW l \in Launches, OrderOf(l), PlaceOf(l), Constructed(l)' => Constructed(l)
  PROVE  /\ Same \/ Forgets => OrderOf(l)' /\ PlaceOf(l)'
         /\ \A m \in Msgs : Keeps(m) \/ Writes(m) => OrderOf(l)' /\ PlaceOf(l)'
         /\ \A e \in CItems : Drops(e) => OrderOf(l)' /\ PlaceOf(l)'
         /\ \A e : Flushes(e) => OrderOf(l)' /\ PlaceOf(l)'
<1>1. LaunchMsg(l) \in Msgs BY MessageTypes
<1>2. ASSUME Same \/ Forgets PROVE OrderOf(l)' /\ PlaceOf(l)'
  <2>1. /\ \/ UNCHANGED cq /\ UNCHANGED buffered
           \/ cq' = <<>> /\ buffered' = <<>>
        /\ UNCHANGED <<c2s, sq>>
    BY <1>2 DEF Same, Forgets
  <2>2. OrderOf(l)' BY <2>1, ItemsOfNone DEF OrderOf
  <2>3. PlaceOf(l)'
    BY <2>1, ItemsOfNone DEF PlaceOf, Sent, Buffered, Piped, Arrived, Dispatched
  <2>4. QED BY <2>2, <2>3
<1>3. ASSUME NEW e, FromQueue(e)
      PROVE  /\ NothingAfter(cq', {Send(LaunchMsg(l))}, {Send(LaunchMsg(l))})
             /\ e \in Items(cq) /\ Items(cq') \subseteq Items(cq)
             /\ e = Send(LaunchMsg(l)) => Send(LaunchMsg(l)) \notin Items(cq')
  <2>1. /\ NothingAfter(cq', {Send(LaunchMsg(l))}, {Send(LaunchMsg(l))})
        /\ e \in {Send(LaunchMsg(l))} => Items(cq') \cap {Send(LaunchMsg(l))} = {}
    BY <1>3, ClientQueueAfter DEF OrderOf
  <2>2. e \in Items(cq) /\ Items(cq') \subseteq Items(cq) BY <1>3, ClientQueueItems
  <2>3. QED BY <2>1, <2>2
<1>4. ASSUME NEW m \in Msgs, Keeps(m) PROVE OrderOf(l)' /\ PlaceOf(l)'
  <2>1. /\ NothingAfter(cq', {Send(LaunchMsg(l))}, {Send(LaunchMsg(l))})
        /\ Send(m) \in Items(cq) /\ Items(cq') \subseteq Items(cq)
        /\ m = LaunchMsg(l) => Send(LaunchMsg(l)) \notin Items(cq')
    BY <1>3, <1>4 DEF Keeps
  <2>2. UNCHANGED <<c2s, sq>> /\ Items(buffered') = Items(buffered) \cup {m}
    BY <1>4, ClientQueueItems DEF Keeps
  <2>3. m = LaunchMsg(l) => LaunchMsg(l) \notin Items(buffered)
    BY <2>1 DEF PlaceOf, Sent, Buffered
  <2>4. NothingAfter(buffered', {LaunchMsg(l)}, {LaunchMsg(l)})
    BY <1>1, <1>4, <2>3, PipeAfter DEF OrderOf
  <2>5. OrderOf(l)' BY <2>1, <2>2, <2>4 DEF OrderOf
  <2>6. PlaceOf(l)'
    BY <2>1, <2>2 DEF PlaceOf, Sent, Buffered, Piped, Arrived, Dispatched
  <2>7. QED BY <2>5, <2>6
<1>5. ASSUME NEW m \in Msgs, Writes(m) PROVE OrderOf(l)' /\ PlaceOf(l)'
  <2>1. /\ NothingAfter(cq', {Send(LaunchMsg(l))}, {Send(LaunchMsg(l))})
        /\ Send(m) \in Items(cq) /\ Items(cq') \subseteq Items(cq)
        /\ m = LaunchMsg(l) => Send(LaunchMsg(l)) \notin Items(cq')
    BY <1>3, <1>5 DEF Writes
  <2>2. UNCHANGED <<buffered, sq>> /\ Items(c2s') \subseteq Items(c2s) \cup {m}
    BY <1>5, ClientQueueItems DEF Writes
  <2>3. m = LaunchMsg(l) => LaunchMsg(l) \notin Items(c2s)
    BY <2>1 DEF PlaceOf, Sent, Piped
  <2>4. NothingAfter(c2s', {LaunchMsg(l)}, {LaunchMsg(l)})
    BY <1>1, <1>5, <2>3, PipeAfter DEF OrderOf
  <2>5. OrderOf(l)' BY <2>1, <2>2, <2>4 DEF OrderOf
  <2>6. PlaceOf(l)'
    BY <2>1, <2>2 DEF PlaceOf, Sent, Buffered, Piped, Arrived, Dispatched
  <2>7. QED BY <2>5, <2>6
<1>6. ASSUME NEW e, Drops(e) PROVE OrderOf(l)' /\ PlaceOf(l)'
  <2>1. /\ NothingAfter(cq', {Send(LaunchMsg(l))}, {Send(LaunchMsg(l))})
        /\ Items(cq') \subseteq Items(cq) /\ UNCHANGED <<buffered, c2s, sq>>
    BY <1>3, <1>6 DEF Drops
  <2>2. OrderOf(l)' BY <2>1 DEF OrderOf
  <2>3. PlaceOf(l)' BY <2>1 DEF PlaceOf, Sent, Buffered, Piped, Arrived, Dispatched
  <2>4. QED BY <2>2, <2>3
<1>7. ASSUME NEW e, Flushes(e) PROVE OrderOf(l)' /\ PlaceOf(l)'
  <2>1. /\ NothingAfter(cq', {Send(LaunchMsg(l))}, {Send(LaunchMsg(l))})
        /\ Items(cq') \subseteq Items(cq) /\ UNCHANGED sq /\ buffered' = <<>>
    BY <1>3, <1>7 DEF Flushes
  <2>2. Items(buffered') = {} /\ Items(c2s') \subseteq Items(c2s) \cup Items(buffered)
    BY <1>7, ClientQueueItems
  <2>3. LaunchMsg(l) \notin Items(buffered) \/ LaunchMsg(l) \notin Items(c2s)
    BY DEF PlaceOf, Buffered, Piped
  <2>4. NothingAfter(c2s', {LaunchMsg(l)}, {LaunchMsg(l)})
    BY <1>1, <1>7, <2>3, PipeAfter DEF OrderOf
  <2>5. OrderOf(l)' BY <2>1, <2>4, ItemsOfNone DEF OrderOf
  <2>6. PlaceOf(l)'
    BY <2>1, <2>2 DEF PlaceOf, Sent, Buffered, Piped, Arrived, Dispatched
  <2>7. QED BY <2>5, <2>6
<1>8. QED BY <1>2, <1>4, <1>5, <1>6, <1>7

LEMMA ArrivesOnce ==
  ASSUME QueueT, NEW l \in Launches, OrderOf(l), PlaceOf(l), Constructed(l)' => Constructed(l)
  PROVE  /\ \A s \in {"Exited", "Crashed"} : Loses(s) => OrderOf(l)' /\ PlaceOf(l)'
         /\ \A m \in Msgs : Reads(m) => OrderOf(l)' /\ PlaceOf(l)'
         /\ \A w \in {"GeneralError", "EndOfFile"} : Puts(InputEnd(w)) => OrderOf(l)' /\ PlaceOf(l)'
         /\ \A k \in Launches, r \in Reports :
              Puts(Report(k, r)) \/ Tells(k, r) => OrderOf(l)' /\ PlaceOf(l)'
         /\ \A k \in Launches : Adds(k, LaunchMsg(k)) => OrderOf(l)' /\ PlaceOf(l)'
         /\ \A e \in SItems : Takes(e) => OrderOf(l)' /\ PlaceOf(l)'
<1>1. LaunchMsg(l) \in Msgs BY MessageTypes
<1>2. ASSUME NEW s \in {"Exited", "Crashed"}, Loses(s) PROVE OrderOf(l)' /\ PlaceOf(l)'
  <2>1. /\ Items(c2s') = {} /\ Items(sq') = {} /\ c2s' = <<>> /\ sq' = <<>> /\ UNCHANGED buffered
        /\ Items(cq') \subseteq Items(cq) \cup {ServerState(s)}
    BY <1>2, ServerQueueItems DEF Loses
  <2>2. ServerState(s) # Send(LaunchMsg(l)) BY ItemsDiffer
  <2>3. NothingAfter(cq', {Send(LaunchMsg(l))}, {Send(LaunchMsg(l))})
    BY <1>2, <2>2, ClientQueueAfter DEF OrderOf
  <2>4. OrderOf(l)' BY <2>1, <2>3, ItemsOfNone DEF OrderOf
  <2>5. PlaceOf(l)'
    BY <2>1, <2>2 DEF PlaceOf, Sent, Buffered, Piped, Arrived, Dispatched
  <2>6. QED BY <2>4, <2>5
<1>3. ASSUME NEW m \in Msgs, Reads(m) PROVE OrderOf(l)' /\ PlaceOf(l)'
  <2>1. /\ m \in Items(c2s) /\ Items(c2s') \subseteq Items(c2s)
        /\ Items(sq') = Items(sq) \cup {Received(m)} /\ UNCHANGED <<cq, buffered>>
    BY <1>3, ServerQueueItems DEF Reads
  <2>2. /\ NothingAfter(c2s', {LaunchMsg(l)}, {LaunchMsg(l)})
        /\ m = LaunchMsg(l) => LaunchMsg(l) \notin Items(c2s')
    BY <1>1, <1>3, PipeAfter DEF OrderOf
  <2>3. /\ Received(m) # Construct(l)
        /\ Received(m) = Received(LaunchMsg(l)) <=> m = LaunchMsg(l)
    BY ItemsDiffer
  <2>4. Received(m) = Received(LaunchMsg(l)) => Received(LaunchMsg(l)) \notin Items(sq)
    BY <2>1, <2>3 DEF PlaceOf, Piped, Arrived
  <2>5. NothingAfter(sq', {Received(LaunchMsg(l))}, {Received(LaunchMsg(l))})
    BY <1>3, <2>4, ServerQueueAfter DEF OrderOf
  <2>6. NothingAfter(sq', {Construct(l)}, {Construct(l)})
    BY <1>3, <2>3, ServerQueueAfter DEF OrderOf
  <2>7. OrderOf(l)' BY <2>1, <2>2, <2>5, <2>6 DEF OrderOf
  <2>8. PlaceOf(l)'
    BY <2>1, <2>2, <2>3 DEF PlaceOf, Sent, Buffered, Piped, Arrived, Dispatched
  <2>9. QED BY <2>7, <2>8
<1>4. ASSUME NEW e \in SItems, Puts(e), e # Received(LaunchMsg(l)), e # Construct(l)
      PROVE  OrderOf(l)' /\ PlaceOf(l)'
  <2>1. Items(sq') = Items(sq) \cup {e} /\ UNCHANGED <<cq, buffered, c2s>>
    BY <1>4, ServerQueueItems DEF Puts
  <2>2. NothingAfter(sq', {Received(LaunchMsg(l))}, {Received(LaunchMsg(l))})
    BY <1>4, ServerQueueAfter DEF OrderOf
  <2>3. NothingAfter(sq', {Construct(l)}, {Construct(l)})
    BY <1>4, ServerQueueAfter DEF OrderOf
  <2>4. OrderOf(l)' BY <2>1, <2>2, <2>3 DEF OrderOf
  <2>5. PlaceOf(l)'
    BY <1>4, <2>1 DEF PlaceOf, Sent, Buffered, Piped, Arrived, Dispatched
  <2>6. QED BY <2>4, <2>5
<1>5. ASSUME NEW k \in Launches, NEW r \in Reports, Tells(k, r) PROVE OrderOf(l)' /\ PlaceOf(l)'
  <2>1. /\ Items(sq') \subseteq Items(sq) /\ Items(cq') = Items(cq) \cup {Packet(k, r)}
        /\ UNCHANGED <<buffered, c2s>>
    BY <1>5, ServerQueueItems DEF Tells, FromServerQueue
  <2>2. Packet(k, r) # Send(LaunchMsg(l)) BY ItemsDiffer
  <2>3. /\ NothingAfter(sq', {Received(LaunchMsg(l))}, {Received(LaunchMsg(l))})
        /\ NothingAfter(sq', {Construct(l)}, {Construct(l)})
    BY <1>5, ServerQueueAfter DEF OrderOf
  <2>4. NothingAfter(cq', {Send(LaunchMsg(l))}, {Send(LaunchMsg(l))})
    BY <1>5, <2>2, ClientQueueAfter DEF OrderOf
  <2>5. OrderOf(l)' BY <2>1, <2>3, <2>4 DEF OrderOf
  <2>6. PlaceOf(l)'
    BY <2>1, <2>2 DEF PlaceOf, Sent, Buffered, Piped, Arrived, Dispatched
  <2>7. QED BY <2>5, <2>6
<1>6. ASSUME NEW k \in Launches, Adds(k, LaunchMsg(k)) PROVE OrderOf(l)' /\ PlaceOf(l)'
  <2>1. LaunchMsg(k) \in Msgs BY MessageTypes
  <2>2. /\ Received(LaunchMsg(k)) \in Items(sq)
        /\ Items(sq') \subseteq Items(sq) \cup {Construct(k)}
        /\ UNCHANGED <<cq, buffered, c2s>>
    BY <1>6, <2>1, ServerQueueItems DEF Adds, FromServerQueue
  <2>3. /\ Construct(k) # Received(LaunchMsg(l)) /\ (Construct(k) = Construct(l) <=> k = l)
        /\ Received(LaunchMsg(k)) = Received(LaunchMsg(l)) <=> k = l
    BY ItemsDiffer, LaunchMsgsDiffer
  <2>4. /\ NothingAfter(sq', {Received(LaunchMsg(l))}, {Received(LaunchMsg(l))})
        /\ k = l => Received(LaunchMsg(l)) \notin Items(sq')
    <3>1. /\ \/ Items(sq) \cap {Received(LaunchMsg(l))} = {}
             \/ Construct(k) \notin {Received(LaunchMsg(l))}
             => NothingAfter(sq', {Received(LaunchMsg(l))}, {Received(LaunchMsg(l))})
          /\ /\ Received(LaunchMsg(k)) \in {Received(LaunchMsg(l))}
             /\ Construct(k) \notin {Received(LaunchMsg(l))}
             => Items(sq') \cap {Received(LaunchMsg(l))} = {}
      BY <1>6, <2>1, ServerQueueAfter DEF OrderOf
    <3>2. QED BY <2>3, <3>1
  <2>5. k = l => Construct(l) \notin Items(sq)
    BY <2>2 DEF PlaceOf, Arrived, Dispatched
  <2>6. NothingAfter(sq', {Construct(l)}, {Construct(l)})
    <3>1. Items(sq) \cap {Construct(l)} = {} \/ Construct(k) \notin {Construct(l)} BY <2>3, <2>5
    <3>2. QED BY <1>6, <2>1, <3>1, ServerQueueAfter DEF OrderOf
  <2>7. OrderOf(l)' BY <2>2, <2>4, <2>6 DEF OrderOf
  <2>8. PlaceOf(l)'
    BY <2>2, <2>3, <2>4 DEF PlaceOf, Sent, Buffered, Piped, Arrived, Dispatched
  <2>9. QED BY <2>7, <2>8
<1>7. ASSUME NEW e \in SItems, Takes(e) PROVE OrderOf(l)' /\ PlaceOf(l)'
  <2>1. Items(sq') \subseteq Items(sq) /\ UNCHANGED <<cq, buffered, c2s>>
    BY <1>7, ServerQueueItems DEF Takes, FromServerQueue
  <2>2. /\ NothingAfter(sq', {Received(LaunchMsg(l))}, {Received(LaunchMsg(l))})
        /\ NothingAfter(sq', {Construct(l)}, {Construct(l)})
    BY <1>7, ServerQueueAfter DEF OrderOf
  <2>3. OrderOf(l)' BY <2>1, <2>2 DEF OrderOf
  <2>4. PlaceOf(l)' BY <2>1 DEF PlaceOf, Sent, Buffered, Piped, Arrived, Dispatched
  <2>5. QED BY <2>3, <2>4
<1>8. ASSUME NEW w \in {"GeneralError", "EndOfFile"}, Puts(InputEnd(w))
      PROVE  OrderOf(l)' /\ PlaceOf(l)'
  BY <1>4, <1>8, ItemTypes, ItemsDiffer
<1>9. ASSUME NEW k \in Launches, NEW r \in Reports, Puts(Report(k, r))
      PROVE  OrderOf(l)' /\ PlaceOf(l)'
  BY <1>4, <1>9, ItemTypes, ItemsDiffer
<1>10. QED BY <1>2, <1>3, <1>5, <1>6, <1>7, <1>8, <1>9

LEMMA OnceStep ==
  ASSUME TypeInv, FreshInv, OnceInv, NewInv, [Next]_vars
  PROVE  OnceInv'
<1>1. SUFFICES ASSUME NEW l \in Launches PROVE OrderOf(l)' /\ PlaceOf(l)'
  BY DEF OnceInv
<1>2. QueueT /\ ThreadT /\ OrderOf(l) /\ PlaceOf(l) BY DEF TypeInv, OnceInv
<1>3. CASE Takes(Construct(l))
  <2>1. /\ Items(sq') \subseteq Items(sq) /\ Construct(l) \in Items(sq)
        /\ UNCHANGED <<cq, buffered, c2s>>
    BY <1>2, <1>3, ServerQueueItems DEF Takes, FromServerQueue
  <2>2. /\ NothingAfter(sq', {Received(LaunchMsg(l))}, {Received(LaunchMsg(l))})
        /\ NothingAfter(sq', {Construct(l)}, {Construct(l)})
        /\ Construct(l) \in {Construct(l)} => Items(sq') \cap {Construct(l)} = {}
    BY <1>2, <1>3, ServerQueueAfter DEF OrderOf
  <2>3. OrderOf(l)' BY <1>2, <2>1, <2>2 DEF OrderOf
  <2>4. PlaceOf(l)'
    BY <1>2, <2>1, <2>2 DEF PlaceOf, Sent, Buffered, Piped, Arrived, Dispatched
  <2>5. QED BY <2>3, <2>4
<1>4. CASE Constructed(l)' => Constructed(l)
  <2>1. ASSUME NEW e \in CItems, Says(e), e = Send(LaunchMsg(l)) => Nowhere(l)
        PROVE  OrderOf(l)' /\ PlaceOf(l)'
    BY <1>2, <1>4, <2>1, SaysOnce
  <2>2. ASSUME NEW k \in Launches, OpenLaunch(k), Says(Send(LaunchMsg(k)))
        PROVE  OrderOf(l)' /\ PlaceOf(l)'
    <3>1. IsNew(k) BY <2>2 DEF OpenLaunch, IsNew, ClientRuns
    <3>2. LaunchMsg(k) \in MessagesOf(k)
      BY MessageTypes, LaunchMsgsDiffer DEF MessagesOf, AboutLaunch
    <3>3. Nowhere(k) BY <3>1, <3>2 DEF NewInv, NewOf, Nowhere
    <3>4. Send(LaunchMsg(k)) = Send(LaunchMsg(l)) => k = l BY ItemsDiffer, LaunchMsgsDiffer
    <3>5. QED BY <2>1, <2>2, <3>3, <3>4, ItemTypes, MessageTypes
  <2>3. ASSUME NEW m \in Msgs, Says(Send(m)), m.type # "Launch" PROVE OrderOf(l)' /\ PlaceOf(l)'
    <3>1. Send(m) # Send(LaunchMsg(l)) BY <2>3, ItemsDiffer, LaunchMsgsDiffer
    <3>2. QED BY <2>1, <2>3, <3>1, ItemTypes
  <2>4. ASSUME NEW k \in Launches, NEW t \in {"Request", "Close"}, NEW f \in SUBSET CloseFlags,
               Says(Send(Message(t, k, f, ~ToldLaunched(k))))
        PROVE  OrderOf(l)' /\ PlaceOf(l)'
    <3>1. Message(t, k, f, ~ToldLaunched(k)) \in Msgs BY MessageTypes DEF ToldLaunched
    <3>2. Message(t, k, f, ~ToldLaunched(k)).type # "Launch" BY DEF Message
    <3>3. QED BY <2>3, <2>4, <3>1, <3>2
  <2>5. ASSUME NEW s \in {"Launched", "LaunchFailed"}, Says(ServerState(s))
        PROVE  OrderOf(l)' /\ PlaceOf(l)'
    BY <2>1, <2>5, ItemsDiffer, ItemTypes
  <2>6. ASSUME NEW k \in Launches, Puts(Report(k, thread[k].report))
        PROVE  OrderOf(l)' /\ PlaceOf(l)'
    <3>1. thread[k].report \in Reports BY <1>2 DEF ThreadT
    <3>2. QED BY <1>2, <1>4, <2>6, <3>1, ArrivesOnce
  <2>7. ASSUME NEW m \in Msgs, m.type \notin AboutLaunch, Says(Send(m))
        PROVE  OrderOf(l)' /\ PlaceOf(l)'
    BY <2>3, <2>7 DEF AboutLaunch
  <2>8. Same \/ Forgets => OrderOf(l)' /\ PlaceOf(l)' BY <1>2, <1>4, PassesOnce
  <2>9. ASSUME NEW m \in Msgs, Keeps(m) \/ Writes(m) \/ Reads(m) PROVE OrderOf(l)' /\ PlaceOf(l)'
    BY <1>2, <1>4, <2>9, PassesOnce, ArrivesOnce
  <2>10. ASSUME NEW e \in CItems, Drops(e) PROVE OrderOf(l)' /\ PlaceOf(l)'
    BY <1>2, <1>4, <2>10, PassesOnce
  <2>11. Flushes(ServerState("Launched")) => OrderOf(l)' /\ PlaceOf(l)'
    BY <1>2, <1>4, PassesOnce
  <2>12. ASSUME NEW s \in {"Exited", "Crashed"}, Loses(s) PROVE OrderOf(l)' /\ PlaceOf(l)'
    BY <1>2, <1>4, <2>12, ArrivesOnce
  <2>13. ASSUME NEW w \in {"GeneralError", "EndOfFile"}, Puts(InputEnd(w))
         PROVE  OrderOf(l)' /\ PlaceOf(l)'
    BY <1>2, <1>4, <2>13, ArrivesOnce
  <2>14. ASSUME NEW k \in Launches, Adds(k, LaunchMsg(k)) PROVE OrderOf(l)' /\ PlaceOf(l)'
    BY <1>2, <1>4, <2>14, ArrivesOnce
  <2>15. ASSUME NEW e \in SItems, Takes(e) PROVE OrderOf(l)' /\ PlaceOf(l)'
    BY <1>2, <1>4, <2>15, ArrivesOnce
  <2>16. ASSUME NEW k \in Launches, NEW r \in Reports, Tells(k, r) PROVE OrderOf(l)' /\ PlaceOf(l)'
    BY <1>2, <1>4, <2>16, ArrivesOnce
  <2>17. QED
    BY <2>2, <2>4, <2>5, <2>6, <2>7, <2>8, <2>9, <2>10, <2>11, <2>12, <2>13, <2>14, <2>15, <2>16,
       Moves
<1>5. QED BY <1>3, <1>4, Births

-----------------------------------------------------------------------------
(* What is not under way does not come to be so by itself.                 *)

LEMMA AbsentStep ==
  ASSUME TypeInv, [Next]_vars, NEW m \in Msgs, Absent(m), ~Says(Send(m))
  PROVE  Absent(m)'
<1>1. QueueT /\ ThreadT BY DEF TypeInv
<1>2. CASE Same BY <1>2 DEF Same, Absent
<1>3. ASSUME NEW e \in CItems, Says(e) PROVE Absent(m)'
  <2>1. e # Send(m) BY <1>3
  <2>2. Items(cq') = Items(cq) \cup {e} /\ UNCHANGED <<buffered, c2s, sq>>
    BY <1>1, <1>3, ClientQueueItems DEF Says
  <2>3. QED BY <2>1, <2>2 DEF Absent
<1>4. CASE Forgets
  BY <1>1, <1>4, ClientQueueItems DEF Forgets, Absent
<1>5. ASSUME NEW n \in Msgs, Keeps(n) \/ Writes(n) PROVE Absent(m)'
  <2>1. /\ Send(n) \in Items(cq) /\ Items(cq') \subseteq Items(cq) /\ UNCHANGED sq
        /\ Items(buffered') \subseteq Items(buffered) \cup {n}
        /\ Items(c2s') \subseteq Items(c2s) \cup {n}
    BY <1>1, <1>5, ClientQueueItems DEF Keeps, Writes
  <2>2. n # m BY <2>1 DEF Absent
  <2>3. QED BY <2>1, <2>2 DEF Absent
<1>6. ASSUME NEW e, Drops(e) PROVE Absent(m)'
  <2>1. Items(cq') \subseteq Items(cq) /\ UNCHANGED <<buffered, c2s, sq>>
    BY <1>1, <1>6, ClientQueueItems DEF Drops
  <2>2. QED BY <2>1 DEF Absent
<1>7. ASSUME NEW e, Flushes(e) PROVE Absent(m)'
  <2>1. /\ Items(cq') \subseteq Items(cq) /\ Items(buffered') = {} /\ UNCHANGED sq
        /\ Items(c2s') \subseteq Items(c2s) \cup Items(buffered)
    BY <1>1, <1>7, ClientQueueItems DEF Flushes
  <2>2. QED BY <2>1 DEF Absent
<1>8. ASSUME NEW s \in {"Exited", "Crashed"}, Loses(s) PROVE Absent(m)'
  <2>1. /\ Items(c2s') = {} /\ Items(sq') = {} /\ UNCHANGED buffered
        /\ Items(cq') \subseteq Items(cq) \cup {ServerState(s)}
    BY <1>1, <1>8, ServerQueueItems DEF Loses
  <2>2. QED BY <2>1, ItemsDiffer DEF Absent
<1>9. ASSUME NEW n \in Msgs, Reads(n) PROVE Absent(m)'
  <2>1. /\ n \in Items(c2s) /\ Items(c2s') \subseteq Items(c2s)
        /\ Items(sq') = Items(sq) \cup {Received(n)} /\ UNCHANGED <<cq, buffered>>
    BY <1>1, <1>9, ServerQueueItems DEF Reads
  <2>2. Received(n) # Received(m) BY <2>1, ItemsDiffer DEF Absent
  <2>3. QED BY <2>1, <2>2 DEF Absent
<1>10. ASSUME NEW e \in SItems, Puts(e), e # Received(m) PROVE Absent(m)'
  <2>1. Items(sq') = Items(sq) \cup {e} /\ UNCHANGED <<cq, buffered, c2s>>
    BY <1>1, <1>10, ServerQueueItems DEF Puts
  <2>2. QED BY <1>10, <2>1 DEF Absent
<1>11. ASSUME NEW e \in SItems, Takes(e) PROVE Absent(m)'
  <2>1. Items(sq') \subseteq Items(sq) /\ UNCHANGED <<cq, buffered, c2s>>
    BY <1>1, <1>11, ServerQueueItems DEF Takes, FromServerQueue
  <2>2. QED BY <2>1 DEF Absent
<1>12. ASSUME NEW k \in Launches, NEW r \in Reports, Tells(k, r) PROVE Absent(m)'
  <2>1. /\ Items(sq') \subseteq Items(sq) /\ Items(cq') = Items(cq) \cup {Packet(k, r)}
        /\ UNCHANGED <<buffered, c2s>>
    BY <1>1, <1>12, ServerQueueItems DEF Tells, FromServerQueue
  <2>2. QED BY <2>1, ItemsDiffer DEF Absent
<1>13. ASSUME NEW k \in Launches, Adds(k, LaunchMsg(k)) PROVE Absent(m)'
  <2>1. Items(sq') \subseteq Items(sq) \cup {Construct(k)} /\ UNCHANGED <<cq, buffered, c2s>>
    BY <1>1, <1>13, ServerQueueItems, MessageTypes DEF Adds, FromServerQueue
  <2>2. QED BY <2>1, ItemsDiffer DEF Absent
<1>14. ASSUME NEW k \in Launches, Says(Send(LaunchMsg(k))) PROVE Absent(m)'
  BY <1>3, <1>14, ItemTypes, MessageTypes
<1>15. ASSUME NEW k \in Launches, NEW t \in {"Request", "Close"}, NEW f \in SUBSET CloseFlags,
              Says(Send(Message(t, k, f, ~ToldLaunched(k))))
       PROVE  Absent(m)'
  <2>1. Message(t, k, f, ~ToldLaunched(k)) \in Msgs BY MessageTypes DEF ToldLaunched
  <2>2. QED BY <1>3, <1>15, <2>1, ItemTypes
<1>16. ASSUME NEW n \in Msgs, Says(Send(n)) PROVE Absent(m)'
  BY <1>3, <1>16, ItemTypes
<1>17. ASSUME NEW s \in {"Launched", "LaunchFailed"}, Says(ServerState(s)) PROVE Absent(m)'
  BY <1>3, <1>17, ItemTypes
<1>18. ASSUME NEW w \in {"GeneralError", "EndOfFile"}, Puts(InputEnd(w)) PROVE Absent(m)'
  BY <1>10, <1>18, ItemTypes, ItemsDiffer
<1>19. ASSUME NEW k \in Launches, Puts(Report(k, thread[k].report)) PROVE Absent(m)'
  <2>1. thread[k].report \in Reports BY <1>1 DEF ThreadT
  <2>2. QED BY <1>10, <1>19, <2>1, ItemTypes, ItemsDiffer
<1>20. QED
  BY <1>2, <1>4, <1>5, <1>6, <1>7, <1>8, <1>9, <1>11, <1>12, <1>13, <1>14, <1>15, <1>16, <1>17,
     <1>18, <1>19, Moves

(* How the items of a queue change, whatever the step.                     *)
LEMMA QueueSteps ==
  ASSUME TypeInv, [Next]_vars
  PROVE  /\ \/ Items(cq') \subseteq Items(cq)
            \/ \E m \in Msgs : Says(Send(m)) /\ Items(cq') = Items(cq) \cup {Send(m)}
            \/ \E s : Items(cq') \subseteq Items(cq) \cup {ServerState(s)}
            \/ \E l \in Launches, r \in Reports :
                  Tells(l, r) /\ Items(cq') = Items(cq) \cup {Packet(l, r)}
         /\ \/ Items(sq') \subseteq Items(sq)
            \/ \E m \in Msgs : Items(sq') = Items(sq) \cup {Received(m)}
            \/ \E w : Items(sq') = Items(sq) \cup {InputEnd(w)}
            \/ \E l \in Launches :
                  /\ Dispatching(l)
                  /\ Puts(Report(l, thread[l].report))
                  /\ Items(sq') = Items(sq) \cup {Report(l, thread[l].report)}
            \/ \E l \in Launches : /\ Received(LaunchMsg(l)) \in Items(sq)
                                   /\ Items(sq') \subseteq Items(sq) \cup {Construct(l)}
<1>1. QueueT /\ ThreadT BY DEF TypeInv
<1>2. /\ \A k \in Launches : thread[k].report \in Reports /\ LaunchMsg(k) \in Msgs
      /\ \A k \in Launches, t \in {"Request", "Close"}, f \in SUBSET CloseFlags :
            Message(t, k, f, ~ToldLaunched(k)) \in Msgs
  BY <1>1, MessageTypes DEF ThreadT, ToldLaunched
<1>3. \/ Items(cq') \subseteq Items(cq)
      \/ \E m \in Msgs : Says(Send(m)) /\ Items(cq') = Items(cq) \cup {Send(m)}
      \/ \E s : Items(cq') \subseteq Items(cq) \cup {ServerState(s)}
      \/ \E l \in Launches, r \in Reports :
            Tells(l, r) /\ Items(cq') = Items(cq) \cup {Packet(l, r)}
  <2>1. CASE UNCHANGED cq BY <2>1
  <2>2. ASSUME NEW m \in Msgs, Says(Send(m)) PROVE Items(cq') = Items(cq) \cup {Send(m)}
    BY <1>1, <2>2, ClientQueueItems, ItemTypes
  <2>3. ASSUME NEW s \in {"Launched", "LaunchFailed"}, Says(ServerState(s))
        PROVE  Items(cq') \subseteq Items(cq) \cup {ServerState(s)}
    BY <1>1, <2>3, ClientQueueItems, ItemTypes
  <2>4. CASE Forgets BY <1>1, <2>4, ClientQueueItems
  <2>5. ASSUME NEW e, FromQueue(e) PROVE Items(cq') \subseteq Items(cq)
    BY <1>1, <2>5, ClientQueueItems
  <2>6. ASSUME NEW s \in {"Exited", "Crashed"}, Loses(s)
        PROVE  Items(cq') \subseteq Items(cq) \cup {ServerState(s)}
    BY <1>1, <2>6, ServerQueueItems
  <2>7. ASSUME NEW l \in Launches, NEW r \in Reports, Tells(l, r)
        PROVE  Items(cq') = Items(cq) \cup {Packet(l, r)}
    BY <1>1, <2>7, ServerQueueItems
  <2>8. \/ UNCHANGED cq \/ Forgets \/ \E e : FromQueue(e)
        \/ \E m \in Msgs : Says(Send(m))
        \/ \E s \in {"Launched", "LaunchFailed"} : Says(ServerState(s))
        \/ \E s \in {"Exited", "Crashed"} : Loses(s)
        \/ \E l \in Launches, r \in Reports : Tells(l, r)
    BY <1>2, Moves DEF Same, Keeps, Writes, Drops, Flushes, Reads, Puts, Adds, Takes
  <2>9. QED BY <2>1, <2>2, <2>3, <2>4, <2>5, <2>6, <2>7, <2>8
<1>4. \/ Items(sq') \subseteq Items(sq)
      \/ \E m \in Msgs : Items(sq') = Items(sq) \cup {Received(m)}
      \/ \E w : Items(sq') = Items(sq) \cup {InputEnd(w)}
      \/ \E l \in Launches : /\ Dispatching(l)
                             /\ Puts(Report(l, thread[l].report))
                             /\ Items(sq') = Items(sq) \cup {Report(l, thread[l].report)}
      \/ \E l \in Launches : /\ Received(LaunchMsg(l)) \in Items(sq)
                             /\ Items(sq') \subseteq Items(sq) \cup {Construct(l)}
  <2>1. CASE UNCHANGED sq BY <2>1
  <2>2. ASSUME NEW s \in {"Exited", "Crashed"}, Loses(s) PROVE Items(sq') \subseteq Items(sq)
    BY <1>1, <2>2, ServerQueueItems
  <2>3. ASSUME NEW m \in Msgs, Reads(m) PROVE Items(sq') = Items(sq) \cup {Received(m)}
    BY <1>1, <2>3, ServerQueueItems
  <2>4. ASSUME NEW w \in {"GeneralError", "EndOfFile"}, Puts(InputEnd(w))
        PROVE  Items(sq') = Items(sq) \cup {InputEnd(w)}
    BY <1>1, <2>4, ServerQueueItems, ItemTypes
  <2>5. ASSUME NEW l \in Launches, Puts(Report(l, thread[l].report))
        PROVE  Items(sq') = Items(sq) \cup {Report(l, thread[l].report)}
    BY <1>1, <1>2, <2>5, ServerQueueItems, ItemTypes
  <2>6. ASSUME NEW l \in Launches, Adds(l, LaunchMsg(l))
        PROVE  /\ Received(LaunchMsg(l)) \in Items(sq)
               /\ Items(sq') \subseteq Items(sq) \cup {Construct(l)}
    BY <1>1, <1>2, <2>6, ServerQueueItems
  <2>7. ASSUME NEW e \in SItems, Takes(e) PROVE Items(sq') \subseteq Items(sq)
    BY <1>1, <2>7, ServerQueueItems
  <2>8. ASSUME NEW l \in Launches, NEW r \in Reports, Tells(l, r)
        PROVE  Items(sq') \subseteq Items(sq)
    BY <1>1, <2>8, ServerQueueItems
  <2>9. \/ UNCHANGED sq \/ \E s \in {"Exited", "Crashed"} : Loses(s)
        \/ \E m \in Msgs : Reads(m)
        \/ \E w \in {"GeneralError", "EndOfFile"} : Puts(InputEnd(w))
        \/ \E l \in Launches : Dispatching(l) /\ Puts(Report(l, thread[l].report))
        \/ \E l \in Launches : Adds(l, LaunchMsg(l))
        \/ \E e \in SItems : Takes(e)
        \/ \E l \in Launches, r \in Reports : Tells(l, r)
    BY Moves DEF Same, Says, Forgets, Keeps, Writes, Drops, Flushes
  <2>10. QED
    BY <2>1, <2>2, <2>3, <2>4, <2>5, <2>6, <2>7, <2>8, <2>9
<1>5. QED BY <1>3, <1>4

LEMMA HushedStep ==
  ASSUME TypeInv, [Next]_vars, NEW l \in Launches, Hushed(l),
         ~Constructed(l) \/ Silent(l)
  PROVE  Hushed(l)'
<1>1. QueueT /\ ThreadT BY DEF TypeInv
<1>2. Items(cq') \cap Packets(l) = {}
  <2>1. SUFFICES ASSUME NEW r \in Reports PROVE Packet(l, r) \notin Items(cq')
    BY DEF Packets
  <2>2. Packet(l, r) \notin Items(cq) BY DEF Hushed, Packets
  <2>3. ASSUME NEW k \in Launches, NEW q \in Reports, Tells(k, q) PROVE Packet(k, q) # Packet(l, r)
    <3>1. Report(k, q) \in Items(sq) BY <1>1, <2>3, ServerQueueItems
    <3>2. k # l BY <3>1 DEF Hushed, ReportsOf
    <3>3. QED BY <3>2, ItemsDiffer
  <2>4. QED BY <2>2, <2>3, QueueSteps, ItemsDiffer
<1>3. Items(sq') \cap ReportsOf(l) = {}
  <2>1. SUFFICES ASSUME NEW r \in Reports PROVE Report(l, r) \notin Items(sq')
    BY DEF ReportsOf
  <2>2. Report(l, r) \notin Items(sq) BY DEF Hushed, ReportsOf
  <2>3. ASSUME NEW k \in Launches, Dispatching(k)
        PROVE  Report(k, thread[k].report) # Report(l, r)
    <3>1. k # l BY <2>3 DEF Dispatching, Constructed, Silent
    <3>2. QED BY <3>1, ItemsDiffer
  <2>4. QED BY <2>2, <2>3, QueueSteps, ItemsDiffer
<1>4. QED BY <1>2, <1>3 DEF Hushed

-----------------------------------------------------------------------------
(* The owners and the reports of the client, step by step.                 *)

LEMMA OwnerGoes ==
  ASSUME TypeInv, [Next]_vars, NEW l \in Launches
  PROVE  /\ IsNew(l)' => IsNew(l) /\ ~OpenLaunch(l)
         /\ ClientRuns' => ClientRuns
<1>1. owner \in [Launches -> {"none", "added", "open", "closing", "closed"}]
  BY DEF TypeInv, OwnerT
<1>2. CASE UNCHANGED <<client, owner>> /\ ~OpenLaunch(l)
  BY <1>2 DEF IsNew, ClientRuns
<1>3. ASSUME NEW k \in Launches, AddLaunch(k)
      PROVE  IsNew(l)' => IsNew(l) /\ ~OpenLaunch(l)
  BY <1>1, <1>3 DEF AddLaunch, OpenLaunch, IsNew, ClientRuns
<1>4. ASSUME NEW k \in Launches, OpenLaunch(k)
      PROVE  IsNew(l)' => IsNew(l) /\ ~OpenLaunch(l)
  BY <1>1, <1>4 DEF OpenLaunch, IsNew, ClientRuns
<1>5. ASSUME NEW k \in Launches, CloseReturns(k)
      PROVE  IsNew(l)' => IsNew(l) /\ ~OpenLaunch(l)
  BY <1>1, <1>5 DEF CloseReturns, OpenLaunch, IsNew, ClientRuns
<1>6. ASSUME NEW k \in Launches, NEW f \in ClosesWith, Close(k, f)
      PROVE  IsNew(l)' => IsNew(l) /\ ~OpenLaunch(l)
  BY <1>1, <1>6 DEF Close, OpenLaunch, IsNew, ClientRuns
<1>7. ASSUME NEW k \in Launches, Request(k)
      PROVE  IsNew(l)' => IsNew(l) /\ ~OpenLaunch(l)
  BY <1>1, <1>7 DEF Request, OpenLaunch, IsNew, ClientRuns
<1>8. \A k \in Launches : AddLaunch(k) \/ OpenLaunch(k) \/ Request(k) \/ CloseReturns(k)
                          => UNCHANGED client
  BY DEF AddLaunch, OpenLaunch, Request, CloseReturns
<1>9. \A k \in Launches, f \in ClosesWith : Close(k, f) => UNCHANGED client
  BY DEF Close
<1>10. CASE Destroy \/ ServerHasExited \/ ClearServer \/ WaitTimesOut
  BY <1>10 DEF Destroy, ServerHasExited, ClearServer, WaitTimesOut, ownerVars, OpenLaunch, IsNew,
               ClientRuns
<1>11. CASE JoinThread \/ ClientDies
  BY <1>11 DEF JoinThread, ClientDies, IsNew, ClientRuns
<1>12. CASE UNCHANGED vars \/ ClientMove \/ ServerMove \/ ThreadMove
  <2>1. UNCHANGED <<client, owner>>
    BY <1>12, ClientFrame, Sides DEF vars, clientVars, clientRest, ownerVars
  <2>2. ~OpenLaunch(l) BY <1>1, <2>1 DEF OpenLaunch
  <2>3. QED BY <1>2, <2>1, <2>2 DEF ClientRuns
<1>13. ClientRuns' => ClientRuns
  BY <1>8, <1>9, <1>10, <1>11, <1>12, Sides DEF OwnerMove, ClientRuns
<1>14. QED
  BY <1>3, <1>4, <1>5, <1>6, <1>7, <1>10, <1>11, <1>12, <1>13, Sides DEF OwnerMove

Rest      == UNCHANGED <<cdo, running, reports, finished, cerror>>
Opens(k)  == OpenLaunch(k) /\ UNCHANGED <<cdo, reports, finished, cerror>>
             /\ running' = running \cup {k}
Clears    == /\ Forgets /\ cdo'.do = "idle" /\ ~ClientRuns'
             /\ running' = {} /\ finished' = {} /\ cerror' = FALSE
             /\ \A l \in Launches : reports'[l] = <<>> /\ owner'[l] = "none"
Pauses    == /\ cdo.do \notin {"report", "finish"} /\ cdo'.do \notin {"report", "finish"}
             /\ UNCHANGED <<running, reports, finished>>
             /\ \/ UNCHANGED cerror
                \/ \E s \in {"LaunchFailed", "Crashed"} : Drops(ServerState(s))
Begins(k, r) ==
  /\ cdo.do \in {"idle", "error"} /\ cdo'.do = "report" /\ cdo'.launch = k /\ cdo'.report = r
  /\ running' = (IF r \in Final THEN running \ {k} ELSE running)
  /\ UNCHANGED <<reports, finished, cerror>>
  /\ r \in Final => k \in running
  /\ \/ Drops(Packet(k, r)) /\ r \in Reports
     \/ /\ cerror /\ (\E m \in MessagesOf(k) : Drops(Send(m)))
        /\ r \in {"LaunchFailed", "GeneralError"}
     \/ cdo.do = "error" /\ Same /\ r = "LaunchFailed"
Reported  ==
  /\ cdo.do = "report" /\ Same /\ UNCHANGED <<running, finished, cerror>>
  /\ reports' = [reports EXCEPT ![cdo.launch] = Append(@, cdo.report)]
  /\ IF cdo.report \in Final THEN cdo' = [cdo EXCEPT !.do = "finish"]
                             ELSE cdo'.do \notin {"report", "finish"}
Finishes  ==
  /\ cdo.do = "finish" /\ Same /\ UNCHANGED <<running, reports, cerror>>
  /\ finished' = finished \cup {cdo.launch} /\ cdo'.do \notin {"report", "finish"}

LEMMA ReportMoves ==
  ASSUME TypeInv, [Next]_vars
  PROVE  \/ Rest
         \/ \E k \in Launches : Opens(k)
         \/ Clears
         \/ Pauses
         \/ \E k \in Launches, r \in Reports \cup {"GeneralError"} : Begins(k, r)
         \/ Reported
         \/ Finishes
<1>1. QueueT /\ cdo \in ClientDoing BY DEF TypeInv, DoT
<1>2. Replying.do \notin {"report", "finish"} /\ Continue.do \notin {"report", "finish"}
      /\ ClientIdle.do = "idle"
  BY DEF Replying, Continue, ClientIdle, ClientDoes
<1>3. CASE UNCHANGED vars \/ ServerMove \/ ThreadMove
  BY <1>3, Sides DEF vars, clientVars, clientRest, ownerVars, Rest
<1>4. CASE WaitTimesOut
  BY <1>4 DEF WaitTimesOut, ownerVars, Rest
<1>5. CASE Destroy \/ ServerHasExited \/ ClearServer
  BY <1>5 DEF Destroy, ServerHasExited, ClearServer, ownerVars, dispatchVars, Rest
<1>6. ASSUME NEW k \in Launches, AddLaunch(k) \/ Request(k) \/ CloseReturns(k) PROVE Rest
  BY <1>6 DEF AddLaunch, Request, CloseReturns, dispatchVars, Rest
<1>7. ASSUME NEW k \in Launches, NEW f \in ClosesWith, Close(k, f) PROVE Rest
  BY <1>7 DEF Close, Rest
<1>8. ASSUME NEW k \in Launches, OpenLaunch(k) PROVE Opens(k)
  BY <1>8 DEF OpenLaunch, Opens
<1>9. CASE JoinThread \/ ClientDies
  <2>1. Forgets BY <1>1, <1>9, OwnerMoves
  <2>2. ~ClientRuns' BY <1>9 DEF JoinThread, ClientDies, ClientRuns
  <2>3. ClientForgets BY <1>9 DEF JoinThread, ClientDies
  <2>4. Clears BY <1>2, <2>1, <2>2, <2>3 DEF ClientForgets, Clears
  <2>5. QED BY <2>4
<1>10. CASE OwnerMove
  BY <1>5, <1>6, <1>7, <1>8, <1>9, <1>10 DEF OwnerMove
<1>11. CASE SendItem
  BY <1>11 DEF SendItem, ownerVars, Rest
<1>12. CASE FailSend
  <2>1. PICK m \in Msgs : Head(cq) = Send(m) /\ Drops(Send(m)) BY <1>1, <1>12, ClientMoves
  <2>2. Head(cq).message = m BY <2>1 DEF Send
  <2>3. cerror /\ cdo.do = "idle" /\ UNCHANGED <<reports, finished, cerror>>
    BY <1>12 DEF FailSend, NextItem
  <2>4. \/ /\ m.type = "Launch" /\ m.launch \in running
           /\ BeginReport(m.launch, "LaunchFailed", "send", {})
        \/ m.type \in {"Request", "Close"} /\ BeginReport(m.launch, "GeneralError", "send", {})
        \/ UNCHANGED <<cdo, running>>
    BY <1>12, <2>2 DEF FailSend
  <2>5. CASE m.type \in AboutLaunch
    <3>1. m \in MessagesOf(m.launch) /\ m.launch \in Launches BY <2>5 DEF MessagesOf, Msgs
    <3>2. \/ Begins(m.launch, "LaunchFailed") \/ Begins(m.launch, "GeneralError") \/ Rest
      BY <2>1, <2>3, <2>4, <3>1 DEF Begins, BeginReport, ClientDoes, Final, Rest
    <3>3. QED BY <3>1, <3>2 DEF Reports, States
  <2>6. CASE m.type \notin AboutLaunch
    BY <2>3, <2>4, <2>6 DEF AboutLaunch, Rest
  <2>7. QED BY <2>5, <2>6
<1>13. CASE OnServerState
  <2>1. PICK s \in {"Launched", "LaunchFailed", "Exited", "Crashed"} :
           /\ Head(cq) = ServerState(s)
           /\ IF s = "Launched" THEN Flushes(ServerState(s)) ELSE Drops(ServerState(s))
    BY <1>1, <1>13, ClientMoves
  <2>2. Head(cq).state = s BY <2>1 DEF ServerState
  <2>3. cdo.do = "idle" /\ UNCHANGED <<running, reports, finished>>
    BY <1>13 DEF OnServerState, NextItem, ownerVars
  <2>4. IF s \in {"LaunchFailed", "Crashed"} THEN BeginSetError ELSE UNCHANGED <<cerror, cdo>>
    BY <1>13, <2>2 DEF OnServerState
  <2>5. BeginSetError => cdo'.do = "error" BY DEF BeginSetError, ClientDoes
  <2>6. Rest \/ Pauses BY <2>1, <2>3, <2>4, <2>5 DEF Rest, Pauses
  <2>7. QED BY <2>6
<1>14. CASE HandlePacket
  <2>1. PICK l \in Launches, r \in Reports : Head(cq) = Packet(l, r) /\ Drops(Packet(l, r))
    BY <1>1, <1>14, ClientMoves
  <2>2. Head(cq).launch = l /\ Head(cq).report = r BY <2>1 DEF Packet
  <2>3. cdo.do = "idle" /\ UNCHANGED <<reports, finished, cerror>>
    BY <1>14 DEF HandlePacket, NextItem
  <2>4. \/ (r \in Final => l \in running) /\ BeginReport(l, r, "packet", {})
        \/ cdo' = Replying /\ UNCHANGED running
    BY <1>14, <2>2 DEF HandlePacket
  <2>5. Begins(l, r) \/ Pauses
    BY <1>2, <2>1, <2>3, <2>4 DEF Begins, BeginReport, ClientDoes, Pauses
  <2>6. QED BY <2>5
<1>15. ASSUME NEW k \in Launches, SetErrorOf(k) PROVE Begins(k, "LaunchFailed") \/ Pauses
  <2>1. Same BY <1>1, <1>15, ClientMoves
  <2>2. cdo.do = "error" /\ UNCHANGED <<reports, finished, cerror>> BY <1>15 DEF SetErrorOf
  <2>3. \/ k \in running /\ BeginReport(k, "LaunchFailed", "error", cdo.left \ {k})
        \/ cdo' = [cdo EXCEPT !.left = @ \ {k}] /\ UNCHANGED running
    BY <1>15 DEF SetErrorOf
  <2>4. CASE k \in running /\ BeginReport(k, "LaunchFailed", "error", cdo.left \ {k})
    BY <2>1, <2>2, <2>4 DEF Begins, BeginReport, ClientDoes, Final
  <2>5. CASE cdo' = [cdo EXCEPT !.left = @ \ {k}] /\ UNCHANGED running
    BY <1>1, <2>2, <2>5 DEF Pauses, ClientDoing
  <2>6. QED BY <2>3, <2>4, <2>5
<1>16. CASE DoReport
  BY <1>1, <1>2, <1>16, ClientMoves DEF DoReport, Reported
<1>17. CASE DoFinish
  BY <1>1, <1>2, <1>17, ClientMoves DEF DoFinish, Finishes
<1>18. CASE DoReply \/ SetErrorDone
  BY <1>2, <1>18 DEF DoReply, SetErrorDone, ownerVars, Pauses
<1>19. CASE ClientMove
  BY <1>11, <1>12, <1>13, <1>14, <1>15, <1>16, <1>17, <1>18, <1>19 DEF ClientMove, Reports, States
<1>20. QED BY <1>3, <1>4, <1>10, <1>19, Sides

(* What a queue is after something has been put at its end.                *)
LEMMA AppendGrows ==
  ASSUME NEW T, NEW s \in Seq(T), NEW e \in T
  PROVE  /\ Append(s, e) # <<>> /\ Append(s, e) # s
         /\ s # <<>> => Append(s, e) # Tail(s)
         /\ \A f \in T : Append(s, e) = Append(s, f) => e = f
<1>1. Len(Append(s, e)) = Len(s) + 1 /\ Len(s) \in Nat /\ Append(s, e)[Len(s) + 1] = e
  OBVIOUS
<1>2. \A f \in T : Append(s, f)[Len(s) + 1] = f
  OBVIOUS
<1>3. s # <<>> => Len(Tail(s)) = Len(s) - 1
  OBVIOUS
<1>4. Len(<<>>) = 0
  OBVIOUS
<1>5. \A f \in T : Append(s, e) = Append(s, f) => e = f
  BY <1>1, <1>2, Zenon
<1>6. Append(s, e) # s /\ Append(s, e) # <<>> /\ (s # <<>> => Append(s, e) # Tail(s))
  BY <1>1, <1>3, <1>4
<1>7. QED BY <1>5, <1>6

(* Only its owner says something about a launch.                           *)
LEMMA SaysAbout ==
  ASSUME TypeInv, [Next]_vars, NEW l \in Launches, NEW m \in MessagesOf(l), Says(Send(m))
  PROVE  \/ OpenLaunch(l) /\ m = LaunchMsg(l)
         \/ /\ owner[l] = "open"
            /\ \E t \in {"Request", "Close"}, f \in SUBSET CloseFlags :
                  m = Message(t, l, f, ~ToldLaunched(l))
<1>1. cq \in Seq(CItems) /\ QueueT BY DEF TypeInv, QueueT
<1>2. m \in Msgs /\ m.type \in AboutLaunch /\ m.launch = l BY DEF MessagesOf
<1>3. cq' = Append(cq, Send(m)) /\ Send(m) \in CItems BY <1>2, ItemTypes DEF Says
<1>4. ASSUME NEW e \in CItems, cq' = Append(cq, e) PROVE e = Send(m)
  BY <1>1, <1>3, <1>4, AppendGrows
<1>5. ASSUME NEW e, FromQueue(e) PROVE FALSE
  BY <1>1, <1>3, <1>5, AppendGrows DEF FromQueue
<1>6. ~Forgets /\ ~Same /\ cq' # cq BY <1>1, <1>3, AppendGrows DEF Forgets, Same
<1>7. /\ \A n \in Msgs : ~Keeps(n) /\ ~Writes(n) /\ ~Reads(n)
      /\ \A e : ~Drops(e) /\ ~Flushes(e) /\ ~Puts(e) /\ ~Takes(e)
      /\ \A k : ~Adds(k, LaunchMsg(k))
  BY <1>5, <1>6 DEF Keeps, Writes, Reads, Drops, Flushes, Puts, Takes, Adds
<1>8. ASSUME NEW s \in {"Launched", "LaunchFailed"}, Says(ServerState(s)) PROVE FALSE
  BY <1>4, <1>8, ItemTypes, ItemsDiffer DEF Says
<1>9. ASSUME NEW s \in {"Exited", "Crashed"}, Loses(s) PROVE FALSE
  BY <1>4, <1>6, <1>9, ItemTypes, ItemsDiffer DEF Loses
<1>10. ASSUME NEW k \in Launches, NEW r \in Reports, Tells(k, r) PROVE FALSE
  BY <1>4, <1>10, ItemTypes, ItemsDiffer DEF Tells
<1>11. ASSUME NEW n \in Msgs, n.type \notin AboutLaunch, Says(Send(n)) PROVE FALSE
  <2>1. Send(n) = Send(m) BY <1>4, <1>11, ItemTypes DEF Says
  <2>2. n = m BY <2>1, ItemsDiffer
  <2>3. QED BY <1>2, <1>11, <2>2
<1>12. ASSUME NEW k \in Launches, OpenLaunch(k), Says(Send(LaunchMsg(k)))
       PROVE  k = l /\ m = LaunchMsg(l)
  <2>1. Send(LaunchMsg(k)) = Send(m) BY <1>4, <1>12, ItemTypes, MessageTypes DEF Says
  <2>2. LaunchMsg(k) = m BY <2>1, ItemsDiffer
  <2>3. QED BY <1>2, <2>2, LaunchMsgsDiffer
<1>13. ASSUME NEW k \in Launches, NEW t \in {"Request", "Close"}, NEW f \in SUBSET CloseFlags,
              Says(Send(Message(t, k, f, ~ToldLaunched(k))))
       PROVE  k = l /\ m = Message(t, l, f, ~ToldLaunched(l))
  <2>1. Message(t, k, f, ~ToldLaunched(k)) \in Msgs BY MessageTypes DEF ToldLaunched
  <2>2. Send(Message(t, k, f, ~ToldLaunched(k))) = Send(m) BY <1>4, <1>13, <2>1, ItemTypes DEF Says
  <2>3. Message(t, k, f, ~ToldLaunched(k)) = m BY <2>2, ItemsDiffer
  <2>4. k = l BY <1>2, <2>3, LaunchMsgsDiffer
  <2>5. QED BY <2>3, <2>4
<1>14. QED
  BY <1>6, <1>7, <1>8, <1>9, <1>10, <1>11, <1>12, <1>13, Moves

-----------------------------------------------------------------------------
(* A launch that has not been opened has left no trace.                    *)

LEMMA NewOfReports ==
  ASSUME TypeInv, [Next]_vars, NEW l \in Launches, NewOf(l), ~OpenLaunch(l)
  PROVE  l \notin running' /\ reports'[l] = <<>> /\ ~Reporting(l)'
<1>1. /\ QueueT /\ l \notin running /\ reports[l] = <<>> /\ ~Reporting(l) /\ Hushed(l)
      /\ \A m \in MessagesOf(l) : Absent(m)
      /\ reports \in [Launches -> Seq(Reports \cup {"GeneralError"})]
  BY DEF NewOf, TypeInv, OwnerT
<1>2. CASE Rest BY <1>1, <1>2 DEF Rest, Reporting
<1>3. ASSUME NEW k \in Launches, Opens(k)
      PROVE  l \notin running' /\ reports'[l] = <<>> /\ ~Reporting(l)'
  <2>1. k # l BY <1>3 DEF Opens
  <2>2. QED BY <1>1, <1>3, <2>1 DEF Opens, Reporting
<1>4. CASE Clears BY <1>4 DEF Clears, Reporting
<1>5. CASE Pauses BY <1>1, <1>5 DEF Pauses, Reporting
<1>6. ASSUME NEW k \in Launches, NEW r \in Reports \cup {"GeneralError"}, Begins(k, r)
      PROVE  l \notin running' /\ reports'[l] = <<>> /\ ~Reporting(l)'
  <2>1. k # l
    <3>1. SUFFICES ASSUME k = l PROVE FALSE OBVIOUS
    <3>2. r \notin Final BY <1>1, <1>6, <3>1 DEF Begins
    <3>3. CASE Drops(Packet(l, r)) /\ r \in Reports
      <4>1. Packet(l, r) \in Items(cq) BY <1>1, <3>3, ClientQueueItems DEF Drops
      <4>2. QED BY <1>1, <3>3, <4>1 DEF Hushed, Packets
    <3>4. ASSUME NEW m \in MessagesOf(l), Drops(Send(m)) PROVE FALSE
      <4>1. Send(m) \in Items(cq) BY <1>1, <3>4, ClientQueueItems DEF Drops
      <4>2. QED BY <1>1, <4>1 DEF Absent
    <3>5. QED BY <1>6, <3>1, <3>2, <3>3, <3>4 DEF Begins, Final
  <2>2. QED BY <1>1, <1>6, <2>1 DEF Begins, Reporting
<1>7. CASE Reported
  <2>1. cdo.launch # l BY <1>1, <1>7 DEF Reported, Reporting
  <2>2. reports'[l] = reports[l] BY <1>1, <1>7, <2>1 DEF Reported
  <2>3. cdo'.do \notin {"report", "finish"} \/ cdo'.launch = cdo.launch
    BY <1>7 DEF Reported, TypeInv, DoT, ClientDoing
  <2>4. QED BY <1>1, <1>7, <2>1, <2>2, <2>3 DEF Reported, Reporting
<1>8. CASE Finishes BY <1>1, <1>8 DEF Finishes, Reporting
<1>9. QED BY <1>2, <1>3, <1>4, <1>5, <1>6, <1>7, <1>8, ReportMoves

LEMMA NewStep ==
  ASSUME TypeInv, FreshInv, NewInv, [Next]_vars
  PROVE  NewInv'
<1>1. SUFFICES ASSUME NEW l \in Launches, IsNew(l)' PROVE NewOf(l)'
  BY DEF NewInv
<1>2. IsNew(l) /\ ~OpenLaunch(l) /\ NewOf(l) BY <1>1, OwnerGoes DEF NewInv
<1>3. QueueT BY DEF TypeInv
<1>4. l \notin running' /\ reports'[l] = <<>> /\ ~Reporting(l)' BY <1>2, NewOfReports
<1>5. ASSUME NEW m \in MessagesOf(l) PROVE Absent(m)'
  <2>1. m \in Msgs /\ m.type \in AboutLaunch /\ m.launch = l BY DEF MessagesOf
  <2>2. ~Says(Send(m))
    <3>1. owner[l] # "open" BY <1>2 DEF IsNew
    <3>2. QED BY <1>2, <3>1, SaysAbout
  <2>3. QED BY <1>2, <2>1, <2>2, AbsentStep DEF NewOf
<1>6. ~Dispatched(l)'
  <2>1. LaunchMsg(l) \in MessagesOf(l)
    BY MessageTypes, LaunchMsgsDiffer DEF MessagesOf, AboutLaunch
  <2>2. Received(LaunchMsg(l)) \notin Items(sq) /\ Construct(l) \notin Items(sq)
    BY <1>2, <2>1 DEF NewOf, Absent, Dispatched
  <2>3. Construct(l) \notin Items(sq') BY <2>2, QueueSteps, ItemsDiffer
  <2>4. QED BY <2>3 DEF Dispatched
<1>7. ~Constructed(l)'
  <2>1. ~Takes(Construct(l))
    BY <1>2, <1>3, ServerQueueItems, ItemTypes DEF NewOf, Dispatched
  <2>2. QED BY <1>2, <2>1, Births DEF NewOf
<1>8. Hushed(l)' BY <1>2, HushedStep DEF NewOf
<1>9. QED BY <1>4, <1>5, <1>6, <1>7, <1>8 DEF NewOf

-----------------------------------------------------------------------------
(* What has ended on the server reports no more, and what is lost is lost. *)

LEMMA SilentStep ==
  ASSUME TypeInv, OnceInv, [Next]_vars, NEW l \in Launches, Silent(l)
  PROVE  Silent(l)'
<1>1. QueueT /\ ThreadT BY DEF TypeInv
<1>2. UNCHANGED <<server, thread>> => Silent(l)' BY DEF Silent
<1>3. CASE UNCHANGED vars \/ OwnerMove \/ ClientMove
  BY <1>2, <1>3, Sides DEF vars, serverVars, serverRest, launchVars
<1>4. CASE WaitTimesOut \/ ServerDies \/ ServerQuits
  <2>1. UNCHANGED <<server, thread>> \/ server' \in {"killed", "quit"}
    BY <1>4, ServerGoes DEF serverRest, launchVars
  <2>2. QED BY <1>2, <2>1 DEF Silent
<1>5. CASE StartServer \/ StartServerFails
  BY <1>5 DEF StartServer, StartServerFails, Silent
<1>6. CASE Read \/ ReadEnd \/ DisconnectSeen
  BY <1>2, <1>6 DEF Read, ReadEnd, DisconnectSeen, launchVars
<1>7. CASE HandleLaunch \/ HandleClose \/ HandleRequest \/ HandleDisconnect \/ HandleReply
  BY <1>2, <1>7 DEF HandleLaunch, HandleClose, HandleRequest, HandleDisconnect, HandleReply,
                    launchVars
<1>8. CASE OnInputEnd \/ OnReport \/ DestroyLaunch \/ BeginClear \/ LaunchCleared \/ DestroyReader
  BY <1>2, <1>8 DEF OnInputEnd, OnReport, DestroyLaunch, BeginClear, LaunchCleared, DestroyReader,
                    launchVars
<1>9. ASSUME NEW k \in Launches, ClearLaunch(k) PROVE UNCHANGED <<server, thread>>
  BY <1>9 DEF ClearLaunch
<1>10. CASE ConstructLaunch
  <2>1. PICK k \in Launches : Head(sq) = Construct(k) /\ Takes(Construct(k)) /\ server = "up"
    BY <1>1, <1>10, HandlerMoves
  <2>2. Head(sq).launch = k BY <2>1 DEF Construct
  <2>3. thread' = [thread EXCEPT ![k].at = "start"] /\ UNCHANGED server
    BY <1>10, <2>2 DEF ConstructLaunch
  <2>4. ~Constructed(k)
    BY <1>1, <2>1, ServerQueueItems DEF OnceInv, PlaceOf, Dispatched
  <2>5. k # l BY <2>1, <2>4 DEF Silent, Constructed
  <2>6. thread'[l] = thread[l] BY <1>1, <2>3, <2>5 DEF ThreadT
  <2>7. QED BY <2>3, <2>6 DEF Silent
<1>11. ASSUME NEW k \in Launches,
              \/ StartProcess(k) \/ StartProcessFails(k) \/ ReadOutput(k) \/ Reap(k)
              \/ NoServer(k) \/ GetServer(k) \/ Dispatch(k)
       PROVE  Silent(l)'
  <2>1. /\ server = "up" /\ UNCHANGED server /\ thread[k].at \in {"start", "run", "dispatch", "got"}
        /\ \E a, r : thread' = [thread EXCEPT ![k] = [at |-> a, report |-> r]]
    <3>1. CASE StartProcess(k) \/ StartProcessFails(k) \/ ReadOutput(k) \/ Reap(k)
      BY <3>1 DEF StartProcess, StartProcessFails, ReadOutput, Reap, ThreadAt, threadRest, Goes
    <3>2. CASE NoServer(k) \/ GetServer(k) \/ Dispatch(k)
      BY <3>2 DEF NoServer, GetServer, Dispatch, ThreadAt, threadRest, Goes
    <3>3. QED BY <1>11, <3>1, <3>2
  <2>2. k # l BY <2>1 DEF Silent
  <2>3. thread'[l] = thread[l] BY <1>1, <2>1, <2>2 DEF ThreadT
  <2>4. QED BY <2>1, <2>3 DEF Silent
<1>12. ASSUME NEW k \in Launches, ProcessEnds(k) PROVE UNCHANGED <<server, thread>>
  BY <1>12 DEF ProcessEnds
<1>13. CASE ServerMove
  BY <1>2, <1>4, <1>5, <1>6, <1>7, <1>8, <1>9, <1>10, <1>13 DEF ServerMove
<1>14. CASE ThreadMove
  BY <1>2, <1>11, <1>12, <1>14 DEF ThreadMove
<1>15. QED BY <1>3, <1>4, <1>13, <1>14, Sides

(* Where the client is in f_SetError.                                      *)
LEMMA LostDoes ==
  ASSUME TypeInv, LostInv, [Next]_vars
  PROVE  /\ cdo'.do = "error" => cdo'.from = "error"
         /\ cdo'.from = "error" => cerror'
<1>1. /\ QueueT /\ cdo \in ClientDoing /\ (cdo.do = "error" => cdo.from = "error")
      /\ cdo.from = "error" => cerror
  BY DEF TypeInv, DoT, LostInv
<1>2. /\ \A d, l, r, f, s : /\ ClientDoes(d, l, r, f, s).do = d
                            /\ ClientDoes(d, l, r, f, s).from = f
      /\ ClientIdle = ClientDoes("idle", NoLaunch, "Output", "send", {})
      /\ Replying \in {ClientIdle, ClientDoes("reply", NoLaunch, "Output", "packet", {})}
      /\ \/ /\ cdo.from = "error"
            /\ Continue = ClientDoes("error", NoLaunch, "Output", "error", cdo.left)
         \/ Continue \in {Replying, ClientIdle}
  BY DEF ClientDoes, ClientIdle, Replying, Continue
<1>4. CASE WaitTimesOut \/ ServerMove \/ ThreadMove \/ UNCHANGED vars
  <2>1. UNCHANGED <<cdo, cerror>>
    BY <1>4, Sides DEF WaitTimesOut, vars, clientVars, clientRest
  <2>2. QED BY <1>1, <2>1
<1>5. CASE OwnerMove
  <2>1. UNCHANGED <<cdo, cerror>> \/ JoinThread \/ ClientDies
    <3>1. \A l \in Launches : AddLaunch(l) \/ OpenLaunch(l) \/ Request(l) \/ CloseReturns(l)
                              => UNCHANGED <<cdo, cerror>>
      BY DEF AddLaunch, OpenLaunch, Request, CloseReturns, dispatchVars
    <3>2. \A l \in Launches, f \in ClosesWith : Close(l, f) => UNCHANGED <<cdo, cerror>>
      BY DEF Close
    <3>3. Destroy \/ ServerHasExited \/ ClearServer => UNCHANGED <<cdo, cerror>>
      BY DEF Destroy, ServerHasExited, ClearServer, dispatchVars
    <3>4. QED BY <1>5, <3>1, <3>2, <3>3 DEF OwnerMove
  <2>2. CASE JoinThread \/ ClientDies
    <3>1. cdo' = ClientIdle BY <2>2 DEF JoinThread, ClientDies, ClientForgets
    <3>2. QED BY <1>2, <3>1
  <2>3. QED BY <1>1, <2>1, <2>2
<1>6. CASE SendItem BY <1>1, <1>6 DEF SendItem
<1>7. CASE FailSend
  <2>1. UNCHANGED cdo \/ \E l, r : cdo' = ClientDoes("report", l, r, "send", {})
    BY <1>7 DEF FailSend, BeginReport
  <2>2. UNCHANGED cerror BY <1>7 DEF FailSend
  <2>3. QED BY <1>1, <1>2, <2>1, <2>2
<1>8. CASE OnServerState
  <2>1. \/ UNCHANGED <<cdo, cerror>>
        \/ cerror' = TRUE /\ \E s : cdo' = ClientDoes("error", NoLaunch, "Output", "error", s)
    BY <1>8 DEF OnServerState, BeginSetError
  <2>2. QED BY <1>1, <1>2, <2>1
<1>9. CASE HandlePacket
  <2>1. cdo' = Replying \/ \E l, r : cdo' = ClientDoes("report", l, r, "packet", {})
    BY <1>9 DEF HandlePacket, BeginReport
  <2>2. QED BY <1>2, <2>1
<1>10. CASE DoReport
  <2>1. cdo' = [cdo EXCEPT !.do = "finish"] \/ cdo' = Continue BY <1>10 DEF DoReport
  <2>2. UNCHANGED cerror BY <1>10 DEF DoReport
  <2>3. CASE cdo' = [cdo EXCEPT !.do = "finish"] BY <1>1, <2>2, <2>3 DEF ClientDoing
  <2>4. CASE cdo' = Continue BY <1>1, <1>2, <2>2, <2>4
  <2>5. QED BY <2>1, <2>3, <2>4
<1>11. CASE DoFinish
  <2>1. cdo' = Continue /\ UNCHANGED cerror BY <1>11 DEF DoFinish
  <2>2. QED BY <1>1, <1>2, <2>1
<1>12. CASE DoReply \/ SetErrorDone
  <2>1. cdo' = ClientIdle BY <1>12 DEF DoReply, SetErrorDone
  <2>2. QED BY <1>2, <2>1
<1>13. ASSUME NEW l \in Launches, SetErrorOf(l)
       PROVE  (cdo'.do = "error" => cdo'.from = "error") /\ (cdo'.from = "error" => cerror')
  <2>1. /\ cdo.do = "error" /\ UNCHANGED cerror
        /\ \/ \E r : cdo' = ClientDoes("report", l, r, "error", cdo.left \ {l})
           \/ cdo' = [cdo EXCEPT !.left = @ \ {l}]
    BY <1>13 DEF SetErrorOf, BeginReport
  <2>2. cerror' BY <1>1, <2>1
  <2>3. cdo'.from = "error" BY <1>1, <1>2, <2>1 DEF ClientDoing
  <2>4. QED BY <2>2, <2>3
<1>14. CASE ClientMove
  BY <1>6, <1>7, <1>8, <1>9, <1>10, <1>11, <1>12, <1>13, <1>14 DEF ClientMove
<1>15. QED BY <1>4, <1>5, <1>14, Sides

LEMMA LostStep ==
  ASSUME TypeInv, FreshInv, LostInv, [Next]_vars
  PROVE  LostInv'
<1>1. QueueT BY DEF TypeInv
<1>2. server \in {"failed", "killed"} => server' = server
  <2>1. UNCHANGED vars \/ OwnerMove \/ ClientMove \/ ThreadMove => server' = server
    BY Sides DEF vars, serverVars, serverRest
  <2>2. ServerMove /\ server # "up" /\ server # "none" => FALSE
    BY ServerIsUp DEF StartServer, StartServerFails, ServerDies, ServerQuits
  <2>3. WaitTimesOut /\ server # "up" => server' = server
    BY DEF WaitTimesOut, serverVars
  <2>4. QED BY <2>1, <2>2, <2>3, Sides
<1>3. Items(cq') \cap ErrorStates # {}
      => Items(cq) \cap ErrorStates # {} \/ server' \in {"failed", "killed"}
  <2>1. SUFFICES ASSUME Items(cq) \cap ErrorStates = {}, server' \notin {"failed", "killed"}
                 PROVE  Items(cq') \cap ErrorStates = {}
    OBVIOUS
  <2>2. CASE cq' = cq BY <2>1, <2>2
  <2>3. ASSUME NEW m \in Msgs, Says(Send(m)) PROVE Items(cq') \cap ErrorStates = {}
    BY <1>1, <2>1, <2>3, ClientQueueItems, ItemTypes, ItemsDiffer DEF ErrorStates
  <2>4. ASSUME NEW s \in {"Launched", "LaunchFailed"}, Says(ServerState(s)), s # "LaunchFailed"
        PROVE  Items(cq') \cap ErrorStates = {}
    <3>1. ServerState("Launched") \notin ErrorStates BY DEF ErrorStates, ServerState
    <3>2. s = "Launched" BY <2>4
    <3>3. QED BY <1>1, <2>1, <2>4, <3>1, <3>2, ClientQueueItems, ItemTypes
  <2>5. CASE Forgets BY <1>1, <2>5, ClientQueueItems
  <2>6. ASSUME NEW e, FromQueue(e) PROVE Items(cq') \cap ErrorStates = {}
    BY <1>1, <2>1, <2>6, ClientQueueItems
  <2>7. ASSUME NEW s \in {"Exited", "Crashed"}, Loses(s), s # "Crashed"
        PROVE  Items(cq') \cap ErrorStates = {}
    <3>1. ServerState("Exited") \notin ErrorStates BY DEF ErrorStates, ServerState
    <3>2. s = "Exited" BY <2>7
    <3>3. QED BY <1>1, <2>1, <2>7, <3>1, <3>2, ServerQueueItems
  <2>8. ASSUME NEW l \in Launches, NEW r \in Reports, Tells(l, r)
        PROVE  Items(cq') \cap ErrorStates = {}
    BY <1>1, <2>1, <2>8, ServerQueueItems, ItemsDiffer DEF ErrorStates
  <2>9. /\ \A k \in Launches : LaunchMsg(k) \in Msgs
        /\ \A k \in Launches, t \in {"Request", "Close"}, f \in SUBSET CloseFlags :
              Message(t, k, f, ~ToldLaunched(k)) \in Msgs
    BY MessageTypes DEF ToldLaunched
  <2>10. \/ cq' = cq \/ Forgets \/ \E e : FromQueue(e)
         \/ \E m \in Msgs : Says(Send(m))
         \/ \E s \in {"Launched", "LaunchFailed"} : Says(ServerState(s)) /\ s # "LaunchFailed"
         \/ \E s \in {"Exited", "Crashed"} : Loses(s) /\ s # "Crashed"
         \/ \E l \in Launches, r \in Reports : Tells(l, r)
    BY <2>1, <2>9, Moves DEF Same, Keeps, Writes, Drops, Flushes, Reads, Puts, Adds, Takes
  <2>11. QED BY <2>2, <2>3, <2>4, <2>5, <2>6, <2>7, <2>8, <2>10
<1>4. cerror' => cerror \/ Items(cq) \cap ErrorStates # {}
  <2>1. ASSUME NEW s \in {"LaunchFailed", "Crashed"}, Drops(ServerState(s))
        PROVE  Items(cq) \cap ErrorStates # {}
    BY <1>1, <2>1, ClientQueueItems DEF Drops, ErrorStates
  <2>2. \/ UNCHANGED cerror \/ cerror' = FALSE
        \/ \E s \in {"LaunchFailed", "Crashed"} : Drops(ServerState(s))
    BY ReportMoves DEF Rest, Opens, Clears, Pauses, Begins, Reported, Finishes
  <2>3. QED BY <2>1, <2>2
<1>5. QED BY <1>2, <1>3, <1>4, LostDoes DEF LostInv

(* What is under way about a launch keeps its order.                       *)
LEMMA AboutDiffer ==
  ASSUME NEW l \in Launches
  PROVE  /\ \A m, s : Send(m) \notin Packets(l) /\ ServerState(s) \notin Packets(l)
         /\ \A k, r : Packet(k, r) \in Packets(l) => k = l
         /\ \A k, r : Report(k, r) \in ReportsOf(l) => k = l
         /\ \A k, r : Packet(k, r) \in FinalPackets(l) => k = l /\ r \in Final
         /\ \A k, r : Report(k, r) \in FinalReports(l) => k = l /\ r \in Final
         /\ \A m, k, w : /\ Received(m) \notin ReportsOf(l) /\ Construct(k) \notin ReportsOf(l)
                         /\ InputEnd(w) \notin ReportsOf(l)
         /\ FinalPackets(l) \subseteq Packets(l) /\ FinalReports(l) \subseteq ReportsOf(l)
<1>1. Final \subseteq Reports BY DEF Final, Reports, States
<1>2. /\ \A e : e \in Packets(l) <=> \E r \in Reports : e = Packet(l, r)
      /\ \A e : e \in FinalPackets(l) <=> \E r \in Final : e = Packet(l, r)
      /\ \A e : e \in ReportsOf(l) <=> \E r \in Reports : e = Report(l, r)
      /\ \A e : e \in FinalReports(l) <=> \E r \in Final : e = Report(l, r)
  BY DEF Packets, FinalPackets, ReportsOf, FinalReports
<1>3. /\ FinalPackets(l) \subseteq Packets(l) /\ FinalReports(l) \subseteq ReportsOf(l)
  BY <1>1, <1>2
<1>4. /\ \A m, s : Send(m) \notin Packets(l) /\ ServerState(s) \notin Packets(l)
      /\ \A m, k, w : /\ Received(m) \notin ReportsOf(l) /\ Construct(k) \notin ReportsOf(l)
                      /\ InputEnd(w) \notin ReportsOf(l)
  BY <1>2, ItemsDiffer
<1>5. /\ \A k, r : Packet(k, r) \in Packets(l) => k = l
      /\ \A k, r : Report(k, r) \in ReportsOf(l) => k = l
      /\ \A k, r : Packet(k, r) \in FinalPackets(l) => k = l /\ r \in Final
      /\ \A k, r : Report(k, r) \in FinalReports(l) => k = l /\ r \in Final
  <2>1. /\ \A k, r, q : Packet(k, r) = Packet(l, q) => k = l /\ r = q
        /\ \A k, r, q : Report(k, r) = Report(l, q) => k = l /\ r = q
    BY ItemsDiffer
  <2>2. ASSUME NEW k, NEW r, Packet(k, r) \in Packets(l) PROVE k = l
    <3>1. PICK q \in Reports : Packet(k, r) = Packet(l, q) BY <2>2 DEF Packets
    <3>2. QED BY <2>1, <3>1
  <2>3. ASSUME NEW k, NEW r, Report(k, r) \in ReportsOf(l) PROVE k = l
    <3>1. PICK q \in Reports : Report(k, r) = Report(l, q) BY <2>3 DEF ReportsOf
    <3>2. QED BY <2>1, <3>1
  <2>4. ASSUME NEW k, NEW r, Packet(k, r) \in FinalPackets(l) PROVE k = l /\ r \in Final
    <3>1. PICK q \in Final : Packet(k, r) = Packet(l, q) BY <2>4 DEF FinalPackets
    <3>2. QED BY <2>1, <3>1
  <2>5. ASSUME NEW k, NEW r, Report(k, r) \in FinalReports(l) PROVE k = l /\ r \in Final
    <3>1. PICK q \in Final : Report(k, r) = Report(l, q) BY <2>5 DEF FinalReports
    <3>2. QED BY <2>1, <3>1
  <2>6. QED BY <2>2, <2>3, <2>4, <2>5
<1>6. QED BY <1>3, <1>4, <1>5

LEMMA ServerOrderStep ==
  ASSUME TypeInv, FreshInv, OnceInv, [Next]_vars, NEW l \in Launches, TransitOf(l)
  PROVE  /\ NothingAfter(sq', FinalReports(l), ReportsOf(l))
         /\ Items(sq') \cap FinalReports(l) # {} => Silent(l)'
<1>1. /\ QueueT /\ ThreadT /\ NothingAfter(sq, FinalReports(l), ReportsOf(l))
      /\ Items(sq) \cap FinalReports(l) # {} => Silent(l)
  BY DEF TypeInv, TransitOf
<1>2. NothingAfter(sq', FinalReports(l), ReportsOf(l))
  <2>1. CASE sq' = sq \/ sq' = <<>> BY <1>1, <2>1, ServerQueueAfter
  <2>2. ASSUME NEW e \in SItems, Puts(e),
               Items(sq) \cap FinalReports(l) = {} \/ e \notin ReportsOf(l)
        PROVE  NothingAfter(sq', FinalReports(l), ReportsOf(l))
    BY <1>1, <2>2, ServerQueueAfter
  <2>3. ASSUME NEW k \in Launches, Dispatching(k), Puts(Report(k, thread[k].report))
        PROVE  NothingAfter(sq', FinalReports(l), ReportsOf(l))
    <3>1. Report(k, thread[k].report) \in SItems BY <1>1, ItemTypes DEF ThreadT
    <3>2. k = l => Items(sq) \cap FinalReports(l) = {}
      BY <1>1, <2>3 DEF Dispatching, Silent
    <3>3. k # l => Report(k, thread[k].report) \notin ReportsOf(l) BY AboutDiffer
    <3>4. QED BY <2>2, <2>3, <3>1, <3>2, <3>3
  <2>4. ASSUME NEW w \in {"GeneralError", "EndOfFile"}, Puts(InputEnd(w))
        PROVE  NothingAfter(sq', FinalReports(l), ReportsOf(l))
    BY <2>2, <2>4, ItemTypes, AboutDiffer
  <2>5. ASSUME NEW e, Takes(e) PROVE NothingAfter(sq', FinalReports(l), ReportsOf(l))
    BY <1>1, <2>5, ServerQueueAfter
  <2>6. ASSUME NEW m \in Msgs, Reads(m) PROVE NothingAfter(sq', FinalReports(l), ReportsOf(l))
    BY <1>1, <2>6, ServerQueueAfter, AboutDiffer
  <2>7. ASSUME NEW k \in Launches, NEW r \in Reports, Tells(k, r)
        PROVE  NothingAfter(sq', FinalReports(l), ReportsOf(l))
    BY <1>1, <2>7, ServerQueueAfter
  <2>8. ASSUME NEW k \in Launches, Adds(k, LaunchMsg(k))
        PROVE  NothingAfter(sq', FinalReports(l), ReportsOf(l))
    BY <1>1, <2>8, ServerQueueAfter, AboutDiffer, MessageTypes
  <2>9. \/ sq' = sq \/ sq' = <<>>
        \/ \E m \in Msgs : Reads(m)
        \/ \E w \in {"GeneralError", "EndOfFile"} : Puts(InputEnd(w))
        \/ \E k \in Launches : Dispatching(k) /\ Puts(Report(k, thread[k].report))
        \/ \E k \in Launches : Adds(k, LaunchMsg(k))
        \/ \E e \in SItems : Takes(e)
        \/ \E k \in Launches, r \in Reports : Tells(k, r)
    BY Moves DEF Same, Says, Forgets, Keeps, Writes, Drops, Flushes, Loses
  <2>10. QED BY <2>1, <2>3, <2>4, <2>5, <2>6, <2>7, <2>8, <2>9
<1>3. ASSUME NEW e \in Items(sq'), e \in FinalReports(l) PROVE Silent(l)'
  <2>1. CASE e \in Items(sq) BY <1>1, <1>3, <2>1, SilentStep
  <2>2. ASSUME NEW k \in Launches, Dispatching(k), e = Report(k, thread[k].report) PROVE Silent(l)'
    <3>1. k = l /\ thread[l].report \in Final BY <1>3, <2>2, AboutDiffer
    <3>2. QED BY <2>2, <3>1 DEF Dispatching, After, Silent
  <2>3. e \in ReportsOf(l) BY <1>3, AboutDiffer
  <2>4. e \in Items(sq) \/ \E k \in Launches : Dispatching(k) /\ e = Report(k, thread[k].report)
    BY <1>3, <2>3, QueueSteps, AboutDiffer
  <2>5. QED BY <2>1, <2>2, <2>4
<1>4. QED BY <1>2, <1>3

LEMMA ClientOrderStep ==
  ASSUME TypeInv, FreshInv, LostInv, [Next]_vars, NEW l \in Launches, TransitOf(l)
  PROVE  /\ NothingAfter(cq', FinalPackets(l), Packets(l))
         /\ NothingAfter(cq', ErrorStates, Packets(l))
<1>1. /\ QueueT /\ NothingAfter(cq, FinalPackets(l), Packets(l))
      /\ NothingAfter(cq, ErrorStates, Packets(l))
      /\ Items(cq) \cap FinalPackets(l) # {} => Items(sq) \cap ReportsOf(l) = {}
  BY DEF TypeInv, TransitOf
<1>2. SUFFICES ASSUME NEW A, NothingAfter(cq, A, Packets(l)),
                      \A r \in Reports : Tells(l, r) => Items(cq) \cap A = {}
               PROVE  NothingAfter(cq', A, Packets(l))
  <2>1. ASSUME NEW r \in Reports, Tells(l, r) PROVE Items(cq) \cap FinalPackets(l) = {}
    <3>1. Report(l, r) \in Items(sq) BY <1>1, <2>1, ServerQueueItems
    <3>2. Report(l, r) \in ReportsOf(l) BY DEF ReportsOf
    <3>3. QED BY <1>1, <3>1, <3>2
  <2>2. ASSUME NEW r \in Reports, Tells(l, r) PROVE Items(cq) \cap ErrorStates = {}
    <3>1. sq # <<>> BY <2>2 DEF Tells, FromServerQueue
    <3>2. server = "up" BY <3>1 DEF FreshInv
    <3>3. QED BY <3>2 DEF LostInv
  <2>3. QED BY <1>1, <1>2, <2>1, <2>2
<1>3. CASE cq' = cq \/ cq' = <<>> BY <1>1, <1>2, <1>3, ClientQueueAfter
<1>4. ASSUME NEW e \in CItems, Says(e), e \notin Packets(l) PROVE NothingAfter(cq', A, Packets(l))
  BY <1>1, <1>2, <1>4, ClientQueueAfter
<1>5. ASSUME NEW m \in Msgs, Says(Send(m)) PROVE NothingAfter(cq', A, Packets(l))
  BY <1>4, <1>5, ItemTypes, AboutDiffer
<1>6. ASSUME NEW s \in {"Launched", "LaunchFailed"}, Says(ServerState(s))
      PROVE  NothingAfter(cq', A, Packets(l))
  BY <1>4, <1>6, ItemTypes, AboutDiffer
<1>7. ASSUME NEW e, FromQueue(e) PROVE NothingAfter(cq', A, Packets(l))
  BY <1>1, <1>2, <1>7, ClientQueueAfter
<1>8. ASSUME NEW s \in {"Exited", "Crashed"}, Loses(s) PROVE NothingAfter(cq', A, Packets(l))
  BY <1>1, <1>2, <1>8, ClientQueueAfter, AboutDiffer
<1>9. ASSUME NEW k \in Launches, NEW r \in Reports, Tells(k, r)
      PROVE  NothingAfter(cq', A, Packets(l))
  <2>1. Items(cq) \cap A = {} \/ Packet(k, r) \notin Packets(l) BY <1>2, <1>9, AboutDiffer
  <2>2. QED BY <1>1, <1>2, <1>9, <2>1, ClientQueueAfter
<1>10. /\ \A k \in Launches : LaunchMsg(k) \in Msgs
       /\ \A k \in Launches, t \in {"Request", "Close"}, f \in SUBSET CloseFlags :
             Message(t, k, f, ~ToldLaunched(k)) \in Msgs
  BY MessageTypes DEF ToldLaunched
<1>11. \/ cq' = cq \/ cq' = <<>> \/ \E e : FromQueue(e)
       \/ \E m \in Msgs : Says(Send(m))
       \/ \E s \in {"Launched", "LaunchFailed"} : Says(ServerState(s))
       \/ \E s \in {"Exited", "Crashed"} : Loses(s)
       \/ \E k \in Launches, r \in Reports : Tells(k, r)
  BY <1>10, Moves DEF Same, Forgets, Keeps, Writes, Drops, Flushes, Reads, Puts, Adds, Takes
<1>12. QED BY <1>3, <1>5, <1>6, <1>7, <1>8, <1>9, <1>11

LEMMA TransitStep ==
  ASSUME TypeInv, FreshInv, OnceInv, LostInv, [Next]_vars, NEW l \in Launches, TransitOf(l)
  PROVE  TransitOf(l)'
<1>1. /\ QueueT
      /\ Items(sq) \cap FinalReports(l) # {} => Silent(l)
      /\ Items(cq) \cap FinalPackets(l) # {} => Silent(l) /\ Items(sq) \cap ReportsOf(l) = {}
      /\ cerror => Items(cq) \cap Packets(l) = {}
  BY DEF TypeInv, TransitOf
<1>2. ASSUME Items(sq) \cap ReportsOf(l) = {}, Silent(l) PROVE Items(sq') \cap ReportsOf(l) = {}
  <2>1. ~Dispatching(l) BY <1>2 DEF Dispatching, Silent
  <2>2. QED BY <1>2, <2>1, QueueSteps, AboutDiffer
<1>3. ASSUME NEW e \in Items(cq'), e \in FinalPackets(l)
      PROVE  Silent(l)' /\ Items(sq') \cap ReportsOf(l) = {}
  <2>1. CASE e \in Items(cq)
    BY <1>1, <1>2, <1>3, <2>1, SilentStep
  <2>2. ASSUME NEW k \in Launches, NEW r \in Reports, Tells(k, r), e = Packet(k, r)
        PROVE  Silent(l)' /\ Items(sq') \cap ReportsOf(l) = {}
    <3>1. k = l /\ r \in Final BY <1>3, <2>2, AboutDiffer
    <3>2. Report(l, r) \in FinalReports(l) BY <3>1 DEF FinalReports
    <3>3. Report(l, r) \in Items(sq) BY <1>1, <2>2, <3>1, ServerQueueItems
    <3>4. Silent(l)' BY <1>1, <3>2, <3>3, SilentStep
    <3>5. NothingAfter(sq, FinalReports(l), ReportsOf(l)) BY DEF TransitOf
    <3>6. Items(sq') \cap ReportsOf(l) = {}
      BY <1>1, <2>2, <3>1, <3>2, <3>5, ServerQueueAfter
    <3>7. QED BY <3>4, <3>6
  <2>3. e \in Packets(l) BY <1>3, AboutDiffer
  <2>4. e \in Items(cq) \/ \E k \in Launches, r \in Reports : Tells(k, r) /\ e = Packet(k, r)
    BY <1>3, <2>3, QueueSteps, AboutDiffer
  <2>5. QED BY <2>1, <2>2, <2>4
<1>4. ASSUME cerror' PROVE Items(cq') \cap Packets(l) = {}
  <2>1. CASE cerror
    <3>1. server # "up" BY <2>1 DEF LostInv
    <3>2. sq = <<>> BY <3>1 DEF FreshInv
    <3>3. \A k, r : ~Tells(k, r) BY <3>2 DEF Tells, FromServerQueue
    <3>4. QED BY <1>1, <2>1, <3>3, QueueSteps, AboutDiffer
  <2>2. ASSUME NEW s \in {"LaunchFailed", "Crashed"}, Drops(ServerState(s))
        PROVE  Items(cq') \cap Packets(l) = {}
    <3>1. NothingAfter(cq, ErrorStates, Packets(l)) /\ ServerState(s) \in ErrorStates
      BY DEF TransitOf, ErrorStates
    <3>2. QED BY <1>1, <2>2, <3>1, ClientQueueAfter DEF Drops
  <2>3. cerror \/ \E s \in {"LaunchFailed", "Crashed"} : Drops(ServerState(s))
    BY <1>4, ReportMoves DEF Rest, Opens, Clears, Pauses, Begins, Reported, Finishes
  <2>4. QED BY <2>1, <2>2, <2>3
<1>5. QED BY <1>3, <1>4, ServerOrderStep, ClientOrderStep DEF TransitOf

LEMMA HushStays ==
  ASSUME TypeInv, OnceInv, [Next]_vars, NEW l \in Launches, Silent(l), Hushed(l)
  PROVE  Silent(l)' /\ Hushed(l)'
BY SilentStep, HushedStep

(* A launch that begins to be reported has not ended, and if it begins to  *)
(* be reported as ended, nothing more is under way.                        *)
LEMMA EndBegins ==
  ASSUME TypeInv, FreshInv, OnceInv, LostInv, [Next]_vars,
         NEW l \in Launches, TransitOf(l), EndOf(l),
         NEW r \in Reports \cup {"GeneralError"}, Begins(l, r)
  PROVE  /\ r # "GeneralError" => ~Ended(l)
         /\ r \in Final => Silent(l)' /\ Hushed(l)'
<1>1. QueueT /\ (Ended(l) => l \notin running /\ Hushed(l)) BY DEF TypeInv, EndOf
<1>2. \/ Drops(Packet(l, r)) /\ r \in Reports
      \/ cerror /\ r \in {"LaunchFailed", "GeneralError"}
  BY DEF Begins, LostInv
<1>3. r \in Final => l \in running BY DEF Begins
<1>4. CASE Drops(Packet(l, r)) /\ r \in Reports
  <2>1. Packet(l, r) \in Items(cq) /\ Packet(l, r) \in Packets(l) /\ UNCHANGED sq
    BY <1>1, <1>4, ClientQueueItems DEF Drops, Packets
  <2>2. ~Ended(l) BY <1>1, <2>1 DEF Hushed
  <2>3. ASSUME r \in Final PROVE Silent(l)' /\ Hushed(l)'
    <3>1. Packet(l, r) \in FinalPackets(l) BY <2>3 DEF FinalPackets
    <3>2. Silent(l) /\ Items(sq) \cap ReportsOf(l) = {} BY <2>1, <3>1 DEF TransitOf
    <3>3. NothingAfter(cq, FinalPackets(l), Packets(l)) BY DEF TransitOf
    <3>4. Items(cq') \cap Packets(l) = {} BY <1>1, <1>4, <3>1, <3>3, ClientQueueAfter DEF Drops
    <3>5. QED BY <2>1, <3>2, <3>4, SilentStep DEF Hushed
  <2>4. QED BY <2>2, <2>3
<1>5. CASE cerror /\ r \in {"LaunchFailed", "GeneralError"}
  <2>1. server # "up" /\ server # "none" /\ Items(cq) \cap Packets(l) = {}
    BY <1>5 DEF LostInv, TransitOf
  <2>2. Items(sq) = {} BY <2>1, ItemsOfNone DEF FreshInv
  <2>3. Silent(l) /\ Hushed(l) BY <2>1, <2>2 DEF Silent, Hushed
  <2>4. r # "GeneralError" => r \in Final BY <1>5 DEF Final
  <2>5. QED BY <1>1, <1>3, <2>3, <2>4, HushStays
<1>6. QED BY <1>2, <1>4, <1>5

LEMMA EndedAppends ==
  ASSUME TypeInv, Reported, NEW l \in Launches
  PROVE  /\ l # cdo.launch => reports'[l] = reports[l]
         /\ Ended(l)' => Ended(l) \/ Ending(l)
         /\ l = cdo.launch /\ cdo.report \in Final => Ended(l)'
         /\ \A i \in DOMAIN reports'[l] :
               \/ i \in DOMAIN reports[l] /\ reports'[l][i] = reports[l][i]
               \/ /\ l = cdo.launch /\ reports'[l][i] = cdo.report
                  /\ \A j \in DOMAIN reports'[l] : j # i => j \in DOMAIN reports[l] /\ j < i
         /\ Ended(l) => Ended(l)'
<1>1. /\ reports \in [Launches -> Seq(Reports \cup {"GeneralError"})]
      /\ cdo.report \in Reports \cup {"GeneralError"} /\ cdo.do = "report"
      /\ reports' = [reports EXCEPT ![cdo.launch] = Append(@, cdo.report)]
  BY DEF TypeInv, OwnerT, DoT, ClientDoing, Reported
<1>2. l # cdo.launch => reports'[l] = reports[l] BY <1>1
<1>3. CASE l = cdo.launch
  <2>1. reports[l] \in Seq(Reports \cup {"GeneralError"}) BY <1>1
  <2>2. reports'[l] = Append(reports[l], cdo.report) BY <1>1, <1>3
  <2>3. /\ DOMAIN reports[l] = 1 .. Len(reports[l]) /\ Len(reports[l]) \in Nat
        /\ DOMAIN reports'[l] = 1 .. (Len(reports[l]) + 1)
        /\ \A i \in 1 .. Len(reports[l]) : reports'[l][i] = reports[l][i]
        /\ reports'[l][Len(reports[l]) + 1] = cdo.report
    BY <2>1, <2>2, <1>1
  <2>4. /\ \A i \in DOMAIN reports'[l] :
              \/ i \in DOMAIN reports[l] /\ reports'[l][i] = reports[l][i]
              \/ /\ reports'[l][i] = cdo.report
                 /\ \A j \in DOMAIN reports'[l] : j # i => j \in DOMAIN reports[l] /\ j < i
    <3>1. SUFFICES ASSUME NEW i \in 1 .. (Len(reports[l]) + 1)
                   PROVE  \/ i \in 1 .. Len(reports[l]) /\ reports'[l][i] = reports[l][i]
                          \/ /\ reports'[l][i] = cdo.report
                             /\ \A j \in 1 .. (Len(reports[l]) + 1) :
                                   j # i => j \in 1 .. Len(reports[l]) /\ j < i
      BY <2>3
    <3>2. CASE i \in 1 .. Len(reports[l]) BY <2>3, <3>2
    <3>3. CASE i = Len(reports[l]) + 1 BY <2>3, <3>3
    <3>4. QED BY <2>3, <3>2, <3>3
  <2>5. Ended(l)' => Ended(l) \/ Ending(l) BY <1>1, <1>3, <2>4 DEF Ended, Ending
  <2>6. cdo.report \in Final => Ended(l)' BY <2>3 DEF Ended
  <2>7. Ended(l) => Ended(l)' BY <2>3 DEF Ended
  <2>8. QED BY <1>3, <2>4, <2>5, <2>6, <2>7
<1>4. CASE l # cdo.launch BY <1>2, <1>4 DEF Ended
<1>5. QED BY <1>3, <1>4

LEMMA EndOfStep ==
  ASSUME TypeInv, FreshInv, OnceInv, NewInv, LostInv, [Next]_vars,
         NEW l \in Launches, TransitOf(l), EndOf(l)
  PROVE  EndOf(l)'
<1>1. /\ Ended(l) \/ Ending(l) => l \notin running /\ Silent(l) /\ Hushed(l)
      /\ cdo.do = "report" /\ cdo.launch = l /\ cdo.report # "GeneralError" => ~Ended(l)
  BY DEF EndOf
<1>2. Silent(l) /\ Hushed(l) => Silent(l)' /\ Hushed(l)' BY HushStays
<1>3. CASE Rest BY <1>1, <1>2, <1>3 DEF Rest, EndOf, Ended, Ending
<1>4. ASSUME NEW k \in Launches, Opens(k) PROVE EndOf(l)'
  <2>1. k = l => ~Ended(l) /\ ~Ending(l)
    <3>1. SUFFICES ASSUME k = l PROVE ~Ended(l) /\ ~Ending(l) OBVIOUS
    <3>2. IsNew(l) BY <1>4, <3>1 DEF Opens, OpenLaunch, IsNew, ClientRuns
    <3>3. reports[l] = <<>> /\ ~Reporting(l) BY <3>2 DEF NewInv, NewOf
    <3>4. QED BY <3>3 DEF Ended, Ending, Reporting
  <2>2. UNCHANGED <<reports, cdo>> /\ running' = running \cup {k} BY <1>4 DEF Opens
  <2>3. QED BY <1>1, <1>2, <2>1, <2>2 DEF EndOf, Ended, Ending
<1>5. CASE Clears BY <1>5 DEF Clears, EndOf, Ended, Ending
<1>6. CASE Pauses BY <1>1, <1>2, <1>6 DEF Pauses, EndOf, Ended, Ending
<1>7. ASSUME NEW k \in Launches, NEW r \in Reports \cup {"GeneralError"}, Begins(k, r)
      PROVE  EndOf(l)'
  <2>1. /\ cdo'.do = "report" /\ cdo'.launch = k /\ cdo'.report = r /\ UNCHANGED reports
        /\ running' = (IF r \in Final THEN running \ {k} ELSE running)
    BY <1>7 DEF Begins
  <2>2. k = l => /\ r # "GeneralError" => ~Ended(l)
                 /\ r \in Final => Silent(l)' /\ Hushed(l)'
    BY <1>7, EndBegins
  <2>3. Ended(l)' <=> Ended(l) BY <2>1 DEF Ended
  <2>4. Ending(l)' <=> k = l /\ r \in Final BY <2>1 DEF Ending
  <2>5. Ending(l)' => l \notin running' /\ Silent(l)' /\ Hushed(l)' BY <2>1, <2>2, <2>4
  <2>6. Ended(l)' => l \notin running' /\ Silent(l)' /\ Hushed(l)' BY <1>1, <1>2, <2>1, <2>3
  <2>7. QED BY <2>1, <2>2, <2>3, <2>5, <2>6 DEF EndOf
<1>8. CASE Reported
  <2>1. UNCHANGED running /\ cdo'.do # "report"
    BY <1>8 DEF Reported, TypeInv, DoT, ClientDoing
  <2>2. Ended(l)' => Ended(l) \/ Ending(l) BY <1>8, EndedAppends
  <2>3. QED BY <1>1, <1>2, <2>1, <2>2 DEF EndOf, Ending
<1>9. CASE Finishes BY <1>1, <1>2, <1>9 DEF Finishes, EndOf, Ended, Ending
<1>10. QED BY <1>3, <1>4, <1>5, <1>6, <1>7, <1>8, <1>9, ReportMoves

LEMMA LastStep ==
  ASSUME TypeInv, EndIsLast, \A l \in Launches : EndOf(l), [Next]_vars
  PROVE  EndIsLast'
<1>1. SUFFICES ASSUME NEW l \in Launches, NEW i \in DOMAIN reports'[l],
                      NEW j \in DOMAIN reports'[l], i < j, reports'[l][i] \in Final
               PROVE  reports'[l][j] = "GeneralError"
  BY DEF EndIsLast
<1>2. CASE reports'[l] = reports[l] BY <1>1, <1>2 DEF EndIsLast
<1>3. CASE Clears BY <1>3, <1>1 DEF Clears
<1>4. CASE Reported
  <2>1. \A m \in DOMAIN reports'[l] :
           \/ m \in DOMAIN reports[l] /\ reports'[l][m] = reports[l][m]
           \/ /\ l = cdo.launch /\ reports'[l][m] = cdo.report
              /\ \A n \in DOMAIN reports'[l] : n # m => n \in DOMAIN reports[l] /\ n < m
    BY <1>4, EndedAppends
  <2>2. i \in Nat /\ j \in Nat /\ i # j /\ ~(j < i)
    <3>1. reports'[l] \in Seq(Reports \cup {"GeneralError"}) BY TypeStep DEF TypeInv, OwnerT
    <3>2. DOMAIN reports'[l] = 1 .. Len(reports'[l]) /\ Len(reports'[l]) \in Nat BY <3>1
    <3>3. QED BY <1>1, <3>2
  <2>3. i \in DOMAIN reports[l] /\ reports'[l][i] = reports[l][i] BY <2>1, <2>2
  <2>4. CASE j \in DOMAIN reports[l] /\ reports'[l][j] = reports[l][j]
    BY <1>1, <2>4, <2>3 DEF EndIsLast
  <2>5. CASE l = cdo.launch /\ reports'[l][j] = cdo.report
    <3>1. Ended(l) BY <1>1, <2>3 DEF Ended
    <3>2. cdo.report = "GeneralError" BY <1>4, <2>5, <3>1 DEF EndOf, Reported
    <3>3. QED BY <2>5, <3>2
  <2>6. QED BY <2>1, <2>4, <2>5
<1>5. UNCHANGED reports \/ Clears \/ Reported
  BY ReportMoves DEF Rest, Opens, Pauses, Begins, Finishes
<1>6. QED BY <1>2, <1>3, <1>4, <1>5

LEMMA EndStep ==
  ASSUME TypeInv, FreshInv, OnceInv, NewInv, EndInv, [Next]_vars
  PROVE  EndInv'
BY LostStep, LastStep, TransitStep, EndOfStep DEF EndInv

-----------------------------------------------------------------------------
(* A launch whose owner has waited for its end has been told of it.        *)

LEMMA OwnerWaited ==
  ASSUME TypeInv, [Next]_vars, NEW l \in Launches,
         owner'[l] = "closed", "Block" \in flags'[l]
  PROVE  (owner[l] = "closed" /\ "Block" \in flags[l]) \/ l \in finished
<1>1. /\ owner \in [Launches -> {"none", "added", "open", "closing", "closed"}]
      /\ flags \in [Launches -> SUBSET CloseFlags]
  BY DEF TypeInv, OwnerT
<1>2. CASE UNCHANGED <<owner, flags>> BY <1>2
<1>3. ASSUME NEW k \in Launches, AddLaunch(k) \/ OpenLaunch(k)
      PROVE  owner[l] = "closed" /\ "Block" \in flags[l]
  <2>1. UNCHANGED flags /\ \E o \in {"added", "open"} : owner' = [owner EXCEPT ![k] = o]
    BY <1>3 DEF AddLaunch, OpenLaunch
  <2>2. QED BY <1>1, <2>1
<1>4. ASSUME NEW k \in Launches, CloseReturns(k)
      PROVE  (owner[l] = "closed" /\ "Block" \in flags[l]) \/ l \in finished
  <2>1. /\ UNCHANGED flags /\ owner' = [owner EXCEPT ![k] = "closed"]
        /\ "Block" \in flags[k] => k \in finished
    BY <1>4 DEF CloseReturns
  <2>2. QED BY <1>1, <2>1
<1>5. ASSUME NEW k \in Launches, NEW f \in ClosesWith, Close(k, f)
      PROVE  owner[l] = "closed" /\ "Block" \in flags[l]
  <2>1. owner' = [owner EXCEPT ![k] = "closing"] /\ flags' = [flags EXCEPT ![k] = f]
    BY <1>5 DEF Close
  <2>2. k # l BY <1>1, <2>1
  <2>3. QED BY <1>1, <2>1, <2>2
<1>6. ASSUME NEW k \in Launches, Request(k) PROVE UNCHANGED <<owner, flags>>
  BY <1>6 DEF Request
<1>7. Destroy \/ ServerHasExited \/ ClearServer \/ WaitTimesOut => UNCHANGED <<owner, flags>>
  BY DEF Destroy, ServerHasExited, ClearServer, WaitTimesOut, ownerVars
<1>8. JoinThread \/ ClientDies => owner'[l] = "none"
  BY DEF JoinThread, ClientDies, ClientForgets
<1>9. UNCHANGED vars \/ ClientMove \/ ServerMove \/ ThreadMove => UNCHANGED <<owner, flags>>
  BY ClientFrame, Sides DEF vars, clientVars, clientRest, ownerVars
<1>10. QED
  BY <1>2, <1>3, <1>4, <1>5, <1>6, <1>7, <1>8, <1>9, Sides DEF OwnerMove

LEMMA QuietStep ==
  ASSUME TypeInv, QuietInv, [Next]_vars
  PROVE  QuietInv'
<1>1. ASSUME NEW l \in Launches, l \in finished' \/ (cdo'.do = "finish" /\ cdo'.launch = l)
      PROVE  Ended(l)'
  <2>1. l \in finished \/ (cdo.do = "finish" /\ cdo.launch = l) => Ended(l) BY DEF QuietInv
  <2>2. CASE Rest BY <1>1, <2>1, <2>2 DEF Rest, Ended
  <2>3. ASSUME NEW k \in Launches, Opens(k) PROVE Ended(l)'
    BY <1>1, <2>1, <2>3 DEF Opens, Ended
  <2>4. CASE Clears BY <1>1, <2>4 DEF Clears
  <2>5. CASE Pauses BY <1>1, <2>1, <2>5 DEF Pauses, Ended
  <2>6. ASSUME NEW k \in Launches, NEW r, Begins(k, r) PROVE Ended(l)'
    BY <1>1, <2>1, <2>6 DEF Begins, Ended
  <2>7. CASE Reported
    <3>1. cdo'.do = "finish" => cdo'.launch = cdo.launch /\ cdo.report \in Final
      BY <2>7 DEF Reported, TypeInv, DoT, ClientDoing
    <3>2. UNCHANGED finished BY <2>7 DEF Reported
    <3>3. QED BY <1>1, <2>1, <2>7, <3>1, <3>2, EndedAppends
  <2>8. CASE Finishes BY <1>1, <2>1, <2>8 DEF Finishes, Ended
  <2>9. QED BY <2>2, <2>3, <2>4, <2>5, <2>6, <2>7, <2>8, ReportMoves
<1>2. ASSUME cdo'.do = "report", cdo'.report = "GeneralError" PROVE cerror'
  <2>1. cdo.do = "report" /\ cdo.report = "GeneralError" => cerror BY DEF QuietInv
  <2>2. "GeneralError" \notin Reports BY DEF Reports, States
  <2>3. ASSUME NEW k \in Launches, NEW r, Begins(k, r) PROVE cerror'
    BY <1>2, <2>2, <2>3 DEF Begins
  <2>4. CASE Reported BY <1>2, <2>4 DEF Reported, TypeInv, DoT, ClientDoing
  <2>5. QED
    BY <1>2, <2>1, <2>3, <2>4, ReportMoves DEF Rest, Opens, Clears, Pauses, Finishes
<1>3. ASSUME NEW l \in Launches, owner'[l] = "closed", "Block" \in flags'[l]
      PROVE  l \in finished'
  <2>1. l \in finished BY <1>3, OwnerWaited DEF QuietInv
  <2>2. finished \subseteq finished' \/ owner'[l] = "none"
    BY ReportMoves DEF Rest, Opens, Clears, Pauses, Begins, Reported, Finishes
  <2>3. QED BY <1>3, <2>1, <2>2
<1>4. QED BY <1>1, <1>2, <1>3 DEF QuietInv

(* After a close that has waited, only the loss of the server is reported. *)
LEMMA QuietMoves ==
  ASSUME TypeInv, EndInv, QuietInv, [Next]_vars,
         NEW l \in Launches, owner[l] = "closed", "Block" \in flags[l], ~cerror, ClientRuns'
  PROVE  reports'[l] = reports[l]
<1>1. Ended(l) /\ EndOf(l) BY DEF QuietInv, EndInv
<1>2. CASE Reported
  <2>1. cdo.launch # l BY <1>1, <1>2 DEF Reported, EndOf, QuietInv
  <2>2. QED BY <1>2, <2>1, EndedAppends
<1>3. UNCHANGED reports \/ Reported
  BY ReportMoves DEF Rest, Opens, Clears, Pauses, Begins, Finishes
<1>4. QED BY <1>2, <1>3

-----------------------------------------------------------------------------
(* Who has been told that a launch is launched has it constructed.         *)

LEMMA UnbornStep ==
  ASSUME TypeInv, FreshInv, LateInv, [Next]_vars, NEW l \in Launches, Unborn(l)'
  PROVE  /\ ~ToldLaunched(l)' /\ ~(Reporting(l) /\ cdo.report = "Launched")'
         /\ Hushed(l)' /\ \A m \in LateOf(l) : Absent(m)'
<1>1. Unborn(l) BY Births DEF Unborn
<1>2. /\ QueueT /\ ~ToldLaunched(l) /\ ~(Reporting(l) /\ cdo.report = "Launched") /\ Hushed(l)
      /\ ~Constructed(l) /\ \A m \in LateOf(l) : Absent(m)
  BY <1>1 DEF LateInv, TypeInv, Unborn
<1>3. Hushed(l)' BY <1>2, HushedStep
<1>4. ASSUME NEW m \in LateOf(l) PROVE Absent(m)'
  <2>1. m \in MessagesOf(l) /\ m \in Msgs /\ m.type # "Launch" /\ ~m.early
    BY DEF LateOf, MessagesOf
  <2>2. ~Says(Send(m))
    <3>1. m # LaunchMsg(l) BY <2>1, LaunchMsgsDiffer
    <3>2. \A t, f : Message(t, l, f, ~ToldLaunched(l)).early = ~ToldLaunched(l)
      BY DEF Message
    <3>3. \A t, f : m # Message(t, l, f, ~ToldLaunched(l)) BY <1>2, <2>1, <3>2
    <3>4. QED BY <2>1, <3>1, <3>3, SaysAbout
  <2>3. QED BY <1>2, <2>1, <2>2, AbsentStep
<1>5. ~ToldLaunched(l)' /\ ~(Reporting(l) /\ cdo.report = "Launched")'
  <2>1. CASE Rest BY <1>2, <2>1 DEF Rest, ToldLaunched, Reporting
  <2>2. ASSUME NEW k \in Launches, Opens(k)
        PROVE  ~ToldLaunched(l)' /\ ~(Reporting(l) /\ cdo.report = "Launched")'
    BY <1>2, <2>2 DEF Opens, ToldLaunched, Reporting
  <2>3. CASE Clears BY <2>3 DEF Clears, ToldLaunched, Reporting
  <2>4. CASE Pauses BY <1>2, <2>4 DEF Pauses, ToldLaunched, Reporting
  <2>5. ASSUME NEW k \in Launches, NEW r \in Reports \cup {"GeneralError"}, Begins(k, r)
        PROVE  ~ToldLaunched(l)' /\ ~(Reporting(l) /\ cdo.report = "Launched")'
    <3>1. k # l \/ r # "Launched"
      <4>1. SUFFICES ASSUME k = l, r = "Launched" PROVE FALSE OBVIOUS
      <4>2. Drops(Packet(l, r)) /\ r \in Reports BY <2>5, <4>1 DEF Begins
      <4>3. Packet(l, r) \in Items(cq) BY <1>2, <4>2, ClientQueueItems DEF Drops
      <4>4. QED BY <1>2, <4>2, <4>3 DEF Hushed, Packets
    <3>2. QED BY <1>2, <2>5, <3>1 DEF Begins, ToldLaunched, Reporting
  <2>6. CASE Reported
    <3>1. cdo'.do = "finish" => cdo'.report \in Final
      BY <2>6 DEF Reported, TypeInv, DoT, ClientDoing
    <3>2. cdo'.do # "report" BY <2>6 DEF Reported, TypeInv, DoT, ClientDoing
    <3>3. l = cdo.launch => cdo.report # "Launched" BY <1>2, <2>6 DEF Reported, Reporting
    <3>4. ~ToldLaunched(l)' BY <1>2, <2>6, <3>3, EndedAppends DEF ToldLaunched
    <3>5. QED BY <3>1, <3>2, <3>4 DEF Reporting, Final
  <2>7. CASE Finishes BY <1>2, <2>7 DEF Finishes, ToldLaunched, Reporting
  <2>8. QED BY <2>1, <2>2, <2>3, <2>4, <2>5, <2>6, <2>7, ReportMoves
<1>6. QED BY <1>3, <1>4, <1>5

LEMMA IgnoredStep ==
  ASSUME TypeInv, LateInv, [Next]_vars
  PROVE  LateRequestsReachLaunch'
<1>1. QueueT /\ ThreadT /\ ignored \in [Launches -> SUBSET BOOLEAN]
  BY DEF TypeInv, ServerT
<1>2. \A l \in Launches : FALSE \notin ignored[l] BY DEF LateInv, LateRequestsReachLaunch
<1>3. CASE UNCHANGED ignored BY <1>2, <1>3 DEF LateRequestsReachLaunch
<1>4. ASSUME NEW m \in Msgs, Handles(m), m.type \in {"Close", "Request"}, Takes(Received(m)),
             \/ UNCHANGED ignored
             \/ /\ thread[m.launch].at = "none"
                /\ ignored' = [ignored EXCEPT ![m.launch] = @ \cup {m.early}]
      PROVE  LateRequestsReachLaunch'
  <2>1. m.launch \in Launches /\ m \in MessagesOf(m.launch) /\ m.early \in BOOLEAN
    BY <1>4 DEF Msgs, MessagesOf, AboutLaunch, Messages
  <2>2. Received(m) \in Items(sq) BY <1>1, <1>4, ServerQueueItems
  <2>3. CASE /\ thread[m.launch].at = "none"
             /\ ignored' = [ignored EXCEPT ![m.launch] = @ \cup {m.early}]
    <3>1. Unborn(m.launch) BY <1>4, <2>3 DEF Handles, Unborn, Constructed
    <3>2. m \notin LateOf(m.launch) BY <2>1, <2>2, <3>1 DEF LateInv, Absent
    <3>3. m.early = TRUE BY <1>4, <2>1, <3>2 DEF LateOf
    <3>4. QED BY <1>1, <1>2, <2>1, <2>3, <3>3 DEF LateRequestsReachLaunch
  <2>4. QED BY <1>3, <1>4, <2>3
<1>5. CASE HandleClose
  <2>1. PICK m \in Msgs : Handles(m) /\ m.type = "Close" /\ Takes(Received(m))
    BY <1>1, <1>5, HandlerMoves
  <2>2. Head(sq).message = m BY <2>1 DEF Handles, Received
  <2>3. \/ UNCHANGED ignored
        \/ /\ thread[m.launch].at = "none"
           /\ ignored' = [ignored EXCEPT ![m.launch] = @ \cup {m.early}]
    BY <1>5, <2>2 DEF HandleClose
  <2>4. QED BY <1>4, <2>1, <2>3
<1>6. CASE HandleRequest
  <2>1. PICK m \in Msgs : Handles(m) /\ m.type = "Request" /\ Takes(Received(m))
    BY <1>1, <1>6, HandlerMoves
  <2>2. Head(sq).message = m BY <2>1 DEF Handles, Received
  <2>3. \/ UNCHANGED ignored
        \/ /\ thread[m.launch].at = "none"
           /\ ignored' = [ignored EXCEPT ![m.launch] = @ \cup {m.early}]
    BY <1>6, <2>2 DEF HandleRequest
  <2>4. QED BY <1>4, <2>1, <2>3
<1>7. ASSUME NEW how, NEW told, ServerEnds(how, told) PROVE LateRequestsReachLaunch'
  BY <1>7 DEF ServerEnds, ServerForgets, LateRequestsReachLaunch
<1>8. CASE WaitTimesOut \/ ServerDies \/ ServerQuits
  <2>1. UNCHANGED ignored \/ (\E how, told : ServerEnds(how, told))
    BY <1>8, ServerGoes DEF serverRest, historyVars
  <2>2. QED BY <1>3, <1>7, <2>1
<1>9. CASE UNCHANGED vars \/ OwnerMove \/ ClientMove \/ ThreadMove
  BY <1>3, <1>9, Sides DEF vars, serverVars, serverRest, historyVars
<1>10. CASE ServerMove
  <2>1. StartServer \/ StartServerFails \/ Read \/ ReadEnd \/ DisconnectSeen => UNCHANGED ignored
    BY DEF StartServer, StartServerFails, Read, ReadEnd, DisconnectSeen, historyVars
  <2>2. HandleLaunch \/ HandleDisconnect \/ HandleReply \/ OnInputEnd \/ ConstructLaunch \/ OnReport
        => UNCHANGED ignored
    BY DEF HandleLaunch, HandleDisconnect, HandleReply, OnInputEnd, ConstructLaunch, OnReport,
           historyVars
  <2>3. DestroyLaunch \/ BeginClear \/ LaunchCleared \/ DestroyReader => UNCHANGED ignored
    BY DEF DestroyLaunch, BeginClear, LaunchCleared, DestroyReader, historyVars
  <2>4. ASSUME NEW l \in Launches, ClearLaunch(l) PROVE UNCHANGED ignored
    BY <2>4 DEF ClearLaunch, historyVars
  <2>5. QED
    BY <1>3, <1>5, <1>6, <1>8, <1>10, <2>1, <2>2, <2>3, <2>4 DEF ServerMove
<1>11. QED BY <1>8, <1>9, <1>10, Sides

LEMMA LateStep ==
  ASSUME TypeInv, FreshInv, LateInv, [Next]_vars
  PROVE  LateInv'
<1>1. \A l \in Launches : LateOf(l)' = LateOf(l) BY DEF LateOf, MessagesOf, Msgs
<1>2. QED BY <1>1, UnbornStep, IgnoredStep DEF LateInv

-----------------------------------------------------------------------------
LEMMA InvInit == Init => Inv
<1>1. SUFFICES ASSUME Init PROVE Inv OBVIOUS
<1>2. /\ Items(cq) = {} /\ Items(sq) = {} /\ Items(buffered) = {} /\ Items(c2s) = {}
      /\ cq = <<>> /\ sq = <<>> /\ buffered = <<>> /\ c2s = <<>>
  BY <1>1, ItemsOfNone DEF Init, ClientFresh, ServerFresh
<1>3. /\ cdo.do = "idle" /\ cdo.from = "send" /\ cerror = FALSE /\ running = {} /\ finished = {}
      /\ \A l \in Launches : /\ reports[l] = <<>> /\ owner[l] = "none" /\ ~Constructed(l)
                             /\ ignored[l] = {} /\ handle[l] = "null" /\ process[l] = "none"
      /\ server = "none" /\ pointer = {} /\ sdo.do = "loop"
  BY <1>1 DEF Init, ClientFresh, ServerFresh, ClientIdle, ClientDoes, Constructed
<1>4. TypeInv BY <1>1, TypeInit
<1>5. FreshInv /\ OrphanInv BY <1>2, <1>3 DEF FreshInv, OrphanInv, NoOrphans
<1>6. \A A, B : NothingAfter(cq, A, B) /\ NothingAfter(sq, A, B)
  BY <1>2, ItemsOfNone
<1>7. OnceInv
  <2>1. \A A, B : NothingAfter(buffered, A, B) /\ NothingAfter(c2s, A, B)
    BY <1>2, ItemsOfNone
  <2>2. ASSUME NEW l \in Launches PROVE OrderOf(l) /\ PlaceOf(l)
    <3>1. OrderOf(l) BY <1>6, <2>1, Zenon DEF OrderOf
    <3>2. PlaceOf(l) BY <1>2 DEF PlaceOf, Sent, Buffered, Piped, Arrived, Dispatched
    <3>3. QED BY <3>1, <3>2
  <2>3. QED BY <2>2 DEF OnceInv
<1>8. NewInv
  BY <1>2, <1>3 DEF NewInv, NewOf, Absent, Hushed, Dispatched, Reporting
<1>9. EndInv
  <2>1. LostInv BY <1>2, <1>3 DEF LostInv
  <2>2. EndIsLast BY <1>3 DEF EndIsLast
  <2>3. ASSUME NEW l \in Launches PROVE TransitOf(l) /\ EndOf(l)
    BY <1>2, <1>3, <1>6 DEF TransitOf, EndOf, Ended, Ending
  <2>4. QED BY <2>1, <2>2, <2>3 DEF EndInv
<1>10. QuietInv BY <1>3 DEF QuietInv
<1>11. LateInv
  <2>1. LateRequestsReachLaunch BY <1>3 DEF LateRequestsReachLaunch
  <2>2. ASSUME NEW l \in Launches
        PROVE  ~ToldLaunched(l) /\ ~Reporting(l) /\ Hushed(l) /\ \A m : Absent(m)
    <3>1. ~ToldLaunched(l) BY <1>3 DEF ToldLaunched
    <3>2. ~Reporting(l) BY <1>3 DEF Reporting
    <3>3. Hushed(l) BY <1>2 DEF Hushed
    <3>4. \A m : Absent(m) BY <1>2 DEF Absent
    <3>5. QED BY <3>1, <3>2, <3>3, <3>4
  <2>3. QED BY <2>1, <2>2 DEF LateInv
<1>12. QED BY <1>4, <1>5, <1>7, <1>8, <1>9, <1>10, <1>11 DEF Inv

LEMMA InvStep == Inv /\ [Next]_vars => Inv'
BY TypeStep, FreshStep, OrphanStep, OnceStep, NewStep, EndStep, QuietStep, LateStep DEF Inv

(* The end of a launch is reported once, after its output and its start,   *)
(* however the server, its loss and failed sends interleave (m_bIsRunning).*)
THEOREM EndLast == Spec => []EndIsLast
<1>1. Inv => EndIsLast BY DEF Inv, EndInv
<1>2. QED BY <1>1, InvInit, InvStep, PTL DEF Spec

(* After a close that waits, the callbacks of a launch are not called any  *)
(* more, as long as the server is not lost (f_Close, m_FinishedEvent).     *)
THEOREM Quiet == Spec => QuietAfterClose
<1>1. Inv /\ [Next]_vars
      => [\A l \in Launches :
             owner[l] = "closed" /\ "Block" \in flags[l] /\ ~cerror /\ ClientRuns'
             => reports'[l] = reports[l]]_vars
  BY QuietMoves DEF Inv
<1>2. QED BY <1>1, InvInit, InvStep, PTL DEF Spec, QuietAfterClose

(* No request made after the owner was told that the process is launched   *)
(* is dropped by the server because it has not constructed the launch.     *)
THEOREM LateReach == Spec => []LateRequestsReachLaunch
<1>1. Inv => LateRequestsReachLaunch BY DEF Inv, LateInv
<1>2. QED BY <1>1, InvInit, InvStep, PTL DEF Spec
=============================================================================
