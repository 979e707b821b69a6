------------------------ MODULE LaunchHandlerProofs ------------------------
(***************************************************************************)
(* Theorems about LaunchHandler for every set of launches and every way to *)
(* use the handler.                                                        *)
(***************************************************************************)
EXTENDS LaunchHandler, SequenceTheorems, FiniteSetTheorems, TLAPS

(* An operation that joins a launch at a time has joined all of them when  *)
(* it is over; with a dispatcher no callback runs meanwhile.               *)
OwnerInv ==
  /\ \A l, m \in owner.joins : l = m
  /\ owner.does \notin {"terminate", "linger", "reap", "block", "destroy"} => owner.joins = {}
  /\ owner.does \in {"destroy", "gone"} <=> destroyed
  /\ setup.dispatched =>
       /\ owner.does \notin {"nothing", "gone"} => \A l \in Launches : callback[l] = Idle
       /\ owner.does = "gone" => \A l \in Launches : callback[l].at \in {"none", "entering"}

(* Without a dispatcher a callback runs on the thread of its launch.       *)
ThreadInv ==
  /\ ~setup.dispatched => queue = <<>>
  /\ \A l \in Launches : ~setup.dispatched /\ callback[l] # Idle => thread[l] = "running"
  /\ \A l \in Launches : handle[l] \in {"unmade", "null"} => thread[l] = "none"
  /\ \A l \in Launches : thread[l] = "none" =>
        /\ callback[l] = Idle /\ reported[l] = <<>>
        /\ \A i \in DOMAIN queue : queue[i].launch # l

(* The callback of the end of a launch is its last one, and the launch is  *)
(* not done before it has come to its end.                                 *)
EndInv ==
  /\ \A i \in DOMAIN queue : queue[i].kind \in End =>
        /\ Ended(queue[i].launch)
        /\ \A j \in DOMAIN queue : j > i => queue[j].launch # queue[i].launch
  /\ \A l \in Launches : callback[l].kind \in End \/ completion[l] = "CallbackFinished" =>
        /\ Ended(l)
        /\ \A i \in DOMAIN queue : queue[i].launch # l
  /\ \A l \in Launches : completion[l] = "CallbackFinished" =>
        callback[l].at \in {"none", "finished"}

(* A launch that is open is in the list, a launch that has been added and  *)
(* is not in the list was done, and the destructor leaves none open.       *)
ListInv ==
  /\ owner.does # "gone" => \A l \in Launches :
        /\ handle[l] = "open" => l \in ToSet(added)
        /\ handle[l] = "unmade" \/ l \in ToSet(added) \/ completion[l] = "CallbackFinished"
  /\ owner.does = "destroy" => \A l \in Launches : handle[l] = "open" => l \in ToSet(owner.todo)
  /\ owner.does = "gone" => \A l \in Launches : handle[l] # "open"
  /\ \A l \in ToSet(added) : handle[l] # "unmade"

Inv == /\ HandlerTypeOK /\ OwnerInv /\ ThreadInv /\ EndInv /\ ListInv
       /\ CallbacksFindTheirLaunch

----------------------------------------------------------------------------
(* Sequences.                                                              *)

(* The tail of a sequence has all of its elements but the first.           *)
LEMMA TailElements ==
  ASSUME NEW S, NEW s \in Seq(S), s # <<>>
  PROVE  /\ Head(s) \in S /\ Tail(s) \in Seq(S)
         /\ ToSet(Tail(s)) \subseteq ToSet(s)
         /\ ToSet(s) \subseteq {Head(s)} \cup ToSet(Tail(s))
<1>1. /\ Head(s) \in S /\ Tail(s) \in Seq(S) /\ Len(s) \in Nat /\ Len(s) > 0
      /\ Len(Tail(s)) = Len(s) - 1 /\ Head(s) = s[1]
      /\ \A i \in 1 .. Len(Tail(s)) : Tail(s)[i] = s[i + 1]
      BY HeadTailProperties, EmptySeq
<1>2. DOMAIN s = 1 .. Len(s) /\ DOMAIN Tail(s) = 1 .. Len(Tail(s))
      BY <1>1, LenProperties
<1>3. ASSUME NEW i \in DOMAIN Tail(s) PROVE Tail(s)[i] \in ToSet(s)
      BY <1>1, <1>2 DEF ToSet
<1>4. ASSUME NEW i \in DOMAIN s PROVE s[i] \in {Head(s)} \cup ToSet(Tail(s))
  <2>1. CASE i = 1
        BY <2>1, <1>1
  <2>2. CASE i # 1
    <3>1. i - 1 \in DOMAIN Tail(s) /\ Tail(s)[i - 1] = s[i]
          BY <2>2, <1>1, <1>2
    <3> QED BY <3>1 DEF ToSet
  <2> QED BY <2>1, <2>2
<1> QED BY <1>1, <1>3, <1>4 DEF ToSet

(* What is appended is the last element, and the others stay.              *)
LEMMA AppendElements ==
  ASSUME NEW S, NEW s \in Seq(S), NEW e \in S
  PROVE  /\ Append(s, e) \in Seq(S) /\ Append(s, e) # <<>>
         /\ DOMAIN s = 1 .. Len(s) /\ Len(s) \in Nat
         /\ DOMAIN Append(s, e) = 1 .. Len(s) + 1
         /\ \A i \in 1 .. Len(s) : Append(s, e)[i] = s[i]
         /\ Append(s, e)[Len(s) + 1] = e /\ Last(Append(s, e)) = e
         /\ ToSet(Append(s, e)) = ToSet(s) \cup {e}
         /\ IsInjective(s) /\ e \notin ToSet(s) => IsInjective(Append(s, e))
<1>1. /\ Append(s, e) \in Seq(S) /\ Append(s, e) # <<>> /\ Len(s) \in Nat
      /\ DOMAIN s = 1 .. Len(s) /\ DOMAIN Append(s, e) = 1 .. Len(s) + 1
      /\ Len(Append(s, e)) = Len(s) + 1
      /\ \A i \in 1 .. Len(s) : Append(s, e)[i] = s[i]
      /\ Append(s, e)[Len(s) + 1] = e
      BY AppendProperties, LenProperties
<1>2. Last(Append(s, e)) = e
      BY <1>1 DEF Last
<1>3. ToSet(Append(s, e)) = ToSet(s) \cup {e}
  <2>1. ASSUME NEW i \in DOMAIN Append(s, e) PROVE Append(s, e)[i] \in ToSet(s) \cup {e}
        BY <1>1 DEF ToSet
  <2>2. ASSUME NEW i \in DOMAIN s PROVE s[i] \in ToSet(Append(s, e))
    <3>1. i \in DOMAIN Append(s, e) /\ s[i] = Append(s, e)[i]
          BY <1>1
    <3> QED BY <3>1 DEF ToSet
  <2>3. e \in ToSet(Append(s, e))
    <3>1. Len(s) + 1 \in DOMAIN Append(s, e)
          BY <1>1
    <3> QED BY <3>1, <1>1 DEF ToSet
  <2> QED BY <2>1, <2>2, <2>3 DEF ToSet
<1>4. ASSUME IsInjective(s), e \notin ToSet(s) PROVE IsInjective(Append(s, e))
      BY <1>1, <1>4 DEF IsInjective, ToSet
<1> QED BY <1>1, <1>2, <1>3, <1>4

(* To remove at a place removes that element and no other.                 *)
LEMMA RemoveAtElements ==
  ASSUME NEW S, NEW s \in Seq(S), NEW i \in DOMAIN s
  PROVE  /\ RemoveAt(s, i) \in Seq(S)
         /\ ToSet(RemoveAt(s, i)) \subseteq ToSet(s)
         /\ ToSet(s) \subseteq {s[i]} \cup ToSet(RemoveAt(s, i))
         /\ IsInjective(s) => IsInjective(RemoveAt(s, i))
<1> DEFINE a == SubSeq(s, 1, i - 1)
           b == SubSeq(s, i + 1, Len(s))
           r == RemoveAt(s, i)
<1>1. /\ Len(s) \in Nat /\ DOMAIN s = 1 .. Len(s) /\ i \in 1 .. Len(s)
      /\ \A j \in 1 .. Len(s) : s[j] \in S
      BY LenProperties, ElementOfSeq
<1>2. a \in Seq(S) /\ Len(a) = i - 1 /\ \A j \in 1 .. i - 1 : a[j] = s[j]
  <2>1. /\ a \in Seq(S) /\ Len(a) = IF 1 <= i - 1 THEN i - 1 - 1 + 1 ELSE 0
        /\ \A j \in 1 .. i - 1 - 1 + 1 : a[j] = s[1 + j - 1]
    <3>1. 1 \in Int /\ i - 1 \in Int /\ \A j \in 1 .. i - 1 : s[j] \in S
          BY <1>1
    <3> HIDE DEF a
    <3> QED BY <3>1, SubSeqProperties DEF a
  <2> HIDE DEF a
  <2> QED BY <2>1, <1>1
<1>3. b \in Seq(S) /\ Len(b) = Len(s) - i /\ \A j \in 1 .. Len(s) - i : b[j] = s[i + j]
  <2>1. /\ b \in Seq(S) /\ Len(b) = IF i + 1 <= Len(s) THEN Len(s) - (i + 1) + 1 ELSE 0
        /\ \A j \in 1 .. Len(s) - (i + 1) + 1 : b[j] = s[(i + 1) + j - 1]
    <3>1. i + 1 \in Int /\ Len(s) \in Int /\ \A j \in i + 1 .. Len(s) : s[j] \in S
          BY <1>1
    <3> HIDE DEF b
    <3> QED BY <3>1, SubSeqProperties DEF b
  <2> HIDE DEF b
  <2> QED BY <2>1, <1>1
<1>4. r = a \o b
      BY DEF RemoveAt
<1> HIDE DEF a, b, r
<1>5. /\ r \in Seq(S) /\ Len(r) = Len(s) - 1 /\ DOMAIN r = 1 .. Len(s) - 1
      /\ \A j \in 1 .. Len(s) - 1 : r[j] = IF j < i THEN s[j] ELSE s[j + 1]
  <2>1. /\ r \in Seq(S) /\ Len(r) = Len(a) + Len(b)
        /\ \A j \in 1 .. Len(a) + Len(b) : r[j] = IF j <= Len(a) THEN a[j] ELSE b[j - Len(a)]
        BY <1>2, <1>3, <1>4, ConcatProperties
  <2>2. Len(r) = Len(s) - 1 /\ DOMAIN r = 1 .. Len(s) - 1
        BY <2>1, <1>1, <1>2, <1>3, LenProperties
  <2>3. ASSUME NEW j \in 1 .. Len(s) - 1 PROVE r[j] = IF j < i THEN s[j] ELSE s[j + 1]
    <3>1. CASE j < i
          BY <3>1, <2>1, <1>1, <1>2, <1>3
    <3>2. CASE ~(j < i)
      <4>1. j - (i - 1) \in 1 .. Len(s) - i /\ i + (j - (i - 1)) = j + 1
            BY <3>2, <1>1
      <4>2. r[j] = b[j - (i - 1)]
            BY <3>2, <2>1, <1>1, <1>2, <1>3
      <4> QED BY <4>1, <4>2, <1>3, <3>2
    <3> QED BY <3>1, <3>2
  <2> QED BY <2>1, <2>2, <2>3
<1>6. ASSUME NEW j \in DOMAIN r PROVE r[j] \in ToSet(s)
      BY <1>1, <1>5 DEF ToSet
<1>7. ASSUME NEW j \in DOMAIN s PROVE s[j] \in {s[i]} \cup ToSet(r)
  <2>1. CASE j < i
    <3>1. j \in DOMAIN r /\ r[j] = s[j]
          BY <2>1, <1>1, <1>5
    <3> QED BY <3>1 DEF ToSet
  <2>2. CASE j > i
    <3>1. j - 1 \in DOMAIN r /\ r[j - 1] = s[j]
          BY <2>2, <1>1, <1>5
    <3> QED BY <3>1 DEF ToSet
  <2> QED BY <2>1, <2>2, <1>1
<1>8. ASSUME IsInjective(s) PROVE IsInjective(r)
      BY <1>8, <1>1, <1>5 DEF IsInjective
<1>9. ToSet(r) \subseteq ToSet(s) /\ ToSet(s) \subseteq {s[i]} \cup ToSet(r)
      BY <1>6, <1>7 DEF ToSet
<1> QED BY <1>5, <1>8, <1>9 DEF r

----------------------------------------------------------------------------
(* Types.                                                                  *)

Places == {"entering", "reported", "told", "finished"}
Callbacks == {Idle} \cup [kind : Kind, at : Places]

(* A callback that is moved on stays a callback.                           *)
LEMMA CallbackTypes ==
  ASSUME HandlerTypeOK, NEW l \in Launches
  PROVE  /\ callback \in [Launches -> Callbacks]
         /\ [callback EXCEPT ![l] = Idle] \in [Launches -> Callbacks]
         /\ \A k \in Kind : \A p \in Places :
              [callback EXCEPT ![l] = [kind |-> k, at |-> p]] \in [Launches -> Callbacks]
         /\ callback[l].at # "none" =>
              /\ callback[l].kind \in Kind
              /\ \A p \in Places :
                   [callback EXCEPT ![l].at = p]
                     = [callback EXCEPT ![l] = [kind |-> callback[l].kind, at |-> p]]
         /\ callback[l].at # "none" =>
              \A p \in Places : [callback EXCEPT ![l].at = p] \in [Launches -> Callbacks]
<1>1. callback \in [Launches -> Callbacks]
      BY DEF HandlerTypeOK, Places, Callbacks
<1>2. callback[l].at # "none" => callback[l] \in [kind : Kind, at : Places]
      BY <1>1 DEF Idle, Callbacks
<1>3. Idle \in Callbacks /\ \A k \in Kind : \A p \in Places : [kind |-> k, at |-> p] \in Callbacks
      BY DEF Callbacks
<1>4. \A k \in Kind : \A p \in Places :
        [callback EXCEPT ![l] = [kind |-> k, at |-> p]] \in [Launches -> Callbacks]
      BY <1>1, <1>3
<1>5. ASSUME callback[l].at # "none"
      PROVE  /\ callback[l].kind \in Kind
             /\ \A p \in Places :
                  [callback EXCEPT ![l].at = p]
                    = [callback EXCEPT ![l] = [kind |-> callback[l].kind, at |-> p]]
      BY <1>1, <1>2, <1>5
<1>6. callback[l].at # "none" =>
        \A p \in Places : [callback EXCEPT ![l].at = p] \in [Launches -> Callbacks]
      BY <1>4, <1>5
<1> QED BY <1>1, <1>3, <1>4, <1>5, <1>6

(* It holds before the first launch.                                       *)
LEMMA InitInv == HandlerInit => Inv
<1> SUFFICES ASSUME HandlerInit PROVE Inv
    OBVIOUS
<1>1. ToSet(<<>>) = {} /\ IsInjective(<<>>)
      BY DEF ToSet, IsInjective
<1>2. owner \in [does : Operation \cup {"nothing", "check", "pause", "found", "fault",
                                         "destroy", "gone"},
                  todo : Seq(Launches), joins : SUBSET Launches]
      BY DEF HandlerInit, Nothing
<1>3. /\ kept \in [Launches -> Seq(Output)] /\ reported \in [Launches -> Reports]
      /\ heard \in [Launches -> Reports] /\ queue \in Seq([launch : Launches, kind : Kind])
      /\ added \in Seq(Launches)
      BY DEF HandlerInit, Reports
<1>4. HandlerTypeOK
      BY <1>1, <1>2, <1>3 DEF HandlerInit, HandlerTypeOK
<1>5. OwnerInv /\ ThreadInv /\ EndInv
      BY DEF HandlerInit, OwnerInv, ThreadInv, EndInv, Nothing, Idle, End
<1>6. ListInv /\ CallbacksFindTheirLaunch
      BY <1>1 DEF HandlerInit, ListInv, CallbacksFindTheirLaunch, Nothing
<1> QED BY <1>4, <1>5, <1>6 DEF Inv

(* What a callback has to be for the types.                                *)
LEMMA CallbacksAreTypes ==
  callback' \in [Launches -> Callbacks] <=>
    callback' \in [Launches -> {Idle} \cup [kind : Kind,
                                            at : {"entering", "reported", "told", "finished"}]]
BY DEF Callbacks, Places

(* A launch that goes on keeps the types.                                  *)
LEMMA LaunchTypes ==
  ASSUME Inv, NEW l \in Launches, LaunchStep(l) \/ ChildEnds(l)
  PROVE  HandlerTypeOK'
<1>1. \A k \in Kind : \A p \in Places :
        [callback EXCEPT ![l] = [kind |-> k, at |-> p]] \in [Launches -> Callbacks]
      BY CallbackTypes DEF Inv
<1>2. callback \in [Launches -> Callbacks]
      BY CallbackTypes DEF Inv
<1> USE DEF Inv, HandlerTypeOK, listVars, launchVars, callVars
<1>3. CASE ThreadEnds(l)
      BY <1>3 DEF ThreadEnds
<1>4. CASE ChildEnds(l)
      BY <1>4 DEF ChildEnds
<1>5. ASSUME NEW kind \in Kind, Report(l, kind) PROVE HandlerTypeOK'
  <2>1. reported' \in [Launches -> Reports]
        BY <1>5, AppendElements DEF Report, Reports
  <2>2. queue' \in Seq([launch : Launches, kind : Kind])
    <3>1. Append(queue, [launch |-> l, kind |-> kind]) \in Seq([launch : Launches, kind : Kind])
          BY AppendElements
    <3> QED BY <1>5, <3>1 DEF Report
  <2>3. callback' \in [Launches -> Callbacks]
        BY <1>5, <1>1, <1>2 DEF Report, Places
  <2> QED BY <1>5, <2>1, <2>2, <2>3, CallbacksAreTypes DEF Report
<1> QED BY <1>3, <1>4, <1>5 DEF LaunchStep

(* So does a callback,                                                     *)
LEMMA CallbackStepTypes ==
  ASSUME Inv, TakeCallback \/ \E l \in Launches : CallbackStep(l)
  PROVE  HandlerTypeOK'
<1>1. ASSUME NEW l \in Launches
      PROVE  /\ [callback EXCEPT ![l] = Idle] \in [Launches -> Callbacks]
             /\ \A k \in Kind : \A p \in Places :
                  [callback EXCEPT ![l] = [kind |-> k, at |-> p]] \in [Launches -> Callbacks]
             /\ callback[l].at # "none" =>
                  /\ callback[l].kind \in Kind
                  /\ \A p \in Places : [callback EXCEPT ![l].at = p] \in [Launches -> Callbacks]
      BY CallbackTypes DEF Inv
<1> USE DEF Inv, HandlerTypeOK, listVars, launchVars, callVars
<1>2. CASE TakeCallback
  <2>1. /\ Head(queue) \in [launch : Launches, kind : Kind]
        /\ Tail(queue) \in Seq([launch : Launches, kind : Kind])
        BY <1>2, TailElements DEF TakeCallback
  <2>2. callback' \in [Launches -> Callbacks]
        BY <1>1, <1>2, <2>1 DEF TakeCallback, Places
  <2> QED BY <1>2, <2>1, <2>2, CallbacksAreTypes DEF TakeCallback
<1>3. ASSUME NEW l \in Launches, CallbackStep(l) PROVE HandlerTypeOK'
  <2>1. /\ [callback EXCEPT ![l] = Idle] \in [Launches -> Callbacks]
        /\ callback[l].at # "none" =>
             /\ callback[l].kind \in Kind
             /\ \A p \in Places : [callback EXCEPT ![l].at = p] \in [Launches -> Callbacks]
        BY <1>1
  <2>2. CASE CallOutput(l)
    <3>0. callback' \in [Launches -> Callbacks]
          BY <2>2, <2>1 DEF CallOutput, Places
    <3>1. heard' \in [Launches -> Reports]
          BY <2>2, <2>1, AppendElements DEF CallOutput, Reports
    <3> QED BY <2>2, <3>0, <3>1, CallbacksAreTypes DEF CallOutput
  <2>3. CASE IgnoreCallback(l)
    <3>0. callback' \in [Launches -> Callbacks]
          BY <2>3, <2>1 DEF IgnoreCallback, Places
    <3> QED BY <2>3, <3>0, CallbacksAreTypes DEF IgnoreCallback
  <2>4. CASE KeepOutput(l)
    <3>0. callback' \in [Launches -> Callbacks]
          BY <2>4, <2>1 DEF KeepOutput, Places
    <3>1. kept' \in [Launches -> Seq(Output)]
          BY <2>4, AppendElements DEF KeepOutput
    <3> QED BY <2>4, <3>0, <3>1, CallbacksAreTypes DEF KeepOutput, Uses
  <2>5. CASE EnterCallback(l)
    <3>1. heard[l] \in Seq(Kind) /\ kept[l] \in Seq(Kind)
          BY SeqMonotonic DEF Reports, Kind
    <3>2. heard' \in [Launches -> Reports]
          BY <2>5, <3>1, ConcatProperties DEF EnterCallback, Reports
    <3>3. callback' \in [Launches -> Callbacks]
          BY <2>5, <2>1 DEF EnterCallback, Places
    <3> QED BY <2>5, <3>2, <3>3, CallbacksAreTypes DEF EnterCallback, Uses
  <2>6. CASE CallClient(l)
    <3>1. heard' \in [Launches -> Reports]
          BY <2>6, <2>1, AppendElements DEF CallClient, Reports
    <3>2. callback' \in [Launches -> Callbacks]
          BY <2>6, <2>1 DEF CallClient, Places
    <3> QED BY <2>6, <3>1, <3>2, CallbacksAreTypes DEF CallClient
  <2>7. CASE FinishCallback(l)
    <3>1. callback' \in [Launches -> Callbacks]
          BY <2>7, <2>1 DEF FinishCallback, Places
    <3> QED BY <2>7, <3>1, CallbacksAreTypes DEF FinishCallback, Uses
  <2>8. CASE SignalChange(l)
    <3>0. callback' \in [Launches -> Callbacks]
          BY <2>8, <2>1 DEF SignalChange, Places
    <3> QED BY <2>8, <3>0, CallbacksAreTypes DEF SignalChange
  <2> QED BY <1>3, <2>2, <2>3, <2>4, <2>5, <2>6, <2>7, <2>8 DEF CallbackStep
<1> QED BY <1>2, <1>3

(* and the owner: what it has to keep.                                     *)
Owners == [does : Operation \cup {"nothing", "check", "pause", "found", "fault",
                                  "destroy", "gone"},
           todo : Seq(Launches), joins : SUBSET Launches]
Handles == {"unmade", "null", "open", "lingering", "closed"}
Joined == \A l \in Launches : handle[l] = "closed" /\ l \notin owner.joins => thread[l] = "ended"

OwnerFrame == UNCHANGED <<setup, kept, child, reported, callVars>>

LEMMA OwnerTypes ==
  ASSUME Inv, OwnerFrame, Joined',
         owner' \in Owners, added' \in Seq(Launches), IsInjective(added'),
         handle' \in [Launches -> Handles],
         completion' \in [Launches -> {"Running", "Reported", "CallbackFinished"}],
         destroyed' \in BOOLEAN, changed' \in BOOLEAN,
         thread' \in [Launches -> {"none", "running", "ended"}],
         closing' \in [Launches -> {"open", "wait", "linger", "none"}],
         killed' \subseteq Launches
  PROVE  HandlerTypeOK'
BY DEF Inv, HandlerTypeOK, OwnerFrame, Joined, Owners, Handles, callVars

(* What the types say of it.                                               *)
LEMMA OwnerFacts ==
  ASSUME Inv
  PROVE  /\ Joined /\ owner \in Owners /\ added \in Seq(Launches) /\ IsInjective(added)
         /\ handle \in [Launches -> Handles]
         /\ completion \in [Launches -> {"Running", "Reported", "CallbackFinished"}]
         /\ destroyed \in BOOLEAN /\ changed \in BOOLEAN
         /\ thread \in [Launches -> {"none", "running", "ended"}]
         /\ closing \in [Launches -> {"open", "wait", "linger", "none"}]
         /\ killed \subseteq Launches
         /\ owner.todo \in Seq(Launches)
         /\ owner.todo # <<>> => Tail(owner.todo) \in Seq(Launches)
         /\ \A l, m \in owner.joins : l = m
         /\ owner.does \notin {"terminate", "linger", "reap", "block", "destroy"}
              => owner.joins = {}
<1>1. /\ Joined /\ owner \in Owners /\ added \in Seq(Launches) /\ IsInjective(added)
      /\ handle \in [Launches -> Handles]
      /\ completion \in [Launches -> {"Running", "Reported", "CallbackFinished"}]
      /\ destroyed \in BOOLEAN /\ changed \in BOOLEAN
      /\ thread \in [Launches -> {"none", "running", "ended"}]
      /\ closing \in [Launches -> {"open", "wait", "linger", "none"}]
      /\ killed \subseteq Launches
      BY DEF Inv, HandlerTypeOK, Joined, Owners, Handles
<1>2. /\ owner.todo \in Seq(Launches)
      /\ owner.todo # <<>> => Tail(owner.todo) \in Seq(Launches)
      BY <1>1, TailElements DEF Owners
<1> QED BY <1>1, <1>2 DEF Inv, OwnerInv

(* What an owner can become.                                               *)
OwnerAt(does, todo, joins) == [does |-> does, todo |-> todo, joins |-> joins]

(* A loop closes the launch it has come to.                                *)
LEMMA CloseTypes ==
  ASSUME Inv, NEW l \in Launches, NEW way \in {"wait", "linger", "none"},
         NEW todo \in Seq(Launches), CloseHandle(l, way, todo), owner.joins = {},
         thread' = thread
  PROVE  /\ owner' \in Owners /\ handle' \in [Launches -> Handles]
         /\ closing' \in [Launches -> {"open", "wait", "linger", "none"}]
         /\ Joined'
<1>1. owner' \in Owners /\ owner'.joins = IF way = "linger" THEN {} ELSE {l}
  <2>1. owner' = OwnerAt(owner.does, todo, IF way = "linger" THEN {} ELSE {l})
        BY OwnerFacts DEF CloseHandle, OwnerAt, Owners
  <2>2. owner.does \in Operation \cup {"nothing", "check", "pause", "found", "fault",
                                       "destroy", "gone"}
        BY OwnerFacts DEF Owners
  <2> QED BY <2>1, <2>2 DEF OwnerAt, Owners, Operation
<1>2. handle' \in [Launches -> Handles] /\ closing' \in [Launches -> {"open", "wait", "linger", "none"}]
      BY OwnerFacts DEF CloseHandle, Handles
<1>3. Joined'
      BY OwnerFacts, <1>1 DEF CloseHandle, Joined
<1> QED BY <1>1, <1>2, <1>3

(* It goes on to the next one.                                             *)
LEMMA PassTypes ==
  ASSUME Inv, PassBy, owner.todo # <<>>
  PROVE  owner' \in Owners /\ owner'.joins = owner.joins
<1>1. owner \in Owners /\ Tail(owner.todo) \in Seq(Launches)
      BY OwnerFacts
<1>2. owner' = OwnerAt(owner.does, Tail(owner.todo), owner.joins)
      BY <1>1 DEF PassBy, OwnerAt, Owners
<1> QED BY <1>1, <1>2 DEF OwnerAt, Owners

(* Every step of the owner keeps the types.                                *)
LEMMA OwnerStepTypes ==
  ASSUME Inv, OwnerStep
  PROVE  HandlerTypeOK'
<1> USE DEF OwnerFrame, listVars, launchVars
<1>1. CASE Join
  <2>1. owner' \in Owners /\ owner'.joins = {}
    <3>1. owner' = [owner EXCEPT !.joins = {}]
          BY <1>1 DEF Join
    <3> QED BY <3>1, OwnerFacts DEF Owners
  <2>2. Joined'
        BY <1>1, <2>1, OwnerFacts DEF Join, Joined
  <2> QED BY <1>1, <2>1, <2>2, OwnerFacts, OwnerTypes DEF Join
<1>2. ASSUME owner.joins = {}, owner' \in Owners, owner'.joins = {}, OwnerFrame,
             UNCHANGED <<destroyed, launchVars, completion, handle>>,
             added' \in {added, <<>>}, changed' \in BOOLEAN
      PROVE  HandlerTypeOK'
  <2>1. Joined'
        BY <1>2, OwnerFacts DEF Joined
  <2>2. added' \in Seq(Launches) /\ IsInjective(added')
    <3>1. <<>> \in Seq(Launches) /\ IsInjective(<<>>)
          BY EmptySeq DEF IsInjective
    <3> QED BY <1>2, <3>1, OwnerFacts
  <2> QED BY <1>2, <2>1, <2>2, OwnerFacts, OwnerTypes
<1>3. CASE Check
  <2>1. owner.joins = {} /\ owner' \in Owners /\ owner'.joins = {}
    <3>1. \/ owner' = OwnerAt("block", added, {})
          \/ owner' = OwnerAt("pause", <<>>, {})
          \/ owner' = OwnerAt("nothing", <<>>, {})
          BY <1>3 DEF Check, Nothing, OwnerAt
    <3>2. owner.joins = {} /\ added \in Seq(Launches) /\ <<>> \in Seq(Launches)
          BY <1>3, OwnerFacts, EmptySeq DEF Check
    <3>3. CASE owner' = OwnerAt("block", added, {})
          BY <3>2, <3>3 DEF OwnerAt, Owners, Operation
    <3>4. CASE owner' = OwnerAt("pause", <<>>, {})
          BY <3>2, <3>4 DEF OwnerAt, Owners
    <3>5. CASE owner' = OwnerAt("nothing", <<>>, {})
          BY <3>2, <3>5 DEF OwnerAt, Owners
    <3> QED BY <3>1, <3>3, <3>4, <3>5
  <2> QED BY <1>2, <1>3, <2>1, OwnerFacts DEF Check
<1>4. CASE Pause
  <2>1. owner.joins = {} /\ owner' \in Owners /\ owner'.joins = {}
    <3>1. owner' = OwnerAt("check", <<>>, {})
          BY <1>4 DEF Pause, Nothing, OwnerAt
    <3>2. owner.joins = {} /\ added \in Seq(Launches) /\ <<>> \in Seq(Launches)
          BY <1>4, OwnerFacts, EmptySeq DEF Pause
    <3> QED BY <3>1, <3>2 DEF OwnerAt, Owners, Operation
  <2> QED BY <1>2, <1>4, <2>1 DEF Pause
<1>5. CASE Return
  <2>1. owner.joins = {} /\ owner' \in Owners /\ owner'.joins = {}
    <3>1. owner' = OwnerAt("nothing", <<>>, {})
          BY <1>5 DEF Return, Nothing, OwnerAt
    <3>2. owner.joins = {} /\ added \in Seq(Launches) /\ <<>> \in Seq(Launches)
          BY <1>5, OwnerFacts, EmptySeq DEF Return
    <3> QED BY <3>1, <3>2 DEF OwnerAt, Owners, Operation
  <2> QED BY <1>2, <1>5, <2>1, OwnerFacts DEF Return
<1>6. CASE BeginWait
  <2>1. owner.joins = {} /\ owner' \in Owners /\ owner'.joins = {}
        BY <1>6, OwnerFacts DEF BeginWait, Owners, Operation
  <2> QED BY <1>2, <1>6, <2>1, OwnerFacts DEF BeginWait
<1>7. CASE WaitForChange
  <2>1. owner.joins = {} /\ owner' \in Owners /\ owner'.joins = {}
    <3>1. owner' = OwnerAt("nothing", <<>>, {})
          BY <1>7 DEF WaitForChange, Nothing, OwnerAt
    <3>2. owner.joins = {} /\ added \in Seq(Launches) /\ <<>> \in Seq(Launches)
          BY <1>7, OwnerFacts, EmptySeq DEF WaitForChange
    <3> QED BY <3>1, <3>2 DEF OwnerAt, Owners, Operation
  <2> QED BY <1>2, <1>7, <2>1 DEF WaitForChange
<1>8. CASE HandlerGone
  <2>1. owner.joins = {} /\ owner' \in Owners /\ owner'.joins = {}
    <3>1. owner' = OwnerAt("gone", <<>>, {})
          BY <1>8 DEF HandlerGone, Nothing, OwnerAt
    <3>2. owner.joins = {} /\ added \in Seq(Launches) /\ <<>> \in Seq(Launches)
          BY <1>8, OwnerFacts, EmptySeq DEF HandlerGone
    <3> QED BY <3>1, <3>2 DEF OwnerAt, Owners, Operation
  <2> QED BY <1>2, <1>8, <2>1, OwnerFacts DEF HandlerGone
<1>9. ASSUME NEW l \in Launches, TerminateNext(l) PROVE HandlerTypeOK'
  <2>1. owner.joins = {} /\ owner.todo # <<>> /\ Tail(owner.todo) \in Seq(Launches)
        BY <1>9, OwnerFacts DEF TerminateNext, Visits
  <2>2. CASE handle[l] = "open"
    <3>1. /\ owner' \in Owners /\ handle' \in [Launches -> Handles] /\ Joined'
          /\ closing' \in [Launches -> {"open", "wait", "linger", "none"}]
          BY <1>9, <2>1, <2>2, CloseTypes DEF TerminateNext
    <3> QED BY <1>9, <2>2, <3>1, OwnerFacts, OwnerTypes DEF TerminateNext
  <2>3. CASE handle[l] # "open"
    <3>1. owner' \in Owners /\ Joined'
          BY <1>9, <2>1, <2>3, PassTypes, OwnerFacts DEF TerminateNext, Joined
    <3> QED BY <1>9, <2>3, <3>1, OwnerFacts, OwnerTypes DEF TerminateNext
  <2> QED BY <2>2, <2>3
<1>10. ASSUME NEW l \in Launches, ReapNext(l) PROVE HandlerTypeOK'
  <2>1. owner.joins = {} /\ owner.todo # <<>> /\ owner.todo \in Seq(Launches)
        BY <1>10, OwnerFacts DEF ReapNext, Visits
  <2>2. added' \in Seq(Launches) /\ IsInjective(added')
        BY <1>10, OwnerFacts, RemoveAtElements DEF ReapNext, RemoveLaunch
  <2>3. CASE CloseHandle(l, "wait", owner.todo)
    <3>1. /\ owner' \in Owners /\ handle' \in [Launches -> Handles] /\ Joined'
          /\ closing' \in [Launches -> {"open", "wait", "linger", "none"}]
          BY <1>10, <2>1, <2>3, CloseTypes DEF ReapNext
    <3> QED BY <1>10, <2>2, <3>1, OwnerFacts, OwnerTypes DEF ReapNext
  <2>4. CASE PassBy /\ UNCHANGED <<handle, closing>>
    <3>1. owner' \in Owners /\ Joined'
          BY <1>10, <2>1, <2>4, PassTypes, OwnerFacts DEF ReapNext, Joined
    <3> QED BY <1>10, <2>2, <2>4, <3>1, OwnerFacts, OwnerTypes DEF ReapNext
  <2> QED BY <1>10, <2>3, <2>4 DEF ReapNext
<1>11. ASSUME NEW l \in Launches, BlockNext(l) PROVE HandlerTypeOK'
  <2>1. /\ owner.joins = {} /\ owner.todo # <<>> /\ Tail(owner.todo) \in Seq(Launches)
        BY <1>11, OwnerFacts DEF BlockNext, Visits
  <2>2. CASE CloseHandle(l, "wait", Tail(owner.todo))
    <3>1. /\ owner' \in Owners /\ handle' \in [Launches -> Handles] /\ Joined'
          /\ closing' \in [Launches -> {"open", "wait", "linger", "none"}]
          BY <1>11, <2>1, <2>2, CloseTypes DEF BlockNext
    <3> QED BY <1>11, <3>1, OwnerFacts, OwnerTypes DEF BlockNext
  <2>3. CASE (PassBy \/ owner' = [Nothing EXCEPT !.does = "fault"]) /\ UNCHANGED <<handle, closing>>
    <3>1. owner' \in Owners /\ owner'.joins = {}
      <4>1. CASE PassBy
            BY <2>1, <4>1, PassTypes
      <4>2. CASE owner' = [Nothing EXCEPT !.does = "fault"]
        <5>1. owner' = OwnerAt("fault", <<>>, {}) /\ <<>> \in Seq(Launches)
              BY <4>2, EmptySeq DEF Nothing, OwnerAt
        <5> QED BY <5>1 DEF OwnerAt, Owners, Operation
      <4> QED BY <2>3, <4>1, <4>2
    <3>2. Joined'
          BY <1>11, <2>1, <2>3, <3>1, OwnerFacts DEF BlockNext, Joined
    <3> QED BY <1>11, <2>3, <3>1, <3>2, OwnerFacts, OwnerTypes DEF BlockNext
  <2> QED BY <1>11, <2>2, <2>3 DEF BlockNext
<1>12. ASSUME NEW l \in Launches, DestroyNext(l) PROVE HandlerTypeOK'
  <2>1. owner.joins = {} /\ owner.todo # <<>> /\ Tail(owner.todo) \in Seq(Launches)
        BY <1>12, OwnerFacts DEF DestroyNext, Visits
  <2>2. completion' \in [Launches -> {"Running", "Reported", "CallbackFinished"}]
        BY <1>12, OwnerFacts DEF DestroyNext
  <2>3. CASE handle[l] = "open"
    <3>1. /\ owner' \in Owners /\ handle' \in [Launches -> Handles] /\ Joined'
          /\ closing' \in [Launches -> {"open", "wait", "linger", "none"}]
          BY <1>12, <2>1, <2>3, CloseTypes DEF DestroyNext
    <3> QED BY <1>12, <2>2, <3>1, OwnerFacts, OwnerTypes DEF DestroyNext
  <2>4. CASE handle[l] # "open"
    <3>1. owner' \in Owners /\ Joined'
          BY <1>12, <2>1, <2>4, PassTypes, OwnerFacts DEF DestroyNext, Joined
    <3> QED BY <1>12, <2>2, <2>4, <3>1, OwnerFacts, OwnerTypes DEF DestroyNext
  <2> QED BY <2>3, <2>4
<1> QED BY <1>1, <1>3, <1>4, <1>5, <1>6, <1>7, <1>8, <1>9, <1>10, <1>11, <1>12
        DEF OwnerStep

(* What the owner calls.                                                   *)
OwnerCall ==
  \/ \E l \in Launches : AddLaunch(l)
  \/ \E operation \in Operation : Begin(operation)
  \/ GetFirstNotDone \/ BeginDestroy \/ WaitTimeout

(* A call keeps the types.                                                 *)
LEMMA OwnerCallTypes ==
  ASSUME Inv, OwnerCall
  PROVE  HandlerTypeOK'
<1> USE DEF OwnerFrame, listVars, launchVars, MayCall
<1>1. ASSUME NEW l \in Launches, AddLaunch(l) PROVE HandlerTypeOK'
  <2>1. l \notin ToSet(added)
        BY <1>1 DEF AddLaunch, Inv, ListInv
  <2>2. added' \in Seq(Launches) /\ IsInjective(added')
        BY <1>1, <2>1, OwnerFacts, AppendElements DEF AddLaunch
  <2>3. handle' \in [Launches -> Handles] /\ thread' \in [Launches -> {"none", "running", "ended"}]
        BY <1>1, OwnerFacts DEF AddLaunch, Handles
  <2>4. Joined'
        BY <1>1, OwnerFacts DEF AddLaunch, Joined
  <2> QED BY <1>1, <2>2, <2>3, <2>4, OwnerFacts, OwnerTypes DEF AddLaunch
<1>2. ASSUME owner.joins = {}, owner' \in Owners, owner'.joins = {}, OwnerFrame,
             UNCHANGED <<added, launchVars, completion, handle, changed>>,
             destroyed' \in BOOLEAN
      PROVE  HandlerTypeOK'
  <2>1. Joined'
        BY <1>2, OwnerFacts DEF Joined
  <2> QED BY <1>2, <2>1, OwnerFacts, OwnerTypes
<1>3. ASSUME NEW operation \in Operation, Begin(operation) PROVE HandlerTypeOK'
  <2>1. owner.joins = {} /\ owner' \in Owners /\ owner'.joins = {}
    <3>1. \/ owner' = OwnerAt("check", <<>>, {})
          \/ owner' = OwnerAt(operation, added, {})
          BY <1>3 DEF Begin, Nothing, OwnerAt
    <3>2. owner.joins = {} /\ added \in Seq(Launches) /\ <<>> \in Seq(Launches)
          BY <1>3, OwnerFacts, EmptySeq DEF Begin
    <3>3. CASE owner' = OwnerAt("check", <<>>, {})
          BY <3>2, <3>3 DEF OwnerAt, Owners
    <3>4. CASE owner' = OwnerAt(operation, added, {})
          BY <3>2, <3>4 DEF OwnerAt, Owners
    <3> QED BY <3>1, <3>3, <3>4
  <2> QED BY <1>2, <1>3, <2>1, OwnerFacts DEF Begin
<1>4. CASE GetFirstNotDone
  <2>1. \A i \in DOMAIN added : <<added[i]>> \in Seq(Launches)
    <3>1. \A i \in DOMAIN added : added[i] \in Launches
          BY OwnerFacts, ElementOfSeq, LenProperties
    <3> QED BY <3>1
  <2>2. owner.joins = {} /\ owner' \in Owners /\ owner'.joins = {}
    <3>1. \E i \in DOMAIN added : owner' = OwnerAt("found", <<added[i]>>, {})
          BY <1>4 DEF GetFirstNotDone, Nothing, OwnerAt
    <3>2. owner.joins = {}
          BY <1>4, OwnerFacts DEF GetFirstNotDone
    <3> QED BY <2>1, <3>1, <3>2 DEF OwnerAt, Owners, Operation
  <2> QED BY <1>2, <1>4, <2>2, OwnerFacts DEF GetFirstNotDone
<1>5. CASE BeginDestroy
  <2>1. owner.joins = {} /\ owner' \in Owners /\ owner'.joins = {}
    <3>1. owner' = OwnerAt("destroy", added, {})
          BY <1>5 DEF BeginDestroy, Nothing, OwnerAt
    <3>2. owner.joins = {} /\ added \in Seq(Launches) /\ <<>> \in Seq(Launches)
          BY <1>5, OwnerFacts, EmptySeq DEF BeginDestroy
    <3> QED BY <3>1, <3>2 DEF OwnerAt, Owners, Operation
  <2> QED BY <1>2, <1>5, <2>1 DEF BeginDestroy
<1>6. CASE WaitTimeout
  <2>1. owner.joins = {} /\ owner' \in Owners /\ owner'.joins = {}
    <3>1. owner' = OwnerAt("nothing", <<>>, {})
          BY <1>6 DEF WaitTimeout, Nothing, OwnerAt
    <3>2. owner.joins = {} /\ added \in Seq(Launches) /\ <<>> \in Seq(Launches)
          BY <1>6, OwnerFacts, EmptySeq DEF WaitTimeout
    <3> QED BY <3>1, <3>2 DEF OwnerAt, Owners, Operation
  <2> QED BY <1>2, <1>6, <2>1, OwnerFacts DEF WaitTimeout
<1> QED BY <1>1, <1>3, <1>4, <1>5, <1>6 DEF OwnerCall

(* The steps, by who takes them.                                           *)
LEMMA WhoSteps ==
  HandlerNext <=> \/ OwnerCall \/ OwnerStep
                  \/ \E l \in Launches : LaunchStep(l) \/ ChildEnds(l)
                  \/ TakeCallback \/ \E l \in Launches : CallbackStep(l)
BY DEF HandlerNext, OwnerCall

(* Every step keeps the types.                                             *)
LEMMA TypeStep ==
  ASSUME Inv, [HandlerNext]_handlerVars
  PROVE  HandlerTypeOK'
<1>1. CASE UNCHANGED handlerVars
      BY <1>1 DEF Inv, HandlerTypeOK, handlerVars, listVars, launchVars, callVars
<1> QED BY <1>1, WhoSteps, OwnerCallTypes, OwnerStepTypes, LaunchTypes, CallbackStepTypes

----------------------------------------------------------------------------
(* What a step is to the rest of the invariant.                            *)

(* A launch only reports, or ends.                                         *)
LEMMA LaunchShape ==
  ASSUME Inv, NEW l \in Launches, LaunchStep(l) \/ ChildEnds(l)
  PROVE  /\ UNCHANGED <<setup, owner, listVars, strayed>>
         /\ \/ UNCHANGED <<callback, queue, reported>>
               /\ \/ thread' = thread
                  \/ Free(l) /\ thread' = [thread EXCEPT ![l] = "ended"]
            \/ /\ thread' = thread /\ Free(l) /\ ~Ended(l)
               /\ \E kind \in Kind :
                    /\ reported' = [reported EXCEPT ![l] = Append(@, kind)]
                    /\ \/ /\ setup.dispatched /\ callback' = callback
                          /\ queue' = Append(queue, [launch |-> l, kind |-> kind])
                       \/ /\ ~setup.dispatched /\ queue' = queue
                          /\ callback' = [callback EXCEPT ![l] = [kind |-> kind,
                                                                  at |-> "entering"]]
<1> USE DEF listVars, launchVars, callVars
<1>1. CASE ThreadEnds(l)
      BY <1>1 DEF ThreadEnds
<1>2. CASE ChildEnds(l)
      BY <1>2 DEF ChildEnds
<1>3. CASE \E kind \in Kind : Report(l, kind)
      BY <1>3 DEF Report
<1> QED BY <1>1, <1>2, <1>3 DEF LaunchStep

(* A callback moves on, and may change the state of its launch.            *)
LEMMA CallbackShape ==
  ASSUME Inv, NEW l \in Launches, CallbackStep(l)
  PROVE  /\ UNCHANGED <<setup, owner, added, handle, destroyed, launchVars, queue>>
         /\ callback[l].at # "none" /\ callback[l] # Idle
         /\ \A m \in Launches \ {l} : callback'[m] = callback[m] /\ completion'[m] = completion[m]
         /\ \/ callback'[l] = Idle
            \/ /\ callback[l].at \in {"entering", "reported", "told"}
               /\ callback[l].at = "entering" => ~destroyed
               /\ \E p \in Places : callback'[l] = [kind |-> callback[l].kind, at |-> p]
         /\ completion'[l] = "CallbackFinished" =>
              \/ completion[l] = "CallbackFinished"
              \/ /\ callback[l].at = "told" /\ callback[l].kind \in End
                 /\ callback'[l].at = "finished"
         /\ strayed' \subseteq strayed \cup {l}
         /\ l \in strayed' =>
              \/ l \in strayed
              \/ owner.does = "gone" /\ callback[l].at = "finished"
              \/ /\ l \notin ToSet(added) /\ callback[l].at # "finished"
                 /\ callback[l].at = "entering" => ~destroyed
         /\ callback[l].at = "finished" => completion' = completion
<1>1. /\ callback \in [Launches -> Callbacks] /\ Callbacks = {Idle} \cup [kind : Kind, at : Places]
      /\ completion \in [Launches -> {"Running", "Reported", "CallbackFinished"}]
      BY CallbackTypes, OwnerFacts DEF Inv, Callbacks
<1>2. /\ callback[l].at # "none" => callback[l] # Idle
      /\ \A p \in Places : callback[l].at # "none" =>
           [callback EXCEPT ![l].at = p]
             = [callback EXCEPT ![l] = [kind |-> callback[l].kind, at |-> p]]
      BY CallbackTypes DEF Inv, Idle
<1> USE <1>1 DEF listVars, launchVars, callVars
<1>3. CASE CallOutput(l)
      BY <1>2, <1>3 DEF CallOutput
<1>4. CASE IgnoreCallback(l)
      BY <1>2, <1>4 DEF IgnoreCallback
<1>5. CASE KeepOutput(l)
      BY <1>2, <1>5 DEF KeepOutput, Uses
<1>6. CASE EnterCallback(l)
  <2>1. callback' = [callback EXCEPT ![l] = [kind |-> callback[l].kind, at |-> "reported"]]
        BY <1>2, <1>6 DEF EnterCallback, Places
  <2> QED BY <1>2, <1>6, <2>1 DEF EnterCallback, Uses, Places
<1>7. CASE CallClient(l)
  <2>1. callback' = [callback EXCEPT ![l] = [kind |-> callback[l].kind, at |-> "told"]]
        BY <1>2, <1>7 DEF CallClient, Places
  <2> QED BY <1>2, <1>7, <2>1 DEF CallClient, Places
<1>8. CASE FinishCallback(l)
  <2>1. callback' = [callback EXCEPT ![l] = [kind |-> callback[l].kind, at |-> "finished"]]
        BY <1>2, <1>8 DEF FinishCallback, Places
  <2> QED BY <1>2, <1>8, <2>1 DEF FinishCallback, Uses, Places
<1>9. CASE SignalChange(l)
      BY <1>2, <1>9 DEF SignalChange
<1> QED BY <1>3, <1>4, <1>5, <1>6, <1>7, <1>8, <1>9 DEF CallbackStep

(* A dispatched callback begins when no other one runs.                    *)
LEMMA TakeShape ==
  ASSUME Inv, TakeCallback
  PROVE  /\ UNCHANGED <<setup, owner, listVars, launchVars, strayed>>
         /\ owner.does \in {"nothing", "gone"} /\ 1 \in DOMAIN queue
         /\ queue[1] \in [launch : Launches, kind : Kind]
         /\ callback' = [callback EXCEPT ![queue[1].launch] = [kind |-> queue[1].kind,
                                                               at |-> "entering"]]
         /\ \A l \in Launches : callback[l] = Idle
         /\ \A i \in DOMAIN queue' : /\ i \in Nat /\ i >= 1 /\ i + 1 \in DOMAIN queue
                                     /\ queue'[i] = queue[i + 1]
<1>1. queue \in Seq([launch : Launches, kind : Kind]) /\ queue # <<>> /\ queue' = Tail(queue)
      BY DEF Inv, HandlerTypeOK, TakeCallback
<1> DEFINE Items == [launch : Launches, kind : Kind]
<1>2. /\ Head(queue) \in Items /\ Tail(queue) \in Seq(Items) /\ Len(queue) \in Nat
      /\ Len(Tail(queue)) = Len(queue) - 1
      /\ \A i \in 1 .. Len(Tail(queue)) : Tail(queue)[i] = queue[i + 1]
  <2> HIDE DEF Items
  <2>1. queue \in Seq(Items) /\ queue # <<>>
        BY <1>1 DEF Items
  <2> QED BY <2>1, HeadTailProperties, EmptySeq
<1>3. Head(queue) = queue[1] /\ Len(queue) > 0 /\ DOMAIN queue = 1 .. Len(queue)
      BY <1>1, <1>2
<1>4. DOMAIN Tail(queue) = 1 .. Len(queue) - 1
  <2> HIDE DEF Items
  <2> QED BY <1>2, LenProperties
<1>5. /\ 1 \in DOMAIN queue
      /\ \A i \in DOMAIN queue' : /\ i \in Nat /\ i >= 1 /\ i + 1 \in DOMAIN queue
                                  /\ queue'[i] = queue[i + 1]
      BY <1>1, <1>2, <1>3, <1>4
<1> QED BY <1>2, <1>3, <1>5 DEF TakeCallback

(* What the owner does leaves the reports and the callbacks alone.         *)
LEMMA OwnerShape ==
  ASSUME Inv, OwnerStep \/ OwnerCall
  PROVE  UNCHANGED <<setup, reported, callVars>>
<1> USE DEF listVars, launchVars
<1>1. CASE OwnerStep
      BY <1>1 DEF OwnerStep, Join, Check, Pause, Return, BeginWait, WaitForChange, HandlerGone,
                  TerminateNext, ReapNext, BlockNext, DestroyNext
<1>2. CASE OwnerCall
      BY <1>2 DEF OwnerCall, AddLaunch, Begin, GetFirstNotDone, BeginDestroy, WaitTimeout
<1> QED BY <1>1, <1>2

(* Where an operation goes on, and what it has to join.                    *)
LEMMA VisitShape ==
  ASSUME Inv, NEW l \in Launches,
         TerminateNext(l) \/ ReapNext(l) \/ BlockNext(l) \/ DestroyNext(l)
  PROVE  /\ owner.does \in {"terminate", "linger", "reap", "block", "destroy"}
         /\ owner.joins = {} /\ owner'.joins \in {{}, {l}}
         /\ destroyed' = destroyed
         /\ \/ owner'.does = owner.does
            \/ owner'.does = "fault" /\ owner.does = "block" /\ owner'.joins = {}
<1> DEFINE Shape == \/ owner'.does = owner.does
                    \/ owner'.does = "fault" /\ owner.does = "block" /\ owner'.joins = {}
<1>1. owner \in Owners
      BY OwnerFacts
<1>2. ASSUME NEW way, NEW todo, CloseHandle(l, way, todo)
      PROVE  owner'.joins \in {{}, {l}} /\ owner'.does = owner.does
      BY <1>1, <1>2 DEF CloseHandle, Owners
<1>3. ASSUME PassBy
      PROVE  owner'.joins = owner.joins /\ owner'.does = owner.does
      BY <1>1, <1>3 DEF PassBy, Owners
<1>4. ASSUME owner' = [Nothing EXCEPT !.does = "fault"]
      PROVE  owner'.joins = {} /\ owner'.does = "fault"
      BY <1>4 DEF Nothing
<1>5. CASE TerminateNext(l)
      BY <1>2, <1>3, <1>5 DEF TerminateNext, Visits
<1>6. CASE ReapNext(l)
      BY <1>2, <1>3, <1>6 DEF ReapNext, Visits
<1>7. CASE BlockNext(l)
  <2>1. owner.joins = {} /\ owner.does = "block" /\ destroyed' = destroyed
        BY <1>7 DEF BlockNext, Visits
  <2>2. \/ PassBy \/ CloseHandle(l, "wait", Tail(owner.todo))
        \/ owner' = [Nothing EXCEPT !.does = "fault"]
        BY <1>7 DEF BlockNext
  <2> QED BY <2>1, <2>2, <1>2, <1>3, <1>4
<1>8. CASE DestroyNext(l)
      BY <1>2, <1>3, <1>8 DEF DestroyNext, Visits
<1> QED BY <1>5, <1>6, <1>7, <1>8

(* A step that is none of a loop is over when all launches are joined.     *)
LEMMA OwnerDoes ==
  ASSUME Inv, Join \/ Check \/ Pause \/ Return \/ BeginWait \/ WaitForChange \/ HandlerGone
              \/ OwnerCall
  PROVE  /\ owner'.joins = {} \/ owner' = owner
         /\ destroyed' = (IF owner'.does = "destroy" THEN TRUE ELSE destroyed)
         /\ \/ owner'.does = owner.does /\ destroyed' = destroyed
            \/ /\ owner.does = "nothing" /\ MayCall
               /\ owner'.does \notin {"gone", "nothing"}
            \/ /\ owner.does \notin {"nothing", "destroy", "gone"}
               /\ owner'.does \notin {"destroy", "gone"}
            \/ owner.does = "destroy" /\ owner'.does = "gone" /\ owner.joins = {}
<1>1. owner \in Owners
      BY OwnerFacts
<1> USE DEF listVars, launchVars
<1>2. CASE Join
  <2>1. owner.does = "destroy" => destroyed = TRUE
        BY OwnerFacts DEF Inv, OwnerInv
  <2>2. owner'.does = owner.does /\ owner'.joins = {} /\ destroyed' = destroyed
        BY <1>1, <1>2 DEF Join, Owners
  <2> QED BY <2>1, <2>2
<1>3. CASE Check
  <2>1. \/ owner' = OwnerAt("block", added, {})
        \/ owner' = OwnerAt("pause", <<>>, {})
        \/ owner' = OwnerAt("nothing", <<>>, {})
        BY <1>3 DEF Check, Nothing, OwnerAt
  <2>2. owner'.joins = {} /\ owner'.does \notin {"destroy", "gone"}
        BY <2>1 DEF OwnerAt
  <2> QED BY <1>3, <2>2 DEF Check
<1>4. CASE Pause
      BY <1>4 DEF Pause, Nothing
<1>5. CASE Return
      BY <1>5 DEF Return, Nothing
<1>6. CASE BeginWait
  <2>1. owner'.joins = owner.joins /\ owner'.does = "wait" /\ owner.joins = {}
        BY <1>1, <1>6, OwnerFacts DEF BeginWait, Owners
  <2> QED BY <1>6, <2>1 DEF BeginWait
<1>7. CASE WaitForChange
      BY <1>7 DEF WaitForChange, Nothing
<1>8. CASE HandlerGone
      BY <1>8 DEF HandlerGone, Nothing
<1>9. CASE \E l \in Launches : AddLaunch(l)
      BY <1>9 DEF AddLaunch, MayCall
<1>10. ASSUME NEW operation \in Operation, Begin(operation)
       PROVE  /\ owner'.joins = {} /\ destroyed' = destroyed
              /\ owner.does = "nothing" /\ MayCall
              /\ owner'.does \notin {"gone", "nothing", "destroy"}
  <2>1. \/ owner' = OwnerAt("check", <<>>, {})
        \/ owner' = OwnerAt(operation, added, {})
        BY <1>10 DEF Begin, Nothing, OwnerAt
  <2> QED BY <1>10, <2>1 DEF Begin, MayCall, OwnerAt, Operation
<1>11. CASE GetFirstNotDone
  <2>1. \E i \in DOMAIN added : owner' = OwnerAt("found", <<added[i]>>, {})
        BY <1>11 DEF GetFirstNotDone, Nothing, OwnerAt
  <2>2. owner'.joins = {} /\ owner'.does = "found"
        BY <2>1 DEF OwnerAt
  <2> QED BY <1>11, <2>2 DEF GetFirstNotDone, MayCall
<1>12. CASE BeginDestroy
      BY <1>12 DEF BeginDestroy, Nothing, MayCall
<1>13. CASE WaitTimeout
      BY <1>13 DEF WaitTimeout, Nothing
<1> QED BY <1>2, <1>3, <1>4, <1>5, <1>6, <1>7, <1>8, <1>9, <1>10, <1>11, <1>12, <1>13
        DEF OwnerCall

(* The owner's part of the invariant.                                      *)
LEMMA OwnerInvStep ==
  ASSUME Inv, HandlerNext
  PROVE  OwnerInv'
<1> USE DEF Inv, OwnerInv
<1>1. ASSUME NEW l \in Launches, LaunchStep(l) \/ ChildEnds(l) PROVE OwnerInv'
      BY <1>1, LaunchShape DEF listVars
<1>2. CASE TakeCallback
  <2>1. callback \in [Launches -> Callbacks] /\ queue[1].launch \in Launches
        BY <1>2, TakeShape, CallbackTypes
  <2>2. /\ UNCHANGED <<setup, owner, destroyed>> /\ owner.does \in {"nothing", "gone"}
        /\ \A l \in Launches : callback'[l].at \in {"none", "entering"}
        BY <1>2, <2>1, TakeShape DEF listVars, Idle
  <2> QED BY <2>2
<1>3. ASSUME NEW l \in Launches, CallbackStep(l) PROVE OwnerInv'
  <2>1. ASSUME setup.dispatched, owner.does = "gone"
        PROVE  \A m \in Launches : callback'[m].at \in {"none", "entering"}
    <3>1. /\ callback[l].at = "entering" /\ destroyed
          /\ \A m \in Launches \ {l} : callback'[m] = callback[m]
          BY <1>3, <2>1, CallbackShape
    <3>2. callback'[l] = Idle
          BY <1>3, <3>1, CallbackShape
    <3> QED BY <2>1, <3>1, <3>2 DEF Idle
  <2>2. UNCHANGED <<setup, owner, destroyed>> /\ callback[l] # Idle
        BY <1>3, CallbackShape
  <2> QED BY <2>1, <2>2
<1>4. ASSUME NEW l \in Launches, TerminateNext(l) \/ ReapNext(l) \/ BlockNext(l) \/ DestroyNext(l)
      PROVE  OwnerInv'
  <2>1. UNCHANGED <<setup, callback>>
        BY <1>4, OwnerShape DEF OwnerStep, callVars
  <2> QED BY <1>4, <2>1, VisitShape
<1>5. CASE Join \/ Check \/ Pause \/ Return \/ BeginWait \/ WaitForChange \/ HandlerGone
           \/ OwnerCall
  <2>1. UNCHANGED <<setup, callback>>
        BY <1>5, OwnerShape DEF OwnerStep, callVars
  <2>2. /\ owner'.joins = {} \/ owner' = owner
        /\ destroyed' = (IF owner'.does = "destroy" THEN TRUE ELSE destroyed)
        /\ \/ owner'.does = owner.does /\ destroyed' = destroyed
           \/ /\ owner.does = "nothing" /\ MayCall
              /\ owner'.does \notin {"gone", "nothing"}
           \/ /\ owner.does \notin {"nothing", "destroy", "gone"}
              /\ owner'.does \notin {"destroy", "gone"}
           \/ owner.does = "destroy" /\ owner'.does = "gone" /\ owner.joins = {}
        BY <1>5, OwnerDoes
  <2>3. /\ \A l, m \in owner'.joins : l = m
        /\ owner'.does \notin {"terminate", "linger", "reap", "block", "destroy"}
             => owner'.joins = {}
        BY <2>2
  <2>4. owner'.does \in {"destroy", "gone"} <=> destroyed'
    <3>1. CASE owner'.does = "destroy"
          BY <2>2, <3>1
    <3>2. CASE owner'.does # "destroy"
      <4>1. destroyed' = destroyed
            BY <2>2, <3>2
      <4> QED BY <2>2, <3>2, <4>1
    <3> QED BY <3>1, <3>2
  <2>5. ASSUME setup.dispatched
        PROVE  /\ owner'.does \notin {"nothing", "gone"} => \A l \in Launches : callback[l] = Idle
               /\ owner'.does = "gone" => \A l \in Launches : callback[l].at \in {"none", "entering"}
    <3>1. /\ owner.does \notin {"nothing", "gone"} => \A l \in Launches : callback[l] = Idle
          /\ owner.does = "gone" => \A l \in Launches : callback[l].at \in {"none", "entering"}
          /\ MayCall => \A l \in Launches : callback[l] = Idle
          /\ Idle.at = "none"
          BY <2>5 DEF MayCall, Idle
    <3>2. CASE owner'.does = owner.does
          BY <3>1, <3>2
    <3>3. CASE owner'.does # owner.does
      <4>1. \A l \in Launches : callback[l] = Idle
            BY <2>2, <3>1, <3>3
      <4> QED BY <3>1, <4>1
    <3> QED BY <3>2, <3>3
  <2>6. setup' = setup /\ callback' = callback
        BY <2>1
  <2>7. setup'.dispatched =>
          /\ owner'.does \notin {"nothing", "gone"} => \A l \in Launches : callback'[l] = Idle
          /\ owner'.does = "gone" => \A l \in Launches : callback'[l].at \in {"none", "entering"}
        BY <2>5, <2>6
  <2> QED BY <2>3, <2>4, <2>7
<1> QED BY <1>1, <1>2, <1>3, <1>4, <1>5, WhoSteps DEF OwnerStep

(* A launch that reports has a thread; what it dispatches names it.        *)
LEMMA ReportShape ==
  ASSUME Inv, NEW l \in Launches, NEW kind \in Kind
  PROVE  LET item == [launch |-> l, kind |-> kind]
         IN  /\ DOMAIN queue = 1 .. Len(queue) /\ Len(queue) \in Nat
             /\ DOMAIN Append(queue, item) = 1 .. Len(queue) + 1
             /\ \A i \in 1 .. Len(queue) : Append(queue, item)[i] = queue[i]
             /\ Append(queue, item)[Len(queue) + 1] = item
             /\ Append(reported[l], kind) # <<>> /\ Last(Append(reported[l], kind)) = kind
<1>1. /\ queue \in Seq([launch : Launches, kind : Kind]) /\ reported[l] \in Seq(Kind)
      /\ [launch |-> l, kind |-> kind] \in [launch : Launches, kind : Kind]
      BY DEF Inv, HandlerTypeOK, Reports
<1>2. /\ Append(reported[l], kind) # <<>> /\ Last(Append(reported[l], kind)) = kind
      BY <1>1, AppendElements
<1> DEFINE Items == [launch : Launches, kind : Kind]
           item == [launch |-> l, kind |-> kind]
<1>3. item \in Items /\ queue \in Seq(Items)
      BY <1>1
<1> HIDE DEF Items, item
<1>4. /\ DOMAIN queue = 1 .. Len(queue) /\ Len(queue) \in Nat
      /\ DOMAIN Append(queue, item) = 1 .. Len(queue) + 1
      /\ \A i \in 1 .. Len(queue) : Append(queue, item)[i] = queue[i]
      /\ Append(queue, item)[Len(queue) + 1] = item
      BY <1>3, AppendElements
<1> QED BY <1>2, <1>4 DEF item

(* The threads' part of the invariant: steps of a launch.                  *)
LEMMA ThreadInvLaunch ==
  ASSUME Inv, NEW l \in Launches, LaunchStep(l) \/ ChildEnds(l)
  PROVE  ThreadInv'
<1>1. UNCHANGED <<setup, handle>>
      BY LaunchShape DEF listVars
<1>2. /\ thread \in [Launches -> {"none", "running", "ended"}]
      /\ callback \in [Launches -> Callbacks] /\ reported \in [Launches -> Reports]
      BY OwnerFacts, CallbackTypes DEF Inv, HandlerTypeOK
<1>3. CASE UNCHANGED <<callback, queue, reported>>
  <2>1. CASE thread' = thread
        BY <1>1, <1>3, <2>1 DEF Inv, ThreadInv
  <2>2. CASE Free(l) /\ thread' = [thread EXCEPT ![l] = "ended"]
        BY <1>1, <1>2, <1>3, <2>2 DEF Inv, ThreadInv, Free
  <2> QED BY <1>3, <2>1, <2>2, LaunchShape
<1>4. ASSUME thread' = thread, Free(l), NEW kind \in Kind,
             reported' = [reported EXCEPT ![l] = Append(@, kind)],
             \/ /\ setup.dispatched /\ callback' = callback
                /\ queue' = Append(queue, [launch |-> l, kind |-> kind])
             \/ /\ ~setup.dispatched /\ queue' = queue
                /\ callback' = [callback EXCEPT ![l] = [kind |-> kind, at |-> "entering"]]
      PROVE  ThreadInv'
  <2>1. thread[l] = "running"
        BY <1>4 DEF Free
  <2>2. ~setup.dispatched => queue' = <<>>
        BY <1>4 DEF Inv, ThreadInv
  <2>3. \A m \in Launches : ~setup.dispatched /\ callback'[m] # Idle => thread[m] = "running"
        BY <1>2, <1>4, <2>1 DEF Inv, ThreadInv
  <2>4. ASSUME NEW m \in Launches, thread[m] = "none"
        PROVE  /\ callback'[m] = Idle /\ reported'[m] = <<>>
               /\ \A i \in DOMAIN queue' : queue'[i].launch # m
    <3>1. /\ m # l /\ callback[m] = Idle /\ reported[m] = <<>>
          /\ \A i \in DOMAIN queue : queue[i].launch # m
          BY <2>1, <2>4 DEF Inv, ThreadInv
    <3>2. callback'[m] = Idle /\ reported'[m] = <<>>
          BY <1>2, <1>4, <3>1
    <3>3. CASE queue' = queue
          BY <3>1, <3>2, <3>3
    <3>4. CASE queue' = Append(queue, [launch |-> l, kind |-> kind])
          BY <3>1, <3>2, <3>4, ReportShape
    <3> QED BY <1>4, <3>3, <3>4
  <2> QED BY <1>1, <1>4, <2>2, <2>3, <2>4 DEF Inv, ThreadInv
<1> QED BY <1>3, <1>4, LaunchShape

(* Steps of the callbacks.                                                 *)
LEMMA ThreadInvCallback ==
  ASSUME Inv, TakeCallback \/ \E l \in Launches : CallbackStep(l)
  PROVE  ThreadInv'
<1>1. CASE TakeCallback
  <2>1. callback \in [Launches -> Callbacks] /\ queue[1].launch \in Launches
        BY <1>1, TakeShape, CallbackTypes DEF Inv
  <2>2. setup.dispatched /\ setup' = setup /\ thread[queue[1].launch] # "none"
        BY <1>1, <2>1, TakeShape DEF Inv, ThreadInv
  <2>3. UNCHANGED <<handle, thread, reported>>
        BY <1>1, TakeShape DEF listVars, launchVars
  <2>4. ASSUME NEW m \in Launches, thread[m] = "none"
        PROVE  /\ callback'[m] = Idle /\ \A i \in DOMAIN queue' : queue'[i].launch # m
        BY <1>1, <2>1, <2>2, <2>4, TakeShape DEF Inv, ThreadInv
  <2> QED BY <2>2, <2>3, <2>4 DEF Inv, ThreadInv
<1>2. ASSUME NEW l \in Launches, CallbackStep(l) PROVE ThreadInv'
  <2>1. /\ UNCHANGED <<setup, handle, thread, reported, queue>> /\ callback[l] # Idle
        /\ \A m \in Launches \ {l} : callback'[m] = callback[m]
        BY <1>2, CallbackShape DEF launchVars
  <2> QED BY <2>1 DEF Inv, ThreadInv
<1> QED BY <1>1, <1>2

(* The owner adds a launch, or closes one that is open and in its loop.    *)
LEMMA HandleShape ==
  ASSUME Inv, OwnerStep \/ OwnerCall
  PROVE  /\ \A l \in Launches : completion'[l] = "CallbackFinished" =>
                                  completion[l] = "CallbackFinished"
         /\ \/ \E l \in Launches : AddLaunch(l)
            \/ /\ thread' = thread
               /\ \A l \in Launches :
                    \/ handle'[l] = handle[l]
                    \/ handle[l] = "open" /\ handle'[l] \in {"lingering", "closed"}
<1>1. /\ handle \in [Launches -> Handles]
      /\ completion \in [Launches -> {"Running", "Reported", "CallbackFinished"}]
      BY OwnerFacts
<1> USE DEF listVars, launchVars
<1>2. CASE Join \/ Check \/ Pause \/ Return \/ BeginWait \/ WaitForChange \/ HandlerGone
      BY <1>2 DEF Join, Check, Pause, Return, BeginWait, WaitForChange, HandlerGone
<1>3. ASSUME NEW l \in Launches, TerminateNext(l) \/ ReapNext(l) \/ BlockNext(l)
      PROVE  /\ completion' = completion /\ thread' = thread
             /\ \/ handle' = handle
                \/ handle[l] = "open" /\ \E way, todo : CloseHandle(l, way, todo)
      BY <1>3 DEF TerminateNext, ReapNext, BlockNext
<1>4. ASSUME NEW l \in Launches, DestroyNext(l)
      PROVE  /\ thread' = thread
             /\ \/ handle' = handle /\ completion' = completion
                \/ /\ handle[l] = "open" /\ \E way, todo : CloseHandle(l, way, todo)
                   /\ completion' = [completion EXCEPT ![l] = "Reported"]
      BY <1>4 DEF DestroyNext
<1>5. ASSUME NEW l \in Launches, handle[l] = "open", \E way, todo : CloseHandle(l, way, todo)
      PROVE  \A m \in Launches : \/ handle'[m] = handle[m]
                                 \/ handle[m] = "open" /\ handle'[m] \in {"lingering", "closed"}
      BY <1>1, <1>5 DEF CloseHandle
<1>6. CASE OwnerCall
      BY <1>6 DEF OwnerCall, AddLaunch, Begin, GetFirstNotDone, BeginDestroy, WaitTimeout
<1> QED BY <1>1, <1>2, <1>3, <1>4, <1>5, <1>6 DEF OwnerStep

(* Steps of the owner keep the threads' part and the end's part.           *)
LEMMA ThreadInvOwner ==
  ASSUME Inv, OwnerStep \/ OwnerCall
  PROVE  ThreadInv' /\ EndInv'
<1>1. UNCHANGED <<setup, reported, callback, queue>>
      BY OwnerShape DEF callVars
<1>2. EndInv'
      BY <1>1, HandleShape DEF Inv, EndInv, Ended
<1>3. CASE \E l \in Launches : AddLaunch(l)
  <2>1. PICK l \in Launches : AddLaunch(l)
        BY <1>3
  <2>2. /\ handle[l] = "unmade" /\ thread[l] = "none"
        BY <2>1 DEF AddLaunch, Inv, ThreadInv
  <2>3. /\ handle \in [Launches -> Handles]
        /\ thread \in [Launches -> {"none", "running", "ended"}]
        BY OwnerFacts
  <2>4. \/ handle' = [handle EXCEPT ![l] = "open"] /\ thread' = [thread EXCEPT ![l] = "running"]
        \/ handle' = [handle EXCEPT ![l] = "null"] /\ thread' = thread
        BY <2>1 DEF AddLaunch
  <2>5. \A m \in Launches : thread[m] = "running" => thread'[m] = "running"
        BY <2>3, <2>4
  <2>6. \A m \in Launches : handle'[m] \in {"unmade", "null"} => thread'[m] = "none"
        BY <2>2, <2>3, <2>4 DEF Inv, ThreadInv
  <2>7. \A m \in Launches : thread'[m] = "none" => thread[m] = "none"
        BY <2>3, <2>4
  <2> QED BY <1>1, <1>2, <2>5, <2>6, <2>7 DEF Inv, ThreadInv
<1>4. CASE /\ thread' = thread
           /\ \A l \in Launches :
                \/ handle'[l] = handle[l]
                \/ handle[l] = "open" /\ handle'[l] \in {"lingering", "closed"}
      BY <1>1, <1>2, <1>4 DEF Inv, ThreadInv
<1> QED BY <1>3, <1>4, HandleShape

(* The end's part of the invariant: steps of a launch.                     *)
LEMMA EndInvLaunch ==
  ASSUME Inv, NEW l \in Launches, LaunchStep(l) \/ ChildEnds(l)
  PROVE  EndInv'
<1> DEFINE After(m) == reported'[m] # <<>> /\ Last(reported'[m]) \in End
<1>1. UNCHANGED <<setup, completion>>
      BY LaunchShape DEF listVars
<1>2. callback \in [Launches -> Callbacks] /\ reported \in [Launches -> Reports]
      BY CallbackTypes DEF Inv, HandlerTypeOK
<1>3. CASE UNCHANGED <<callback, queue, reported>>
      BY <1>1, <1>3 DEF Inv, EndInv, Ended
<1>4. ASSUME Free(l), ~Ended(l), NEW kind \in Kind,
             reported' = [reported EXCEPT ![l] = Append(@, kind)],
             \/ /\ setup.dispatched /\ callback' = callback
                /\ queue' = Append(queue, [launch |-> l, kind |-> kind])
             \/ /\ ~setup.dispatched /\ queue' = queue
                /\ callback' = [callback EXCEPT ![l] = [kind |-> kind, at |-> "entering"]]
      PROVE  EndInv'
  <2>1. /\ \A m \in Launches \ {l} : After(m) <=> Ended(m)
        /\ kind \in End => After(l)
        BY <1>2, <1>4, ReportShape DEF Ended
  <2>2. /\ callback[l].kind \notin End /\ completion[l] # "CallbackFinished"
        /\ \A i \in DOMAIN queue : queue[i].kind \in End => queue[i].launch # l
        BY <1>4 DEF Inv, EndInv
  <2>3. \A i \in DOMAIN queue : queue[i].launch \in Launches
    <3>1. queue \in Seq([launch : Launches, kind : Kind])
          BY DEF Inv, HandlerTypeOK
    <3>2. \A i \in DOMAIN queue : queue[i] \in [launch : Launches, kind : Kind]
          BY <3>1, ElementOfSeq, LenProperties
    <3> QED BY <3>2
  <2>4. CASE queue' = queue
    <3>1. /\ queue = <<>> /\ callback' = [callback EXCEPT ![l] = [kind |-> kind, at |-> "entering"]]
          BY <1>4, <2>4, ReportShape DEF Inv, ThreadInv
    <3> QED BY <1>1, <1>2, <2>1, <2>2, <2>4, <3>1 DEF Inv, EndInv, Ended
  <2>5. CASE callback' = callback /\ queue' = Append(queue, [launch |-> l, kind |-> kind])
    <3>1. /\ DOMAIN queue = 1 .. Len(queue) /\ Len(queue) \in Nat
          /\ DOMAIN queue' = 1 .. Len(queue) + 1
          /\ \A i \in 1 .. Len(queue) : queue'[i] = queue[i]
          /\ queue'[Len(queue) + 1] = [launch |-> l, kind |-> kind]
          BY <2>5, ReportShape
    <3>2. ASSUME NEW i \in DOMAIN queue', queue'[i].kind \in End
          PROVE  /\ After(queue'[i].launch)
                 /\ \A j \in DOMAIN queue' : j > i => queue'[j].launch # queue'[i].launch
      <4>1. CASE i = Len(queue) + 1
            BY <2>1, <3>1, <3>2, <4>1
      <4>2. CASE i # Len(queue) + 1
        <5>1. /\ i \in DOMAIN queue /\ queue'[i] = queue[i] /\ queue[i].launch \in Launches \ {l}
              BY <2>2, <2>3, <3>1, <3>2, <4>2
        <5>2. After(queue[i].launch)
              BY <2>1, <3>2, <5>1 DEF Inv, EndInv
        <5>3. ASSUME NEW j \in DOMAIN queue', j > i PROVE queue'[j].launch # queue'[i].launch
              BY <3>1, <3>2, <5>1, <5>3 DEF Inv, EndInv
        <5> QED BY <5>1, <5>2, <5>3
      <4> QED BY <4>1, <4>2
    <3>3. ASSUME NEW m \in Launches,
                 callback'[m].kind \in End \/ completion'[m] = "CallbackFinished"
          PROVE  After(m) /\ \A i \in DOMAIN queue' : queue'[i].launch # m
      <4>1. m # l /\ Ended(m) /\ \A i \in DOMAIN queue : queue[i].launch # m
            BY <1>1, <2>2, <2>5, <3>3 DEF Inv, EndInv
      <4> QED BY <2>1, <3>1, <4>1
    <3> QED BY <1>1, <2>2, <2>5, <3>2, <3>3 DEF Inv, EndInv, Ended
  <2> QED BY <1>4, <2>4, <2>5
<1> QED BY <1>3, <1>4, LaunchShape

(* Steps of the callbacks.                                                 *)
LEMMA EndInvCallback ==
  ASSUME Inv, TakeCallback \/ \E l \in Launches : CallbackStep(l)
  PROVE  EndInv'
<1>1. callback \in [Launches -> Callbacks]
      BY DEF Inv, HandlerTypeOK, Places, Callbacks
<1>2. CASE TakeCallback
  <2> DEFINE h == queue[1].launch
  <2>1. /\ UNCHANGED <<completion, reported>> /\ h \in Launches /\ 1 \in DOMAIN queue
        /\ \A l \in Launches \ {h} : callback'[l] = callback[l]
        /\ callback'[h] = [kind |-> queue[1].kind, at |-> "entering"]
        /\ \A l \in Launches : callback[l] = Idle
        BY <1>1, <1>2, TakeShape DEF listVars, launchVars
  <2>2. \A i \in DOMAIN queue' : /\ i \in Nat /\ i >= 1 /\ i + 1 \in DOMAIN queue
                                 /\ queue'[i] = queue[i + 1]
        BY <1>2, TakeShape
  <2>3. ASSUME NEW i \in DOMAIN queue', queue'[i].kind \in End
        PROVE  /\ reported'[queue'[i].launch] # <<>> /\ Last(reported'[queue'[i].launch]) \in End
               /\ \A j \in DOMAIN queue' : j > i => queue'[j].launch # queue'[i].launch
    <3>1. i + 1 \in DOMAIN queue /\ queue'[i] = queue[i + 1] /\ Ended(queue[i + 1].launch)
          BY <2>2, <2>3 DEF Inv, EndInv
    <3>2. ASSUME NEW j \in DOMAIN queue', j > i PROVE queue'[j].launch # queue'[i].launch
      <4>1. j + 1 \in DOMAIN queue /\ queue'[j] = queue[j + 1] /\ j + 1 > i + 1
            BY <2>1, <2>2, <3>2
      <4> QED BY <2>3, <3>1, <4>1 DEF Inv, EndInv
    <3> QED BY <2>1, <3>1, <3>2 DEF Ended
  <2>4. ASSUME NEW l \in Launches, callback'[l].kind \in End \/ completion'[l] = "CallbackFinished"
        PROVE  /\ reported'[l] # <<>> /\ Last(reported'[l]) \in End
               /\ \A i \in DOMAIN queue' : queue'[i].launch # l
    <3>1. CASE completion[l] = "CallbackFinished"
      <4>1. Ended(l) /\ \A i \in DOMAIN queue : queue[i].launch # l
            BY <3>1 DEF Inv, EndInv
      <4> QED BY <2>1, <2>2, <4>1 DEF Ended
    <3>2. CASE completion[l] # "CallbackFinished"
      <4>1. l = h /\ queue[1].kind \in End
            BY <2>1, <2>4, <3>2 DEF Idle, End
      <4>2. ASSUME NEW i \in DOMAIN queue' PROVE queue'[i].launch # l
        <5>1. i + 1 \in DOMAIN queue /\ queue'[i] = queue[i + 1] /\ i + 1 > 1
              BY <2>2, <4>2
        <5> QED BY <2>1, <4>1, <5>1 DEF Inv, EndInv
      <4> QED BY <2>1, <4>1, <4>2 DEF Inv, EndInv, Ended
    <3> QED BY <3>1, <3>2
  <2>5. ASSUME NEW l \in Launches, completion'[l] = "CallbackFinished"
        PROVE  callback'[l].at \in {"none", "finished"}
    <3>1. l # h
          BY <2>1, <2>5 DEF Inv, EndInv
    <3> QED BY <2>1, <3>1 DEF Idle
  <2> QED BY <2>3, <2>4, <2>5 DEF EndInv, Ended
<1>3. ASSUME NEW l \in Launches, CallbackStep(l) PROVE EndInv'
  <2>1. /\ UNCHANGED <<reported, queue>>
        /\ \A m \in Launches \ {l} : callback'[m] = callback[m] /\ completion'[m] = completion[m]
        BY <1>3, CallbackShape DEF launchVars
  <2>2. callback'[l].kind \in End => callback[l].kind \in End
    <3>1. \/ callback'[l] = Idle
          \/ \E p \in Places : callback'[l] = [kind |-> callback[l].kind, at |-> p]
          BY <1>3, CallbackShape
    <3>2. CASE callback'[l] = Idle
          BY <3>2 DEF Idle, End
    <3>3. CASE \E p \in Places : callback'[l] = [kind |-> callback[l].kind, at |-> p]
          BY <3>3
    <3> QED BY <3>1, <3>2, <3>3
  <2>3. completion'[l] = "CallbackFinished" =>
          completion[l] = "CallbackFinished" \/ callback[l].kind \in End
        BY <1>3, CallbackShape
  <2>4. completion'[l] = "CallbackFinished" => callback'[l].at \in {"none", "finished"}
    <3>1. CASE completion[l] = "CallbackFinished"
      <4>1. callback[l].at = "finished"
            BY <1>3, <3>1, CallbackShape DEF Inv, EndInv
      <4>2. callback'[l] = Idle
            BY <1>3, <4>1, CallbackShape
      <4> QED BY <4>2 DEF Idle
    <3>2. CASE completion[l] # "CallbackFinished"
          BY <1>3, <3>2, CallbackShape
    <3> QED BY <3>1, <3>2
  <2> QED BY <2>1, <2>2, <2>3, <2>4 DEF Inv, EndInv, Ended
<1> QED BY <1>2, <1>3

(* The list's part of the invariant, when the list stays.                  *)
LEMMA ListKept ==
  ASSUME Inv, added' = added, owner.does # "gone", owner'.does # "gone",
         owner'.does = "destroy" => owner.does = "destroy" /\ owner'.todo = owner.todo,
         \A l \in Launches :
            /\ \/ handle'[l] = handle[l]
               \/ handle[l] = "open" /\ handle'[l] \in {"lingering", "closed"}
            /\ completion[l] = "CallbackFinished" => completion'[l] = "CallbackFinished"
  PROVE  ListInv'
<1>1. \A l \in ToSet(added) : l \in Launches
  <2>1. \A i \in DOMAIN added : added[i] \in Launches
        BY OwnerFacts, ElementOfSeq, LenProperties
  <2> QED BY <2>1 DEF ToSet
<1>2. \A l \in ToSet(added') : handle'[l] # "unmade"
      BY <1>1 DEF Inv, ListInv
<1>3. ASSUME NEW l \in Launches
      PROVE  /\ handle'[l] = "open" => l \in ToSet(added')
             /\ \/ handle'[l] = "unmade" \/ l \in ToSet(added')
                \/ completion'[l] = "CallbackFinished"
             /\ owner'.does = "destroy" /\ handle'[l] = "open" => l \in ToSet(owner'.todo)
      BY <1>3 DEF Inv, ListInv
<1> QED BY <1>2, <1>3 DEF ListInv

(* A launch is removed when it is done and closed.                         *)
LEMMA ListReaped ==
  ASSUME Inv, NEW l \in Launches, ReapNext(l)
  PROVE  ListInv'
<1>1. /\ owner.does = "reap" /\ completion' = completion
      /\ owner'.does \in {"reap", "fault"}
      BY VisitShape DEF ReapNext, Visits
<1>2. CASE completion[l] # "CallbackFinished" \/ handle[l] = "open"
  <2>1. /\ added' = added
        /\ handle' = handle \/ (handle[l] = "open" /\ handle' = [handle EXCEPT ![l] = "closed"])
        BY <1>2 DEF ReapNext, CloseHandle
  <2>2. \A m \in Launches : \/ handle'[m] = handle[m]
                            \/ handle[m] = "open" /\ handle'[m] \in {"lingering", "closed"}
        BY <2>1, OwnerFacts
  <2> QED BY <1>1, <2>1, <2>2, ListKept
<1>3. CASE completion[l] = "CallbackFinished" /\ handle[l] # "open"
  <2>1. RemoveLaunch(l) /\ handle' = handle
        BY <1>3 DEF ReapNext
  <2>2. PICK i \in DOMAIN added : added[i] = l /\ added' = RemoveAt(added, i)
        BY <2>1 DEF RemoveLaunch
  <2>3. ToSet(added') \subseteq ToSet(added) /\ ToSet(added) \subseteq {l} \cup ToSet(added')
        BY <2>2, OwnerFacts, RemoveAtElements
  <2> QED BY <1>1, <1>3, <2>1, <2>3 DEF Inv, ListInv
<1> QED BY <1>2, <1>3

(* The destructor closes the launches one after the other.                 *)
LEMMA ListDestroyed ==
  ASSUME Inv, NEW l \in Launches, DestroyNext(l)
  PROVE  ListInv'
<1>1. /\ owner.does = "destroy" /\ l = Head(owner.todo) /\ owner.todo # <<>>
      /\ added' = added
      BY DEF DestroyNext, Visits
<1>2. owner'.does = "destroy" /\ owner'.todo = Tail(owner.todo)
  <2>1. owner \in Owners
        BY OwnerFacts
  <2>2. PassBy \/ CloseHandle(l, "none", Tail(owner.todo))
        BY DEF DestroyNext
  <2>3. CASE PassBy
        BY <1>1, <2>1, <2>3 DEF PassBy, Owners
  <2>4. CASE CloseHandle(l, "none", Tail(owner.todo))
        BY <1>1, <2>1, <2>4 DEF CloseHandle, Owners
  <2> QED BY <2>2, <2>3, <2>4
<1>3. ToSet(owner.todo) \subseteq {l} \cup ToSet(owner'.todo)
      BY <1>1, <1>2, OwnerFacts, TailElements
<1>4. /\ handle'[l] # "open"
      /\ handle[l] # "unmade" => handle'[l] # "unmade"
      /\ handle[l] # "open" => completion' = completion /\ handle' = handle
      /\ \A m \in Launches \ {l} : handle'[m] = handle[m] /\ completion'[m] = completion[m]
  <2>1. CASE handle[l] = "open"
    <3>1. /\ handle' = [handle EXCEPT ![l] = "closed"]
          /\ completion' = [completion EXCEPT ![l] = "Reported"]
          BY <2>1 DEF DestroyNext, CloseHandle
    <3> QED BY <2>1, <3>1, OwnerFacts
  <2>2. CASE handle[l] # "open"
        BY <2>2 DEF DestroyNext
  <2> QED BY <2>1, <2>2
<1>5. l \in ToSet(added) \/ handle[l] # "open"
      BY <1>1 DEF Inv, ListInv
<1>6. \A m \in ToSet(added) : m \in Launches
  <2>1. \A i \in DOMAIN added : added[i] \in Launches
        BY OwnerFacts, ElementOfSeq, LenProperties
  <2> QED BY <2>1 DEF ToSet
<1>7. ASSUME NEW m \in Launches
      PROVE  /\ handle'[m] = "open" => m \in ToSet(added') /\ m \in ToSet(owner'.todo)
             /\ \/ handle'[m] = "unmade" \/ m \in ToSet(added')
                \/ completion'[m] = "CallbackFinished"
             /\ m \in ToSet(added') => handle'[m] # "unmade"
  <2>1. CASE m = l
        BY <1>1, <1>4, <1>5, <2>1 DEF Inv, ListInv
  <2>2. CASE m # l
        BY <1>1, <1>3, <1>4, <2>2 DEF Inv, ListInv
  <2> QED BY <2>1, <2>2
<1> QED BY <1>1, <1>2, <1>6, <1>7 DEF ListInv

(* The list's part of the invariant.                                       *)
LEMMA ListInvStep ==
  ASSUME Inv, HandlerNext
  PROVE  ListInv'
<1>1. ASSUME UNCHANGED <<owner, added, handle>>,
             \A l \in Launches : completion[l] = "CallbackFinished" =>
                                   completion'[l] = "CallbackFinished"
      PROVE  ListInv'
      BY <1>1 DEF Inv, ListInv
<1>2. ASSUME NEW l \in Launches, LaunchStep(l) \/ ChildEnds(l) PROVE ListInv'
      BY <1>1, <1>2, LaunchShape DEF listVars
<1>3. CASE TakeCallback
      BY <1>1, <1>3, TakeShape DEF listVars
<1>4. ASSUME NEW l \in Launches, CallbackStep(l) PROVE ListInv'
  <2>1. /\ UNCHANGED <<owner, added, handle>>
        /\ \A m \in Launches \ {l} : completion'[m] = completion[m]
        /\ callback[l].at # "none"
        /\ callback[l].at = "finished" => completion' = completion
        BY <1>4, CallbackShape
  <2>2. completion[l] = "CallbackFinished" => completion'[l] = "CallbackFinished"
        BY <2>1 DEF Inv, EndInv
  <2> QED BY <1>1, <2>1, <2>2
<1> USE DEF listVars, launchVars
<1>5. CASE \/ Join \/ Check \/ Pause \/ Return \/ BeginWait \/ WaitForChange \/ WaitTimeout
           \/ GetFirstNotDone \/ \E operation \in Operation : Begin(operation)
  <2>1. UNCHANGED <<added, handle, completion>>
        BY <1>5 DEF Join, Check, Pause, Return, BeginWait, WaitForChange, WaitTimeout,
                    GetFirstNotDone, Begin
  <2>2. owner \in Owners
        BY OwnerFacts
  <2>3. /\ owner.does # "gone" /\ owner'.does # "gone"
        /\ owner'.does = "destroy" => owner.does = "destroy" /\ owner'.todo = owner.todo
    <3>1. CASE Join
      <4>1. owner'.does = owner.does /\ owner'.todo = owner.todo /\ owner.joins # {}
            BY <2>2, <3>1 DEF Join, Owners
      <4> QED BY <4>1, OwnerFacts
    <3>2. CASE Check
      <4>1. \/ owner' = OwnerAt("block", added, {})
            \/ owner' = OwnerAt("pause", <<>>, {})
            \/ owner' = OwnerAt("nothing", <<>>, {})
            BY <3>2 DEF Check, Nothing, OwnerAt
      <4> QED BY <3>2, <4>1 DEF Check, OwnerAt
    <3>3. CASE Pause \/ Return \/ WaitForChange \/ WaitTimeout
          BY <3>3 DEF Pause, Return, WaitForChange, WaitTimeout, Nothing
    <3>4. CASE BeginWait
          BY <2>2, <3>4 DEF BeginWait, Owners
    <3>5. CASE GetFirstNotDone
          BY <3>5 DEF GetFirstNotDone, MayCall, Nothing
    <3>6. ASSUME NEW operation \in Operation, Begin(operation)
          PROVE  owner.does = "nothing" /\ owner'.does \notin {"gone", "destroy"}
      <4>1. owner'.does = IF operation = "block" THEN "check" ELSE operation
            BY <3>6 DEF Begin, Nothing
      <4> QED BY <3>6, <4>1 DEF Begin, MayCall, Operation
    <3> QED BY <1>5, <3>1, <3>2, <3>3, <3>4, <3>5, <3>6
  <2> QED BY <2>1, <2>3, ListKept
<1>6. ASSUME NEW l \in Launches, TerminateNext(l) \/ BlockNext(l) PROVE ListInv'
  <2>1. /\ owner.does \in {"terminate", "linger", "block"}
        /\ owner'.does \in {"terminate", "linger", "block", "fault"}
    <3>1. owner.does \in {"terminate", "linger", "block"}
          BY <1>6 DEF TerminateNext, BlockNext, Visits
    <3> QED BY <1>6, <3>1, VisitShape
  <2>2. added' = added /\ completion' = completion
        BY <1>6 DEF TerminateNext, BlockNext
  <2>3. ~(\E m \in Launches : AddLaunch(m))
        BY <2>1 DEF AddLaunch, MayCall
  <2>4. OwnerStep
        BY <1>6 DEF OwnerStep
  <2> QED BY <2>1, <2>2, <2>3, <2>4, HandleShape, ListKept
<1>7. CASE HandlerGone
  <2>1. /\ owner.does = "destroy" /\ owner.todo = <<>>
        /\ owner' = OwnerAt("gone", <<>>, {}) /\ added' = <<>> /\ handle' = handle
        BY <1>7 DEF HandlerGone, Nothing, OwnerAt
  <2>2. ToSet(owner.todo) = {} /\ ToSet(added') = {}
        BY <2>1 DEF ToSet
  <2> QED BY <2>1, <2>2 DEF Inv, ListInv, OwnerAt
<1>8. ASSUME NEW l \in Launches, AddLaunch(l) PROVE ListInv'
  <2>1. /\ owner' = owner /\ owner.does = "nothing" /\ completion' = completion
        /\ added' = Append(added, l)
        /\ \E h \in {"open", "null"} : handle' = [handle EXCEPT ![l] = h]
        BY <1>8 DEF AddLaunch, MayCall
  <2>2. ToSet(added') = ToSet(added) \cup {l}
        BY <2>1, OwnerFacts, AppendElements
  <2>3. handle'[l] # "unmade" /\ \A m \in Launches \ {l} : handle'[m] = handle[m]
        BY <2>1, OwnerFacts
  <2>4. \A m \in ToSet(added) : m \in Launches
    <3>1. \A i \in DOMAIN added : added[i] \in Launches
          BY OwnerFacts, ElementOfSeq, LenProperties
    <3> QED BY <3>1 DEF ToSet
  <2> QED BY <2>1, <2>2, <2>3, <2>4 DEF Inv, ListInv
<1>9. CASE BeginDestroy
  <2>1. /\ owner.does = "nothing" /\ owner' = OwnerAt("destroy", added, {})
        /\ UNCHANGED <<added, handle, completion>>
        BY <1>9 DEF BeginDestroy, MayCall, Nothing, OwnerAt
  <2> QED BY <2>1 DEF Inv, ListInv, OwnerAt
<1> QED BY <1>2, <1>3, <1>4, <1>5, <1>6, <1>7, <1>8, <1>9, ListReaped, ListDestroyed
        DEF HandlerNext, OwnerStep

(* A callback uses what is there, or its launch lingers on its own thread. *)
LEMMA StrayStep ==
  ASSUME Inv, HandlerNext
  PROVE  CallbacksFindTheirLaunch'
<1>1. ASSUME UNCHANGED <<setup, strayed>>,
             \A l \in Launches : handle[l] = "lingering" => handle'[l] = "lingering"
      PROVE  CallbacksFindTheirLaunch'
      BY <1>1 DEF Inv, CallbacksFindTheirLaunch
<1>2. ASSUME NEW l \in Launches, LaunchStep(l) \/ ChildEnds(l) PROVE CallbacksFindTheirLaunch'
      BY <1>1, <1>2, LaunchShape DEF listVars
<1>3. CASE TakeCallback
      BY <1>1, <1>3, TakeShape DEF listVars
<1>4. CASE OwnerStep \/ OwnerCall
  <2>1. UNCHANGED <<setup, strayed>>
        BY <1>4, OwnerShape DEF callVars
  <2>2. ASSUME NEW l \in Launches, AddLaunch(l), NEW m \in Launches, handle[m] = "lingering"
        PROVE  handle'[m] = "lingering"
        BY <2>2, OwnerFacts DEF AddLaunch
  <2>3. \A l \in Launches : handle[l] = "lingering" => handle'[l] = "lingering"
        BY <1>4, <2>2, HandleShape
  <2> QED BY <1>1, <2>1, <2>3
<1>5. ASSUME NEW l \in Launches, CallbackStep(l) PROVE CallbacksFindTheirLaunch'
  <2>1. /\ UNCHANGED <<setup, handle>> /\ strayed' \subseteq strayed \cup {l}
        /\ callback[l] # Idle /\ callback[l].at # "none"
        BY <1>5, CallbackShape
  <2>2. ASSUME owner.does = "gone", callback[l].at # "entering"
        PROVE  handle[l] = "lingering" /\ ~setup.dispatched
    <3>1. ~setup.dispatched
          BY <2>1, <2>2 DEF Inv, OwnerInv
    <3>2. thread[l] = "running" /\ owner.joins = {}
          BY <2>1, <2>2, <3>1 DEF Inv, ThreadInv, OwnerInv
    <3>3. handle[l] \notin {"unmade", "null", "open", "closed"}
          BY <2>2, <3>2, OwnerFacts DEF Inv, ThreadInv, ListInv, Joined
    <3> QED BY <3>1, <3>3, OwnerFacts DEF Handles
  <2>3. ASSUME owner.does # "gone", l \notin ToSet(added), callback[l].at # "finished"
        PROVE  FALSE
    <3>1. handle[l] = "unmade" \/ completion[l] = "CallbackFinished"
          BY <2>3 DEF Inv, ListInv
    <3>2. handle[l] # "unmade"
          BY <2>1 DEF Inv, ThreadInv
    <3> QED BY <2>1, <2>3, <3>1, <3>2 DEF Inv, EndInv
  <2>4. l \in strayed' => l \in strayed \/ (handle[l] = "lingering" /\ ~setup.dispatched)
    <3>1. owner.does = "gone" => destroyed
          BY DEF Inv, OwnerInv
    <3> QED BY <1>5, <2>2, <2>3, <3>1, CallbackShape
  <2> QED BY <2>1, <2>4 DEF Inv, CallbacksFindTheirLaunch
<1> QED BY <1>2, <1>3, <1>4, <1>5, WhoSteps

(* Every step keeps the invariant.                                         *)
LEMMA InvStep == Inv /\ [HandlerNext]_handlerVars => Inv'
<1> SUFFICES ASSUME Inv, [HandlerNext]_handlerVars
             PROVE  Inv'
    OBVIOUS
<1>1. CASE UNCHANGED handlerVars
      BY <1>1 DEF Inv, HandlerTypeOK, OwnerInv, ThreadInv, EndInv, ListInv, Ended,
                  CallbacksFindTheirLaunch, handlerVars, listVars, launchVars, callVars
<1>2. CASE HandlerNext
  <2>1. HandlerTypeOK' /\ OwnerInv' /\ ListInv' /\ CallbacksFindTheirLaunch'
        BY <1>2, TypeStep, OwnerInvStep, ListInvStep, StrayStep
  <2>2. ThreadInv' /\ EndInv'
        BY <1>2, WhoSteps, ThreadInvLaunch, ThreadInvCallback, ThreadInvOwner, EndInvLaunch,
           EndInvCallback
  <2> QED BY <2>1, <2>2 DEF Inv
<1> QED BY <1>1, <1>2

----------------------------------------------------------------------------
(* What is told to the clients.                                            *)

Items == [launch : Launches, kind : Kind]

(* The items of l in the queue q are the reports r of l after the first n, *)
(* in that order.                                                          *)
Lined(q, r, l, n) ==
  \E at \in [n + 1 .. Len(r) -> DOMAIN q] :
     /\ \A i, j \in n + 1 .. Len(r) : i < j => at[i] < at[j]
     /\ \A i \in n + 1 .. Len(r) : q[at[i]].launch = l /\ q[at[i]].kind = r[i]
     /\ \A p \in DOMAIN q : q[p].launch = l => \E i \in n + 1 .. Len(r) : at[i] = p

(* A report of another launch is dispatched, or one of l;                  *)
LEMMA LinedOther ==
  ASSUME NEW q \in Seq(Items), NEW r \in Seq(Kind), NEW l, NEW n \in Nat,
         NEW item \in Items, item.launch # l, Lined(q, r, l, n)
  PROVE  Lined(Append(q, item), r, l, n)
<1> DEFINE b == Append(q, item)
<1>1. /\ DOMAIN q = 1 .. Len(q) /\ Len(q) \in Nat /\ DOMAIN b = 1 .. Len(q) + 1
      /\ \A p \in 1 .. Len(q) : b[p] = q[p]
      /\ b[Len(q) + 1] = item
      BY AppendElements
<1> HIDE DEF b
<1>2. PICK at \in [n + 1 .. Len(r) -> DOMAIN q] :
         /\ \A i, j \in n + 1 .. Len(r) : i < j => at[i] < at[j]
         /\ \A i \in n + 1 .. Len(r) : q[at[i]].launch = l /\ q[at[i]].kind = r[i]
         /\ \A p \in DOMAIN q : q[p].launch = l => \E i \in n + 1 .. Len(r) : at[i] = p
      BY DEF Lined
<1>3. at \in [n + 1 .. Len(r) -> DOMAIN b]
      BY <1>1, <1>2
<1>4. \A i \in n + 1 .. Len(r) : b[at[i]].launch = l /\ b[at[i]].kind = r[i]
      BY <1>1, <1>2
<1>5. \A p \in DOMAIN b : b[p].launch = l => \E i \in n + 1 .. Len(r) : at[i] = p
      BY <1>1, <1>2
<1>6. Lined(b, r, l, n)
      BY <1>2, <1>3, <1>4, <1>5 DEF Lined
<1> QED BY <1>6 DEF b

LEMMA LinedReport ==
  ASSUME NEW q \in Seq(Items), NEW r \in Seq(Kind), NEW l \in Launches, NEW n \in Nat,
         n <= Len(r), NEW k \in Kind, Lined(q, r, l, n)
  PROVE  Lined(Append(q, [launch |-> l, kind |-> k]), Append(r, k), l, n)
<1> DEFINE item == [launch |-> l, kind |-> k]
           b == Append(q, item)
           s == Append(r, k)
<1>1. item \in Items /\ item.launch = l /\ item.kind = k
      BY DEF Items
<1> HIDE DEF item
<1>2. /\ DOMAIN q = 1 .. Len(q) /\ Len(q) \in Nat /\ DOMAIN b = 1 .. Len(q) + 1
      /\ \A p \in 1 .. Len(q) : b[p] = q[p]
      /\ b[Len(q) + 1] = item
      BY <1>1, AppendElements
<1>3. /\ Len(r) \in Nat /\ Len(s) = Len(r) + 1 /\ s[Len(r) + 1] = k
      /\ \A i \in 1 .. Len(r) : s[i] = r[i]
      BY AppendProperties, LenProperties
<1> HIDE DEF b, s
<1>4. PICK at \in [n + 1 .. Len(r) -> DOMAIN q] :
         /\ \A i, j \in n + 1 .. Len(r) : i < j => at[i] < at[j]
         /\ \A i \in n + 1 .. Len(r) : q[at[i]].launch = l /\ q[at[i]].kind = r[i]
         /\ \A p \in DOMAIN q : q[p].launch = l => \E i \in n + 1 .. Len(r) : at[i] = p
      BY DEF Lined
<1> DEFINE new == [i \in n + 1 .. Len(s) |-> IF i <= Len(r) THEN at[i] ELSE Len(q) + 1]
<1>5. \A i \in n + 1 .. Len(s) : \/ i \in n + 1 .. Len(r) /\ new[i] = at[i] /\ at[i] \in 1 .. Len(q)
                                 \/ i = Len(r) + 1 /\ new[i] = Len(q) + 1
      BY <1>2, <1>3, <1>4
<1>6. new \in [n + 1 .. Len(s) -> DOMAIN b]
      BY <1>2, <1>3, <1>4
<1>7. n + 1 .. Len(r) \subseteq n + 1 .. Len(s) /\ Len(r) + 1 \in n + 1 .. Len(s)
      BY <1>3
<1> HIDE DEF new
<1>8. \A i, j \in n + 1 .. Len(s) : i < j => new[i] < new[j]
      BY <1>2, <1>3, <1>4, <1>5
<1>9. \A i \in n + 1 .. Len(s) : b[new[i]].launch = l /\ b[new[i]].kind = s[i]
      BY <1>1, <1>2, <1>3, <1>4, <1>5
<1>10. ASSUME NEW p \in DOMAIN b, b[p].launch = l PROVE \E i \in n + 1 .. Len(s) : new[i] = p
  <2>1. CASE p = Len(q) + 1
    <3>1. new[Len(r) + 1] = Len(q) + 1
          BY <1>3, <1>5, <1>7
    <3> QED BY <2>1, <3>1, <1>7
  <2>2. CASE p # Len(q) + 1
    <3>1. p \in DOMAIN q /\ q[p].launch = l
          BY <1>2, <1>10, <2>2
    <3>2. PICK i \in n + 1 .. Len(r) : at[i] = p
          BY <1>4, <3>1
    <3>3. new[i] = p
          BY <1>3, <1>5, <1>7, <3>2
    <3> QED BY <1>7, <3>3
  <2> QED BY <2>1, <2>2
<1>11. Lined(b, s, l, n)
      BY <1>6, <1>8, <1>9, <1>10 DEF Lined
<1> QED BY <1>11 DEF b, s, item

(* the first of the queue is taken, which is of another launch, or the     *)
(* next report of l.                                                       *)
LEMMA LinedTail ==
  ASSUME NEW q \in Seq(Items), NEW r \in Seq(Kind), NEW l, NEW n \in Nat,
         q # <<>>, Lined(q, r, l, n)
  PROVE  /\ q[1].launch # l => Lined(Tail(q), r, l, n)
         /\ q[1].launch = l => /\ n < Len(r) /\ r[n + 1] = q[1].kind
                               /\ Lined(Tail(q), r, l, n + 1)
<1> DEFINE b == Tail(q)
<1>1. /\ DOMAIN q = 1 .. Len(q) /\ Len(q) \in Nat /\ Len(q) > 0 /\ DOMAIN b = 1 .. Len(q) - 1
      /\ \A p \in 1 .. Len(q) - 1 : b[p] = q[p + 1]
  <2>1. /\ b \in Seq(Items) /\ Len(q) \in Nat /\ Len(q) > 0 /\ Len(b) = Len(q) - 1
        /\ \A p \in 1 .. Len(b) : b[p] = q[p + 1]
        BY HeadTailProperties, EmptySeq
  <2> HIDE DEF b
  <2> QED BY <2>1, LenProperties
<1> HIDE DEF b
<1>2. Len(r) \in Nat
      BY LenProperties
<1>3. PICK at \in [n + 1 .. Len(r) -> DOMAIN q] :
         /\ \A i, j \in n + 1 .. Len(r) : i < j => at[i] < at[j]
         /\ \A i \in n + 1 .. Len(r) : q[at[i]].launch = l /\ q[at[i]].kind = r[i]
         /\ \A p \in DOMAIN q : q[p].launch = l => \E i \in n + 1 .. Len(r) : at[i] = p
      BY DEF Lined
<1>4. \A i \in n + 1 .. Len(r) : at[i] \in 1 .. Len(q)
      BY <1>1, <1>3
<1>5. ASSUME NEW m \in {n, n + 1}, \A i \in m + 1 .. Len(r) : at[i] # 1,
             m = n \/ (m = n + 1 /\ m \in n + 1 .. Len(r) /\ at[m] = 1)
      PROVE  Lined(b, r, l, m)
  <2> DEFINE new == [i \in m + 1 .. Len(r) |-> at[i] - 1]
  <2>1. m + 1 .. Len(r) \subseteq n + 1 .. Len(r)
        BY <1>2, <1>5
  <2>2. \A i \in m + 1 .. Len(r) : new[i] = at[i] - 1 /\ at[i] - 1 \in 1 .. Len(q) - 1
        BY <1>1, <1>4, <1>5, <2>1
  <2>3. new \in [m + 1 .. Len(r) -> DOMAIN b]
        BY <1>1, <2>2
  <2> HIDE DEF new
  <2>4. \A i, j \in m + 1 .. Len(r) : i < j => new[i] < new[j]
        BY <1>3, <1>4, <2>1, <2>2
  <2>5. ASSUME NEW i \in m + 1 .. Len(r) PROVE b[new[i]].launch = l /\ b[new[i]].kind = r[i]
    <3>1. b[new[i]] = q[at[i]]
          BY <1>1, <1>4, <2>1, <2>2
    <3> QED BY <1>3, <2>1, <3>1
  <2>6. ASSUME NEW p \in DOMAIN b, b[p].launch = l PROVE \E i \in m + 1 .. Len(r) : new[i] = p
    <3>1. p + 1 \in DOMAIN q /\ q[p + 1].launch = l /\ p + 1 # 1 /\ p \in Nat
          BY <1>1, <2>6
    <3>2. PICK i \in n + 1 .. Len(r) : at[i] = p + 1
          BY <1>3, <3>1
    <3>3. i \in m + 1 .. Len(r)
      <4>1. CASE m = n
            BY <4>1
      <4>2. CASE m # n
        <5>1. m = n + 1 /\ at[m] = 1
              BY <1>5, <4>2
        <5>2. i # m
              BY <3>1, <3>2, <5>1
        <5> QED BY <5>1, <5>2, <1>2
      <4> QED BY <4>1, <4>2
    <3> QED BY <2>2, <3>1, <3>2, <3>3
  <2> QED BY <2>3, <2>4, <2>5, <2>6 DEF Lined
<1>6. CASE q[1].launch # l
  <2>1. \A i \in n + 1 .. Len(r) : at[i] # 1
        BY <1>3, <1>6
  <2>2. Lined(b, r, l, n)
        BY <1>5, <2>1
  <2> QED BY <1>6, <2>2 DEF b
<1>7. CASE q[1].launch = l
  <2>1. PICK i \in n + 1 .. Len(r) : at[i] = 1
        BY <1>1, <1>3, <1>7
  <2>2. n + 1 \in n + 1 .. Len(r) /\ i = n + 1
    <3>1. n + 1 \in n + 1 .. Len(r)
          BY <1>2, <2>1
    <3>2. ~(n + 1 < i)
          BY <1>3, <1>4, <2>1, <3>1
    <3> QED BY <3>1, <3>2, <2>1
  <2>3. n < Len(r) /\ r[n + 1] = q[1].kind
        BY <1>2, <1>3, <2>1, <2>2
  <2>4. \A j \in (n + 1) + 1 .. Len(r) : at[j] # 1
    <3> SUFFICES ASSUME NEW j \in (n + 1) + 1 .. Len(r) PROVE at[j] # 1
          OBVIOUS
    <3>1. j \in n + 1 .. Len(r) /\ n + 1 < j
          BY <1>2
    <3>2. at[n + 1] < at[j]
          BY <1>3, <2>2, <3>1
    <3> QED BY <2>1, <2>2, <3>2
  <2>5. Lined(b, r, l, n + 1)
        BY <1>5, <2>1, <2>2, <2>4
  <2> QED BY <1>7, <2>3, <2>5 DEF b
<1> QED BY <1>6, <1>7

(* With nothing of l in the queue, all its reports were taken.             *)
LEMMA LinedNone ==
  ASSUME NEW q, NEW r \in Seq(Kind), NEW l, NEW n \in Nat, n <= Len(r),
         \A p \in DOMAIN q : q[p].launch # l
  PROVE  Lined(q, r, l, n) <=> n = Len(r)
<1>1. Len(r) \in Nat
      BY LenProperties
<1>2. ASSUME Lined(q, r, l, n), n # Len(r) PROVE FALSE
  <2>1. n + 1 \in n + 1 .. Len(r)
        BY <1>1, <1>2
  <2> QED BY <1>2, <2>1 DEF Lined
<1>3. ASSUME n = Len(r) PROVE Lined(q, r, l, n)
  <2>1. n + 1 .. Len(r) = {}
        BY <1>1, <1>3
  <2>2. [i \in {} |-> 0] \in [{} -> DOMAIN q]
        OBVIOUS
  <2> QED BY <2>1, <2>2 DEF Lined
<1> QED BY <1>2, <1>3

(* How many reports of l have been passed on, kept to be delivered before  *)
(* the exit, or are in the callback that runs.                             *)
Ahead(l) == IF completion[l] = "Running" THEN Len(kept[l]) ELSE 0
InHand(l) == IF callback[l].at \in {"entering", "reported"} THEN 1 ELSE 0
Taken(l) == Len(heard[l]) + Ahead(l) + InHand(l)

(* Before the handler is destroyed: what the client has heard, what is     *)
(* kept for it, what a callback is about to tell and what waits in the     *)
(* queue make up the reports, in that order.                               *)
Order(l) ==
  /\ Taken(l) <= Len(reported[l]) /\ Lined(queue, reported[l], l, Taken(l))
  /\ \A i \in 1 .. Len(heard[l]) : heard[l][i] = reported[l][i]
  /\ completion[l] = "Running" =>
       \A i \in 1 .. Len(kept[l]) : kept[l][i] = reported[l][Len(heard[l]) + i]
  /\ callback[l].at \in {"entering", "reported"} => callback[l].kind = reported[l][Taken(l)]
  /\ completion[l] # "Running" =>
       Ended(l) /\ Taken(l) = Len(reported[l]) /\ callback[l].at # "entering"
  /\ ~setup.delayed => kept[l] = <<>>
  /\ callback[l].at \in {"reported", "told"} /\ callback[l].kind \in End =>
       completion[l] # "Running"

OrderInv == ~destroyed => \A l \in Launches : Order(l)

(* A launch begins once and ends once; output is done with when it is      *)
(* kept or called; and the end is the last that is told, destroyed or not. *)
Telling(l) ==
  /\ \A i \in 1 .. Len(reported[l]) :
       /\ reported[l][i] \in {"Launched", "LaunchFailed"} => i = 1
       /\ reported[l][i] \in End => i = Len(reported[l])
  /\ callback[l].at \in {"reported", "told", "finished"} => callback[l].kind \notin Output
  /\ callback[l].at = "reported" /\ callback[l].kind \in End =>
       Append(heard[l], callback[l].kind) = reported[l]
  /\ Told(l) => heard[l] = reported[l]

TellInv == OrderInv /\ \A l \in Launches : Telling(l)

LEMMA TellTypes ==
  ASSUME Inv
  PROVE  /\ queue \in Seq(Items) /\ Len(queue) \in Nat /\ DOMAIN queue = 1 .. Len(queue)
         /\ heard \in [Launches -> Seq(Kind)] /\ reported \in [Launches -> Seq(Kind)]
         /\ kept \in [Launches -> Seq(Kind)]
         /\ \A l \in Launches :
              /\ Len(heard[l]) \in Nat /\ Len(kept[l]) \in Nat /\ Len(reported[l]) \in Nat
              /\ Ahead(l) \in Nat /\ InHand(l) \in {0, 1} /\ Taken(l) \in Nat
<1>1. queue \in Seq(Items)
      BY DEF Inv, HandlerTypeOK, Items
<1>2. heard \in [Launches -> Seq(Kind)] /\ reported \in [Launches -> Seq(Kind)]
      BY DEF Inv, HandlerTypeOK, Reports
<1>3. kept \in [Launches -> Seq(Kind)]
  <2>1. kept \in [Launches -> Seq(Output)]
        BY DEF Inv, HandlerTypeOK
  <2>2. Seq(Output) \subseteq Seq(Kind)
        BY SeqMonotonic DEF Kind
  <2> QED BY <2>1, <2>2
<1>4. Len(queue) \in Nat /\ DOMAIN queue = 1 .. Len(queue)
      BY <1>1, LenProperties
<1>5. ASSUME NEW l \in Launches
      PROVE  /\ Len(heard[l]) \in Nat /\ Len(kept[l]) \in Nat /\ Len(reported[l]) \in Nat
             /\ Ahead(l) \in Nat /\ InHand(l) \in {0, 1} /\ Taken(l) \in Nat
  <2>1. Len(heard[l]) \in Nat /\ Len(kept[l]) \in Nat /\ Len(reported[l]) \in Nat
        BY <1>2, <1>3, LenProperties
  <2>2. Ahead(l) \in Nat /\ InHand(l) \in {0, 1}
        BY <2>1 DEF Ahead, InHand
  <2> QED BY <2>1, <2>2 DEF Taken
<1> QED BY <1>1, <1>2, <1>3, <1>4, <1>5

(* A step that leaves a launch alone leaves what it tells.                 *)
LEMMA TellStays ==
  ASSUME Inv, NEW m \in Launches, Telling(m), reported'[m] = reported[m],
         heard'[m] = heard[m], callback'[m] = callback[m]
  PROVE  Telling(m)'
BY DEF Telling, Told

LEMMA OrderStays ==
  ASSUME Inv, NEW m \in Launches, Order(m), reported'[m] = reported[m],
         heard'[m] = heard[m], callback'[m] = callback[m], kept'[m] = kept[m],
         completion'[m] = completion[m], setup' = setup,
         Lined(queue, reported[m], m, Taken(m)) => Lined(queue', reported[m], m, Taken(m))
  PROVE  Order(m)'
<1>1. Taken(m)' = Taken(m) /\ Ended(m)' = Ended(m)
      BY DEF Taken, Ahead, InHand, Ended
<1> QED BY <1>1 DEF Order

(* The owner, and a launch that does not report.                           *)
LEMMA TellIdle ==
  ASSUME Inv, TellInv,
         UNCHANGED <<setup, reported, callback, queue, heard, kept>>,
         destroyed => destroyed',
         ~destroyed' => completion' = completion
  PROVE  TellInv'
<1>1. \A m \in Launches : Telling(m)'
      BY TellStays DEF TellInv
<1>2. ASSUME ~destroyed', NEW m \in Launches PROVE Order(m)'
  <2>1. Order(m) /\ completion' = completion
        BY <1>2 DEF TellInv, OrderInv
  <2> QED BY <2>1, OrderStays
<1> QED BY <1>1, <1>2 DEF TellInv, OrderInv

LEMMA TellOwner ==
  ASSUME Inv, TellInv, OwnerStep \/ OwnerCall
  PROVE  TellInv'
<1>1. UNCHANGED <<setup, reported, callback, queue, heard, kept>>
  <2>1. UNCHANGED <<setup, reported, callback, queue, heard>>
        BY OwnerShape DEF callVars
  <2>2. kept' = kept
    <3> USE DEF listVars
    <3>1. CASE OwnerStep
          BY <3>1 DEF OwnerStep, Join, Check, Pause, Return, BeginWait, WaitForChange,
             HandlerGone, TerminateNext, ReapNext, BlockNext, DestroyNext
    <3>2. CASE OwnerCall
          BY <3>2 DEF OwnerCall, AddLaunch, Begin, GetFirstNotDone, BeginDestroy, WaitTimeout
    <3> QED BY <3>1, <3>2
  <2> QED BY <2>1, <2>2
<1>2. destroyed' = destroyed \/ BeginDestroy
  <2> USE DEF listVars
  <2>1. CASE OwnerStep
        BY <2>1 DEF OwnerStep, Join, Check, Pause, Return, BeginWait, WaitForChange,
           HandlerGone, TerminateNext, ReapNext, BlockNext, DestroyNext
  <2>2. CASE OwnerCall
        BY <2>2 DEF OwnerCall, AddLaunch, Begin, GetFirstNotDone, WaitTimeout
  <2> QED BY <2>1, <2>2
<1>3. completion' = completion \/ \E l \in Launches : DestroyNext(l)
  <2> USE DEF listVars
  <2>1. CASE OwnerStep
        BY <2>1 DEF OwnerStep, Join, Check, Pause, Return, BeginWait, WaitForChange,
           HandlerGone, TerminateNext, ReapNext, BlockNext
  <2>2. CASE OwnerCall
        BY <2>2 DEF OwnerCall, AddLaunch, Begin, GetFirstNotDone, BeginDestroy, WaitTimeout
  <2> QED BY <2>1, <2>2
<1>4. ASSUME NEW l \in Launches, DestroyNext(l) PROVE destroyed
      BY <1>4 DEF DestroyNext, Visits, Inv, OwnerInv
<1>5. BeginDestroy => destroyed'
      BY DEF BeginDestroy
<1>6. (destroyed => destroyed') /\ (~destroyed' => completion' = completion)
      BY <1>2, <1>3, <1>4, <1>5
<1> QED BY <1>1, <1>6, TellIdle

(* A launch that has ended says no more, and one that says something has   *)
(* not told its end.                                                       *)
LEMMA TellReport ==
  ASSUME Inv, TellInv, NEW l \in Launches, NEW kind \in Kind, Report(l, kind)
  PROVE  TellInv'
<1>1. /\ UNCHANGED <<setup, kept, completion, heard, destroyed>>
      /\ Free(l) /\ ~Ended(l)
      /\ reported' = [reported EXCEPT ![l] = Append(@, kind)]
      /\ \A m \in Launches \ {l} : reported'[m] = reported[m] /\ callback'[m] = callback[m]
  <2>1. reported \in [Launches -> Seq(Kind)] /\ callback \in [Launches -> Callbacks]
        BY TellTypes, CallbackTypes DEF Inv
  <2>2. /\ UNCHANGED <<setup, kept, completion, heard, destroyed>>
        /\ Free(l) /\ ~Ended(l)
        /\ reported' = [reported EXCEPT ![l] = Append(@, kind)]
        /\ \/ callback' = callback
           \/ callback' = [callback EXCEPT ![l] = [kind |-> kind, at |-> "entering"]]
        BY DEF Report, listVars
  <2>3. \A m \in Launches \ {l} : reported'[m] = reported[m]
        BY <2>1, <2>2
  <2>4. \A m \in Launches \ {l} : callback'[m] = callback[m]
        BY <2>1, <2>2
  <2> QED BY <2>2, <2>3, <2>4
<1>2. /\ heard \in [Launches -> Seq(Kind)] /\ reported \in [Launches -> Seq(Kind)]
      /\ kept \in [Launches -> Seq(Kind)] /\ queue \in Seq(Items)
      /\ Len(heard[l]) \in Nat /\ Len(kept[l]) \in Nat /\ Len(reported[l]) \in Nat
      /\ Taken(l) \in Nat /\ Ahead(l) \in Nat /\ InHand(l) \in {0, 1}
      /\ callback \in [Launches -> Callbacks]
      BY TellTypes, CallbackTypes DEF Inv
<1> DEFINE s == Append(reported[l], kind)
<1>3. /\ reported'[l] = s /\ s \in Seq(Kind) /\ Len(s) = Len(reported[l]) + 1
      /\ \A i \in 1 .. Len(reported[l]) : s[i] = reported[l][i]
      /\ s[Len(reported[l]) + 1] = kind
      BY <1>1, <1>2, AppendProperties
<1> HIDE DEF s
<1>4. callback'[l] = callback[l] \/ callback'[l] = [kind |-> kind, at |-> "entering"]
      BY <1>2 DEF Report
<1>5. ASSUME NEW m \in Launches \ {l} PROVE Telling(m)'
      BY <1>1, TellStays DEF TellInv
<1>6. Telling(l)'
  <2>1. reported[l] # <<>> => kind \notin {"Launched", "LaunchFailed"}
        BY DEF Report, Output
  <2>2. \A i \in 1 .. Len(reported[l]) : reported[l][i] \notin End
    <3>1. \A i \in 1 .. Len(reported[l]) : reported[l][i] \in End => i = Len(reported[l])
          BY DEF TellInv, Telling
    <3> QED BY <1>1, <1>2, <3>1 DEF Ended, Last
  <2>3. \A i \in 1 .. Len(s) :
          /\ s[i] \in {"Launched", "LaunchFailed"} => i = 1
          /\ s[i] \in End => i = Len(s)
    <3>1. ASSUME NEW i \in 1 .. Len(reported[l])
          PROVE  (s[i] \in {"Launched", "LaunchFailed"} => i = 1) /\ s[i] \notin End
          BY <1>3, <2>2 DEF TellInv, Telling
    <3>2. s[Len(s)] \in {"Launched", "LaunchFailed"} => Len(s) = 1
      <4>1. Len(reported[l]) = 0 \/ reported[l] # <<>>
            OBVIOUS
      <4> QED BY <1>2, <1>3, <2>1, <4>1
    <3>3. \A i \in 1 .. Len(s) : i \in 1 .. Len(reported[l]) \/ i = Len(s)
          BY <1>2, <1>3
    <3> QED BY <3>1, <3>2, <3>3
  <2>4. /\ callback'[l].at \in {"reported", "told", "finished"} => callback'[l].kind \notin Output
        /\ ~(callback'[l].at = "reported" /\ callback'[l].kind \in End)
    <3>1. callback[l].kind \notin End
          BY <1>1 DEF Inv, EndInv
    <3>2. CASE callback'[l] = callback[l]
          BY <3>1, <3>2 DEF TellInv, Telling
    <3>3. CASE callback'[l] = [kind |-> kind, at |-> "entering"]
          BY <3>3
    <3> QED BY <1>4, <3>2, <3>3
  <2>5. ~Told(l)'
    <3>1. ~Told(l)
          BY <1>1 DEF TellInv, Telling, Told, Ended
    <3> QED BY <1>1, <3>1 DEF Told
  <2> QED BY <1>3, <2>3, <2>4, <2>5 DEF Telling
<1>7. ASSUME ~destroyed, NEW m \in Launches \ {l} PROVE Order(m)'
  <2>1. Order(m)
        BY <1>7 DEF TellInv, OrderInv
  <2>2. Lined(queue, reported[m], m, Taken(m)) => Lined(queue', reported[m], m, Taken(m))
    <3>1. CASE queue' = queue
          BY <3>1
    <3>2. CASE queue' = Append(queue, [launch |-> l, kind |-> kind])
      <4>1. [launch |-> l, kind |-> kind] \in Items
            BY DEF Items
      <4>2. Taken(m) \in Nat /\ reported[m] \in Seq(Kind)
            BY TellTypes
      <4> QED BY <1>2, <3>2, <4>1, <4>2, LinedOther
    <3> QED BY <3>1, <3>2 DEF Report
  <2> QED BY <1>1, <2>1, <2>2, OrderStays
<1>8. ASSUME ~destroyed PROVE Order(l)'
  <2>1. Order(l) /\ completion[l] = "Running"
        BY <1>1, <1>8 DEF TellInv, OrderInv, Order
  <2>2. CASE setup.dispatched
    <3>1. callback' = callback /\ queue' = Append(queue, [launch |-> l, kind |-> kind])
          BY <2>2 DEF Report
    <3>2. Taken(l)' = Taken(l)
          BY <1>1, <3>1 DEF Taken, Ahead, InHand
    <3>3. Lined(queue', s, l, Taken(l))
          BY <1>2, <2>1, <3>1, LinedReport DEF Order, s
    <3>4. \A i \in 1 .. Len(heard[l]) : heard[l][i] = s[i]
          BY <1>2, <1>3, <2>1 DEF Order, Taken
    <3>5. \A i \in 1 .. Len(kept[l]) : kept[l][i] = s[Len(heard[l]) + i]
      <4> SUFFICES ASSUME NEW i \in 1 .. Len(kept[l])
                   PROVE  kept[l][i] = s[Len(heard[l]) + i]
            OBVIOUS
      <4>1. Len(heard[l]) + i \in 1 .. Len(reported[l])
            BY <1>2, <2>1 DEF Order, Taken, Ahead
      <4> QED BY <1>3, <2>1, <4>1 DEF Order
    <3>6. callback[l].at \in {"entering", "reported"} => callback[l].kind = s[Taken(l)]
      <4> SUFFICES ASSUME callback[l].at \in {"entering", "reported"}
                   PROVE  callback[l].kind = s[Taken(l)]
            OBVIOUS
      <4>1. Taken(l) \in 1 .. Len(reported[l])
            BY <1>2, <2>1 DEF Order, Taken, InHand
      <4> QED BY <1>3, <2>1, <4>1 DEF Order
    <3>7. Taken(l) <= Len(s)
          BY <1>2, <1>3, <2>1 DEF Order
    <3> QED BY <1>1, <1>3, <2>1, <3>1, <3>2, <3>3, <3>4, <3>5, <3>6, <3>7 DEF Order
  <2>3. CASE ~setup.dispatched
    <3>1. /\ queue = <<>> /\ queue' = queue /\ callback[l] = Idle
          /\ callback'[l] = [kind |-> kind, at |-> "entering"]
          BY <1>1, <1>2, <2>3 DEF Report, Free, Inv, ThreadInv
    <3>0. \A p \in DOMAIN queue : queue[p].launch # l
          BY <3>1
    <3>2. Taken(l) = Len(reported[l])
      <4>1. Taken(l) <= Len(reported[l]) /\ Lined(queue, reported[l], l, Taken(l))
            BY <2>1 DEF Order
      <4>2. reported[l] \in Seq(Kind) /\ Taken(l) \in Nat
            BY <1>2
      <4> QED BY <3>0, <4>1, <4>2, LinedNone
    <3>3. InHand(l) = 0 /\ InHand(l)' = 1
          BY <3>1 DEF InHand, Idle
    <3>4. Ahead(l)' = Ahead(l) /\ heard'[l] = heard[l]
          BY <1>1 DEF Ahead
    <3>5. Taken(l)' = Len(s) /\ Len(heard[l]) + Ahead(l) = Len(reported[l])
          BY <1>2, <1>3, <3>2, <3>3, <3>4 DEF Taken
    <3>6. Lined(queue', s, l, Taken(l)')
      <4>1. Taken(l)' \in Nat /\ Taken(l)' <= Len(s) /\ queue' = queue
            BY <1>2, <1>3, <3>1, <3>5
      <4> QED BY <1>3, <3>0, <3>5, <4>1, LinedNone
    <3>7. \A i \in 1 .. Len(heard[l]) : heard[l][i] = s[i]
          BY <1>2, <1>3, <2>1, <3>5 DEF Order
    <3>8. \A i \in 1 .. Len(kept[l]) : kept[l][i] = s[Len(heard[l]) + i]
      <4> SUFFICES ASSUME NEW i \in 1 .. Len(kept[l])
                   PROVE  kept[l][i] = s[Len(heard[l]) + i]
            OBVIOUS
      <4>1. Len(heard[l]) + i \in 1 .. Len(reported[l])
            BY <1>2, <2>1, <3>5 DEF Ahead
      <4> QED BY <1>3, <2>1, <4>1 DEF Order
    <3>9. kind = s[Len(s)] /\ Taken(l)' <= Len(s)
          BY <1>2, <1>3, <3>5
    <3>10. callback'[l].kind = s[Taken(l)'] /\ callback'[l].at = "entering"
          BY <3>1, <3>5, <3>9
    <3>11. ~setup'.delayed => kept'[l] = <<>>
          BY <1>1, <2>1 DEF Order
    <3>12. heard'[l] = heard[l] /\ kept'[l] = kept[l] /\ completion'[l] = "Running"
          BY <1>1, <2>1
    <3>13. /\ \A i \in 1 .. Len(heard'[l]) : heard'[l][i] = reported'[l][i]
           /\ \A i \in 1 .. Len(kept'[l]) : kept'[l][i] = reported'[l][Len(heard'[l]) + i]
          BY <1>3, <3>7, <3>8, <3>12
    <3>14. /\ Taken(l)' <= Len(reported'[l]) /\ Lined(queue', reported'[l], l, Taken(l)')
           /\ callback'[l].kind = reported'[l][Taken(l)']
          BY <1>3, <3>6, <3>9, <3>10
    <3> QED BY <3>10, <3>11, <3>12, <3>13, <3>14 DEF Order
  <2> QED BY <2>2, <2>3
<1>9. OrderInv'
      BY <1>1, <1>7, <1>8 DEF OrderInv
<1> QED BY <1>5, <1>6, <1>9 DEF TellInv
(* A dispatched report that is taken is the next one of its launch.        *)
LEMMA TellTake ==
  ASSUME Inv, TellInv, TakeCallback
  PROVE  TellInv'
<1>1. /\ UNCHANGED <<setup, reported, kept, completion, heard, destroyed>>
      /\ queue # <<>> /\ queue' = Tail(queue)
      BY DEF TakeCallback, listVars, launchVars
<1>2. /\ heard \in [Launches -> Seq(Kind)] /\ reported \in [Launches -> Seq(Kind)]
      /\ queue \in Seq(Items) /\ \A m \in Launches : Taken(m) \in Nat
      BY TellTypes
<1>3. /\ queue[1] \in [launch : Launches, kind : Kind] /\ \A m \in Launches : callback[m] = Idle
      /\ callback' = [callback EXCEPT ![queue[1].launch] = [kind |-> queue[1].kind,
                                                             at |-> "entering"]]
      BY TakeShape
<1>4. PICK h \in Launches, k \in Kind : queue[1].launch = h /\ queue[1].kind = k
      BY <1>3
<1>5. /\ callback'[h] = [kind |-> k, at |-> "entering"]
      /\ \A m \in Launches \ {h} : callback'[m] = callback[m]
  <2>1. callback \in [Launches -> Callbacks]
        BY CallbackTypes DEF Inv
  <2>2. callback' = [callback EXCEPT ![h] = [kind |-> k, at |-> "entering"]]
        BY <1>3, <1>4
  <2> QED BY <2>1, <2>2
<1>7. ASSUME NEW m \in Launches PROVE Telling(m)'
  <2>1. CASE m = h
    <3>1. reported'[m] = reported[m] /\ heard'[m] = heard[m] /\ Telling(m)
          BY <1>1 DEF TellInv
    <3>2. callback'[m].at = "entering"
          BY <1>5, <2>1
    <3> QED BY <3>1, <3>2 DEF Telling, Told
  <2>2. CASE m # h
        BY <1>1, <1>5, <2>2, TellStays DEF TellInv
  <2> QED BY <2>1, <2>2
<1>8. ASSUME ~destroyed, NEW m \in Launches \ {h} PROVE Order(m)'
  <2>1. Order(m)
        BY <1>8 DEF TellInv, OrderInv
  <2>2. Lined(queue, reported[m], m, Taken(m)) => Lined(queue', reported[m], m, Taken(m))
    <3>1. reported[m] \in Seq(Kind) /\ Taken(m) \in Nat /\ queue[1].launch # m
          BY <1>2, <1>4
    <3> QED BY <1>1, <1>2, <3>1, LinedTail
  <2> QED BY <1>1, <1>5, <2>1, <2>2, OrderStays
<1>9. ASSUME ~destroyed PROVE Order(h)'
  <2>1. Order(h)
        BY <1>4, <1>9 DEF TellInv, OrderInv
  <2>2. /\ Taken(h) < Len(reported[h]) /\ reported[h][Taken(h) + 1] = k
        /\ Lined(queue', reported[h], h, Taken(h) + 1)
    <3>1. reported[h] \in Seq(Kind) /\ Taken(h) \in Nat /\ Lined(queue, reported[h], h, Taken(h))
          BY <1>2, <1>4, <2>1 DEF Order
    <3> QED BY <1>1, <1>2, <1>4, <3>1, LinedTail
  <2>3. completion[h] = "Running"
    <3>1. completion[h] # "Running" => Taken(h) = Len(reported[h])
          BY <2>1 DEF Order
    <3> QED BY <1>2, <1>4, <2>2, <3>1
  <2>4. Taken(h)' = Taken(h) + 1
    <3>1. InHand(h) = 0
          BY <1>3, <1>4 DEF InHand, Idle
    <3>2. InHand(h)' = 1
          BY <1>5 DEF InHand
    <3>3. Ahead(h)' = Ahead(h) /\ Len(heard'[h]) = Len(heard[h])
          BY <1>1 DEF Ahead
    <3>4. Len(heard[h]) \in Nat /\ Ahead(h) \in Nat
          BY <1>4, TellTypes
    <3>5. Taken(h)' = Len(heard'[h]) + Ahead(h)' + InHand(h)'
          BY DEF Taken
    <3>6. Taken(h) = Len(heard[h]) + Ahead(h) + InHand(h)
          BY DEF Taken
    <3> QED BY <3>1, <3>2, <3>3, <3>4, <3>5, <3>6
  <2>5. /\ Taken(h)' <= Len(reported'[h]) /\ Lined(queue', reported'[h], h, Taken(h)')
        /\ callback'[h].kind = reported'[h][Taken(h)'] /\ callback'[h].at = "entering"
  <3>1. /\ reported'[h] = reported[h] /\ Len(reported[h]) \in Nat /\ Taken(h) \in Nat
        BY <1>1, <1>4, TellTypes
  <3>2. Taken(h)' <= Len(reported'[h])
        BY <2>2, <2>4, <3>1
  <3> QED BY <1>5, <2>2, <2>4, <3>1, <3>2
  <2>6. /\ \A i \in 1 .. Len(heard'[h]) : heard'[h][i] = reported'[h][i]
        /\ \A i \in 1 .. Len(kept'[h]) : kept'[h][i] = reported'[h][Len(heard'[h]) + i]
        /\ completion'[h] = "Running"
        /\ ~setup'.delayed => kept'[h] = <<>>
        BY <1>1, <2>1, <2>3 DEF Order
  <2> QED BY <2>5, <2>6 DEF Order
<1>10. OrderInv'
  <2>1. ASSUME ~destroyed', NEW m \in Launches PROVE Order(m)'
    <3>1. ~destroyed
          BY <1>1, <2>1
    <3>2. CASE m = h
          BY <1>9, <3>1, <3>2
    <3>3. CASE m # h
          BY <1>8, <3>1, <3>3
    <3> QED BY <3>2, <3>3
  <2> QED BY <2>1 DEF OrderInv
<1> QED BY <1>7, <1>10 DEF TellInv

(* A callback is about its launch and leaves the other ones alone.         *)
LEMMA TellShape ==
  ASSUME Inv, NEW l \in Launches, CallbackStep(l)
  PROVE  /\ UNCHANGED <<setup, reported, queue, destroyed>>
         /\ \A m \in Launches \ {l} :
              /\ callback'[m] = callback[m] /\ completion'[m] = completion[m]
              /\ heard'[m] = heard[m] /\ kept'[m] = kept[m]
<1>1. /\ heard \in [Launches -> Seq(Kind)] /\ kept \in [Launches -> Seq(Kind)]
      BY TellTypes
<1>2. /\ UNCHANGED <<setup, reported, queue, destroyed>>
      /\ \A m \in Launches \ {l} : callback'[m] = callback[m] /\ completion'[m] = completion[m]
      BY CallbackShape DEF launchVars
<1>3. \/ UNCHANGED heard \/ heard' = [heard EXCEPT ![l] = Append(@, callback[l].kind)]
      \/ heard' = [heard EXCEPT ![l] = IF callback[l].kind = "Exited" THEN @ \o kept[l] ELSE @]
      BY DEF CallbackStep, CallOutput, IgnoreCallback, KeepOutput, EnterCallback, CallClient,
             FinishCallback, SignalChange
<1>4. \/ UNCHANGED kept \/ kept' = [kept EXCEPT ![l] = Append(@, callback[l].kind)]
      BY DEF CallbackStep, CallOutput, IgnoreCallback, KeepOutput, EnterCallback, CallClient,
             FinishCallback, SignalChange, listVars
<1>5. \A m \in Launches \ {l} : heard'[m] = heard[m]
      BY <1>1, <1>3
<1>6. \A m \in Launches \ {l} : kept'[m] = kept[m]
      BY <1>1, <1>4
<1> QED BY <1>2, <1>5, <1>6

(* So it is enough to know what becomes of its launch.                     *)
LEMMA TellOne ==
  ASSUME Inv, TellInv, NEW l \in Launches, CallbackStep(l),
         Telling(l)', ~destroyed => Order(l)'
  PROVE  TellInv'
<1>1. /\ UNCHANGED <<setup, reported, queue, destroyed>>
      /\ \A m \in Launches \ {l} :
           /\ callback'[m] = callback[m] /\ completion'[m] = completion[m]
           /\ heard'[m] = heard[m] /\ kept'[m] = kept[m]
      BY TellShape
<1>2. ASSUME NEW m \in Launches \ {l} PROVE Telling(m)' /\ (~destroyed => Order(m)')
  <2>1. Telling(m)'
        BY <1>1, TellStays DEF TellInv
  <2>2. ASSUME ~destroyed PROVE Order(m)'
    <3>1. Order(m)
          BY <2>2 DEF TellInv, OrderInv
    <3> QED BY <1>1, <3>1, OrderStays
  <2> QED BY <2>1, <2>2
<1>3. OrderInv'
  <2>1. ASSUME ~destroyed', NEW m \in Launches PROVE Order(m)'
    <3>1. ~destroyed
          BY <1>1, <2>1
    <3> QED BY <1>2, <3>1
  <2> QED BY <2>1 DEF OrderInv
<1> QED BY <1>2, <1>3 DEF TellInv

(* What is known of a callback that enters: the launch has not ended yet   *)
(* for the client, and of the last report nothing waits behind it.         *)
LEMMA Entering ==
  ASSUME Inv, TellInv, NEW l \in Launches, callback[l].at = "entering", ~destroyed
  PROVE  /\ Order(l) /\ completion[l] = "Running" /\ callback[l].kind \in Kind
         /\ Taken(l) = Len(heard[l]) + Ahead(l) + 1 /\ Ahead(l) = Len(kept[l])
         /\ Taken(l) \in 1 .. Len(reported[l]) /\ reported[l][Taken(l)] = callback[l].kind
         /\ callback[l].kind \in End => Ended(l) /\ Taken(l) = Len(reported[l])
<1>1. Order(l) /\ completion[l] = "Running"
      BY DEF TellInv, OrderInv, Order
<1>2. /\ Len(heard[l]) \in Nat /\ Len(kept[l]) \in Nat /\ Len(reported[l]) \in Nat
      /\ reported[l] \in Seq(Kind) /\ Taken(l) \in Nat
      BY TellTypes
<1>3. callback[l].kind \in Kind
      BY CallbackTypes DEF Inv
<1>4. Taken(l) = Len(heard[l]) + Ahead(l) + 1 /\ Ahead(l) = Len(kept[l])
  <2>1. Ahead(l) = Len(kept[l]) /\ InHand(l) = 1
        BY <1>1 DEF Ahead, InHand
  <2> QED BY <2>1 DEF Taken
<1>5. Taken(l) <= Len(reported[l]) /\ reported[l][Taken(l)] = callback[l].kind
      BY <1>1 DEF Order
<1>6. ASSUME callback[l].kind \in End PROVE Ended(l) /\ Taken(l) = Len(reported[l])
  <2>1. Ended(l) /\ \A p \in DOMAIN queue : queue[p].launch # l
        BY <1>6 DEF Inv, EndInv
  <2>2. Lined(queue, reported[l], l, Taken(l))
        BY <1>1 DEF Order
  <2> QED BY <1>2, <1>5, <2>1, <2>2, LinedNone
<1>7. Taken(l) \in 1 .. Len(reported[l])
  <2>0. Len(heard[l]) \in Nat /\ Ahead(l) \in Nat
        BY TellTypes
  <2>1. Taken(l) = Len(heard[l]) + Ahead(l) + 1
        BY <1>4
  <2>2. Taken(l) >= 1
        BY <2>0, <2>1
  <2> QED BY <1>2, <1>5, <2>2
<1> QED BY <1>1, <1>3, <1>4, <1>5, <1>6, <1>7

(* Output is told at once, or kept behind what was kept.                   *)
LEMMA TellCallOutput ==
  ASSUME Inv, TellInv, NEW l \in Launches, CallOutput(l)
  PROVE  TellInv'
<1> DEFINE k == callback[l].kind
<1>1. /\ callback[l].at = "entering" /\ k \in Output /\ ~setup.delayed
      /\ UNCHANGED <<setup, reported, kept, completion, queue, destroyed>>
      /\ heard' = [heard EXCEPT ![l] = Append(@, k)] /\ callback' = [callback EXCEPT ![l] = Idle]
      BY DEF CallOutput, listVars, launchVars
<1>2. /\ heard \in [Launches -> Seq(Kind)] /\ heard[l] \in Seq(Kind) /\ Len(heard[l]) \in Nat
      BY TellTypes
<1>3. k \in Kind /\ k \notin End
      BY <1>1 DEF Kind, Output, End
<1> DEFINE h == Append(heard[l], k)
<1>4. /\ h \in Seq(Kind) /\ Len(h) = Len(heard[l]) + 1 /\ h # <<>>
      /\ \A i \in 1 .. Len(heard[l]) : h[i] = heard[l][i]
      /\ h[Len(heard[l]) + 1] = k
      BY <1>2, <1>3, AppendProperties
<1>5. heard'[l] = h
      BY <1>1, <1>2
<1>6. callback'[l].at = "none"
  <2>1. callback \in [Launches -> Callbacks]
        BY CallbackTypes DEF Inv
  <2> QED BY <1>1, <2>1 DEF Idle
<1> HIDE DEF h, k
<1>7. Telling(l)'
  <2>1. Telling(l) /\ reported'[l] = reported[l]
        BY <1>1 DEF TellInv
  <2>2. ~Told(l)'
    <3>1. Last(heard'[l]) = k
          BY <1>2, <1>4, <1>5 DEF Last
    <3> QED BY <1>3, <3>1 DEF Told
  <2> QED BY <1>6, <2>1, <2>2 DEF Telling
<1>8. ASSUME ~destroyed PROVE Order(l)'
  <2>1. /\ Order(l) /\ completion[l] = "Running" /\ Len(reported[l]) \in Nat
        /\ Taken(l) = Len(heard[l]) + Ahead(l) + 1 /\ Ahead(l) = Len(kept[l])
        /\ Taken(l) \in 1 .. Len(reported[l]) /\ reported[l][Taken(l)] = k
        BY <1>1, <1>8, Entering, TellTypes DEF k
  <2>2. kept[l] = <<>> /\ Len(kept[l]) = 0
        BY <1>1, <2>1 DEF Order
  <2>3. Taken(l)' = Taken(l)
    <3>1. Ahead(l)' = 0
          BY <1>1, <2>2 DEF Ahead
    <3>2. InHand(l)' = 0
          BY <1>6 DEF InHand
    <3>3. Taken(l)' = Len(heard'[l]) + Ahead(l)' + InHand(l)'
          BY DEF Taken
    <3> QED BY <1>2, <1>4, <1>5, <2>1, <2>2, <3>1, <3>2, <3>3
  <2>4. \A i \in 1 .. Len(heard'[l]) : heard'[l][i] = reported'[l][i]
    <3> SUFFICES ASSUME NEW i \in 1 .. Len(h) PROVE h[i] = reported[l][i]
          BY <1>1, <1>5
    <3>1. CASE i \in 1 .. Len(heard[l])
          BY <1>4, <2>1, <3>1 DEF Order
    <3>2. CASE i = Len(heard[l]) + 1
          BY <1>2, <1>4, <2>1, <2>2, <3>2
    <3> QED BY <1>2, <1>4, <3>1, <3>2
  <2>5. /\ Taken(l)' <= Len(reported'[l]) /\ Lined(queue', reported'[l], l, Taken(l)')
        BY <1>1, <2>1, <2>3 DEF Order
  <2>6. kept'[l] = <<>> /\ Len(kept'[l]) = 0 /\ completion'[l] = "Running"
        BY <1>1, <2>1, <2>2
  <2> QED BY <1>6, <2>4, <2>5, <2>6 DEF Order
<1> QED BY <1>7, <1>8, TellOne DEF CallbackStep

LEMMA TellKeep ==
  ASSUME Inv, TellInv, NEW l \in Launches, KeepOutput(l)
  PROVE  TellInv'
<1> DEFINE k == callback[l].kind
<1>1. /\ callback[l].at = "entering" /\ k \in Output /\ setup.delayed /\ ~destroyed
      /\ UNCHANGED <<setup, reported, heard, completion, queue, destroyed>>
      /\ kept' = [kept EXCEPT ![l] = Append(@, k)] /\ callback' = [callback EXCEPT ![l] = Idle]
      BY DEF KeepOutput, listVars, launchVars
<1>2. /\ kept \in [Launches -> Seq(Kind)] /\ kept[l] \in Seq(Kind) /\ Len(kept[l]) \in Nat
      /\ Len(heard[l]) \in Nat
      BY TellTypes
<1>3. k \in Kind
      BY <1>1 DEF Kind
<1> DEFINE a == Append(kept[l], k)
<1>4. /\ Len(a) = Len(kept[l]) + 1
      /\ \A i \in 1 .. Len(kept[l]) : a[i] = kept[l][i]
      /\ a[Len(kept[l]) + 1] = k
      BY <1>2, <1>3, AppendProperties
<1>5. kept'[l] = a
      BY <1>1, <1>2
<1>6. callback'[l].at = "none"
  <2>1. callback \in [Launches -> Callbacks]
        BY CallbackTypes DEF Inv
  <2> QED BY <1>1, <2>1 DEF Idle
<1> HIDE DEF a, k
<1>7. Telling(l)'
      BY <1>1, <1>6 DEF TellInv, Telling, Told
<1>8. Order(l)'
  <2>1. /\ Order(l) /\ completion[l] = "Running" /\ Len(reported[l]) \in Nat
        /\ Taken(l) = Len(heard[l]) + Ahead(l) + 1 /\ Ahead(l) = Len(kept[l])
        /\ Taken(l) \in 1 .. Len(reported[l]) /\ reported[l][Taken(l)] = k
        BY <1>1, Entering, TellTypes DEF k
  <2>2. Taken(l)' = Taken(l)
    <3>1. Ahead(l)' = Len(kept'[l])
          BY <1>1, <2>1 DEF Ahead
    <3>2. InHand(l)' = 0
          BY <1>6 DEF InHand
    <3>3. Taken(l)' = Len(heard'[l]) + Ahead(l)' + InHand(l)'
          BY DEF Taken
    <3>4. Len(heard'[l]) = Len(heard[l]) /\ Ahead(l)' = Ahead(l) + 1
          BY <1>1, <1>4, <1>5, <2>1, <3>1
    <3>5. Len(heard[l]) \in Nat /\ Ahead(l) \in Nat
          BY TellTypes
    <3>6. Taken(l) = Len(heard[l]) + Ahead(l) + 1
          BY <2>1
    <3> QED BY <3>2, <3>3, <3>4, <3>5, <3>6
  <2>3. \A i \in 1 .. Len(kept'[l]) : kept'[l][i] = reported'[l][Len(heard'[l]) + i]
    <3> SUFFICES ASSUME NEW i \in 1 .. Len(a) PROVE a[i] = reported[l][Len(heard[l]) + i]
          BY <1>1, <1>5
    <3>1. CASE i \in 1 .. Len(kept[l])
          BY <1>4, <2>1, <3>1 DEF Order
    <3>2. CASE i = Len(kept[l]) + 1
      <4>1. Len(heard[l]) + i = Taken(l)
        <5>1. Taken(l) = Len(heard[l]) + Ahead(l) + 1 /\ i = Ahead(l) + 1
              BY <2>1, <3>2
        <5>2. Len(heard[l]) \in Nat /\ Ahead(l) \in Nat
              BY TellTypes
        <5> QED BY <5>1, <5>2
      <4> QED BY <1>4, <2>1, <3>2, <4>1
    <3> QED BY <1>2, <1>4, <3>1, <3>2
  <2>4. \A i \in 1 .. Len(heard'[l]) : heard'[l][i] = reported'[l][i]
        BY <1>1, <2>1 DEF Order
  <2>5. /\ Taken(l)' <= Len(reported'[l]) /\ Lined(queue', reported'[l], l, Taken(l)')
        BY <1>1, <2>1, <2>2 DEF Order
  <2>6. setup'.delayed /\ completion'[l] = "Running"
        BY <1>1, <2>1
  <2> QED BY <1>6, <2>3, <2>4, <2>5, <2>6 DEF Order
<1> QED BY <1>7, <1>8, TellOne DEF CallbackStep

(* A callback that has no effect.                                          *)
LEMMA TellIgnore ==
  ASSUME Inv, TellInv, NEW l \in Launches, IgnoreCallback(l)
  PROVE  TellInv'
<1>1. destroyed /\ UNCHANGED <<setup, reported, heard>>
      /\ callback' = [callback EXCEPT ![l] = Idle]
      BY DEF IgnoreCallback, listVars, launchVars
<1>2. callback'[l].at = "none"
  <2>1. callback \in [Launches -> Callbacks]
        BY CallbackTypes DEF Inv
  <2> QED BY <1>1, <2>1 DEF Idle
<1>3. Telling(l)'
      BY <1>1, <1>2 DEF TellInv, Telling, Told
<1> QED BY <1>1, <1>3, TellOne DEF CallbackStep

(* A sequence that is another one and one more element.                    *)
LEMMA AppendIs ==
  ASSUME NEW r \in Seq(Kind), NEW h \in Seq(Kind), NEW k \in Kind, Len(h) + 1 = Len(r),
         \A i \in 1 .. Len(h) : h[i] = r[i], r[Len(r)] = k
  PROVE  Append(h, k) = r
<1>1. /\ Append(h, k) \in Seq(Kind) /\ Len(Append(h, k)) = Len(h) + 1
      /\ \A i \in 1 .. Len(h) : Append(h, k)[i] = h[i]
      /\ Append(h, k)[Len(h) + 1] = k
      BY AppendProperties
<1>2. Len(h) \in Nat
      BY LenProperties
<1>3. \A i \in 1 .. Len(r) : Append(h, k)[i] = r[i]
      BY <1>1, <1>2
<1> QED BY <1>1, <1>3, SeqEqual

(* What has been heard and what was kept, in a row: all but the last of    *)
(* what a launch has reported that has ended.                              *)
LEMMA HeardAll ==
  ASSUME Inv, TellInv, NEW l \in Launches, callback[l].at = "entering", ~destroyed,
         callback[l].kind \in End,
         NEW h \in Seq(Kind),
         h = IF callback[l].kind = "Exited" THEN heard[l] \o kept[l] ELSE heard[l]
  PROVE  /\ Len(h) + 1 = Len(reported[l])
         /\ \A i \in 1 .. Len(h) : h[i] = reported[l][i]
         /\ Append(h, callback[l].kind) = reported[l]
<1> DEFINE k == callback[l].kind
<1>1. /\ Order(l) /\ completion[l] = "Running" /\ k \in Kind
      /\ Taken(l) = Len(heard[l]) + Ahead(l) + 1 /\ Ahead(l) = Len(kept[l])
      /\ Taken(l) \in 1 .. Len(reported[l]) /\ reported[l][Taken(l)] = k
      /\ Taken(l) = Len(reported[l])
      BY Entering
<1>2. /\ heard[l] \in Seq(Kind) /\ kept[l] \in Seq(Kind) /\ reported[l] \in Seq(Kind)
      /\ Len(heard[l]) \in Nat /\ Ahead(l) \in Nat /\ Len(reported[l]) \in Nat
      BY TellTypes
<1>3. /\ \A i \in 1 .. Len(heard[l]) : heard[l][i] = reported[l][i]
      /\ \A i \in 1 .. Ahead(l) : kept[l][i] = reported[l][Len(heard[l]) + i]
      BY <1>1 DEF Order
<1>4. Len(h) + 1 = Len(reported[l]) /\ \A i \in 1 .. Len(h) : h[i] = reported[l][i]
  <2>1. CASE k = "Exited"
    <3> DEFINE n == Len(heard[l])
               a == Ahead(l)
    <3>1. /\ Len(h) = n + a
          /\ \A i \in 1 .. n + a : h[i] = IF i <= n THEN heard[l][i] ELSE kept[l][i - n]
      <4>1. h = heard[l] \o kept[l] /\ Len(kept[l]) = a
            BY <1>1, <2>1
      <4> HIDE DEF a, n
      <4>2. /\ Len(heard[l] \o kept[l]) = n + a
            /\ \A i \in 1 .. n + a : (heard[l] \o kept[l])[i] =
                 IF i <= n THEN heard[l][i] ELSE kept[l][i - n]
        <5>1. /\ Len(heard[l] \o kept[l]) = Len(heard[l]) + Len(kept[l])
              /\ \A i \in 1 .. Len(heard[l]) + Len(kept[l]) : (heard[l] \o kept[l])[i] =
                   IF i <= Len(heard[l]) THEN heard[l][i] ELSE kept[l][i - Len(heard[l])]
              BY <1>2, ConcatProperties, Zenon
        <5> QED BY <4>1, <5>1, Zenon DEF n
      <4> QED BY <4>1, <4>2, Zenon
    <3>2. n \in Nat /\ a \in Nat /\ Len(reported[l]) = n + a + 1
          BY <1>1, <1>2
    <3>3. /\ \A i \in 1 .. n : heard[l][i] = reported[l][i]
          /\ \A i \in 1 .. a : kept[l][i] = reported[l][n + i]
          BY <1>3
    <3> HIDE DEF a, n
    <3>4. ASSUME NEW i \in 1 .. n + a PROVE h[i] = reported[l][i]
      <4>1. CASE i <= n
        <5>1. i \in 1 .. n
              BY <3>2, <4>1
        <5>2. h[i] = heard[l][i]
              BY <3>1, <4>1
        <5> QED BY <3>3, <5>1, <5>2
      <4>2. CASE ~(i <= n)
        <5>1. i - n \in 1 .. a /\ n + (i - n) = i
              BY <3>2, <4>2
        <5> QED BY <3>1, <3>3, <4>2, <5>1
      <4> QED BY <4>1, <4>2
    <3> QED BY <3>1, <3>2, <3>4
  <2>2. CASE k # "Exited"
    <3>1. k = "LaunchFailed" /\ h = heard[l]
          BY <2>2 DEF End
    <3>2. Len(reported[l]) = 1
      <4>1. \A i \in 1 .. Len(reported[l]) : reported[l][i] = "LaunchFailed" => i = 1
            BY DEF TellInv, Telling
      <4> QED BY <1>1, <3>1, <4>1
    <3>3. Len(heard[l]) = 0
      <4>1. Len(heard[l]) + Ahead(l) + 1 = 1
            BY <1>1, <3>2
      <4> QED BY <1>2, <4>1
    <3> QED BY <1>3, <3>1, <3>2, <3>3
  <2> QED BY <2>1, <2>2
<1>5. Append(h, k) = reported[l]
  <2>1. reported[l][Len(reported[l])] = k
        BY <1>1
  <2> HIDE DEF k
  <2> QED BY <1>1, <1>2, <1>4, <2>1, AppendIs
<1> QED BY <1>4, <1>5

(* Before the exit the client is given what was kept.                      *)
LEMMA TellEnter ==
  ASSUME Inv, TellInv, NEW l \in Launches, EnterCallback(l)
  PROVE  TellInv'
<1> DEFINE k == callback[l].kind
<1>1. /\ callback[l].at = "entering" /\ ~destroyed /\ k \notin Output
      /\ UNCHANGED <<setup, reported, kept, queue, destroyed>>
      /\ heard' = [heard EXCEPT ![l] = IF k = "Exited" THEN @ \o kept[l] ELSE @]
      /\ completion' = [completion EXCEPT ![l] = IF k \in End THEN "Reported" ELSE @]
      BY DEF EnterCallback, listVars, launchVars
<1>2. /\ heard \in [Launches -> Seq(Kind)] /\ heard[l] \in Seq(Kind) /\ kept[l] \in Seq(Kind)
      /\ reported[l] \in Seq(Kind) /\ Len(reported[l]) \in Nat /\ Ahead(l) \in Nat
      /\ Len(heard[l]) \in Nat
      BY TellTypes
<1>3. callback'[l] = [kind |-> k, at |-> "reported"]
  <2>1. /\ callback \in [Launches -> Callbacks]
        /\ [callback EXCEPT ![l].at = "reported"]
             = [callback EXCEPT ![l] = [kind |-> callback[l].kind, at |-> "reported"]]
        BY <1>1, CallbackTypes DEF Inv, Places
  <2>2. callback' = [callback EXCEPT ![l] = [kind |-> callback[l].kind, at |-> "reported"]]
        BY <2>1 DEF EnterCallback
  <2> QED BY <2>1, <2>2
<1>4. /\ Order(l) /\ completion[l] = "Running" /\ k \in Kind
      /\ Taken(l) = Len(heard[l]) + Ahead(l) + 1
      /\ Taken(l) \in 1 .. Len(reported[l]) /\ reported[l][Taken(l)] = k
      /\ k \in End => Ended(l) /\ Taken(l) = Len(reported[l])
      BY <1>1, Entering
<1>5. heard'[l] = IF k = "Exited" THEN heard[l] \o kept[l] ELSE heard[l]
      BY <1>1, <1>2
<1>6. completion'[l] = IF k \in End THEN "Reported" ELSE "Running"
  <2>1. completion \in [Launches -> {"Running", "Reported", "CallbackFinished"}]
        BY DEF Inv, HandlerTypeOK
  <2> QED BY <1>1, <1>4, <2>1
<1>7. Telling(l) /\ reported'[l] = reported[l]
      BY <1>1 DEF TellInv
<1> HIDE DEF k
<1>8. CASE k \in End
  <2>1. heard'[l] \in Seq(Kind)
        BY <1>2, <1>5, ConcatProperties
  <2>2. /\ Len(heard'[l]) + 1 = Len(reported[l])
        /\ \A i \in 1 .. Len(heard'[l]) : heard'[l][i] = reported[l][i]
        /\ Append(heard'[l], k) = reported[l]
        BY <1>1, <1>5, <1>8, <2>1, HeardAll DEF k
  <2>3. Len(heard'[l]) \in Nat
        BY <2>1, LenProperties
  <2>4. ~Told(l)'
    <3> SUFFICES ASSUME heard'[l] # <<>>, Last(heard'[l]) \in End PROVE FALSE
          BY DEF Told
    <3>1. Len(heard'[l]) \in 1 .. Len(heard'[l])
          BY <2>1, <2>3, EmptySeq
    <3>2. reported[l][Len(heard'[l])] \in End
          BY <2>2, <3>1 DEF Last
    <3>3. Len(heard'[l]) = Len(reported[l])
          BY <1>2, <1>7, <2>2, <2>3, <3>1, <3>2 DEF Telling
    <3> QED BY <2>2, <2>3, <3>3
  <2>5. Telling(l)'
        BY <1>1, <1>3, <1>7, <2>2, <2>4 DEF Telling
  <2>6. Taken(l)' = Taken(l)
    <3>1. Ahead(l)' = 0 /\ InHand(l)' = 1
          BY <1>3, <1>6, <1>8 DEF Ahead, InHand
    <3>2. Taken(l)' = Len(heard'[l]) + Ahead(l)' + InHand(l)'
          BY DEF Taken
    <3>3. Taken(l) = Len(reported[l])
          BY <1>4, <1>8
    <3> QED BY <2>2, <2>3, <3>1, <3>2, <3>3
  <2>7. /\ Taken(l)' = Len(reported'[l]) /\ Taken(l)' <= Len(reported'[l])
        /\ Lined(queue', reported'[l], l, Taken(l)')
        /\ callback'[l].kind = reported'[l][Taken(l)'] /\ callback'[l].at = "reported"
        BY <1>1, <1>2, <1>3, <1>4, <1>7, <1>8, <2>6 DEF Order
  <2>8. \A i \in 1 .. Len(heard'[l]) : heard'[l][i] = reported'[l][i]
        BY <1>7, <2>2
  <2>9. Ended(l)' /\ completion'[l] = "Reported"
        BY <1>4, <1>6, <1>7, <1>8 DEF Ended
  <2>10. ~setup'.delayed => kept'[l] = <<>>
        BY <1>1, <1>4 DEF Order
  <2>11. Order(l)'
        BY <2>7, <2>8, <2>9, <2>10 DEF Order
  <2> QED BY <2>5, <2>11, TellOne DEF CallbackStep
<1>9. CASE k \notin End
  <2>1. heard'[l] = heard[l] /\ completion'[l] = "Running" /\ kept'[l] = kept[l]
        BY <1>1, <1>5, <1>6, <1>9 DEF End
  <2>2. Telling(l)'
    <3>1. Told(l)' = Told(l)
          BY <2>1 DEF Told
    <3>2. callback'[l].kind = k /\ callback'[l].at = "reported"
          BY <1>3
    <3> QED BY <1>1, <1>7, <1>9, <2>1, <3>1, <3>2 DEF Telling
  <2>3. Taken(l)' = Taken(l)
    <3>1. Ahead(l)' = Ahead(l) /\ InHand(l)' = 1
          BY <1>3, <1>4, <2>1 DEF Ahead, InHand
    <3>2. Taken(l)' = Len(heard'[l]) + Ahead(l)' + InHand(l)'
          BY DEF Taken
    <3> QED BY <1>4, <2>1, <3>1, <3>2
  <2>4. /\ Taken(l)' <= Len(reported'[l]) /\ Lined(queue', reported'[l], l, Taken(l)')
        /\ callback'[l].kind = reported'[l][Taken(l)'] /\ callback'[l].kind \notin End
        BY <1>1, <1>2, <1>3, <1>4, <1>7, <1>9, <2>3 DEF Order
  <2>5. /\ \A i \in 1 .. Len(heard'[l]) : heard'[l][i] = reported'[l][i]
        /\ \A i \in 1 .. Len(kept'[l]) : kept'[l][i] = reported'[l][Len(heard'[l]) + i]
        /\ ~setup'.delayed => kept'[l] = <<>>
        BY <1>1, <1>4, <1>7, <2>1 DEF Order
  <2>6. Order(l)'
        BY <2>1, <2>4, <2>5 DEF Order
  <2> QED BY <2>2, <2>6, TellOne DEF CallbackStep
<1> QED BY <1>8, <1>9

(* The client is told of the beginning first and of the end last.          *)
LEMMA TellClient ==
  ASSUME Inv, TellInv, NEW l \in Launches, CallClient(l)
  PROVE  TellInv'
<1> DEFINE k == callback[l].kind
<1>1. /\ callback[l].at = "reported"
      /\ UNCHANGED <<setup, reported, kept, completion, queue, destroyed>>
      /\ heard' = [heard EXCEPT ![l] = Append(@, k)]
      BY DEF CallClient, listVars, launchVars
<1>2. /\ heard \in [Launches -> Seq(Kind)] /\ heard[l] \in Seq(Kind)
      /\ reported[l] \in Seq(Kind) /\ Len(reported[l]) \in Nat /\ Ahead(l) \in Nat
      /\ Len(heard[l]) \in Nat
      BY TellTypes
<1>3. callback'[l] = [kind |-> k, at |-> "told"] /\ k \in Kind
  <2>1. /\ callback \in [Launches -> Callbacks] /\ callback[l].kind \in Kind
        /\ [callback EXCEPT ![l].at = "told"]
             = [callback EXCEPT ![l] = [kind |-> callback[l].kind, at |-> "told"]]
        BY <1>1, CallbackTypes DEF Inv, Places
  <2>2. callback' = [callback EXCEPT ![l] = [kind |-> callback[l].kind, at |-> "told"]]
        BY <2>1 DEF CallClient
  <2> QED BY <2>1, <2>2
<1>4. Telling(l) /\ reported'[l] = reported[l] /\ kept'[l] = kept[l]
      BY <1>1 DEF TellInv
<1>5. k \notin Output /\ (k \in End => Append(heard[l], k) = reported[l])
      BY <1>1, <1>4 DEF Telling
<1> DEFINE h == Append(heard[l], k)
<1>6. heard'[l] = h
      BY <1>1, <1>2
<1> HIDE DEF k
<1>7. /\ Len(h) = Len(heard[l]) + 1 /\ h # <<>> /\ h[Len(heard[l]) + 1] = k
      /\ \A i \in 1 .. Len(heard[l]) : h[i] = heard[l][i]
      BY <1>2, <1>3, AppendProperties
<1>8. k \in End => h = reported[l]
      BY <1>5
<1> HIDE DEF h
<1>9. Telling(l)'
  <2>1. Told(l)' => k \in End
    <3>1. Last(h) = k
          BY <1>2, <1>7 DEF Last
    <3> QED BY <1>6, <3>1 DEF Told
  <2>2. Told(l)' => heard'[l] = reported'[l]
        BY <1>4, <1>6, <1>8, <2>1
  <2> QED BY <1>3, <1>4, <1>5, <2>2 DEF Telling
<1>10. ASSUME ~destroyed PROVE Order(l)'
  <2>1. Order(l)
        BY <1>10 DEF TellInv, OrderInv
  <2>2. /\ k = reported[l][Taken(l)] /\ Taken(l) <= Len(reported[l])
        /\ completion[l] # "Running" => Ended(l) /\ Taken(l) = Len(reported[l])
        /\ ~setup.delayed => kept[l] = <<>>
        /\ k \in End => completion[l] # "Running"
        /\ \A i \in 1 .. Len(heard[l]) : heard[l][i] = reported[l][i]
        /\ Lined(queue, reported[l], l, Taken(l))
        BY <1>1, <2>1 DEF Order, k
  <2>3. Taken(l) = Len(heard[l]) + Ahead(l) + 1
    <3>1. InHand(l) = 1
          BY <1>1 DEF InHand
    <3> QED BY <3>1 DEF Taken
  <2>4. Ahead(l) = 0
    <3>1. CASE k \in End
          BY <2>2, <3>1 DEF Ahead
    <3>2. CASE k \notin End
      <4>1. k = "Launched"
            BY <1>3, <1>5, <3>2 DEF Kind
      <4>2. Taken(l) \in 1 .. Len(reported[l])
            BY <1>2, <2>2, <2>3
      <4>3. Taken(l) = 1
            BY <1>4, <2>2, <4>1, <4>2 DEF Telling
      <4> QED BY <1>2, <2>3, <4>3
    <3> QED BY <3>1, <3>2
  <2>5. Taken(l)' = Taken(l)
    <3>1. Ahead(l)' = Ahead(l)
          BY <1>1 DEF Ahead
    <3>2. InHand(l)' = 0
          BY <1>3 DEF InHand
    <3>3. Taken(l)' = Len(heard'[l]) + Ahead(l)' + InHand(l)'
          BY DEF Taken
    <3> QED BY <1>2, <1>6, <1>7, <2>3, <3>1, <3>2, <3>3
  <2>6. \A i \in 1 .. Len(heard'[l]) : heard'[l][i] = reported'[l][i]
    <3>1. Taken(l) = Len(heard[l]) + 1
          BY <1>2, <2>3, <2>4
    <3>2. \A i \in 1 .. Len(h) : i \in 1 .. Len(heard[l]) \/ i = Len(heard[l]) + 1
          BY <1>2, <1>7
    <3>3. \A i \in 1 .. Len(h) : h[i] = reported[l][i]
          BY <1>7, <2>2, <3>1, <3>2
    <3> QED BY <1>4, <1>6, <3>3
  <2>7. completion'[l] = "Running" =>
          \A i \in 1 .. Len(kept'[l]) : kept'[l][i] = reported'[l][Len(heard'[l]) + i]
    <3> SUFFICES ASSUME completion'[l] = "Running", NEW i \in 1 .. Len(kept'[l]) PROVE FALSE
          OBVIOUS
    <3>1. completion[l] = "Running" /\ i \in 1 .. Len(kept[l])
          BY <1>1
    <3>2. Len(kept[l]) = 0
          BY <2>4, <3>1 DEF Ahead
    <3> QED BY <3>1, <3>2
  <2>8. /\ Taken(l)' <= Len(reported'[l]) /\ Lined(queue', reported'[l], l, Taken(l)')
        /\ completion'[l] # "Running" => Ended(l)' /\ Taken(l)' = Len(reported'[l])
        /\ ~setup'.delayed => kept'[l] = <<>>
        /\ k \in End => completion'[l] # "Running"
        BY <1>1, <2>2, <2>5 DEF Ended
  <2> QED BY <1>3, <2>6, <2>7, <2>8 DEF Order
<1> QED BY <1>9, <1>10, TellOne DEF CallbackStep

(* The rest of a callback, which says nothing.                             *)
LEMMA TellFinish ==
  ASSUME Inv, TellInv, NEW l \in Launches, FinishCallback(l) \/ SignalChange(l)
  PROVE  TellInv'
<1>1. /\ callback[l].at \in {"told", "finished"} /\ callback'[l].at \in {"finished", "none"}
      /\ callback'[l].at = "finished" => callback[l].at = "told"
                                         /\ callback'[l].kind = callback[l].kind
      /\ UNCHANGED <<setup, reported, heard, kept, queue, destroyed>>
  <2>1. callback \in [Launches -> Callbacks]
        BY CallbackTypes DEF Inv
  <2>2. CASE FinishCallback(l)
    <3>1. callback[l].at = "told" /\ callback' = [callback EXCEPT ![l].at = "finished"]
          BY <2>2 DEF FinishCallback
    <3>2. [callback EXCEPT ![l].at = "finished"]
            = [callback EXCEPT ![l] = [kind |-> callback[l].kind, at |-> "finished"]]
          BY <3>1, CallbackTypes DEF Inv, Places
    <3>3. callback'[l] = [kind |-> callback[l].kind, at |-> "finished"]
          BY <2>1, <3>1, <3>2
    <3> QED BY <2>2, <3>1, <3>3 DEF FinishCallback, launchVars
  <2>3. CASE SignalChange(l)
    <3>1. callback'[l] = Idle
          BY <2>1, <2>3 DEF SignalChange
    <3> QED BY <2>3, <3>1 DEF SignalChange, launchVars, Idle
  <2> QED BY <2>2, <2>3
<1>2. Telling(l)'
  <2>1. Told(l)' = Told(l) /\ Telling(l)
        BY <1>1 DEF Told, TellInv
  <2> QED BY <1>1, <2>1 DEF Telling
<1>3. ASSUME ~destroyed PROVE Order(l)'
  <2>1. Order(l)
        BY <1>3 DEF TellInv, OrderInv
  <2>2. completion'[l] = "Running" <=> completion[l] = "Running"
    <3>1. CASE SignalChange(l)
          BY <3>1 DEF SignalChange
    <3>2. CASE FinishCallback(l)
      <4>1. completion \in [Launches -> {"Running", "Reported", "CallbackFinished"}]
            BY DEF Inv, HandlerTypeOK
      <4>2. callback[l].kind \in End => completion[l] # "Running"
            BY <2>1, <3>2 DEF Order, FinishCallback
      <4> QED BY <3>2, <4>1, <4>2 DEF FinishCallback
    <3> QED BY <3>1, <3>2
  <2>3. Taken(l)' = Taken(l)
    <3>1. Ahead(l)' = Ahead(l)
          BY <1>1, <2>2 DEF Ahead
    <3>2. InHand(l)' = 0 /\ InHand(l) = 0
          BY <1>1 DEF InHand
    <3>3. Taken(l)' = Len(heard'[l]) + Ahead(l)' + InHand(l)'
          BY DEF Taken
    <3>4. Taken(l) = Len(heard[l]) + Ahead(l) + InHand(l)
          BY DEF Taken
    <3> QED BY <1>1, <3>1, <3>2, <3>3, <3>4
  <2>4. /\ Taken(l)' <= Len(reported'[l]) /\ Lined(queue', reported'[l], l, Taken(l)')
        /\ completion'[l] # "Running" => Ended(l)' /\ Taken(l)' = Len(reported'[l])
        /\ ~setup'.delayed => kept'[l] = <<>>
        BY <1>1, <2>1, <2>2, <2>3 DEF Order, Ended
  <2>5. \A i \in 1 .. Len(heard'[l]) : heard'[l][i] = reported'[l][i]
        BY <1>1, <2>1 DEF Order
  <2>6. completion'[l] = "Running" =>
          \A i \in 1 .. Len(kept'[l]) : kept'[l][i] = reported'[l][Len(heard'[l]) + i]
        BY <1>1, <2>1, <2>2 DEF Order
  <2> QED BY <1>1, <2>4, <2>5, <2>6 DEF Order
<1> QED BY <1>2, <1>3, TellOne DEF CallbackStep

(* Nothing has been reported at first.                                     *)
LEMMA TellInit == HandlerInit => TellInv
<1> SUFFICES ASSUME HandlerInit, NEW l \in Launches PROVE Order(l) /\ Telling(l)
    BY DEF TellInv, OrderInv
<1>1. /\ reported[l] = <<>> /\ heard[l] = <<>> /\ kept[l] = <<>> /\ callback[l].at = "none"
      /\ completion[l] = "Running" /\ queue = <<>>
      BY DEF HandlerInit, Idle
<1>2. Taken(l) = 0
      BY <1>1 DEF Taken, Ahead, InHand
<1>3. <<>> \in Seq(Kind) /\ Len(<<>>) = 0
      OBVIOUS
<1>4. Lined(queue, reported[l], l, Taken(l))
  <2>1. \A p \in DOMAIN queue : queue[p].launch # l
        BY <1>1
  <2>2. /\ reported[l] \in Seq(Kind) /\ Taken(l) \in Nat /\ Taken(l) <= Len(reported[l])
        /\ Taken(l) = Len(reported[l])
        BY <1>1, <1>2, <1>3
  <2> QED BY <2>1, <2>2, LinedNone
<1>5. Order(l)
      BY <1>1, <1>2, <1>3, <1>4 DEF Order
<1>6. Telling(l)
      BY <1>1, <1>3 DEF Telling, Told
<1> QED BY <1>5, <1>6

LEMMA TellStep ==
  ASSUME Inv, TellInv, [HandlerNext]_handlerVars
  PROVE  TellInv'
<1>1. CASE UNCHANGED handlerVars
  <2>1. /\ UNCHANGED <<setup, reported, callback, queue, heard, kept>>
        /\ destroyed' = destroyed /\ completion' = completion
        BY <1>1 DEF handlerVars, listVars, launchVars, callVars
  <2> QED BY <2>1, TellIdle
<1>2. ASSUME NEW l \in Launches, LaunchStep(l) \/ ChildEnds(l) PROVE TellInv'
  <2>1. ASSUME ThreadEnds(l) \/ ChildEnds(l) PROVE TellInv'
    <3>1. /\ UNCHANGED <<setup, reported, callback, queue, heard, kept>>
          /\ destroyed' = destroyed /\ completion' = completion
          BY <2>1 DEF ThreadEnds, ChildEnds, listVars, callVars
    <3> QED BY <3>1, TellIdle
  <2> QED BY <1>2, <2>1, TellReport DEF LaunchStep
<1>3. ASSUME NEW l \in Launches, CallbackStep(l) PROVE TellInv'
      BY <1>3, TellCallOutput, TellIgnore, TellKeep, TellEnter, TellClient, TellFinish
         DEF CallbackStep
<1> QED BY <1>1, <1>2, <1>3, WhoSteps, TellOwner, TellTake

(* What has been heard is a beginning of what was reported.                *)
LEMMA HeardIsPrefix ==
  ASSUME NEW h \in Seq(Kind), NEW r \in Seq(Kind), Len(h) <= Len(r),
         \A i \in 1 .. Len(h) : h[i] = r[i]
  PROVE  IsPrefix(h, r)
<1>1. Len(h) \in Nat /\ Len(r) \in Nat /\ \A i \in 1 .. Len(r) : r[i] \in Kind
      BY LenProperties, ElementOfSeq
<1> DEFINE b == SubSeq(r, 1, Len(h))
<1>2. /\ b \in Seq(Kind) /\ Len(b) = IF 1 <= Len(h) THEN Len(h) - 1 + 1 ELSE 0
      /\ \A i \in 1 .. Len(h) - 1 + 1 : b[i] = r[1 + i - 1]
  <2>1. 1 \in Int /\ Len(h) \in Int /\ \A i \in 1 .. Len(h) : r[i] \in Kind
        BY <1>1
  <2> HIDE DEF b
  <2> QED BY <2>1, SubSeqProperties DEF b
<1> HIDE DEF b
<1>3. Len(b) = Len(h) /\ \A i \in 1 .. Len(h) : b[i] = h[i]
      BY <1>1, <1>2
<1>4. b = h
      BY <1>2, <1>3, SeqEqual
<1> QED BY <1>4 DEF IsPrefix, b

LEMMA TellingIsTold == Inv /\ TellInv => LaunchesAreTold
<1> SUFFICES ASSUME Inv, TellInv, NEW l \in Launches
             PROVE  /\ ~destroyed => IsPrefix(heard[l], reported[l])
                    /\ Told(l) => heard[l] = reported[l]
    BY DEF LaunchesAreTold
<1>1. ASSUME ~destroyed PROVE IsPrefix(heard[l], reported[l])
  <2>1. Order(l)
        BY <1>1 DEF TellInv, OrderInv
  <2>2. /\ heard[l] \in Seq(Kind) /\ reported[l] \in Seq(Kind) /\ Len(heard[l]) \in Nat
        /\ Ahead(l) \in Nat /\ InHand(l) \in {0, 1} /\ Len(reported[l]) \in Nat
        BY TellTypes
  <2>3. Len(heard[l]) + Ahead(l) + InHand(l) <= Len(reported[l])
        BY <2>1 DEF Order, Taken
  <2>4. Len(heard[l]) <= Len(reported[l])
        BY <2>2, <2>3
  <2> QED BY <2>1, <2>2, <2>4, HeardIsPrefix DEF Order
<1> QED BY <1>1 DEF TellInv, Telling

----------------------------------------------------------------------------
(* What f_BlockOnExit has waited for.                                      *)

(* Before the handler is destroyed a launch waits for its end, whoever     *)
(* closes it, and its thread ends with that.                               *)
WaitInv ==
  ~destroyed => \A l \in Launches : closing[l] # "none" /\ (thread[l] = "ended" => Ended(l))

(* The launches that f_BlockOnExit leaves: those that run, and those that  *)
(* it has come by and has not joined.                                      *)
Remaining ==
  {l \in ToSet(added) : \/ Running(l)
                        \/ l \notin ToSet(owner.todo) /\ handle[l] \in {"open", "null"}}

BlockInv ==
  /\ WaitInv
  /\ owner.does = "block" => Cardinality(Remaining) <= setup.most

LEMMA AddedFinite ==
  ASSUME Inv
  PROVE  IsFiniteSet(ToSet(added)) /\ ToSet(added) \subseteq Launches
<1>1. /\ added \in Seq(Launches) /\ Len(added) \in Nat /\ DOMAIN added = 1 .. Len(added)
      /\ \A i \in 1 .. Len(added) : added[i] \in Launches
      BY OwnerFacts, LenProperties, ElementOfSeq
<1>2. ToSet(added) = {added[i] : i \in 1 .. Len(added)}
      BY <1>1 DEF ToSet
<1> DEFINE f == [i \in 1 .. Len(added) |-> added[i]]
<1>3. f \in Surjection(1 .. Len(added), ToSet(added))
      BY <1>2 DEF Surjection
<1>4. IsFiniteSet(1 .. Len(added))
      BY <1>1, FS_Interval
<1>5. IsFiniteSet(ToSet(added))
      BY <1>3, <1>4, FS_Surjection
<1> QED BY <1>1, <1>2, <1>5

(* Fewer remain, and no more than may.                                     *)
LEMMA FewerRemain ==
  ASSUME Inv, NEW S \in SUBSET ToSet(added), NEW T \in SUBSET S, NEW n \in Nat,
         Cardinality(S) <= n
  PROVE  Cardinality(T) <= n
<1>1. IsFiniteSet(S)
      BY AddedFinite, FS_Subset
<1>2. IsFiniteSet(T) /\ Cardinality(T) <= Cardinality(S)
      BY <1>1, FS_Subset
<1>3. Cardinality(S) \in Nat /\ Cardinality(T) \in Nat
      BY <1>1, <1>2, FS_CardinalityType
<1> QED BY <1>2, <1>3

(* The way a launch is closed, and its thread.                             *)
LEMMA WaitStep ==
  ASSUME Inv, WaitInv, HandlerNext
  PROVE  WaitInv'
<1> USE DEF listVars, launchVars, callVars
<1>1. ASSUME UNCHANGED <<closing, thread, reported>>, destroyed => destroyed'
      PROVE  WaitInv'
      BY <1>1 DEF WaitInv, Ended
<1>2. ASSUME NEW l \in Launches, LaunchStep(l) \/ ChildEnds(l) PROVE WaitInv'
  <2>1. CASE ThreadEnds(l)
    <3>1. /\ thread' = [thread EXCEPT ![l] = "ended"]
          /\ UNCHANGED <<destroyed, closing, reported>>
          /\ Ended(l) \/ closing[l] = "none"
          BY <2>1 DEF ThreadEnds
    <3> QED BY <3>1, OwnerFacts DEF WaitInv, Ended
  <2>2. CASE ChildEnds(l)
        BY <1>1, <2>2 DEF ChildEnds
  <2>3. CASE \E kind \in Kind : Report(l, kind)
    <3>1. PICK kind \in Kind : Report(l, kind)
          BY <2>3
    <3>2. /\ UNCHANGED <<destroyed, closing, thread>> /\ thread[l] = "running"
          /\ reported' = [reported EXCEPT ![l] = Append(@, kind)]
          BY <3>1 DEF Report, Free
    <3>3. reported \in [Launches -> Reports]
          BY DEF Inv, HandlerTypeOK
    <3> QED BY <3>2, <3>3 DEF WaitInv, Ended
  <2> QED BY <1>2, <2>1, <2>2, <2>3 DEF LaunchStep
<1>3. CASE TakeCallback
      BY <1>1, <1>3, TakeShape
<1>4. ASSUME NEW l \in Launches, CallbackStep(l) PROVE WaitInv'
      BY <1>1, <1>4, CallbackShape
<1>5. CASE \/ Join \/ Check \/ Pause \/ Return \/ BeginWait \/ WaitForChange \/ HandlerGone
           \/ BeginDestroy \/ WaitTimeout \/ GetFirstNotDone
           \/ \E operation \in Operation : Begin(operation)
  <2>1. UNCHANGED <<closing, thread, reported>>
        BY <1>5 DEF Join, Check, Pause, Return, BeginWait, WaitForChange, HandlerGone,
                    BeginDestroy, WaitTimeout, GetFirstNotDone, Begin
  <2>2. destroyed' = destroyed \/ BeginDestroy
        BY <1>5 DEF Join, Check, Pause, Return, BeginWait, WaitForChange, HandlerGone,
                    WaitTimeout, GetFirstNotDone, Begin
  <2>3. BeginDestroy => destroyed'
        BY DEF BeginDestroy
  <2> QED BY <1>1, <2>1, <2>2, <2>3
<1>6. ASSUME NEW l \in Launches, AddLaunch(l) PROVE WaitInv'
  <2>1. /\ UNCHANGED <<destroyed, closing, reported>>
        /\ thread' = [thread EXCEPT ![l] = "running"] \/ thread' = thread
        BY <1>6 DEF AddLaunch
  <2> QED BY <2>1, OwnerFacts DEF WaitInv, Ended
<1>7. ASSUME NEW l \in Launches, TerminateNext(l) \/ ReapNext(l) \/ BlockNext(l)
      PROVE  WaitInv'
  <2>1. /\ UNCHANGED <<destroyed, thread, reported>>
        /\ \/ closing' = closing
           \/ \E way \in {"wait", "linger"} : closing' = [closing EXCEPT ![l] = way]
        BY <1>7 DEF TerminateNext, ReapNext, BlockNext, CloseHandle
  <2> QED BY <2>1, OwnerFacts DEF WaitInv, Ended
<1>8. ASSUME NEW l \in Launches, DestroyNext(l) PROVE WaitInv'
  <2>1. destroyed' = destroyed /\ destroyed
        BY <1>8 DEF DestroyNext, Visits, Inv, OwnerInv
  <2> QED BY <2>1 DEF WaitInv
<1> QED BY <1>2, <1>3, <1>4, <1>5, <1>6, <1>7, <1>8 DEF HandlerNext, OwnerStep

(* A step of a launch, or of a callback, leaves no more.                   *)
LEMMA RemainingCalls ==
  ASSUME Inv, BlockInv, UNCHANGED <<setup, owner, added, handle>>,
         \A l \in Launches : completion'[l] = "Running" => completion[l] = "Running"
  PROVE  owner'.does = "block" => Cardinality(Remaining') <= setup'.most
<1>1. Remaining' \subseteq Remaining
      BY AddedFinite DEF Remaining, Running, Lingering
<1>2. Remaining \subseteq ToSet(added) /\ setup.most \in Nat
      BY HandlerAssumption DEF Remaining, Inv, HandlerTypeOK
<1>3. owner.does = "block" => Cardinality(Remaining) <= setup.most
      BY DEF BlockInv
<1> QED BY <1>1, <1>2, <1>3, FewerRemain

(* A callback never makes a launch run again.                              *)
LEMMA CallbackCompletes ==
  ASSUME Inv, NEW l \in Launches, CallbackStep(l)
  PROVE  \A m \in Launches : completion'[m] = "Running" => completion[m] = "Running"
BY OwnerFacts DEF CallbackStep, CallOutput, IgnoreCallback, KeepOutput, EnterCallback, CallClient,
   FinishCallback, SignalChange, listVars

(* The loop of f_BlockOnExit joins every launch it comes by that has       *)
(* ended.                                                                  *)
LEMMA RemainingNext ==
  ASSUME Inv, BlockInv, NEW l \in Launches, BlockNext(l)
  PROVE  owner'.does = "block" => Cardinality(Remaining') <= setup'.most
<1> SUFFICES ASSUME owner'.does = "block"
             PROVE  Cardinality(Remaining') <= setup'.most
    OBVIOUS
<1>1. /\ UNCHANGED <<setup, added, completion>> /\ owner.does = "block"
      /\ owner.todo # <<>> /\ l = Head(owner.todo)
      BY DEF BlockNext, Visits
<1>2. owner \in Owners /\ handle \in [Launches -> Handles]
      BY OwnerFacts
<1>3. ToSet(owner.todo) \subseteq {l} \cup ToSet(Tail(owner.todo))
      BY <1>1, OwnerFacts, TailElements
<1>4. /\ owner'.todo = Tail(owner.todo)
      /\ \A m \in Launches \ {l} : handle'[m] = handle[m]
      /\ \/ handle'[l] = handle[l] /\ (Running(l) \/ handle[l] \notin {"open", "null"})
         \/ handle'[l] = "closed"
  <2>1. CASE Running(l)
        BY <1>2, <2>1 DEF BlockNext, PassBy, Owners
  <2>2. CASE ~Running(l) /\ handle[l] = "null"
    <3>1. owner' = [Nothing EXCEPT !.does = "fault"]
          BY <2>2 DEF BlockNext
    <3> QED BY <3>1 DEF Nothing
  <2>3. CASE ~Running(l) /\ handle[l] = "open"
    <3>1. CloseHandle(l, "wait", Tail(owner.todo))
          BY <2>3 DEF BlockNext
    <3> QED BY <1>2, <3>1 DEF CloseHandle, Owners
  <2>4. CASE ~Running(l) /\ handle[l] \notin {"open", "null"}
    <3>1. PassBy /\ handle' = handle
          BY <2>4 DEF BlockNext
    <3> QED BY <1>2, <2>4, <3>1 DEF PassBy, Owners
  <2> QED BY <2>1, <2>2, <2>3, <2>4
<1>5. ASSUME NEW m \in ToSet(added),
             \/ Running(m)'
             \/ m \notin ToSet(owner'.todo) /\ handle'[m] \in {"open", "null"}
      PROVE  m \in Remaining
  <2>1. m \in Launches
        BY AddedFinite
  <2>2. CASE m = l
        BY <1>1, <1>4, <1>5, <2>2 DEF Remaining, Running, Lingering
  <2>3. CASE m # l
        BY <1>1, <1>3, <1>4, <1>5, <2>1, <2>3 DEF Remaining, Running, Lingering
  <2> QED BY <2>2, <2>3
<1>6. Remaining' \subseteq Remaining
      BY <1>1, <1>5 DEF Remaining
<1>7. Remaining \subseteq ToSet(added) /\ setup.most \in Nat
      BY HandlerAssumption DEF Remaining, Inv, HandlerTypeOK
<1>8. Cardinality(Remaining) <= setup.most
      BY <1>1 DEF BlockInv
<1> QED BY <1>1, <1>6, <1>7, <1>8, FewerRemain

(* The owner begins to join when few enough run.                           *)
LEMMA RemainingCheck ==
  ASSUME Inv, Check
  PROVE  owner'.does = "block" => Cardinality(Remaining') <= setup'.most
<1> SUFFICES ASSUME owner'.does = "block"
             PROVE  Cardinality(Remaining') <= setup'.most
    OBVIOUS
<1> DEFINE Run == {l \in ToSet(added) : Running(l)}
<1>1. Cardinality(Run) <= setup.most /\ owner' = [Nothing EXCEPT !.does = "block", !.todo = added]
  <2>1. ASSUME ~(Cardinality(Run) <= setup.most) PROVE FALSE
    <3>1. \/ owner' = [Nothing EXCEPT !.does = "pause"]
          \/ owner' = Nothing
          BY <2>1 DEF Check
    <3> QED BY <3>1 DEF Nothing
  <2> QED BY <2>1 DEF Check
<1>2. owner'.todo = added /\ UNCHANGED <<setup, added, handle, completion>>
      BY <1>1 DEF Check, Nothing, listVars
<1>3. Remaining' = Run
      BY <1>2 DEF Remaining, Running, Lingering
<1> QED BY <1>1, <1>2, <1>3

(* Every step keeps what is true of f_BlockOnExit.                         *)
LEMMA BlockStep ==
  ASSUME Inv, BlockInv, [HandlerNext]_handlerVars
  PROVE  BlockInv'
<1> USE DEF listVars, launchVars, callVars
<1>1. CASE UNCHANGED handlerVars
      BY <1>1 DEF BlockInv, WaitInv, Ended, Remaining, Running, Lingering, handlerVars
<1>2. CASE HandlerNext
  <2> DEFINE Few == owner'.does = "block" => Cardinality(Remaining') <= setup'.most
  <2>1. WaitInv'
        BY <1>2, WaitStep DEF BlockInv
  <2>2. ASSUME NEW l \in Launches, LaunchStep(l) \/ ChildEnds(l) PROVE Few
        BY <2>2, LaunchShape, RemainingCalls
  <2>3. ASSUME TakeCallback PROVE Few
        BY <2>3, TakeShape, RemainingCalls
  <2>4. ASSUME NEW l \in Launches, CallbackStep(l) PROVE Few
        BY <2>4, CallbackShape, CallbackCompletes, RemainingCalls
  <2>5. ASSUME NEW l \in Launches, TerminateNext(l) \/ ReapNext(l) \/ DestroyNext(l) PROVE Few
    <3>1. /\ owner.does \in {"terminate", "linger", "reap", "destroy"}
          /\ owner'.does = owner.does \/ owner'.does = "fault"
          BY <2>5, VisitShape DEF TerminateNext, ReapNext, DestroyNext, Visits
    <3> QED BY <3>1
  <2>6. ASSUME NEW l \in Launches, BlockNext(l) PROVE Few
        BY <2>6, RemainingNext
  <2>7. ASSUME Check PROVE Few
        BY <2>7, RemainingCheck
  <2>8. ASSUME Join PROVE Few
    <3>1. /\ owner'.does = owner.does /\ owner'.todo = owner.todo
          /\ UNCHANGED <<setup, added, handle, completion>>
          BY <2>8, OwnerFacts DEF Join, Owners
    <3>2. Remaining' = Remaining
          BY <3>1 DEF Remaining, Running, Lingering
    <3> QED BY <3>1, <3>2 DEF BlockInv
  <2>9. ASSUME \/ Pause \/ Return \/ WaitForChange \/ HandlerGone \/ BeginDestroy
               \/ WaitTimeout \/ GetFirstNotDone
        PROVE  Few
    <3>1. CASE Pause \/ Return \/ WaitForChange \/ WaitTimeout
          BY <3>1 DEF Pause, Return, WaitForChange, WaitTimeout, Nothing
    <3>2. CASE HandlerGone \/ BeginDestroy
          BY <3>2 DEF HandlerGone, BeginDestroy, Nothing
    <3>3. CASE GetFirstNotDone
      <4>1. \E i \in DOMAIN added : owner' = OwnerAt("found", <<added[i]>>, {})
            BY <3>3 DEF GetFirstNotDone, Nothing, OwnerAt
      <4> QED BY <4>1 DEF OwnerAt
    <3> QED BY <2>9, <3>1, <3>2, <3>3
  <2>10. ASSUME NEW operation \in Operation, Begin(operation) PROVE Few
    <3>1. owner'.does = IF operation = "block" THEN "check" ELSE operation
          BY <2>10 DEF Begin, Nothing
    <3> QED BY <3>1
  <2>11. ASSUME BeginWait PROVE Few
        BY <2>11, OwnerFacts DEF BeginWait, Owners
  <2>12. ASSUME NEW l \in Launches, AddLaunch(l) PROVE Few
        BY <2>12 DEF AddLaunch, MayCall
  <2>13. Few
        BY <1>2, <2>2, <2>3, <2>4, <2>5, <2>6, <2>7, <2>8, <2>9, <2>10, <2>11, <2>12
           DEF HandlerNext, OwnerStep
  <2> QED BY <2>1, <2>13 DEF BlockInv
<1> QED BY <1>1, <1>2

(* When nothing waits in the queue and nothing runs, a client has been     *)
(* told all that its launch has reported, if that has ended.               *)
LEMMA EndedIsTold ==
  ASSUME Inv, TellInv, ~destroyed, queue = <<>>,
         NEW l \in Launches, callback[l] = Idle, Ended(l)
  PROVE  Told(l)
<1>1. Order(l) /\ InHand(l) = 0
      BY DEF TellInv, OrderInv, InHand, Idle
<1>2. /\ heard[l] \in Seq(Kind) /\ kept[l] \in Seq(Output) /\ reported[l] \in Seq(Kind)
      /\ Len(heard[l]) \in Nat /\ Len(kept[l]) \in Nat /\ Len(reported[l]) \in Nat
      /\ Ahead(l) \in Nat /\ Taken(l) \in Nat
  <2>1. kept \in [Launches -> Seq(Output)]
        BY DEF Inv, HandlerTypeOK
  <2> QED BY <2>1, TellTypes
<1>3. Taken(l) = Len(reported[l])
  <2>1. Taken(l) <= Len(reported[l])
        BY <1>1 DEF Order
  <2>2. ASSUME Taken(l) + 1 <= Len(reported[l]) PROVE FALSE
    <3>1. PICK at \in [Taken(l) + 1 .. Len(reported[l]) -> DOMAIN queue] : TRUE
          BY <1>1 DEF Order, Lined
    <3>2. at[Len(reported[l])] \in DOMAIN queue
          BY <1>2, <2>2, <3>1
    <3>3. DOMAIN queue = {}
          BY EmptySeq
    <3> QED BY <3>2, <3>3
  <2> QED BY <1>2, <2>1, <2>2
<1>4. reported[l] # <<>> /\ Len(reported[l]) >= 1 /\ reported[l][Len(reported[l])] \in End
  <2>1. reported[l] # <<>> /\ Last(reported[l]) \in End
        BY DEF Ended
  <2>2. Len(reported[l]) # 0
        BY <1>2, <2>1, EmptySeq
  <2> QED BY <1>2, <2>1, <2>2 DEF Last
<1>5. Ahead(l) = 0
  <2>1. ASSUME Ahead(l) >= 1 PROVE FALSE
    <3>1. completion[l] = "Running" /\ Ahead(l) = Len(kept[l])
          BY <2>1 DEF Ahead
    <3>2. Len(kept[l]) \in 1 .. Len(kept[l])
          BY <1>2, <2>1, <3>1
    <3>3. kept[l][Len(kept[l])] \in Output
          BY <1>2, <3>2, ElementOfSeq
    <3>4. kept[l][Len(kept[l])] = reported[l][Len(heard[l]) + Len(kept[l])]
          BY <1>1, <3>1, <3>2 DEF Order
    <3>5. Len(heard[l]) + Len(kept[l]) = Len(reported[l])
      <4>1. Len(heard[l]) + Ahead(l) + InHand(l) = Len(reported[l])
            BY <1>3 DEF Taken
      <4>2. InHand(l) = 0
            BY <1>1
      <4>3. \A a, b, c \in Nat : a + b + 0 = c => a + b = c
            OBVIOUS
      <4>4. Len(heard[l]) \in Nat /\ Len(kept[l]) \in Nat /\ Len(reported[l]) \in Nat
            BY <1>2
      <4>5. Len(heard[l]) + Len(kept[l]) + 0 = Len(reported[l])
            BY <3>1, <4>1, <4>2, Zenon
      <4> QED BY <4>3, <4>4, <4>5, Zenon
    <3> QED BY <1>4, <3>3, <3>4, <3>5 DEF Output, End
  <2> QED BY <1>2, <2>1
<1>6. Len(heard[l]) = Len(reported[l])
      BY <1>1, <1>2, <1>3, <1>5 DEF Taken
<1>7. heard[l][Len(heard[l])] \in End
      BY <1>1, <1>2, <1>4, <1>6 DEF Order
<1>8. heard[l] # <<>>
      BY <1>4, <1>6, EmptySeq
<1> QED BY <1>7, <1>8 DEF Told, Last

(* When f_BlockOnExit returns, those that remain are the ones that its     *)
(* clients have not heard the end of.                                      *)
LEMMA BlockReturns ==
  ASSUME Inv, TellInv, BlockInv, [HandlerNext]_handlerVars,
         ~setup.dispatched, owner.does = "block", owner'.does = "nothing"
  PROVE  Cardinality({l \in ToSet(added) : handle[l] # "lingering" /\ ~Told(l)}) <= setup.most
<1>1. owner.todo = <<>> /\ owner.joins = {}
  <2>1. Return
    <3>1. HandlerNext
          BY DEF handlerVars
    <3>2. ASSUME NEW l \in Launches, LaunchStep(l) \/ ChildEnds(l) \/ CallbackStep(l)
          PROVE  FALSE
          BY <3>2, LaunchShape, CallbackShape
    <3>3. ~TakeCallback
          BY DEF TakeCallback
    <3>4. ~OwnerCall
          BY DEF OwnerCall, AddLaunch, Begin, GetFirstNotDone, BeginDestroy, WaitTimeout, MayCall
    <3>5. ASSUME NEW l \in Launches,
                 TerminateNext(l) \/ ReapNext(l) \/ BlockNext(l) \/ DestroyNext(l)
          PROVE  FALSE
          BY <3>5, VisitShape
    <3>6. ~Join
          BY OwnerFacts DEF Join, Owners
    <3>7. ~(Check \/ Pause \/ BeginWait \/ WaitForChange \/ HandlerGone)
          BY DEF Check, Pause, BeginWait, WaitForChange, HandlerGone
    <3> QED BY <3>1, <3>2, <3>3, <3>4, <3>5, <3>6, <3>7, WhoSteps DEF OwnerStep
  <2> QED BY <2>1 DEF Return
<1>2. ~destroyed /\ queue = <<>>
      BY DEF Inv, OwnerInv, ThreadInv
<1>3. ASSUME NEW l \in ToSet(added), handle[l] # "lingering", ~Told(l)
      PROVE  l \in Remaining
  <2>1. l \in Launches /\ handle[l] \in Handles /\ handle[l] # "unmade"
        BY AddedFinite, OwnerFacts DEF Inv, ListInv
  <2>2. CASE handle[l] \in {"open", "null"}
    <3>1. l \notin ToSet(owner.todo)
          BY <1>1 DEF ToSet
    <3> QED BY <2>2, <3>1 DEF Remaining
  <2>3. CASE handle[l] = "closed"
    <3>1. thread[l] = "ended"
          BY <1>1, <2>1, <2>3, OwnerFacts DEF Joined
    <3>2. Ended(l) /\ callback[l] = Idle
          BY <1>2, <2>1, <3>1 DEF BlockInv, WaitInv, Inv, ThreadInv
    <3> QED BY <1>2, <1>3, <2>1, <3>2, EndedIsTold
  <2> QED BY <1>3, <2>1, <2>2, <2>3 DEF Handles
<1>4. Remaining \subseteq ToSet(added) /\ setup.most \in Nat
      BY HandlerAssumption DEF Remaining, Inv, HandlerTypeOK
<1> DEFINE Untold == {l \in ToSet(added) : handle[l] # "lingering" /\ ~Told(l)}
<1>5. Untold \subseteq Remaining
      BY <1>3
<1>6. Cardinality(Remaining) <= setup.most
      BY DEF BlockInv
<1> QED BY <1>4, <1>5, <1>6, FewerRemain

(* The variables keep their types, a launch is in the list once, and one   *)
(* that is closed is joined, whatever the owner does.                      *)
THEOREM TypeCorrect == HandlerSpec => []HandlerTypeOK
<1>1. Inv => HandlerTypeOK
      BY DEF Inv
<1> QED BY <1>1, InitInv, InvStep, PTL DEF HandlerSpec

(* No callback of a launch uses its entry after f_ReapCompleted has removed *)
(* it, or the handler after its destructor, but for launches that linger   *)
(* on threads of their own.                                                *)
THEOREM CallbacksFound == HandlerSpec => []CallbacksFindTheirLaunch
<1>1. Inv => CallbacksFindTheirLaunch
      BY DEF Inv
<1> QED BY <1>1, InitInv, InvStep, PTL DEF HandlerSpec

(* The client of a launch hears what the launch reports, each report once  *)
(* and in order, delayed or not, and all of it before the end.             *)
THEOREM ToldInOrder == HandlerSpec => []LaunchesAreTold
<1>1. HandlerInit => Inv /\ TellInv
      BY InitInv, TellInit
<1>2. (Inv /\ TellInv) /\ [HandlerNext]_handlerVars => (Inv /\ TellInv)'
      BY InvStep, TellStep
<1>3. Inv /\ TellInv => LaunchesAreTold
      BY TellingIsTold
<1> QED BY <1>1, <1>2, <1>3, PTL DEF HandlerSpec

(* When f_BlockOnExit has waited, the clients of all but _nMaxRunning of   *)
(* the launches that do not linger have been told of the end, unless the   *)
(* callbacks are dispatched to the owner.                                  *)
THEOREM BlockTold == HandlerSpec => BlockedUntilTold
<1>1. HandlerInit => Inv /\ TellInv /\ BlockInv
  <2>1. HandlerInit => BlockInv
        BY DEF HandlerInit, BlockInv, WaitInv, Nothing
  <2> QED BY <2>1, InitInv, TellInit
<1>2. (Inv /\ TellInv /\ BlockInv) /\ [HandlerNext]_handlerVars => (Inv /\ TellInv /\ BlockInv)'
      BY InvStep, TellStep, BlockStep
<1>3. Inv /\ TellInv /\ BlockInv /\ [HandlerNext]_handlerVars =>
        [~setup.dispatched /\ owner.does = "block" /\ owner'.does = "nothing" =>
           Cardinality({l \in ToSet(added) : handle[l] # "lingering" /\ ~Told(l)}) <= setup.most
        ]_handlerVars
      BY BlockReturns
<1> QED BY <1>1, <1>2, <1>3, PTL DEF HandlerSpec, BlockedUntilTold
=============================================================================
