------------------------- MODULE LaunchActorProofs -------------------------
(***************************************************************************)
(* Theorems about LaunchActor for every set of callers, every finite set   *)
(* of kinds of output, every length of the text, every use of the actor,   *)
(* and signals that may be refused or may not.                             *)
(***************************************************************************)
EXTENDS LaunchActor, FiniteSetTheorems, SequenceTheorems, WellFoundedInduction, TLAPS

(* Nothing is dispatched, read or told before the first report.            *)
StartInv ==
  /\ launch = "none" => reports = <<>>
  /\ reports = <<>> =>
        /\ mail = <<>> /\ told = <<>> /\ ~over
        /\ \A k \in OutputKind : made[k] = 0 /\ passed[k] = 0 /\ got[k] = 0

(* A waiter has one pending stop, and one that was run has reached the     *)
(* process; who knows of the end was told by a thread that is over.        *)
StopInv ==
  /\ \A p, q \in pending : p.who = q.who => p = q
  /\ \A p \in pending : p.run => p.stop \in signals
  /\ exited => over
  /\ actor = "alive" => answer[Destroyer] = "unasked"

(* Only a simple launch tells itself, and it keeps its functors until it   *)
(* has told the end.                                                       *)
HookInv ==
  /\ actor = "gone" => mail = <<>> /\ ~hooked
  /\ ~config.simple => \A i \in DOMAIN mail : mail[i].do # "tell"
  /\ config.simple /\ launch # "none" /\ actor # "gone" /\ (~over \/ mail # <<>>) => hooked

(* How the launch went is the first that the client hears.                 *)
BeginInv ==
  /\ \A i \in DOMAIN mail : mail[i].kind \in Contract!Begin =>
        /\ told = <<>>
        /\ \A j \in DOMAIN mail : j # i => Before(i, j)
  /\ hooked /\ told = <<>> /\ reports # <<>> /\ actor # "gone" =>
        \E i \in DOMAIN mail : mail[i].kind \in Contract!Begin

(* How it ended is the last that is dispatched, and the last that the      *)
(* client hears.                                                           *)
EndInv ==
  /\ \A i \in DOMAIN mail : mail[i].kind \in Final =>
        /\ over
        /\ \A j \in DOMAIN mail : j # i => Before(j, i)
  /\ told # <<>> /\ Last(told) \in Final => over /\ mail = <<>>

(* What has been scanned without a line's end is in the buffer, nothing is *)
(* left there at the end, and a piece has text.                            *)
TextInv ==
  \A k \in OutputKind :
     /\ passed[k] + parsed[k] <= made[k] /\ got[k] <= passed[k]
     /\ over => passed[k] = made[k]
     /\ \A i \in Pieces(k) : mail[i].from <= mail[i].to

TalkInv == StartInv /\ HookInv /\ BeginInv /\ EndInv /\ TextInv /\ OutputIsWhole

Inv == TypeOK /\ StopInv /\ StopsAreServed /\ TalkInv
----------------------------------------------------------------------------
(* Sequences.                                                              *)

(* The tail of a sequence has all of its elements but the first.           *)
LEMMA TailItems ==
  ASSUME NEW S, NEW s \in Seq(S), s # <<>>
  PROVE  /\ Len(s) \in Nat \ {0} /\ DOMAIN s = 1 .. Len(s)
         /\ Head(s) \in S /\ Head(s) = s[1]
         /\ Tail(s) \in Seq(S) /\ DOMAIN Tail(s) = 1 .. (Len(s) - 1)
         /\ \A i \in 1 .. (Len(s) - 1) : Tail(s)[i] = s[i + 1]
<1>1. /\ Head(s) \in S /\ Tail(s) \in Seq(S) /\ Len(s) \in Nat /\ Len(s) > 0
      /\ Len(Tail(s)) = Len(s) - 1 /\ Head(s) = s[1]
      /\ \A i \in 1 .. Len(Tail(s)) : Tail(s)[i] = s[i + 1]
      BY HeadTailProperties, EmptySeq
<1>2. DOMAIN s = 1 .. Len(s) /\ DOMAIN Tail(s) = 1 .. Len(Tail(s))
      BY <1>1, LenProperties
<1> QED BY <1>1, <1>2

(* The first of a sequence is taken and another appended.                  *)
LEMMA MoveItems ==
  ASSUME NEW S, NEW s \in Seq(S), s # <<>>, NEW x \in S
  PROVE  /\ Append(Tail(s), x) \in Seq(S)
         /\ DOMAIN Append(Tail(s), x) = 1 .. Len(s)
         /\ \A i \in 1 .. (Len(s) - 1) : Append(Tail(s), x)[i] = s[i + 1]
         /\ Append(Tail(s), x)[Len(s)] = x
<1>1. /\ Len(s) \in Nat \ {0} /\ Tail(s) \in Seq(S) /\ DOMAIN Tail(s) = 1 .. (Len(s) - 1)
      /\ \A i \in 1 .. (Len(s) - 1) : Tail(s)[i] = s[i + 1]
      BY TailItems
<1>2. Len(Tail(s)) = Len(s) - 1
      BY HeadTailProperties, EmptySeq
<1>3. /\ Append(Tail(s), x) \in Seq(S) /\ Len(Append(Tail(s), x)) = Len(Tail(s)) + 1
      /\ \A i \in 1 .. Len(Tail(s)) : Append(Tail(s), x)[i] = Tail(s)[i]
      /\ Append(Tail(s), x)[Len(Tail(s)) + 1] = x
      BY <1>1, AppendProperties
<1>4. DOMAIN Append(Tail(s), x) = 1 .. Len(Append(Tail(s), x))
      BY <1>3, LenProperties
<1> QED BY <1>1, <1>2, <1>3, <1>4

(* Two sequences are joined.                                               *)
LEMMA JoinItems ==
  ASSUME NEW S, NEW s \in Seq(S), NEW t \in Seq(S)
  PROVE  /\ s \o t \in Seq(S) /\ Len(s) \in Nat /\ Len(t) \in Nat
         /\ DOMAIN s = 1 .. Len(s) /\ DOMAIN t = 1 .. Len(t)
         /\ DOMAIN (s \o t) = 1 .. (Len(s) + Len(t))
         /\ \A i \in DOMAIN s : (s \o t)[i] = s[i]
         /\ \A i \in DOMAIN t : (s \o t)[Len(s) + i] = t[i]
<1>1. /\ s \o t \in Seq(S) /\ Len(s \o t) = Len(s) + Len(t)
      /\ \A i \in 1 .. (Len(s) + Len(t)) :
            (s \o t)[i] = IF i <= Len(s) THEN s[i] ELSE t[i - Len(s)]
      BY ConcatProperties
<1>2. /\ Len(s) \in Nat /\ Len(t) \in Nat /\ DOMAIN s = 1 .. Len(s) /\ DOMAIN t = 1 .. Len(t)
      /\ DOMAIN (s \o t) = 1 .. Len(s \o t)
      BY <1>1, LenProperties
<1>3. ASSUME NEW i \in DOMAIN t PROVE (s \o t)[Len(s) + i] = t[i]
      BY <1>1, <1>2, <1>3
<1> QED BY <1>1, <1>2, <1>3

(* What is appended is the last, and the sequence is not empty.            *)
LEMMA AppendLast ==
  ASSUME NEW S, NEW s \in Seq(S), NEW x \in S
  PROVE  Append(s, x) \in Seq(S) /\ Append(s, x) # <<>> /\ Last(Append(s, x)) = x
<1>1. /\ Append(s, x) \in Seq(S) /\ Len(Append(s, x)) = Len(s) + 1
      /\ Append(s, x)[Len(s) + 1] = x
      BY AppendProperties
<1>2. Len(s) \in Nat
      BY LenProperties
<1> QED BY <1>1, <1>2, EmptySeq DEF Last

(* A set of natural numbers with a bound has a largest one.                *)
LEMMA LargestExists ==
  ASSUME NEW n \in Nat, NEW T \in SUBSET (0 .. n), T # {}
  PROVE  \E p \in T : \A q \in T : q <= p
<1> DEFINE U == {n - p : p \in T}
<1>1. U \subseteq Nat /\ U # {}
  <2>1. PICK p \in T : TRUE
        OBVIOUS
  <2>2. n - p \in U
        OBVIOUS
  <2>3. ASSUME NEW q \in T PROVE n - q \in Nat
        OBVIOUS
  <2> QED BY <2>2, <2>3
<1>2. PICK u \in U : \A v \in U : ~ (<<v, u>> \in OpToRel(<, Nat))
      BY <1>1, WFMin, NatLessThanWellFounded
<1>3. \A v \in U : ~ (v < u)
      BY <1>1, <1>2 DEF OpToRel
<1>4. PICK p \in T : u = n - p
      BY <1>2
<1>5. ASSUME NEW q \in T PROVE q <= p
  <2>1. n - q \in U
        OBVIOUS
  <2>2. ~ (n - q < n - p)
        BY <2>1, <1>3, <1>4
  <2> QED BY <2>2
<1> QED BY <1>5
----------------------------------------------------------------------------
(* What is underway in the mail, when its first is handled.                *)

(* What is in the mail after a step was in it before it, at another place: *)
(* the same, in the same order, and text is text.                          *)
Carried(s) ==
  /\ s \in [DOMAIN mail' -> DOMAIN mail]
  /\ \A i \in DOMAIN mail' :
        /\ mail'[i].kind = mail[s[i]].kind
        /\ mail'[i].from = mail[s[i]].from /\ mail'[i].to = mail[s[i]].to
  /\ \A i, j \in DOMAIN mail' : i # j => s[i] # s[j]
  /\ \A i, j \in DOMAIN mail' : Before(i, j)' => Before(s[i], s[j])
  /\ \A i, j \in DOMAIN mail' : Before(s[i], s[j]) => Before(i, j)'
  /\ \A k \in OutputKind : \A i \in DOMAIN mail' : i \in Pieces(k)' => s[i] \in Pieces(k)
  /\ \A k \in OutputKind : \A i \in DOMAIN mail' : s[i] \in Pieces(k) => i \in Pieces(k)'

(* The first is taken, and it was the first of all.                        *)
LEMMA DropCarries ==
  ASSUME mail \in Seq(Item), mail # <<>>, mail' = Tail(mail)
  PROVE  /\ mail' \in Seq(Item) /\ Head(mail) \in Item
         /\ 1 \in DOMAIN mail /\ mail[1] = Head(mail)
         /\ \E s : /\ Carried(s)
                   /\ \A i \in DOMAIN mail' : s[i] # 1
                   /\ \A j \in DOMAIN mail : j # 1 => \E i \in DOMAIN mail' : s[i] = j
<1> DEFINE s == [i \in DOMAIN mail' |-> i + 1]
<1>1. /\ Len(mail) \in Nat \ {0} /\ DOMAIN mail = 1 .. Len(mail)
      /\ Head(mail) \in Item /\ Head(mail) = mail[1]
      /\ mail' \in Seq(Item) /\ DOMAIN mail' = 1 .. (Len(mail) - 1)
      /\ \A i \in 1 .. (Len(mail) - 1) : mail'[i] = mail[i + 1]
      BY TailItems
<1>2. ASSUME NEW i \in DOMAIN mail'
      PROVE  s[i] = i + 1 /\ s[i] \in DOMAIN mail /\ mail'[i] = mail[s[i]] /\ s[i] # 1
      BY <1>1
<1>3. ASSUME NEW i \in DOMAIN mail', NEW j \in DOMAIN mail'
      PROVE  /\ i # j => s[i] # s[j]
             /\ Before(i, j)' => Before(s[i], s[j])
             /\ Before(s[i], s[j]) => Before(i, j)'
  <2>1. i \in Int /\ j \in Int
        BY <1>1
  <2>2. (s[i] < s[j]) <=> (i < j)
        BY <2>1, <1>2
  <2>3. i # j => s[i] # s[j]
        BY <2>1, <1>2
  <2> QED BY <2>2, <2>3, <1>2 DEF Before
<1>4. ASSUME NEW k \in OutputKind, NEW i \in DOMAIN mail'
      PROVE  (i \in Pieces(k)' => s[i] \in Pieces(k)) /\ (s[i] \in Pieces(k) => i \in Pieces(k)')
      BY <1>2 DEF Pieces
<1>5. Carried(s)
      BY <1>2, <1>3, <1>4 DEF Carried
<1>6. ASSUME NEW j \in DOMAIN mail, j # 1 PROVE \E i \in DOMAIN mail' : s[i] = j
  <2>1. j - 1 \in DOMAIN mail' /\ (j - 1) + 1 = j
        BY <1>1, <1>6
  <2> QED BY <2>1, <1>2
<1>7. 1 \in DOMAIN mail
      BY <1>1
<1> QED BY <1>1, <1>2, <1>5, <1>6, <1>7

(* The first is taken, and told by the actor to itself.                    *)
LEMMA MoveCarries ==
  ASSUME mail \in Seq(Item), mail # <<>>,
         mail' = Append(Tail(mail), [Head(mail) EXCEPT !.do = "tell"]),
         Head(mail).do # "tell",
         Head(mail).do = "state" => Head(mail).kind \notin OutputKind
  PROVE  /\ mail' \in Seq(Item)
         /\ \E s : /\ Carried(s)
                   /\ \A j \in DOMAIN mail : \E i \in DOMAIN mail' : s[i] = j
<1> DEFINE n == Len(mail)
           x == [Head(mail) EXCEPT !.do = "tell"]
           s == [i \in DOMAIN mail' |-> IF i = n THEN 1 ELSE i + 1]
<1>1. /\ n \in Nat \ {0} /\ DOMAIN mail = 1 .. n /\ Head(mail) \in Item /\ Head(mail) = mail[1]
      BY TailItems
<1>2. x \in Item /\ x.do = "tell" /\ x.kind = mail[1].kind /\ x.from = mail[1].from
      /\ x.to = mail[1].to
      BY <1>1 DEF Item
<1>3. /\ mail' \in Seq(Item) /\ DOMAIN mail' = 1 .. n
      /\ \A i \in 1 .. (n - 1) : mail'[i] = mail[i + 1]
      /\ mail'[n] = x
  <2>1. Append(Tail(mail), x) = mail'
        OBVIOUS
  <2> HIDE DEF x
  <2> QED BY <2>1, <1>2, MoveItems
<1> HIDE DEF x
<1>4. ASSUME NEW i \in DOMAIN mail', i # n
      PROVE  s[i] = i + 1 /\ s[i] \in DOMAIN mail /\ mail'[i] = mail[s[i]] /\ s[i] \in Nat
             /\ s[i] # 1 /\ i \in Nat /\ i < n
      BY <1>1, <1>3, <1>4
<1>5. n \in DOMAIN mail' /\ s[n] = 1 /\ 1 \in DOMAIN mail
      BY <1>1, <1>3
<1> HIDE DEF s
<1>6. ASSUME NEW i \in DOMAIN mail'
      PROVE  /\ s[i] \in DOMAIN mail /\ mail'[i].kind = mail[s[i]].kind
             /\ mail'[i].from = mail[s[i]].from /\ mail'[i].to = mail[s[i]].to
  <2>1. CASE i = n
        BY <2>1, <1>2, <1>3, <1>5
  <2>2. CASE i # n
        BY <2>2, <1>4
  <2> QED BY <2>1, <2>2
<1>7. ASSUME NEW i \in DOMAIN mail', NEW j \in DOMAIN mail'
      PROVE  /\ i # j => s[i] # s[j]
             /\ Before(i, j)' => Before(s[i], s[j])
             /\ Before(s[i], s[j]) => Before(i, j)'
  <2>1. CASE i = n /\ j = n
        BY <2>1, <1>1, <1>3, <1>5 DEF Before
  <2>2. CASE i = n /\ j # n
    <3>1. j \in Nat /\ j < n /\ s[j] # 1 /\ ~ (n < j) /\ 1 < s[j] /\ mail'[j] = mail[s[j]]
          BY <2>2, <1>4, <1>1
    <3>2. mail'[i].do = "tell" /\ mail[s[i]].do # "tell" /\ s[i] = 1
          BY <2>2, <1>1, <1>2, <1>3, <1>5
    <3> QED BY <2>2, <3>1, <3>2 DEF Before
  <2>3. CASE i # n /\ j = n
    <3>1. i \in Nat /\ i < n /\ s[i] # 1 /\ ~ (s[i] < 1) /\ mail'[i] = mail[s[i]]
          BY <2>3, <1>4, <1>1
    <3>2. mail'[j].do = "tell" /\ mail[s[j]].do # "tell" /\ s[j] = 1
          BY <2>3, <1>1, <1>2, <1>3, <1>5
    <3> QED BY <2>3, <3>1, <3>2 DEF Before
  <2>4. CASE i # n /\ j # n
    <3>1. /\ mail'[i] = mail[s[i]] /\ mail'[j] = mail[s[j]]
          /\ (i # j => s[i] # s[j]) /\ ((i < j) <=> (s[i] < s[j]))
          BY <2>4, <1>4
    <3> QED BY <3>1 DEF Before
  <2> QED BY <2>1, <2>2, <2>3, <2>4
<1>8. ASSUME NEW k \in OutputKind, NEW i \in DOMAIN mail'
      PROVE  (i \in Pieces(k)' => s[i] \in Pieces(k)) /\ (s[i] \in Pieces(k) => i \in Pieces(k)')
  <2>1. CASE i = n
        BY <2>1, <1>1, <1>2, <1>3, <1>5 DEF Pieces
  <2>2. CASE i # n
        BY <2>2, <1>4 DEF Pieces
  <2> QED BY <2>1, <2>2
<1>9. ASSUME NEW j \in DOMAIN mail PROVE \E i \in DOMAIN mail' : s[i] = j
  <2>1. CASE j = 1
        BY <2>1, <1>5
  <2>2. CASE j # 1
    <3>1. j - 1 \in DOMAIN mail' /\ j - 1 # n /\ (j - 1) + 1 = j
          BY <2>2, <1>1, <1>3
    <3> QED BY <3>1, <1>4
  <2> QED BY <2>1, <2>2
<1>10. s \in [DOMAIN mail' -> DOMAIN mail]
  <2>1. \A i \in DOMAIN mail' : (IF i = n THEN 1 ELSE i + 1) \in DOMAIN mail
        BY <1>1, <1>3
  <2> QED BY <2>1 DEF s
<1>11. Carried(s)
       BY <1>6, <1>7, <1>8, <1>10 DEF Carried
<1> QED BY <1>3, <1>9, <1>11
----------------------------------------------------------------------------
(* The steps, by what they do with the mail and with what the client has.  *)

(* Nothing is dispatched or handled; functors are set with the launch, and *)
(* are dropped with the subscription.                                      *)
StillStep ==
  /\ UNCHANGED <<config, mail, told, got, threadVars>>
  /\ actor' = "gone" <=> actor = "gone"
  /\ \/ hooked' = hooked /\ (launch' = "none" <=> launch = "none")
     \/ launch = "none" /\ actor # "gone" /\ launch' # "none" /\ hooked'
     \/ ~config.simple /\ ~hooked' /\ launch' = launch

DeleteStep ==
  /\ UNCHANGED <<config, launch, told, got, threadVars>>
  /\ mail' = <<>> /\ ~hooked' /\ actor' = "gone"

(* The first of the mail is handled: it is dropped, the actor tells itself *)
(* of it, or it tells the client.                                          *)
HandleStep ==
  /\ UNCHANGED <<config, launch, actor, threadVars>>
  /\ actor # "gone" /\ mail # <<>>
  /\ Head(mail).do = "state" => Head(mail).kind \notin OutputKind

DropStep ==
  /\ HandleStep /\ ~hooked /\ ~hooked' /\ UNCHANGED <<told, got>>
  /\ mail' = Tail(mail)

MoveStep ==
  /\ HandleStep /\ hooked /\ hooked' /\ UNCHANGED <<told, got>>
  /\ config.simple /\ Head(mail).do # "tell"
  /\ mail' = Append(Tail(mail), [Head(mail) EXCEPT !.do = "tell"])

ToldStep ==
  /\ HandleStep /\ hooked
  /\ mail' = Tail(mail)
  /\ config.simple <=> Head(mail).do = "tell"
  /\ told' = Append(told, Head(mail).kind)
  /\ got' = [k \in OutputKind |->
               IF Head(mail).do # "state" /\ Head(mail).kind = k THEN Head(mail).to ELSE got[k]]
  /\ hooked' \/ (config.simple /\ Head(mail).kind \in Final)

(* The launch thread reports something, and the actor is sent the text     *)
(* that is passed on and then, if it is a state, the report.               *)
Sends(items, kind) ==
  /\ items \in Seq(Item)
  /\ \A i \in DOMAIN items : items[i].do \in {"output", "state"}
  /\ \A i \in DOMAIN items : items[i].do = "state" => i = Len(items) /\ items[i].kind = kind
  /\ kind \notin OutputKind => Len(items) \in DOMAIN items /\ items[Len(items)] = State(kind)
  /\ kind \in OutputKind => \A i \in DOMAIN items : items[i].do = "output"
  /\ \A i \in DOMAIN items : items[i].do = "output" =>
        /\ items[i].kind \in OutputKind
        /\ passed[items[i].kind] < passed'[items[i].kind]
        /\ items[i].from = passed[items[i].kind] + 1 /\ items[i].to = passed'[items[i].kind]
  /\ \A i, j \in DOMAIN items :
        items[i].do = "output" /\ items[j].do = "output" /\ items[i].kind = items[j].kind => i = j
  /\ \A k \in OutputKind : passed[k] < passed'[k] =>
        \E i \in DOMAIN items : items[i].do = "output" /\ items[i].kind = k

Reads ==
  /\ made' \in [OutputKind -> Text0] /\ ends' \in [OutputKind -> SUBSET (1 .. MaxText)]
  /\ passed' \in [OutputKind -> Text0] /\ parsed' \in [OutputKind -> Text0]
  /\ \A k \in OutputKind :
        /\ passed[k] <= passed'[k] /\ passed'[k] + parsed'[k] <= made'[k]
        /\ over' => passed'[k] = made'[k]
        /\ ends[k] \subseteq ends'[k]
        /\ config.lines =>
             /\ passed[k] < passed'[k]
                => passed'[k] \in ends'[k] \/ (over' /\ passed'[k] = made'[k])
             /\ \A p \in ends'[k] : p <= passed'[k]

ReportStep(kind, items) ==
  /\ UNCHANGED <<config, launch, told, got, hooked, actor>>
  /\ launch # "none"
  /\ kind \in OutputKind \cup Final \cup {"Launched"}
  /\ kind \notin OutputKind => made' = made
  /\ Contract!Report(kind)
  /\ Reads /\ Sends(items, kind)
  /\ mail' = IF actor = "gone" THEN mail ELSE mail \o items

----------------------------------------------------------------------------
(* The parts of OutputIsWhole: nothing is lost, nothing is repeated,       *)
(* nothing is reordered, all is there at the end, and in whole lines.      *)
NoneLost(k) ==
  hooked /\ actor # "gone" => \A c \in 1 .. passed[k] :
     c <= got[k] \/ \E i \in Pieces(k) : c \in mail[i].from .. mail[i].to
NoneRepeated(k) ==
  \A i \in Pieces(k) : got[k] < mail[i].from /\ mail[i].to <= passed[k]
NoneReordered(k) ==
  \A i, j \in Pieces(k) : Before(i, j) => mail[i].to < mail[j].from
AllAtEnd(k) == told # <<>> /\ Last(told) = "Exited" => got[k] = made[k]
WholeLines(k) ==
  config.lines =>
    /\ \A i \in Pieces(k) : mail[i].to \in ends[k] \/ (over /\ mail[i].to = made[k])
    /\ \A p \in ends[k] : p <= passed[k]

WholeText(k) ==
  NoneLost(k) /\ NoneRepeated(k) /\ NoneReordered(k) /\ AllAtEnd(k) /\ WholeLines(k)

LEMMA WholeParts == OutputIsWhole <=> \A k \in OutputKind : WholeText(k)
BY DEF OutputIsWhole, WholeText, NoneLost, NoneRepeated, NoneReordered, AllAtEnd, WholeLines

LEMMA WholePartsNext == OutputIsWhole' <=> \A k \in OutputKind : WholeText(k)'
BY DEF OutputIsWhole, WholeText, NoneLost, NoneRepeated, NoneReordered, AllAtEnd, WholeLines

----------------------------------------------------------------------------
(* What each of these does to the invariant of what the client is told.    *)

(* Where nothing is dispatched, handled or told, only the functors matter. *)
LEMMA StillKeeps ==
  ASSUME StillStep, TypeOK, TalkInv
  PROVE  TalkInv'
<1>1. /\ UNCHANGED <<config, mail, told, got, reports, over, made, ends, passed, parsed>>
      /\ actor' = "gone" <=> actor = "gone"
      BY DEF StillStep, threadVars
<1>2. /\ \A i, j : Before(i, j)' <=> Before(i, j)
      /\ \A k : Pieces(k)' = Pieces(k)
      BY <1>1 DEF Before, Pieces
<1>3. launch = "none" => mail = <<>> /\ told = <<>> /\ reports = <<>>
                         /\ \A k \in OutputKind : passed[k] = 0
      BY DEF TalkInv, StartInv
<1>4. StartInv'
      BY <1>1 DEF StillStep, TalkInv, StartInv
<1>5. HookInv'
      BY <1>1, <1>3 DEF StillStep, TalkInv, HookInv
<1>6. BeginInv'
  <2>1. hooked' => hooked \/ launch = "none"
        BY DEF StillStep
  <2>2. hooked' /\ told' = <<>> /\ reports' # <<>> /\ actor' # "gone" =>
           \E i \in DOMAIN mail' : mail'[i].kind \in Contract!Begin
        BY <2>1, <1>1, <1>3 DEF TalkInv, BeginInv
  <2> QED BY <2>2, <1>1, <1>2 DEF TalkInv, BeginInv
<1>7. EndInv'
      BY <1>1, <1>2 DEF TalkInv, EndInv
<1>8. TextInv'
      BY <1>1, <1>2 DEF TalkInv, TextInv
<1>9. OutputIsWhole'
  <2> SUFFICES ASSUME NEW k \in OutputKind PROVE WholeText(k)'
        BY WholePartsNext
  <2>1. WholeText(k)
        BY WholeParts DEF TalkInv
  <2>2. NoneLost(k)'
    <3>1. hooked' => hooked \/ launch = "none"
          BY DEF StillStep
    <3>2. launch = "none" => 1 .. passed[k] = {}
          BY <1>3
    <3> QED BY <3>1, <3>2, <2>1, <1>1, <1>2 DEF WholeText, NoneLost
  <2>3. NoneRepeated(k)' /\ NoneReordered(k)' /\ AllAtEnd(k)' /\ WholeLines(k)'
        BY <2>1, <1>1, <1>2 DEF WholeText, NoneRepeated, NoneReordered, AllAtEnd, WholeLines
  <2> QED BY <2>2, <2>3 DEF WholeText
<1> QED BY <1>4, <1>5, <1>6, <1>7, <1>8, <1>9 DEF TalkInv
(* When the actor is gone, so is its mail.                                 *)
LEMMA DeleteKeeps ==
  ASSUME DeleteStep, TypeOK, TalkInv
  PROVE  TalkInv'
<1>1. /\ UNCHANGED <<config, launch, told, got, reports, over, made, ends, passed, parsed>>
      /\ mail' = <<>> /\ ~hooked' /\ actor' = "gone"
      BY DEF DeleteStep, threadVars
<1>2. DOMAIN mail' = {} /\ \A k : Pieces(k)' = {}
  <2>1. DOMAIN mail' = {}
        BY <1>1
  <2> QED BY <2>1 DEF Pieces
<1>3. StartInv' /\ HookInv' /\ BeginInv' /\ EndInv' /\ TextInv'
      BY <1>1, <1>2 DEF TalkInv, StartInv, HookInv, BeginInv, EndInv, TextInv
<1>4. OutputIsWhole'
  <2> SUFFICES ASSUME NEW k \in OutputKind PROVE WholeText(k)'
        BY WholePartsNext
  <2>1. WholeText(k)
        BY WholeParts DEF TalkInv
  <2> QED BY <2>1, <1>1, <1>2
          DEF WholeText, NoneLost, NoneRepeated, NoneReordered, AllAtEnd, WholeLines
<1> QED BY <1>3, <1>4 DEF TalkInv

(* Whatever is carried from the mail to the mail keeps what is said of it. *)
LEMMA CarriedKeeps ==
  ASSUME TypeOK, TalkInv, NEW s, Carried(s), UNCHANGED <<config, threadVars>>
  PROVE  /\ \A i \in DOMAIN mail' : mail'[i].kind \in Final =>
               over' /\ \A j \in DOMAIN mail' : j # i => Before(j, i)'
         /\ \A i \in DOMAIN mail' : mail'[i].kind \in Contract!Begin =>
               told = <<>> /\ \A j \in DOMAIN mail' : j # i => Before(i, j)'
         /\ \A k \in OutputKind : \A i \in Pieces(k)' :
               /\ got[k] < mail'[i].from /\ mail'[i].to <= passed'[k]
               /\ mail'[i].from <= mail'[i].to
         /\ \A k \in OutputKind : NoneReordered(k)' /\ WholeLines(k)'
<1>1. UNCHANGED <<config, reports, over, made, ends, passed, parsed>>
      BY DEF threadVars
<1>2. ASSUME NEW i \in DOMAIN mail'
      PROVE  /\ s[i] \in DOMAIN mail /\ mail'[i].kind = mail[s[i]].kind
             /\ mail'[i].from = mail[s[i]].from /\ mail'[i].to = mail[s[i]].to
             /\ \A j \in DOMAIN mail' : i # j => s[i] # s[j]
             /\ \A j \in DOMAIN mail' : Before(i, j)' => Before(s[i], s[j])
             /\ \A j \in DOMAIN mail' : Before(s[i], s[j]) => Before(i, j)'
             /\ \A j \in DOMAIN mail' : Before(s[j], s[i]) => Before(j, i)'
             /\ \A k \in OutputKind : i \in Pieces(k)' => s[i] \in Pieces(k)
      BY DEF Carried
<1>3. ASSUME NEW i \in DOMAIN mail', mail'[i].kind \in Final
      PROVE  over' /\ \A j \in DOMAIN mail' : j # i => Before(j, i)'
  <2>1. over /\ \A j \in DOMAIN mail : j # s[i] => Before(j, s[i])
        BY <1>2, <1>3 DEF TalkInv, EndInv
  <2> QED BY <2>1, <1>1, <1>2
<1>4. ASSUME NEW i \in DOMAIN mail', mail'[i].kind \in Contract!Begin
      PROVE  told = <<>> /\ \A j \in DOMAIN mail' : j # i => Before(i, j)'
  <2>1. told = <<>> /\ \A j \in DOMAIN mail : j # s[i] => Before(s[i], j)
        BY <1>2, <1>4 DEF TalkInv, BeginInv
  <2> QED BY <2>1, <1>1, <1>2
<1>5. ASSUME NEW k \in OutputKind
      PROVE  /\ \A i \in Pieces(k)' :
                   /\ got[k] < mail'[i].from /\ mail'[i].to <= passed'[k]
                   /\ mail'[i].from <= mail'[i].to
             /\ NoneReordered(k)' /\ WholeLines(k)'
  <2>1. WholeText(k)
        BY WholeParts DEF TalkInv
  <2>2. \A i \in Pieces(k)' : i \in DOMAIN mail'
        BY DEF Pieces
  <2>3. \A i \in Pieces(k)' :
           /\ got[k] < mail'[i].from /\ mail'[i].to <= passed'[k]
           /\ mail'[i].from <= mail'[i].to
        BY <2>1, <2>2, <1>1, <1>2 DEF WholeText, NoneRepeated, TalkInv, TextInv
  <2>4. NoneReordered(k)'
        BY <2>1, <2>2, <1>1, <1>2 DEF WholeText, NoneReordered
  <2>5. WholeLines(k)'
        BY <2>1, <2>2, <1>1, <1>2 DEF WholeText, WholeLines
  <2> QED BY <2>3, <2>4, <2>5
<1> QED BY <1>3, <1>4, <1>5

(* Without functors the first of the mail is dropped.                      *)
LEMMA DropKeeps ==
  ASSUME DropStep, TypeOK, TalkInv
  PROVE  TalkInv'
<1>1. /\ UNCHANGED <<config, launch, actor, told, got>>
      /\ UNCHANGED <<reports, over, made, ends, passed, parsed>>
      /\ actor # "gone" /\ mail # <<>> /\ ~hooked /\ ~hooked' /\ mail' = Tail(mail)
      /\ UNCHANGED threadVars
      BY DEF DropStep, HandleStep, threadVars
<1>2. PICK s : Carried(s)
      BY <1>1, DropCarries DEF TypeOK
<1>3. /\ \A i \in DOMAIN mail' : mail'[i].kind \in Final =>
            over' /\ \A j \in DOMAIN mail' : j # i => Before(j, i)'
      /\ \A i \in DOMAIN mail' : mail'[i].kind \in Contract!Begin =>
            told = <<>> /\ \A j \in DOMAIN mail' : j # i => Before(i, j)'
      /\ \A k \in OutputKind : \A i \in Pieces(k)' :
            /\ got[k] < mail'[i].from /\ mail'[i].to <= passed'[k]
            /\ mail'[i].from <= mail'[i].to
      /\ \A k \in OutputKind : NoneReordered(k)' /\ WholeLines(k)'
      BY <1>1, <1>2, CarriedKeeps
<1>4. StartInv'
      BY <1>1 DEF TalkInv, StartInv
<1>5. HookInv'
      BY <1>1 DEF TalkInv, HookInv
<1>6. BeginInv'
      BY <1>1, <1>3 DEF BeginInv
<1>7. EndInv'
      BY <1>1, <1>3 DEF TalkInv, EndInv
<1>8. TextInv'
      BY <1>1, <1>3 DEF TalkInv, TextInv
<1>9. OutputIsWhole'
  <2> SUFFICES ASSUME NEW k \in OutputKind PROVE WholeText(k)'
        BY WholePartsNext
  <2>1. WholeText(k)
        BY WholeParts DEF TalkInv
  <2> QED BY <2>1, <1>1, <1>3 DEF WholeText, NoneLost, NoneRepeated, AllAtEnd
<1> QED BY <1>4, <1>5, <1>6, <1>7, <1>8, <1>9 DEF TalkInv
(* A simple launch tells itself of the first of the mail.                  *)
LEMMA MoveKeeps ==
  ASSUME MoveStep, TypeOK, TalkInv
  PROVE  TalkInv'
<1>1. /\ UNCHANGED <<config, launch, actor, told, got>>
      /\ UNCHANGED <<reports, over, made, ends, passed, parsed>>
      /\ actor # "gone" /\ mail # <<>> /\ hooked /\ hooked' /\ config.simple
      /\ UNCHANGED threadVars
      BY DEF MoveStep, HandleStep, threadVars
<1>2. PICK s : Carried(s) /\ \A j \in DOMAIN mail : \E i \in DOMAIN mail' : s[i] = j
      BY MoveCarries DEF MoveStep, HandleStep, TypeOK
<1>3. /\ \A i \in DOMAIN mail' : mail'[i].kind \in Final =>
            over' /\ \A j \in DOMAIN mail' : j # i => Before(j, i)'
      /\ \A i \in DOMAIN mail' : mail'[i].kind \in Contract!Begin =>
            told = <<>> /\ \A j \in DOMAIN mail' : j # i => Before(i, j)'
      /\ \A k \in OutputKind : \A i \in Pieces(k)' :
            /\ got[k] < mail'[i].from /\ mail'[i].to <= passed'[k]
            /\ mail'[i].from <= mail'[i].to
      /\ \A k \in OutputKind : NoneReordered(k)' /\ WholeLines(k)'
      BY <1>1, <1>2, CarriedKeeps
<1>4. StartInv'
      BY <1>1 DEF TalkInv, StartInv
<1>5. HookInv'
      BY <1>1 DEF HookInv
<1>6. BeginInv'
  <2>1. (hooked /\ told = <<>> /\ reports # <<>> /\ actor # "gone" =>
            \E i \in DOMAIN mail : mail[i].kind \in Contract!Begin)'
    <3> SUFFICES ASSUME told = <<>>, reports # <<>>
                 PROVE  \E i \in DOMAIN mail' : mail'[i].kind \in Contract!Begin
          BY <1>1
    <3>1. PICK j \in DOMAIN mail : mail[j].kind \in Contract!Begin
          BY <1>1 DEF TalkInv, BeginInv
    <3>2. PICK i \in DOMAIN mail' : s[i] = j
          BY <1>2
    <3> QED BY <3>1, <3>2, <1>2 DEF Carried
  <2> QED BY <2>1, <1>1, <1>3 DEF BeginInv
<1>7. EndInv'
      BY <1>1, <1>3 DEF TalkInv, EndInv
<1>8. TextInv'
      BY <1>1, <1>3 DEF TalkInv, TextInv
<1>9. OutputIsWhole'
  <2> SUFFICES ASSUME NEW k \in OutputKind PROVE WholeText(k)'
        BY WholePartsNext
  <2>1. WholeText(k)
        BY WholeParts DEF TalkInv
  <2>2. NoneLost(k)'
    <3> SUFFICES ASSUME NEW c \in 1 .. passed[k], ~ (c <= got[k])
                 PROVE  \E i \in Pieces(k)' : c \in mail'[i].from .. mail'[i].to
          BY <1>1 DEF NoneLost
    <3>1. PICK j \in Pieces(k) : c \in mail[j].from .. mail[j].to
          BY <2>1, <1>1 DEF WholeText, NoneLost
    <3>2. PICK i \in DOMAIN mail' : s[i] = j
          BY <1>2 DEF Pieces
    <3> QED BY <3>1, <3>2, <1>2 DEF Carried
  <2> QED BY <2>1, <2>2, <1>1, <1>3 DEF WholeText, NoneRepeated, AllAtEnd
<1> QED BY <1>4, <1>5, <1>6, <1>7, <1>8, <1>9 DEF TalkInv

(* What the client is told is the first of all: it is told of the          *)
(* beginning first and once, and of the end when nothing is left.          *)
LEMMA ToldFirst ==
  ASSUME ToldStep, TypeOK, TalkInv
  PROVE  /\ \A j \in DOMAIN mail : j # 1 => Before(1, j) /\ ~ Before(j, 1)
         /\ 1 \in DOMAIN mail /\ mail[1] = Head(mail) /\ Head(mail) \in Item
         /\ told' \in Seq(OutputKind \cup Final \cup {"Launched"})
         /\ told' # <<>> /\ Last(told') = Head(mail).kind
         /\ told = <<>> <=> Head(mail).kind \in Contract!Begin
         /\ Head(mail).kind \in Final => over /\ mail' = <<>> /\ DOMAIN mail = {1}
<1>1. /\ mail # <<>> /\ mail' = Tail(mail) /\ hooked /\ actor # "gone"
      /\ config.simple <=> mail[1].do = "tell"
      /\ Len(mail) \in Nat \ {0} /\ DOMAIN mail = 1 .. Len(mail)
      /\ Head(mail) \in Item /\ Head(mail) = mail[1]
      BY TailItems DEF ToldStep, HandleStep, TypeOK
<1>2. ASSUME NEW j \in DOMAIN mail, j # 1 PROVE Before(1, j) /\ ~ Before(j, 1)
  <2>1. j \in Nat /\ 1 < j /\ ~ (j < 1)
        BY <1>1, <1>2
  <2>2. mail[1].do = "tell" \/ mail[j].do # "tell"
        BY <1>1, <1>2 DEF TalkInv, HookInv
  <2> QED BY <2>1, <2>2 DEF Before
<1>3. 1 \in DOMAIN mail
      BY <1>1
<1>4. /\ told' \in Seq(OutputKind \cup Final \cup {"Launched"})
      /\ told' # <<>> /\ Last(told') = Head(mail).kind
  <2>1. Head(mail).kind \in OutputKind \cup Final \cup {"Launched"}
        BY <1>1 DEF Item
  <2> QED BY <2>1, AppendLast DEF ToldStep, TypeOK
<1>5. told = <<>> <=> Head(mail).kind \in Contract!Begin
  <2>1. ASSUME told = <<>> PROVE Head(mail).kind \in Contract!Begin
    <3>1. reports # <<>>
          BY <1>1 DEF TalkInv, StartInv
    <3>2. PICK i \in DOMAIN mail : mail[i].kind \in Contract!Begin
          BY <2>1, <3>1, <1>1 DEF TalkInv, BeginInv
    <3>3. i # 1 => Before(i, 1)
          BY <3>2, <1>3 DEF TalkInv, BeginInv
    <3> QED BY <3>2, <3>3, <1>1, <1>2
  <2>2. ASSUME Head(mail).kind \in Contract!Begin PROVE told = <<>>
        BY <2>2, <1>1, <1>3 DEF TalkInv, BeginInv
  <2> QED BY <2>1, <2>2
<1>6. ASSUME Head(mail).kind \in Final PROVE over /\ mail' = <<>> /\ DOMAIN mail = {1}
  <2>1. over /\ \A j \in DOMAIN mail : j # 1 => Before(j, 1)
        BY <1>1, <1>3, <1>6 DEF TalkInv, EndInv
  <2>2. DOMAIN mail = {1}
        BY <2>1, <1>2, <1>3
  <2>3. Len(mail) = 1
    <3>1. Len(mail) \in DOMAIN mail
          BY <1>1
    <3> QED BY <3>1, <2>2
  <2>4. Len(Tail(mail)) = 0 /\ Tail(mail) \in Seq(Item)
        BY <2>3, <1>1, HeadTailProperties, EmptySeq DEF TypeOK
  <2> QED BY <2>1, <2>2, <2>4, <1>1, EmptySeq
<1> QED BY <1>1, <1>2, <1>3, <1>4, <1>5, <1>6

(* The client is told.                                                     *)
LEMMA ToldKeeps ==
  ASSUME ToldStep, TypeOK, TalkInv
  PROVE  TalkInv'
<1> DEFINE h == Head(mail)
<1>1. /\ UNCHANGED <<config, launch, actor>>
      /\ UNCHANGED <<reports, over, made, ends, passed, parsed>>
      /\ actor # "gone" /\ mail # <<>> /\ hooked /\ mail' = Tail(mail)
      /\ UNCHANGED threadVars
      /\ got' = [k \in OutputKind |-> IF h.do # "state" /\ h.kind = k THEN h.to ELSE got[k]]
      /\ hooked' \/ (config.simple /\ h.kind \in Final)
      BY DEF ToldStep, HandleStep, threadVars
<1>2. PICK s : /\ Carried(s)
               /\ \A i \in DOMAIN mail' : s[i] # 1
               /\ \A j \in DOMAIN mail : j # 1 => \E i \in DOMAIN mail' : s[i] = j
      BY <1>1, DropCarries DEF TypeOK
<1>3. /\ \A i \in DOMAIN mail' : mail'[i].kind \in Final =>
            over' /\ \A j \in DOMAIN mail' : j # i => Before(j, i)'
      /\ \A k \in OutputKind : \A i \in Pieces(k)' :
            /\ got[k] < mail'[i].from /\ mail'[i].to <= passed'[k]
            /\ mail'[i].from <= mail'[i].to
      /\ \A k \in OutputKind : NoneReordered(k)' /\ WholeLines(k)'
      BY <1>1, <1>2, CarriedKeeps
<1>4. /\ \A j \in DOMAIN mail : j # 1 => Before(1, j) /\ ~ Before(j, 1)
      /\ 1 \in DOMAIN mail /\ mail[1] = h /\ h \in Item
      /\ told' # <<>> /\ Last(told') = h.kind
      /\ h.kind \in Final => over /\ mail' = <<>> /\ DOMAIN mail = {1}
      BY ToldFirst
<1> HIDE DEF h
<1>5. ASSUME NEW k \in OutputKind, h.do # "state", h.kind = k
      PROVE  1 \in Pieces(k) /\ got'[k] = mail[1].to
      BY <1>1, <1>4, <1>5 DEF Pieces
<1>6. ASSUME NEW k \in OutputKind, ~ (h.do # "state" /\ h.kind = k)
      PROVE  1 \notin Pieces(k) /\ got'[k] = got[k]
      BY <1>1, <1>4, <1>6 DEF Pieces
<1>7. StartInv'
      BY <1>1 DEF TalkInv, StartInv
<1>8. HookInv'
  <2>1. ~config.simple => \A i \in DOMAIN mail' : mail'[i].do # "tell"
    <3>1. ~config.simple => \A i \in DOMAIN mail : mail[i].do # "tell"
          BY DEF TalkInv, HookInv
    <3>2. \A i \in DOMAIN mail' : i + 1 \in DOMAIN mail /\ mail'[i] = mail[i + 1]
          BY <1>1, TailItems DEF TypeOK
    <3> QED BY <3>1, <3>2
  <2>2. hooked' \/ (over /\ mail' = <<>>)
        BY <1>1, <1>4
  <2>3. over' = over /\ config' = config /\ actor' # "gone"
        BY <1>1
  <2> QED BY <2>1, <2>2, <2>3 DEF HookInv
<1>9. BeginInv'
  <2> SUFFICES ASSUME NEW i \in DOMAIN mail', mail'[i].kind \in Contract!Begin PROVE FALSE
        BY <1>4 DEF BeginInv
  <2>1. s[i] \in DOMAIN mail /\ s[i] # 1 /\ mail[s[i]].kind \in Contract!Begin
        BY <1>2 DEF Carried
  <2>2. Before(s[i], 1)
        BY <2>1, <1>4 DEF TalkInv, BeginInv
  <2> QED BY <2>1, <2>2, <1>4
<1>10. EndInv'
       BY <1>1, <1>3, <1>4 DEF EndInv
<1>11. ASSUME NEW k \in OutputKind
       PROVE  /\ got[k] \in Nat /\ got'[k] \in Nat /\ passed[k] \in Nat
              /\ \A i \in Pieces(k) : mail[i].from \in Nat /\ mail[i].to \in Nat
              /\ got[k] <= got'[k] /\ got'[k] <= passed[k]
              /\ WholeText(k)
  <2>1. WholeText(k)
        BY WholeParts DEF TalkInv
  <2>2. \A i \in Pieces(k) : mail[i].from \in Nat /\ mail[i].to \in Nat
    <3>1. \A i \in DOMAIN mail : mail[i] \in Item
          BY ElementOfSeq, LenProperties DEF TypeOK
    <3>2. \A x \in Item : x.from \in Nat /\ x.to \in Nat
          BY ActorAssumption DEF Item, Text0
    <3> QED BY <3>1, <3>2 DEF Pieces
  <2>3. got[k] \in Nat /\ passed[k] \in Nat /\ got[k] <= passed[k]
        BY ActorAssumption DEF TypeOK, Text0, TalkInv, TextInv
  <2>4. \A i \in Pieces(k) :
           got[k] < mail[i].from /\ mail[i].from <= mail[i].to /\ mail[i].to <= passed[k]
        BY <2>1 DEF WholeText, NoneRepeated, TalkInv, TextInv
  <2> QED BY <2>1, <2>2, <2>3, <2>4, <1>5, <1>6
<1>12. TextInv'
  <2>1. ASSUME NEW k \in OutputKind PROVE got'[k] <= passed'[k]
        BY <1>1, <1>11
  <2> QED BY <2>1, <1>1, <1>3 DEF TalkInv, TextInv
<1>13. OutputIsWhole'
  <2> SUFFICES ASSUME NEW k \in OutputKind PROVE WholeText(k)'
        BY WholePartsNext
  <2>1. NoneLost(k)'
    <3> SUFFICES ASSUME NEW c \in 1 .. passed[k], ~ (c <= got'[k])
                 PROVE  \E i \in Pieces(k)' : c \in mail'[i].from .. mail'[i].to
          BY <1>1 DEF NoneLost
    <3>1. ~ (c <= got[k])
          BY <1>11
    <3>2. PICK j \in Pieces(k) : c \in mail[j].from .. mail[j].to
          BY <3>1, <1>1, <1>11 DEF WholeText, NoneLost
    <3>3. j # 1
          BY <3>2, <1>5, <1>6, <1>11
    <3>4. PICK i \in DOMAIN mail' : s[i] = j
          BY <3>3, <1>2 DEF Pieces
    <3> QED BY <3>2, <3>4, <1>2 DEF Carried
  <2>2. NoneRepeated(k)'
    <3> SUFFICES ASSUME NEW i \in Pieces(k)' PROVE got'[k] < mail'[i].from
          BY <1>3 DEF NoneRepeated
    <3>1. i \in DOMAIN mail' /\ s[i] \in Pieces(k) /\ s[i] # 1 /\ mail'[i].from = mail[s[i]].from
          BY <1>2 DEF Carried, Pieces
    <3>2. CASE h.do # "state" /\ h.kind = k
      <4>1. Before(1, s[i])
            BY <3>1, <1>4 DEF Pieces
      <4> QED BY <4>1, <3>1, <3>2, <1>5, <1>11 DEF WholeText, NoneReordered
    <3>3. CASE ~ (h.do # "state" /\ h.kind = k)
          BY <3>3, <1>3, <1>6
    <3> QED BY <3>2, <3>3
  <2>3. AllAtEnd(k)'
    <3> SUFFICES ASSUME h.kind = "Exited" PROVE got'[k] = made[k]
          BY <1>1, <1>4 DEF AllAtEnd
    <3>1. over /\ DOMAIN mail = {1} /\ h.kind # k
          BY <1>4, ActorAssumption DEF Final
    <3>2. Pieces(k) = {} /\ got'[k] = got[k]
      <4>1. got'[k] = got[k] /\ 1 \notin Pieces(k)
            BY <3>1, <1>6
      <4> QED BY <4>1, <3>1 DEF Pieces
    <3>3. \A c \in 1 .. passed[k] : c <= got[k]
          BY <3>2, <1>1, <1>11 DEF WholeText, NoneLost
    <3>4. passed[k] <= got[k]
      <4>1. CASE passed[k] = 0
            BY <4>1, <1>11
      <4>2. CASE passed[k] # 0
        <5>1. passed[k] \in 1 .. passed[k]
              BY <4>2, <1>11
        <5> QED BY <5>1, <3>3
      <4> QED BY <4>1, <4>2
    <3>5. passed[k] = made[k]
          BY <3>1 DEF TalkInv, TextInv
    <3> QED BY <3>2, <3>4, <3>5, <1>11
  <2> QED BY <2>1, <2>2, <2>3, <1>3 DEF WholeText
<1> QED BY <1>7, <1>8, <1>9, <1>10, <1>12, <1>13 DEF TalkInv
(* What is dispatched comes after all that is underway.                    *)
LEMMA JoinCarries ==
  ASSUME TypeOK, NEW items \in Seq(Item), mail' = mail \o items,
         \A i \in DOMAIN items : items[i].do \in {"output", "state"}
  PROVE  \E n \in Nat :
            /\ mail' \in Seq(Item) /\ Len(items) \in Nat
            /\ DOMAIN mail = 1 .. n /\ DOMAIN items = 1 .. Len(items)
            /\ \A i \in DOMAIN mail : i \in DOMAIN mail' /\ mail'[i] = mail[i]
            /\ \A i \in DOMAIN items : n + i \in DOMAIN mail' /\ mail'[n + i] = items[i]
            /\ \A i \in DOMAIN mail' :
                  i \in DOMAIN mail \/ \E j \in DOMAIN items : i = n + j
            /\ \A i, j \in DOMAIN mail : Before(i, j)' <=> Before(i, j)
            /\ \A i \in DOMAIN mail, j \in DOMAIN items :
                  Before(i, n + j)' /\ ~ Before(n + j, i)'
            /\ \A i, j \in DOMAIN items : Before(n + i, n + j)' <=> i < j
<1>0. PICK n : n = Len(mail)
      OBVIOUS
<1>1. /\ mail' \in Seq(Item) /\ n \in Nat /\ Len(items) \in Nat
      /\ DOMAIN mail = 1 .. n /\ DOMAIN items = 1 .. Len(items)
      /\ DOMAIN mail' = 1 .. (n + Len(items))
      /\ \A i \in DOMAIN mail : mail'[i] = mail[i]
      /\ \A i \in DOMAIN items : mail'[n + i] = items[i]
      BY <1>0, JoinItems DEF TypeOK
<1>2. ASSUME NEW i \in DOMAIN mail'
      PROVE  i \in DOMAIN mail \/ \E j \in DOMAIN items : i = n + j
  <2>1. CASE i <= n
        BY <2>1, <1>1
  <2>2. CASE ~ (i <= n)
    <3>1. i - n \in DOMAIN items /\ i = n + (i - n)
          BY <2>2, <1>1
    <3> QED BY <3>1
  <2> QED BY <2>1, <2>2
<1>3. ASSUME NEW i \in DOMAIN mail PROVE i \in DOMAIN mail'
      BY <1>1
<1>4. ASSUME NEW i \in DOMAIN items PROVE n + i \in DOMAIN mail'
      BY <1>1
<1>5. ASSUME NEW i \in DOMAIN mail, NEW j \in DOMAIN mail
      PROVE  Before(i, j)' <=> Before(i, j)
      BY <1>1 DEF Before
<1>6. ASSUME NEW i \in DOMAIN mail, NEW j \in DOMAIN items
      PROVE  Before(i, n + j)' /\ ~ Before(n + j, i)'
  <2>1. i < n + j /\ ~ (n + j < i)
        BY <1>1
  <2>2. mail'[n + j].do # "tell"
        BY <1>1
  <2> QED BY <2>1, <2>2 DEF Before
<1>7. ASSUME NEW i \in DOMAIN items, NEW j \in DOMAIN items
      PROVE  Before(n + i, n + j)' <=> i < j
  <2>1. (n + i < n + j) <=> (i < j)
        BY <1>1
  <2>2. mail'[n + i].do # "tell" /\ mail'[n + j].do # "tell"
        BY <1>1
  <2> QED BY <2>1, <2>2 DEF Before
<1> QED BY <1>1, <1>2, <1>3, <1>4, <1>5, <1>6, <1>7

(* A report to an actor that is gone.                                      *)
LEMMA LateReportKeeps ==
  ASSUME NEW kind, NEW items, ReportStep(kind, items), actor = "gone", TypeOK, TalkInv
  PROVE  TalkInv'
<1>1. /\ UNCHANGED <<config, launch, told, got, hooked, actor>>
      /\ mail = <<>> /\ mail' = <<>> /\ ~hooked /\ launch # "none" /\ Reads
      BY DEF ReportStep, TalkInv, HookInv
<1>2. ~over /\ reports' # <<>>
  <2>1. ~over /\ reports' = Append(reports, kind)
        BY DEF ReportStep, Contract!Report
  <2> QED BY <2>1, AppendLast DEF TypeOK, ReportStep
<1>3. DOMAIN mail' = {} /\ \A k : Pieces(k)' = {}
  <2>1. DOMAIN mail' = {}
        BY <1>1
  <2> QED BY <2>1 DEF Pieces
<1>4. StartInv' /\ HookInv' /\ BeginInv' /\ EndInv'
      BY <1>1, <1>2, <1>3 DEF TalkInv, StartInv, HookInv, BeginInv, EndInv
<1>5. ASSUME NEW k \in OutputKind
      PROVE  /\ got'[k] <= passed'[k]
             /\ passed'[k] + parsed'[k] <= made'[k]
             /\ over' => passed'[k] = made'[k]
  <2>1. got[k] \in Nat /\ passed[k] \in Nat /\ passed'[k] \in Nat /\ got[k] <= passed[k]
        BY <1>1, ActorAssumption DEF TypeOK, Text0, TalkInv, TextInv, Reads
  <2> QED BY <2>1, <1>1 DEF Reads
<1>6. TextInv'
      BY <1>5, <1>3 DEF TextInv
<1>7. OutputIsWhole'
  <2> SUFFICES ASSUME NEW k \in OutputKind PROVE WholeText(k)'
        BY WholePartsNext
  <2>1. NoneLost(k)' /\ NoneRepeated(k)' /\ NoneReordered(k)'
        BY <1>1, <1>3 DEF NoneLost, NoneRepeated, NoneReordered
  <2>2. AllAtEnd(k)'
        BY <1>1, <1>2 DEF AllAtEnd, TalkInv, EndInv, Final
  <2>3. WholeLines(k)'
        BY <1>1, <1>3 DEF WholeLines, Reads
  <2> QED BY <2>1, <2>2, <2>3 DEF WholeText
<1> QED BY <1>4, <1>6, <1>7 DEF TalkInv

(* A report to an actor that handles it.                                   *)
LEMMA ReportKeeps ==
  ASSUME NEW kind, NEW items, ReportStep(kind, items), actor # "gone", TypeOK, TalkInv
  PROVE  TalkInv'
<1>1. /\ UNCHANGED <<config, launch, told, got, hooked, actor>>
      /\ mail' = mail \o items /\ launch # "none" /\ Reads /\ Sends(items, kind)
      /\ items \in Seq(Item) /\ kind \in OutputKind \cup Final \cup {"Launched"}
      /\ kind \notin OutputKind => made' = made
      /\ ~over /\ reports' = Append(reports, kind)
      /\ over' <=> kind \in {"LaunchFailed", "Exited"}
      /\ reports = <<>> => kind \in Contract!Begin
      /\ reports # <<>> => kind \in OutputKind \cup {"Exited"}
      BY DEF ReportStep, Contract!Report, Sends
<1>2. PICK n \in Nat :
      /\ mail' \in Seq(Item) /\ Len(items) \in Nat
      /\ DOMAIN mail = 1 .. n /\ DOMAIN items = 1 .. Len(items)
      /\ \A i \in DOMAIN mail : i \in DOMAIN mail' /\ mail'[i] = mail[i]
      /\ \A i \in DOMAIN items : n + i \in DOMAIN mail' /\ mail'[n + i] = items[i]
      /\ \A i \in DOMAIN mail' : i \in DOMAIN mail \/ \E j \in DOMAIN items : i = n + j
      /\ \A i, j \in DOMAIN mail : Before(i, j)' <=> Before(i, j)
      /\ \A i \in DOMAIN mail, j \in DOMAIN items :
            Before(i, n + j)' /\ ~ Before(n + j, i)'
      /\ \A i, j \in DOMAIN items : Before(n + i, n + j)' <=> i < j
      BY <1>1, JoinCarries DEF Sends
<1>3. reports' # <<>>
      BY <1>1, AppendLast DEF TypeOK
<1>4. \A i \in DOMAIN mail : mail[i].kind \notin Final
      BY <1>1 DEF TalkInv, EndInv
<1>5. ~ (told # <<>> /\ Last(told) \in Final)
      BY <1>1 DEF TalkInv, EndInv
<1>6. \A i \in DOMAIN items :
         /\ items[i].do \in {"output", "state"}
         /\ items[i].do = "state" => i = Len(items) /\ items[i].kind = kind
         /\ items[i].do = "state" => kind \notin OutputKind
         /\ items[i].do = "output" =>
              /\ items[i].kind \in OutputKind
              /\ passed[items[i].kind] < passed'[items[i].kind]
              /\ items[i].from = passed[items[i].kind] + 1
              /\ items[i].to = passed'[items[i].kind]
      BY <1>1 DEF Sends
<1>7. StartInv'
      BY <1>1, <1>3 DEF StartInv
<1>8. HookInv'
  <2>1. ~config.simple => \A i \in DOMAIN mail' : mail'[i].do # "tell"
    <3> SUFFICES ASSUME ~config.simple, NEW i \in DOMAIN mail' PROVE mail'[i].do # "tell"
          OBVIOUS
    <3>1. CASE i \in DOMAIN mail
          BY <3>1, <1>2 DEF TalkInv, HookInv
    <3>2. ASSUME NEW j \in DOMAIN items, i = n + j PROVE mail'[i].do # "tell"
          BY <3>2, <1>2, <1>6
    <3> QED BY <3>1, <3>2, <1>2
  <2>2. config.simple => hooked
        BY <1>1 DEF TalkInv, HookInv
  <2> QED BY <2>1, <2>2, <1>1 DEF HookInv
<1>9. BeginInv'
  <2>1. ASSUME NEW i \in DOMAIN mail, mail[i].kind \in Contract!Begin
        PROVE  told' = <<>> /\ \A j \in DOMAIN mail' : j # i => Before(i, j)'
    <3>1. told = <<>> /\ \A j \in DOMAIN mail : j # i => Before(i, j)
          BY <2>1 DEF TalkInv, BeginInv
    <3>2. ASSUME NEW j \in DOMAIN mail', j # i PROVE Before(i, j)'
      <4>1. CASE j \in DOMAIN mail
            BY <4>1, <3>1, <3>2, <1>2
      <4>2. ASSUME NEW m \in DOMAIN items, j = n + m PROVE Before(i, j)'
            BY <4>2, <1>2
      <4> QED BY <4>1, <4>2, <1>2
    <3> QED BY <3>1, <3>2, <1>1
  <2>2. ASSUME NEW m \in DOMAIN items, items[m].kind \in Contract!Begin
        PROVE  told' = <<>> /\ \A j \in DOMAIN mail' : j # n + m => Before(n + m, j)'
    <3>1. items[m].do = "state" /\ m = Len(items) /\ kind \in Contract!Begin
          /\ kind \notin OutputKind
          BY <2>2, <1>6, ActorAssumption DEF Contract!Begin
    <3>2. reports = <<>>
          BY <3>1, <1>1 DEF Contract!Begin
    <3>3. mail = <<>> /\ told = <<>> /\ \A k \in OutputKind : made'[k] = 0 /\ passed[k] = 0
          BY <3>1, <3>2, <1>1 DEF TalkInv, StartInv
    <3>4. \A k \in OutputKind : ~ (passed[k] < passed'[k])
      <4>1. ASSUME NEW k \in OutputKind PROVE ~ (passed[k] < passed'[k])
        <5>1. passed'[k] \in Nat /\ parsed'[k] \in Nat /\ passed'[k] + parsed'[k] <= made'[k]
              BY <1>1, ActorAssumption DEF Reads, Text0
        <5> QED BY <5>1, <3>3
      <4> QED BY <4>1
    <3>5. \A j \in DOMAIN items : j = m
          BY <3>1, <3>4, <1>6
    <3>6. DOMAIN mail = {}
          BY <3>3
    <3> QED BY <3>3, <3>5, <3>6, <1>1, <1>2
  <2>3. ASSUME hooked, told = <<>>
        PROVE  \E i \in DOMAIN mail' : mail'[i].kind \in Contract!Begin
    <3>1. CASE reports # <<>>
      <4>1. PICK i \in DOMAIN mail : mail[i].kind \in Contract!Begin
            BY <2>3, <3>1 DEF TalkInv, BeginInv
      <4> QED BY <4>1, <1>2
    <3>2. CASE reports = <<>>
      <4>1. kind \in Contract!Begin /\ kind \notin OutputKind
            BY <3>2, <1>1, ActorAssumption DEF Contract!Begin
      <4>2. Len(items) \in DOMAIN items /\ items[Len(items)].kind = kind
            BY <4>1, <1>1 DEF Sends, State
      <4> QED BY <4>1, <4>2, <1>2
    <3> QED BY <3>1, <3>2
  <2>4. ASSUME NEW i \in DOMAIN mail', mail'[i].kind \in Contract!Begin
        PROVE  told' = <<>> /\ \A j \in DOMAIN mail' : j # i => Before(i, j)'
    <3>1. CASE i \in DOMAIN mail
          BY <3>1, <2>1, <2>4, <1>2
    <3>2. ASSUME NEW m \in DOMAIN items, i = n + m
          PROVE  told' = <<>> /\ \A j \in DOMAIN mail' : j # i => Before(i, j)'
          BY <3>2, <2>2, <2>4, <1>2
    <3> QED BY <3>1, <3>2, <1>2
  <2> QED BY <2>3, <2>4, <1>1 DEF BeginInv
<1>10. EndInv'
  <2>1. ASSUME NEW i \in DOMAIN mail', mail'[i].kind \in Final
        PROVE  over' /\ \A j \in DOMAIN mail' : j # i => Before(j, i)'
    <3>1. i \notin DOMAIN mail
          BY <2>1, <1>2, <1>4
    <3>2. PICK m \in DOMAIN items : i = n + m
          BY <3>1, <1>2
    <3>3. items[m].kind \in Final
          BY <2>1, <3>2, <1>2
    <3>4. m = Len(items) /\ kind \in Final
          BY <3>3, <1>6, ActorAssumption DEF Final
    <3>5. ASSUME NEW j \in DOMAIN mail', j # i PROVE Before(j, i)'
      <4>1. CASE j \in DOMAIN mail
            BY <4>1, <3>2, <1>2
      <4>2. ASSUME NEW o \in DOMAIN items, j = n + o PROVE Before(j, i)'
        <5>1. o < m
              BY <4>2, <3>2, <3>4, <3>5, <1>2
        <5> QED BY <5>1, <4>2, <3>2, <1>2
      <4> QED BY <4>1, <4>2, <1>2
    <3> QED BY <3>4, <3>5, <1>1 DEF Final
  <2> QED BY <2>1, <1>1, <1>5 DEF EndInv
<1>11. ASSUME NEW k \in OutputKind
       PROVE  /\ got[k] \in Nat /\ passed[k] \in Nat /\ passed'[k] \in Nat
              /\ got[k] <= passed[k] /\ passed[k] <= passed'[k]
              /\ passed'[k] + parsed'[k] <= made'[k]
              /\ over' => passed'[k] = made'[k]
       BY <1>1, ActorAssumption DEF TypeOK, Text0, TalkInv, TextInv, Reads
<1>12. ASSUME NEW k \in OutputKind, NEW i \in Pieces(k)'
       PROVE  \/ i \in Pieces(k) /\ mail'[i] = mail[i]
              \/ \E m \in DOMAIN items :
                    /\ i = n + m /\ mail'[i] = items[m] /\ items[m].do = "output"
                    /\ items[m].kind = k /\ passed[k] < passed'[k]
                    /\ items[m].from = passed[k] + 1 /\ items[m].to = passed'[k]
  <2>1. i \in DOMAIN mail' /\ mail'[i].do # "state" /\ mail'[i].kind = k
        BY DEF Pieces
  <2>2. CASE i \in DOMAIN mail
        BY <2>1, <2>2, <1>2 DEF Pieces
  <2>3. ASSUME NEW m \in DOMAIN items, i = n + m
        PROVE  /\ mail'[i] = items[m] /\ items[m].do = "output" /\ items[m].kind = k
               /\ passed[k] < passed'[k]
               /\ items[m].from = passed[k] + 1 /\ items[m].to = passed'[k]
    <3>1. mail'[i] = items[m]
          BY <2>3, <1>2
    <3>2. items[m].do = "output" /\ items[m].kind = k
          BY <3>1, <2>1, <1>6
    <3> QED BY <3>1, <3>2, <1>6
  <2> QED BY <2>1, <2>2, <2>3, <1>2
<1>13. ASSUME NEW k \in OutputKind, NEW i \in Pieces(k)
       PROVE  /\ i \in Pieces(k)' /\ mail'[i] = mail[i]
              /\ mail[i].from \in Nat /\ mail[i].to \in Nat
              /\ got[k] < mail[i].from /\ mail[i].to <= passed[k] /\ mail[i].from <= mail[i].to
              /\ config.lines => mail[i].to \in ends[k]
  <2>1. mail[i] \in Item /\ i \in DOMAIN mail
        BY ElementOfSeq, LenProperties DEF TypeOK, Pieces
  <2>2. mail[i].from \in Nat /\ mail[i].to \in Nat
        BY <2>1, ActorAssumption DEF Item, Text0
  <2>3. WholeText(k)
        BY WholeParts DEF TalkInv
  <2>4. i \in Pieces(k)' /\ mail'[i] = mail[i]
        BY <2>1, <1>2 DEF Pieces
  <2>5. config.lines => mail[i].to \in ends[k]
        BY <2>3, <1>1 DEF WholeText, WholeLines
  <2> QED BY <2>2, <2>3, <2>4, <2>5 DEF WholeText, NoneRepeated, TalkInv, TextInv
<1>14. TextInv'
  <2>1. ASSUME NEW k \in OutputKind, NEW i \in Pieces(k)' PROVE mail'[i].from <= mail'[i].to
    <3>1. CASE i \in Pieces(k) /\ mail'[i] = mail[i]
          BY <3>1, <1>13
    <3>2. CASE mail'[i].from = passed[k] + 1 /\ mail'[i].to = passed'[k]
               /\ passed[k] < passed'[k]
          BY <3>2, <1>11
    <3> QED BY <3>1, <3>2, <1>12
  <2>2. ASSUME NEW k \in OutputKind PROVE got'[k] <= passed'[k]
        BY <1>1, <1>11
  <2> QED BY <2>1, <2>2, <1>11 DEF TextInv
<1>15. ASSUME NEW k \in OutputKind PROVE NoneLost(k)'
  <2> SUFFICES ASSUME hooked, NEW c \in 1 .. passed'[k], ~ (c <= got[k])
               PROVE  \E i \in Pieces(k)' : c \in mail'[i].from .. mail'[i].to
        BY <1>1 DEF NoneLost
  <2>1. CASE c <= passed[k]
    <3>1. NoneLost(k)
          BY WholeParts DEF TalkInv, WholeText
    <3>2. c \in 1 .. passed[k]
          BY <2>1, <1>11
    <3>3. PICK i \in Pieces(k) : c \in mail[i].from .. mail[i].to
          BY <3>1, <3>2 DEF NoneLost
    <3> QED BY <3>3, <1>13
  <2>2. CASE ~ (c <= passed[k])
    <3>1. passed[k] < passed'[k]
          BY <2>2, <1>11
    <3>2. PICK m \in DOMAIN items : items[m].do = "output" /\ items[m].kind = k
          BY <3>1, <1>1 DEF Sends
    <3>3. n + m \in Pieces(k)' /\ mail'[n + m] = items[m]
          BY <3>2, <1>2 DEF Pieces
    <3>4. items[m].from = passed[k] + 1 /\ items[m].to = passed'[k]
          BY <3>2, <1>6
    <3>5. c \in (passed[k] + 1) .. passed'[k]
          BY <2>2, <1>11
    <3> QED BY <3>3, <3>4, <3>5
  <2> QED BY <2>1, <2>2
<1>16. ASSUME NEW k \in OutputKind PROVE NoneRepeated(k)'
  <2> SUFFICES ASSUME NEW i \in Pieces(k)'
               PROVE  got[k] < mail'[i].from /\ mail'[i].to <= passed'[k]
        BY <1>1 DEF NoneRepeated
  <2>1. CASE i \in Pieces(k) /\ mail'[i] = mail[i]
        BY <2>1, <1>11, <1>13
  <2>2. CASE mail'[i].from = passed[k] + 1 /\ mail'[i].to = passed'[k]
        BY <2>2, <1>11
  <2> QED BY <2>1, <2>2, <1>12
<1>17. ASSUME NEW k \in OutputKind PROVE NoneReordered(k)'
  <2> SUFFICES ASSUME NEW i \in Pieces(k)', NEW j \in Pieces(k)', Before(i, j)'
               PROVE  mail'[i].to < mail'[j].from
        BY DEF NoneReordered
  <2>1. CASE i \in Pieces(k) /\ j \in Pieces(k)
    <3>1. Before(i, j)
          BY <2>1, <1>2 DEF Pieces
    <3>2. NoneReordered(k)
          BY WholeParts DEF TalkInv, WholeText
    <3> QED BY <3>1, <3>2, <2>1, <1>13 DEF NoneReordered
  <2>2. CASE i \in Pieces(k) /\ j \notin Pieces(k)
    <3>1. mail'[j].from = passed[k] + 1
          BY <2>2, <1>12
    <3> QED BY <3>1, <2>2, <1>11, <1>13
  <2>3. CASE i \notin Pieces(k) /\ j \in Pieces(k)
    <3>1. PICK m \in DOMAIN items : i = n + m
          BY <2>3, <1>12
    <3>2. j \in DOMAIN mail
          BY <2>3 DEF Pieces
    <3> QED BY <3>1, <3>2, <1>2
  <2>4. CASE i \notin Pieces(k) /\ j \notin Pieces(k)
    <3>1. PICK m \in DOMAIN items : i = n + m /\ items[m].do = "output" /\ items[m].kind = k
          BY <2>4, <1>12
    <3>2. PICK o \in DOMAIN items : j = n + o /\ items[o].do = "output" /\ items[o].kind = k
          BY <2>4, <1>12
    <3>3. m = o
          BY <3>1, <3>2, <1>1 DEF Sends
    <3>4. m < o
          BY <3>1, <3>2, <1>2
    <3> QED BY <3>3, <3>4, <1>2
  <2> QED BY <2>1, <2>2, <2>3, <2>4
<1>18. ASSUME NEW k \in OutputKind PROVE WholeLines(k)'
  <2> SUFFICES ASSUME config.lines
               PROVE  /\ \A i \in Pieces(k)' :
                            mail'[i].to \in ends'[k] \/ (over' /\ mail'[i].to = made'[k])
                      /\ \A p \in ends'[k] : p <= passed'[k]
        BY <1>1 DEF WholeLines
  <2>1. /\ ends[k] \subseteq ends'[k] /\ \A p \in ends'[k] : p <= passed'[k]
        /\ passed[k] < passed'[k] => passed'[k] \in ends'[k] \/ (over' /\ passed'[k] = made'[k])
        BY <1>1 DEF Reads
  <2>2. ASSUME NEW i \in Pieces(k)'
        PROVE  mail'[i].to \in ends'[k] \/ (over' /\ mail'[i].to = made'[k])
    <3>1. CASE i \in Pieces(k) /\ mail'[i] = mail[i]
          BY <3>1, <2>1, <1>13
    <3>2. CASE mail'[i].to = passed'[k] /\ passed[k] < passed'[k]
          BY <3>2, <2>1
    <3> QED BY <3>1, <3>2, <1>12
  <2> QED BY <2>1, <2>2
<1>19. OutputIsWhole'
  <2> SUFFICES ASSUME NEW k \in OutputKind PROVE WholeText(k)'
        BY WholePartsNext
  <2>1. AllAtEnd(k)'
        BY <1>1, <1>5 DEF AllAtEnd, Final
  <2> QED BY <2>1, <1>15, <1>16, <1>17, <1>18 DEF WholeText
<1> QED BY <1>7, <1>8, <1>9, <1>10, <1>14, <1>19 DEF TalkInv
----------------------------------------------------------------------------
(* The types.                                                              *)

WorldT ==
  /\ config \in Configs /\ launch \in {"none", "open", "threw", "closed"}
  /\ process \in {"none", "running", "gone"} /\ doomed \in BOOLEAN
  /\ children \subseteq {"stdin", "output"} /\ signals \subseteq Stop
ThreadT ==
  /\ reports \in Seq(OutputKind \cup Final \cup {"Launched"}) /\ over \in BOOLEAN
  /\ made \in [OutputKind -> Text0] /\ ends \in [OutputKind -> SUBSET (1 .. MaxText)]
  /\ passed \in [OutputKind -> Text0] /\ parsed \in [OutputKind -> Text0]
StopT ==
  /\ running \in BOOLEAN /\ exited \in BOOLEAN
  /\ pending \subseteq [who : Waiters, stop : Stop, run : BOOLEAN]
  /\ answer \in [Waiters -> {"unasked", "waiting", "idle", "exit", "error", "lost"}]
  /\ actor \in {"alive", "stopping", "sends", "gone"} /\ refused \in BOOLEAN
ClientT ==
  /\ hooked \in BOOLEAN /\ told \in Seq(OutputKind \cup Final \cup {"Launched"})
  /\ got \in [OutputKind -> Text0]
SendT ==
  /\ asked \in Nat /\ started \in 0 .. asked /\ finished \in 0 .. started
  /\ simple \in [stdin : {"closed", "opening", "open"}, read : 0 .. MaxSends,
                 sent : 0 .. MaxSends, launched : BOOLEAN,
                 promise : {"unset", "result", "error"}]

LEMMA TypeParts ==
  TypeOK <=> WorldT /\ ThreadT /\ mail \in Seq(Item) /\ StopT /\ ClientT /\ SendT
BY DEF TypeOK, WorldT, ThreadT, StopT, ClientT, SendT

LEMMA TypePartsNext ==
  TypeOK' <=> WorldT' /\ ThreadT' /\ mail' \in Seq(Item) /\ StopT' /\ ClientT' /\ SendT'
BY DEF TypeOK, WorldT, ThreadT, StopT, ClientT, SendT

LEMMA WorldStays ==
  ASSUME WorldT, UNCHANGED <<config, launch, worldVars>> PROVE WorldT'
BY DEF WorldT, worldVars

LEMMA ThreadStays ==
  ASSUME ThreadT, UNCHANGED threadVars PROVE ThreadT'
BY DEF ThreadT, threadVars

LEMMA StopStays ==
  ASSUME StopT, UNCHANGED <<stopVars, actor, refused>> PROVE StopT'
BY DEF StopT, stopVars

LEMMA ClientStays ==
  ASSUME ClientT, UNCHANGED clientVars PROVE ClientT'
BY DEF ClientT, clientVars

LEMMA SendStays ==
  ASSUME SendT, UNCHANGED <<sendVars, simple>> PROVE SendT'
BY DEF SendT, sendVars

(* What f_Stop does to the process and its descendants.                    *)
LEMMA RunStopsTypes ==
  ASSUME WorldT, NEW stops \in SUBSET Stop, RunStops(stops)
  PROVE  doomed' \in BOOLEAN /\ children' \subseteq {"stdin", "output"} /\ signals' \subseteq Stop
         /\ stops \subseteq signals' /\ signals \subseteq signals'
BY DEF WorldT, RunStops

(* A configuration is what ActorAssumption says it is.                     *)
LEMMA ConfigTypes ==
  ASSUME WorldT
  PROVE  /\ config.tree \in BOOLEAN /\ config.group \in BOOLEAN /\ config.lines \in BOOLEAN
         /\ config.simple \in BOOLEAN /\ config.text \in 0 .. MaxText
         /\ config.sends \in 0 .. MaxSends /\ config.stops \subseteq Stop
BY ActorAssumption DEF WorldT

Simple == [stdin : {"closed", "opening", "open"}, read : 0 .. MaxSends,
           sent : 0 .. MaxSends, launched : BOOLEAN,
           promise : {"unset", "result", "error"}]

LEMMA SendTypes ==
  ASSUME NEW t \in Simple, SendStdInBuffer(t), asked \in Nat
  PROVE  simple' \in Simple /\ asked' \in Nat /\ asked <= asked'
<1>1. [t EXCEPT !.sent = t.read] \in Simple
      BY DEF Simple
<1>2. simple' \in Simple
      BY <1>1 DEF SendStdInBuffer
<1> QED BY <1>2 DEF SendStdInBuffer

LEMMA DestroyStopType == DestroyStop \in Stop
BY DEF DestroyStop, Stop

(* What leaves the mail alone.                                             *)
LEMMA StillTypes ==
  ASSUME TypeOK,
         \/ Launch \/ OpenStdIn \/ StdInOpened \/ ForwardInput \/ Fork \/ Exit \/ ChildExits
         \/ Unsubscribe \/ Send \/ StartSend \/ FinishSend \/ Destroy \/ DestroySequencer
         \/ CloseLaunch \/ \E c \in Callers, stop \in config.stops : CallStop(c, stop)
  PROVE  TypeOK' /\ StillStep
<1>0. WorldT /\ ThreadT /\ mail \in Seq(Item) /\ StopT /\ ClientT /\ SendT
      BY TypeParts
<1>1. CASE Launch
  <2>1. ThreadT' /\ StopT' /\ SendT' /\ mail' \in Seq(Item)
        BY <1>0, <1>1, ThreadStays, StopStays, SendStays
           DEF Launch, sendVars, stopVars, clientVars
  <2>2. WorldT' /\ ClientT'
        BY <1>0, <1>1 DEF Launch, worldVars, stopVars, sendVars, WorldT, ClientT
  <2> QED BY <2>1, <2>2, <1>1, TypePartsNext DEF Launch, StillStep, clientVars
<1>2. CASE OpenStdIn
  <2>1. WorldT' /\ ThreadT' /\ StopT' /\ ClientT' /\ mail' \in Seq(Item)
        BY <1>0, <1>2, WorldStays, ThreadStays, StopStays, ClientStays
           DEF OpenStdIn, sendVars, stopVars, clientVars
  <2>2. SendT'
        BY <1>0, <1>2 DEF OpenStdIn, worldVars, stopVars, sendVars, SendT
  <2> QED BY <2>1, <2>2, <1>2, TypePartsNext DEF OpenStdIn, StillStep, clientVars
<1>3. CASE StdInOpened
  <2>1. WorldT' /\ ThreadT' /\ StopT' /\ ClientT' /\ mail' \in Seq(Item)
        BY <1>0, <1>3, WorldStays, ThreadStays, StopStays, ClientStays
           DEF StdInOpened, sendVars, stopVars, clientVars
  <2>2. SendT'
        BY <1>0, <1>3 DEF StdInOpened, worldVars, stopVars, sendVars, SendT
  <2> QED BY <2>1, <2>2, <1>3, TypePartsNext DEF StdInOpened, StillStep, clientVars
<1>4. CASE ForwardInput
  <2>1. config.sends \in 0 .. MaxSends
        BY <1>0, ConfigTypes
  <2>2. simple' \in Simple /\ asked' \in Nat /\ asked <= asked'
    <3> DEFINE t == [simple EXCEPT !.read = @ + 1]
    <3>1. simple.read \in 0 .. MaxSends /\ simple.read + 1 \in 0 .. MaxSends /\ simple \in Simple
          BY <1>0, <1>4, <2>1, ActorAssumption DEF ForwardInput, SendT, Simple
    <3>2. t \in Simple
          BY <3>1 DEF Simple
    <3>3. SendStdInBuffer(t)
          BY <1>4 DEF ForwardInput
    <3> HIDE DEF t
    <3> QED BY <3>2, <3>3, <1>0, SendTypes DEF SendT
  <2>3. WorldT' /\ ThreadT' /\ mail' \in Seq(Item) /\ StopT' /\ ClientT' /\ SendT'
        BY <1>0, <1>4, <2>2 DEF ForwardInput, worldVars, threadVars, stopVars, clientVars,
           Simple, WorldT, ThreadT, StopT, ClientT, SendT
  <2> QED BY <2>3, <1>4, TypePartsNext DEF ForwardInput, StillStep, clientVars
<1>5. CASE Fork
  <2>1. ThreadT' /\ StopT' /\ ClientT' /\ SendT' /\ mail' \in Seq(Item)
        BY <1>0, <1>5, ThreadStays, StopStays, ClientStays, SendStays
           DEF Fork, sendVars, stopVars, clientVars
  <2>2. WorldT'
        BY <1>0, <1>5 DEF Fork, worldVars, stopVars, sendVars, WorldT
  <2> QED BY <2>1, <2>2, <1>5, TypePartsNext DEF Fork, StillStep, clientVars
<1>6. CASE Exit
  <2>1. ThreadT' /\ StopT' /\ ClientT' /\ SendT' /\ mail' \in Seq(Item)
        BY <1>0, <1>6, ThreadStays, StopStays, ClientStays, SendStays
           DEF Exit, sendVars, stopVars, clientVars
  <2>2. WorldT'
        BY <1>0, <1>6 DEF Exit, worldVars, stopVars, sendVars, WorldT
  <2> QED BY <2>1, <2>2, <1>6, TypePartsNext DEF Exit, StillStep, clientVars
<1>7. CASE ChildExits
  <2>1. ThreadT' /\ StopT' /\ ClientT' /\ SendT' /\ mail' \in Seq(Item)
        BY <1>0, <1>7, ThreadStays, StopStays, ClientStays, SendStays
           DEF ChildExits, sendVars, stopVars, clientVars
  <2>2. WorldT'
        BY <1>0, <1>7 DEF ChildExits, worldVars, stopVars, sendVars, WorldT
  <2> QED BY <2>1, <2>2, <1>7, TypePartsNext DEF ChildExits, StillStep, clientVars
<1>8. CASE Unsubscribe
  <2>1. WorldT' /\ ThreadT' /\ StopT' /\ SendT' /\ mail' \in Seq(Item)
        BY <1>0, <1>8, WorldStays, ThreadStays, StopStays, SendStays
           DEF Unsubscribe, sendVars, stopVars, clientVars
  <2>2. ClientT'
        BY <1>0, <1>8 DEF Unsubscribe, worldVars, stopVars, sendVars, ClientT
  <2> QED BY <2>1, <2>2, <1>8, TypePartsNext DEF Unsubscribe, StillStep, clientVars
<1>9. CASE Send
  <2>1. WorldT' /\ ThreadT' /\ StopT' /\ ClientT' /\ mail' \in Seq(Item)
        BY <1>0, <1>9, WorldStays, ThreadStays, StopStays, ClientStays
           DEF Send, sendVars, stopVars, clientVars
  <2>2. SendT'
        BY <1>0, <1>9 DEF Send, worldVars, stopVars, sendVars, SendT
  <2> QED BY <2>1, <2>2, <1>9, TypePartsNext DEF Send, StillStep, clientVars
<1>10. CASE StartSend
  <2>1. WorldT' /\ ThreadT' /\ StopT' /\ ClientT' /\ mail' \in Seq(Item)
        BY <1>0, <1>10, WorldStays, ThreadStays, StopStays, ClientStays
           DEF StartSend, sendVars, stopVars, clientVars
  <2>2. SendT'
        BY <1>0, <1>10 DEF StartSend, worldVars, stopVars, sendVars, SendT
  <2> QED BY <2>1, <2>2, <1>10, TypePartsNext DEF StartSend, StillStep, clientVars
<1>11. CASE FinishSend
  <2>1. WorldT' /\ ThreadT' /\ StopT' /\ ClientT' /\ mail' \in Seq(Item)
        BY <1>0, <1>11, WorldStays, ThreadStays, StopStays, ClientStays
           DEF FinishSend, sendVars, stopVars, clientVars
  <2>2. SendT'
        BY <1>0, <1>11 DEF FinishSend, worldVars, stopVars, sendVars, SendT
  <2> QED BY <2>1, <2>2, <1>11, TypePartsNext DEF FinishSend, StillStep, clientVars
<1>12. CASE DestroySequencer
  <2>1. WorldT' /\ ThreadT' /\ ClientT' /\ mail' \in Seq(Item)
        BY <1>0, <1>12, WorldStays, ThreadStays, ClientStays
           DEF DestroySequencer, sendVars, stopVars, clientVars
  <2>2. StopT' /\ SendT'
        BY <1>0, <1>12 DEF DestroySequencer, worldVars, stopVars, sendVars, StopT, SendT
  <2> QED BY <2>1, <2>2, <1>12, TypePartsNext DEF DestroySequencer, StillStep, clientVars
<1>13. CASE Destroy
  <2>1. doomed' \in BOOLEAN /\ children' \subseteq {"stdin", "output"} /\ signals' \subseteq Stop
        BY <1>0, <1>13, RunStopsTypes, DestroyStopType DEF Destroy
  <2>2. /\ pending' \subseteq [who : Waiters, stop : Stop, run : BOOLEAN]
        /\ answer' \in [Waiters -> {"unasked", "waiting", "idle", "exit", "error", "lost"}]
        BY <1>0, <1>13, DestroyStopType DEF Destroy, StopT, Waiters
  <2>3. WorldT' /\ ThreadT' /\ mail' \in Seq(Item) /\ StopT' /\ ClientT' /\ SendT'
        BY <1>0, <1>13, <2>1, <2>2 DEF Destroy, worldVars, threadVars, stopVars, clientVars,
           sendVars,
           WorldT, ThreadT, StopT, ClientT, SendT
  <2> QED BY <2>3, <1>13, TypePartsNext DEF Destroy, StillStep, clientVars
<1>14. CASE CloseLaunch
  <2>1. doomed' \in BOOLEAN /\ children' \subseteq {"stdin", "output"} /\ signals' \subseteq Stop
        BY <1>0, <1>14, RunStopsTypes, DestroyStopType DEF CloseLaunch
  <2>2. WorldT' /\ ThreadT' /\ mail' \in Seq(Item) /\ StopT' /\ ClientT' /\ SendT'
        BY <1>0, <1>14, <2>1 DEF CloseLaunch, worldVars, threadVars, stopVars, clientVars, sendVars,
           WorldT, ThreadT, StopT, ClientT, SendT
  <2> QED BY <2>2, <1>14, TypePartsNext DEF CloseLaunch, StillStep, clientVars
<1>15. ASSUME NEW c \in Callers, NEW stop \in config.stops, CallStop(c, stop)
       PROVE  TypeOK' /\ StillStep
  <2>1. stop \in Stop /\ c \in Waiters
        BY <1>0, ConfigTypes DEF Waiters
  <2>2. /\ doomed' \in BOOLEAN /\ children' \subseteq {"stdin", "output"} /\ signals' \subseteq Stop
    <3>1. CASE UNCHANGED <<signals, doomed, children>>
          BY <3>1, <1>0 DEF WorldT
    <3>2. ASSUME NEW stops \in SUBSET Stop, RunStops(stops)
          PROVE  /\ doomed' \in BOOLEAN /\ children' \subseteq {"stdin", "output"}
                 /\ signals' \subseteq Stop
          BY <3>2, <1>0, RunStopsTypes
    <3>3. {stop} \cap {"TerminateProcessTree"} \in SUBSET Stop
          /\ (IF running THEN {stop} ELSE {}) \in SUBSET Stop
          BY <2>1
    <3>4. \/ UNCHANGED <<signals, doomed, children>>
          \/ RunStops({stop} \cap {"TerminateProcessTree"})
          \/ RunStops(IF running THEN {stop} ELSE {})
          BY <1>15 DEF CallStop
    <3> QED BY <3>1, <3>2, <3>3, <3>4
  <2>3. /\ pending' \subseteq [who : Waiters, stop : Stop, run : BOOLEAN]
        /\ answer' \in [Waiters -> {"unasked", "waiting", "idle", "exit", "error", "lost"}]
        /\ refused' \in BOOLEAN
    <3>1. answer \in [Waiters -> {"unasked", "waiting", "idle", "exit", "error", "lost"}]
          /\ running \in BOOLEAN /\ refused \in BOOLEAN
          /\ pending \subseteq [who : Waiters, stop : Stop, run : BOOLEAN]
          BY <1>0 DEF StopT
    <3>2. \/ answer' = [answer EXCEPT ![c] = "idle"]
          \/ answer' = [answer EXCEPT ![c] = "exit"]
          \/ answer' = [answer EXCEPT ![c] = "error"]
          \/ answer' = [answer EXCEPT ![c] = "waiting"]
          BY <1>15 DEF CallStop
    <3>3. \/ pending' = pending
          \/ pending' = pending \cup {[who |-> c, stop |-> stop, run |-> running]}
          BY <1>15 DEF CallStop
    <3>4. refused' = refused \/ refused' = TRUE
          BY <1>15 DEF CallStop
    <3>5. answer' \in [Waiters -> {"unasked", "waiting", "idle", "exit", "error", "lost"}]
          BY <3>1, <3>2
    <3>6. pending' \subseteq [who : Waiters, stop : Stop, run : BOOLEAN]
          BY <3>1, <3>3, <2>1
    <3> QED BY <3>1, <3>4, <3>5, <3>6
  <2>4. WorldT' /\ ThreadT' /\ mail' \in Seq(Item) /\ StopT' /\ ClientT' /\ SendT'
        BY <1>0, <1>15, <2>2, <2>3 DEF CallStop, worldVars, threadVars, stopVars, clientVars,
           sendVars,
           WorldT, ThreadT, StopT, ClientT, SendT
  <2> QED BY <2>4, <1>15, TypePartsNext DEF CallStop, StillStep, clientVars
<1> QED BY <1>1, <1>2, <1>3, <1>4, <1>5, <1>6, <1>7, <1>8, <1>9, <1>10, <1>11, <1>12, <1>13,
           <1>14, <1>15
(* What is handed to the functors.                                         *)
LEMMA TellSteps ==
  ASSUME TypeOK, Tell(Head(mail)), UNCHANGED <<config, launch, actor, threadVars, hooked>>,
         actor # "gone", mail # <<>>, Head(mail).do # "tell",
         Head(mail).do = "state" => Head(mail).kind \notin OutputKind
  PROVE  DropStep \/ MoveStep \/ ToldStep
<1> DEFINE h == Head(mail)
<1>1. h \in Item /\ h.do \in {"state", "output"}
  <2>1. mail \in Seq(Item)
        BY DEF TypeOK
  <2>2. h \in Item
        BY <2>1, TailItems
  <2> QED BY <2>2 DEF Item
<1>2. HandleStep
      BY DEF HandleStep
<1>3. CASE ~hooked
      BY <1>2, <1>3 DEF Tell, DropStep
<1>4. CASE hooked /\ config.simple
      BY <1>2, <1>4 DEF Tell, MoveStep
<1>5. CASE hooked /\ ~config.simple
  <2>1. /\ mail' = Tail(mail) /\ told' = Append(told, h.kind)
        /\ got' = IF h.do = "output" THEN [got EXCEPT ![h.kind] = h.to] ELSE got
        BY <1>5 DEF Tell
  <2>2. got \in [OutputKind -> Text0]
        BY DEF TypeOK
  <2> HIDE DEF h
  <2>3. got' = [k \in OutputKind |-> IF h.do # "state" /\ h.kind = k THEN h.to ELSE got[k]]
        BY <2>1, <2>2, <1>1
  <2> QED BY <2>1, <2>3, <1>2, <1>5 DEF ToldStep, h
<1> QED BY <1>3, <1>4, <1>5

(* What a simple launch tells its client.                                  *)
LEMMA HandleTellStep ==
  ASSUME TypeOK, TalkInv, HandleTell
  PROVE  ToldStep
<1> DEFINE h == Head(mail)
<1>1. h \in Item /\ 1 \in DOMAIN mail /\ mail[1] = h
      BY TailItems DEF HandleTell, TypeOK
<1>2. /\ actor # "gone" /\ mail # <<>> /\ h.do = "tell" /\ mail' = Tail(mail)
      /\ told' = Append(told, h.kind)
      /\ got' = IF h.kind \in OutputKind THEN [got EXCEPT ![h.kind] = h.to] ELSE got
      /\ hooked' = (hooked /\ h.kind \notin Final)
      /\ UNCHANGED <<config, launch, actor, threadVars>>
      BY DEF HandleTell
<1>3. config.simple
      BY <1>1, <1>2 DEF TalkInv, HookInv
<1>4. hooked
      BY <1>2, <1>3 DEF TalkInv, HookInv, StartInv
<1>5. got \in [OutputKind -> Text0]
      BY DEF TypeOK
<1>6. HandleStep
      BY <1>2 DEF HandleStep
<1> HIDE DEF h
<1>7. got' = [k \in OutputKind |-> IF h.do # "state" /\ h.kind = k THEN h.to ELSE got[k]]
      BY <1>2, <1>5
<1> QED BY <1>2, <1>3, <1>4, <1>6, <1>7 DEF ToldStep, h

(* The mail and the client's part after the first of the mail is handled.  *)
LEMMA HandleTypes ==
  ASSUME TypeOK, TalkInv, DropStep \/ MoveStep \/ ToldStep, hooked' \in BOOLEAN
  PROVE  mail' \in Seq(Item) /\ ClientT' /\ TalkInv'
<1>1. TalkInv'
      BY DropKeeps, MoveKeeps, ToldKeeps
<1>2. ClientT
      BY TypeParts
<1>3. CASE DropStep
  <2>1. mail' \in Seq(Item)
        BY <1>3, DropCarries DEF DropStep, HandleStep, TypeOK
  <2> QED BY <2>1, <1>1, <1>2, <1>3 DEF DropStep, ClientT
<1>4. CASE MoveStep
  <2>1. mail' \in Seq(Item)
        BY <1>4, MoveCarries DEF MoveStep, HandleStep, TypeOK
  <2> QED BY <2>1, <1>1, <1>2, <1>4 DEF MoveStep, ClientT
<1>5. CASE ToldStep
  <2>1. mail' \in Seq(Item)
        BY <1>5, DropCarries DEF ToldStep, HandleStep, TypeOK
  <2>2. told' \in Seq(OutputKind \cup Final \cup {"Launched"}) /\ Head(mail) \in Item
        BY <1>5, ToldFirst
  <2>3. got' \in [OutputKind -> Text0]
    <3>1. Head(mail).to \in Text0
          BY <2>2 DEF Item
    <3> QED BY <3>1, <1>2, <1>5 DEF ToldStep, ClientT
  <2> QED BY <2>1, <2>2, <2>3, <1>1 DEF ClientT
<1> QED BY <1>3, <1>4, <1>5

LEMMA HandleOutputStep ==
  ASSUME TypeOK, TalkInv, HandleOutput
  PROVE  TypeOK' /\ TalkInv' /\ (DropStep \/ MoveStep \/ ToldStep)
<1>1. DropStep \/ MoveStep \/ ToldStep
      BY TellSteps DEF HandleOutput
<1>2. hooked' \in BOOLEAN
      BY DEF HandleOutput, TypeOK
<1>3. mail' \in Seq(Item) /\ ClientT' /\ TalkInv'
      BY <1>1, <1>2, HandleTypes
<1>4. WorldT' /\ ThreadT' /\ StopT' /\ SendT'
      BY TypeParts, WorldStays, ThreadStays, StopStays, SendStays DEF HandleOutput
<1> QED BY <1>1, <1>3, <1>4, TypePartsNext

LEMMA HandleLaunchedStep ==
  ASSUME TypeOK, TalkInv, HandleLaunched
  PROVE  TypeOK' /\ TalkInv' /\ (DropStep \/ MoveStep \/ ToldStep)
<1>0. WorldT /\ StopT
      BY TypeParts
<1>1. DropStep \/ MoveStep \/ ToldStep
  <2>1. Head(mail).do = "state" /\ Head(mail).kind \notin OutputKind
        BY ActorAssumption DEF HandleLaunched, State
  <2> QED BY <2>1, TellSteps DEF HandleLaunched
<1>2. hooked' \in BOOLEAN
      BY DEF HandleLaunched, TypeOK
<1>3. mail' \in Seq(Item) /\ ClientT' /\ TalkInv'
      BY <1>1, <1>2, HandleTypes
<1>4. ThreadT' /\ SendT'
      BY TypeParts, ThreadStays, SendStays DEF HandleLaunched
<1>5. PICK failed \in SUBSET {p \in {q \in pending : ~q.run} : MayFail(p.stop)} :
         /\ pending' = {p \in pending : p.run}
                 \cup {[p EXCEPT !.run = TRUE] : p \in {q \in pending : ~q.run} \ failed}
         /\ answer' = [c \in Waiters |-> IF \E p \in failed : p.who = c THEN "error"
                                                                    ELSE answer[c]]
         /\ RunStops({p.stop : p \in {q \in pending : ~q.run} \ failed})
         /\ refused' = (refused \/ failed # {})
      BY DEF HandleLaunched, ApplyPending
<1>6. \A p \in pending : p \in [who : Waiters, stop : Stop, run : BOOLEAN]
      BY <1>0 DEF StopT
<1>7. WorldT'
  <2>1. {p.stop : p \in {q \in pending : ~q.run} \ failed} \in SUBSET Stop
        BY <1>6
  <2>2. doomed' \in BOOLEAN /\ children' \subseteq {"stdin", "output"} /\ signals' \subseteq Stop
        BY <2>1, <1>0, <1>5, RunStopsTypes
  <2> QED BY <2>2, <1>0 DEF HandleLaunched, WorldT
<1>8. StopT'
  <2>1. pending' \subseteq [who : Waiters, stop : Stop, run : BOOLEAN]
    <3>1. ASSUME NEW p \in pending
          PROVE  [p EXCEPT !.run = TRUE] \in [who : Waiters, stop : Stop, run : BOOLEAN]
          BY <1>6
    <3> QED BY <3>1, <1>5, <1>6
  <2>2. answer' \in [Waiters -> {"unasked", "waiting", "idle", "exit", "error", "lost"}]
        BY <1>0, <1>5 DEF StopT
  <2>3. refused' \in BOOLEAN
        BY <1>5
  <2> QED BY <2>1, <2>2, <2>3, <1>0 DEF HandleLaunched, StopT
<1> QED BY <1>1, <1>3, <1>4, <1>7, <1>8, TypePartsNext

LEMMA HandleEndStep ==
  ASSUME TypeOK, TalkInv, HandleEnd
  PROVE  TypeOK' /\ TalkInv' /\ (DropStep \/ MoveStep \/ ToldStep)
<1>1. DropStep \/ MoveStep \/ ToldStep
  <2>1. Head(mail).kind \notin OutputKind /\ Head(mail).do = "state"
        BY ActorAssumption DEF HandleEnd, Final
  <2> QED BY <2>1, TellSteps DEF HandleEnd
<1>2. hooked' \in BOOLEAN
      BY DEF HandleEnd, TypeOK
<1>3. mail' \in Seq(Item) /\ ClientT' /\ TalkInv'
      BY <1>1, <1>2, HandleTypes
<1>4. WorldT' /\ ThreadT' /\ SendT'
      BY TypeParts, WorldStays, ThreadStays, SendStays DEF HandleEnd
<1>5. StopT'
      BY TypeParts DEF HandleEnd, AnswerPending, StopT
<1> QED BY <1>1, <1>3, <1>4, <1>5, TypePartsNext

LEMMA HandleTellKeeps ==
  ASSUME TypeOK, TalkInv, HandleTell
  PROVE  TypeOK' /\ TalkInv' /\ ToldStep
<1>1. ToldStep
      BY HandleTellStep
<1>2. hooked' \in BOOLEAN
      BY DEF HandleTell
<1>3. mail' \in Seq(Item) /\ ClientT' /\ TalkInv'
      BY <1>1, <1>2, HandleTypes
<1>4. WorldT' /\ ThreadT' /\ StopT'
      BY TypeParts, WorldStays, ThreadStays, StopStays DEF HandleTell
<1>5. SendT'
  <2>0. SendT /\ simple \in Simple /\ asked \in Nat
        BY TypeParts DEF SendT, Simple
  <2>1. /\ started' = started /\ finished' = finished
        /\ \/ SendStdInBuffer([simple EXCEPT !.launched = TRUE])
           \/ \E x \in {"result", "error"} :
                 /\ simple' = [simple EXCEPT !.stdin = IF @ = "open" THEN "closed" ELSE @,
                                             !.promise = x]
                 /\ asked' = asked
           \/ simple' = simple /\ asked' = asked
    <3>1. CASE Head(mail).kind = "Launched"
          BY <3>1 DEF HandleTell
    <3>2. CASE Head(mail).kind \in Final
          BY <3>2 DEF HandleTell, Final
    <3>3. CASE Head(mail).kind # "Launched" /\ Head(mail).kind \notin Final
          BY <3>3 DEF HandleTell
    <3> QED BY <3>1, <3>2, <3>3 DEF HandleTell
  <2>2. CASE SendStdInBuffer([simple EXCEPT !.launched = TRUE])
    <3>1. [simple EXCEPT !.launched = TRUE] \in Simple
          BY <2>0 DEF Simple
    <3>2. simple' \in Simple /\ asked' \in Nat /\ asked <= asked'
          BY <3>1, <2>0, <2>2, SendTypes
    <3> QED BY <3>2, <2>0, <2>1 DEF SendT, Simple
  <2>3. ASSUME NEW x \in {"result", "error"},
               simple' = [simple EXCEPT !.stdin = IF @ = "open" THEN "closed" ELSE @,
                                        !.promise = x],
               asked' = asked
        PROVE  SendT'
    <3>1. simple' \in Simple
          BY <2>0, <2>3 DEF Simple
    <3> QED BY <3>1, <2>0, <2>1, <2>3 DEF SendT, Simple
  <2>4. CASE simple' = simple /\ asked' = asked
        BY <2>4, <2>0, <2>1 DEF SendT
  <2> QED BY <2>1, <2>2, <2>3, <2>4
<1> QED BY <1>1, <1>3, <1>4, <1>5, TypePartsNext

(* The end of the actor.                                                   *)
LEMMA DeleteTypes ==
  ASSUME TypeOK, DestroyIdle \/ DestroyFails \/ Destroyed
  PROVE  TypeOK' /\ DeleteStep
<1>0. WorldT /\ ThreadT /\ mail \in Seq(Item) /\ StopT /\ ClientT /\ SendT
      BY TypeParts
<1>1. /\ Delete /\ UNCHANGED <<config, launch, process, threadVars, running, exited, told, got,
                              started, finished, simple>>
      /\ refused' \in BOOLEAN
      BY <1>0 DEF DestroyIdle, DestroyFails, Destroyed, worldVars, StopT
<1>2. ThreadT' /\ mail' \in Seq(Item) /\ ClientT' /\ SendT'
  <2>1. <<>> \in Seq(Item)
        OBVIOUS
  <2>2. ThreadT' /\ mail' \in Seq(Item)
        BY <2>1, <1>0, <1>1, ThreadStays DEF Delete
  <2>3. ClientT'
        BY <1>0, <1>1 DEF Delete, ClientT
  <2>4. SendT'
    <3>1. /\ asked' = started /\ started' = started /\ finished' = finished
          /\ simple' = simple
          BY <1>1 DEF Delete
    <3> QED BY <3>1, <1>0 DEF SendT
  <2> QED BY <2>2, <2>3, <2>4
<1>3. StopT'
      BY <1>0, <1>1 DEF Delete, StopT
<1>4. WorldT'
  <2>1. CASE UNCHANGED <<config, launch, worldVars>>
        BY <2>1, <1>0, WorldStays
  <2>2. CASE DestroyIdle
    <3>1. (IF launch = "open" /\ config.tree THEN {"TerminateProcessTree"} ELSE {})
             \in SUBSET Stop
          BY DEF Stop
    <3>2. doomed' \in BOOLEAN /\ children' \subseteq {"stdin", "output"} /\ signals' \subseteq Stop
          BY <3>1, <2>2, <1>0, RunStopsTypes DEF DestroyIdle
    <3> QED BY <3>2, <1>0, <1>1 DEF WorldT
  <2> QED BY <2>1, <2>2 DEF DestroyFails, Destroyed
<1> QED BY <1>1, <1>2, <1>3, <1>4, TypePartsNext DEF Delete, DeleteStep
----------------------------------------------------------------------------
(* What the launch thread reports.                                         *)

(* The elements of a finite set, one after the other.                      *)
LEMMA SetToSeqElements ==
  ASSUME NEW S, IsFiniteSet(S)
  PROVE  \E n \in Nat :
            /\ DOMAIN SetToSeq(S) = 1 .. n /\ SetToSeq(S) \in [1 .. n -> S]
            /\ \A i, j \in 1 .. n : SetToSeq(S)[i] = SetToSeq(S)[j] => i = j
            /\ \A x \in S : \E i \in 1 .. n : SetToSeq(S)[i] = x
<1> DEFINE n == Cardinality(S)
<1>1. n \in Nat /\ ExistsBijection(1 .. n, S)
      BY FS_CardinalityType
<1>2. PICK b \in [1 .. n -> S] : IsInjective(b)
      BY <1>1 DEF ExistsBijection, Bijection, Injection
<1>3. SetToSeq(S) \in [1 .. n -> S] /\ IsInjective(SetToSeq(S))
  <2> DEFINE f == CHOOSE f \in [1 .. n -> S] : IsInjective(f)
  <2>1. f \in [1 .. n -> S] /\ IsInjective(f)
        BY <1>2
  <2> QED BY <2>1 DEF SetToSeq
<1>4. SetToSeq(S) \in Surjection(1 .. n, S)
  <2>1. SetToSeq(S) \in Injection(1 .. n, S)
        BY <1>3 DEF Injection
  <2>2. Cardinality(1 .. n) = n
    <3>1. IsFiniteSet(1 .. n) /\ Cardinality(1 .. n) = IF 1 > n THEN 0 ELSE n - 1 + 1
          BY <1>1, FS_Interval
    <3> QED BY <3>1, <1>1
  <2> QED BY <2>1, <2>2, FS_Injection
<1>5. \A x \in S : \E i \in 1 .. n : SetToSeq(S)[i] = x
      BY <1>4 DEF Surjection
<1>6. \A i, j \in 1 .. n : SetToSeq(S)[i] = SetToSeq(S)[j] => i = j
      BY <1>3 DEF IsInjective
<1> QED BY <1>1, <1>3, <1>5, <1>6

(* What is left of the output is dispatched, and the state after it.       *)
LEMMA FlushSends ==
  ASSUME TypeOK, NEW kind \in Final, passed' = made, Dispatch(Flushed \o <<State(kind)>>)
  PROVE  \E items : /\ Sends(items, kind)
                    /\ mail' = IF actor = "gone" THEN mail ELSE mail \o items
<1> DEFINE S == {k \in OutputKind : passed'[k] > passed[k]}
           late == SetToSeq(S)
           items == Flushed \o <<State(kind)>>
<1>1. IsFiniteSet(S)
      BY ActorAssumption, FS_Subset
<1>2. PICK n \in Nat :
         /\ DOMAIN late = 1 .. n /\ late \in [1 .. n -> S]
         /\ \A i, j \in 1 .. n : late[i] = late[j] => i = j
         /\ \A x \in S : \E i \in 1 .. n : late[i] = x
      BY <1>1, SetToSeqElements
<1>3. Flushed = [i \in 1 .. n |-> Text(late[i], passed[late[i]] + 1, passed'[late[i]])]
      BY <1>2 DEF Flushed
<1> HIDE DEF late
<1>4. ASSUME NEW i \in 1 .. n
      PROVE  /\ late[i] \in S /\ late[i] \in OutputKind /\ passed[late[i]] < passed'[late[i]]
             /\ Flushed[i] = Text(late[i], passed[late[i]] + 1, passed'[late[i]])
             /\ Flushed[i] \in Item
  <2>1. late[i] \in S
        BY <1>2
  <2>2. late[i] \in OutputKind /\ passed[late[i]] < passed'[late[i]]
    <3>1. late[i] \in OutputKind /\ passed'[late[i]] > passed[late[i]]
          BY <2>1
    <3>2. passed[late[i]] \in Nat /\ passed'[late[i]] \in Nat
          BY <3>1, ActorAssumption DEF TypeOK, Text0
    <3> QED BY <3>1, <3>2
  <2>3. passed[late[i]] + 1 \in Text0 /\ passed'[late[i]] \in Text0
        BY <2>2, ActorAssumption DEF TypeOK, Text0
  <2>4. Flushed[i] = Text(late[i], passed[late[i]] + 1, passed'[late[i]])
        BY <1>3
  <2> QED BY <2>1, <2>2, <2>3, <2>4 DEF Text, Item
<1>5. Flushed \in Seq(Item) /\ Len(Flushed) = n /\ DOMAIN Flushed = 1 .. n
  <2>1. Flushed \in [1 .. n -> Item]
        BY <1>3, <1>4
  <2>2. \A m \in Nat : [1 .. m -> Item] \subseteq Seq(Item)
        OBVIOUS
  <2> QED BY <2>1, <2>2, LenProperties
<1>6. State(kind) \in Item /\ <<State(kind)>> \in Seq(Item) /\ Len(<<State(kind)>>) = 1
      /\ <<State(kind)>>[1] = State(kind)
  <2>1. State(kind) \in Item
        BY ActorAssumption DEF State, Item, Text0
  <2> QED BY <2>1
<1>7. /\ items \in Seq(Item) /\ DOMAIN items = 1 .. (n + 1)
      /\ \A i \in 1 .. n : items[i] = Flushed[i]
      /\ items[n + 1] = State(kind)
  <2>1. /\ items \in Seq(Item) /\ DOMAIN items = 1 .. (Len(Flushed) + Len(<<State(kind)>>))
        /\ \A i \in DOMAIN Flushed : items[i] = Flushed[i]
        /\ \A i \in DOMAIN <<State(kind)>> : items[Len(Flushed) + i] = <<State(kind)>>[i]
        BY <1>5, <1>6, JoinItems
  <2>2. 1 \in DOMAIN <<State(kind)>>
        OBVIOUS
  <2> QED BY <2>1, <2>2, <1>5, <1>6
<1>8. Len(items) = n + 1
      BY <1>7, LenProperties
<1> HIDE DEF items
<1>9. ASSUME NEW i \in DOMAIN items
      PROVE  \/ i \in 1 .. n /\ items[i] = Text(late[i], passed[late[i]] + 1, passed'[late[i]])
             \/ i = n + 1 /\ items[i] = State(kind)
      BY <1>4, <1>7
<1>10. kind \notin OutputKind
       BY ActorAssumption DEF Final
<1>11. Sends(items, kind)
  <2>1. \A i \in DOMAIN items :
           /\ items[i].do \in {"output", "state"}
           /\ items[i].do = "state" => i = Len(items) /\ items[i].kind = kind
           /\ items[i].do = "output" =>
                /\ i \in 1 .. n /\ items[i].kind = late[i] /\ items[i].kind \in OutputKind
                /\ passed[items[i].kind] < passed'[items[i].kind]
                /\ items[i].from = passed[items[i].kind] + 1
                /\ items[i].to = passed'[items[i].kind]
        BY <1>4, <1>8, <1>9 DEF Text, State
  <2>2. \A i, j \in DOMAIN items :
           items[i].do = "output" /\ items[j].do = "output" /\ items[i].kind = items[j].kind
              => i = j
        BY <2>1, <1>2
  <2>3. ASSUME NEW k \in OutputKind, passed[k] < passed'[k]
        PROVE  \E i \in DOMAIN items : items[i].do = "output" /\ items[i].kind = k
    <3>1. k \in S
      <4>1. passed[k] \in Nat /\ passed'[k] \in Nat
            BY ActorAssumption DEF TypeOK, Text0
      <4> QED BY <4>1, <2>3
    <3>2. PICK i \in 1 .. n : late[i] = k
          BY <3>1, <1>2
    <3>3. i \in DOMAIN items /\ items[i] = Text(k, passed[k] + 1, passed'[k])
          BY <3>2, <1>2, <1>4, <1>7
    <3> QED BY <3>3 DEF Text
  <2>4. Len(items) \in DOMAIN items /\ items[Len(items)] = State(kind)
        BY <1>7, <1>8
  <2> QED BY <2>1, <2>2, <2>3, <2>4, <1>7, <1>10 DEF Sends
<1>12. mail' = IF actor = "gone" THEN mail ELSE mail \o items
       BY DEF Dispatch, items
<1> QED BY <1>11, <1>12
(* How the launch went, and how it ended.                                  *)
LEMMA ReportLaunchedStep ==
  ASSUME TypeOK, TalkInv, ReportLaunched
  PROVE  \E items : ReportStep("Launched", items)
<1> DEFINE items == <<State("Launched")>>
<1>1. "Launched" \notin OutputKind
      BY ActorAssumption
<1>2. State("Launched") \in Item
      BY ActorAssumption DEF State, Item, Text0
<1>3. items \in Seq(Item) /\ DOMAIN items = {1} /\ Len(items) = 1 /\ items[1] = State("Launched")
      BY <1>2
<1>4. /\ ~over' /\ UNCHANGED <<made, ends, passed, parsed>>
      /\ launch = "open" /\ UNCHANGED <<config, launch, told, got, hooked, actor>>
      /\ Contract!Report("Launched") /\ Dispatch(items)
  <2>1. Contract!Report("Launched")
        BY DEF ReportLaunched
  <2>2. ~over'
        BY <2>1 DEF Contract!Report
  <2> QED BY <2>1, <2>2 DEF ReportLaunched, clientVars
<1>5. ASSUME NEW k \in OutputKind
      PROVE  /\ passed[k] <= passed[k] /\ passed[k] + parsed[k] <= made[k]
             /\ config.lines => \A p \in ends[k] : p <= passed[k]
             /\ ~ (passed[k] < passed[k])
  <2>1. passed[k] \in Nat
        BY ActorAssumption DEF TypeOK, Text0
  <2>2. WholeLines(k)
        BY WholeParts DEF TalkInv, WholeText
  <2> QED BY <2>1, <2>2 DEF WholeLines, TalkInv, TextInv
<1>6. Reads
  <2>1. /\ made' \in [OutputKind -> Text0] /\ ends' \in [OutputKind -> SUBSET (1 .. MaxText)]
        /\ passed' \in [OutputKind -> Text0] /\ parsed' \in [OutputKind -> Text0]
        BY <1>4 DEF TypeOK
  <2> QED BY <2>1, <1>4, <1>5 DEF Reads
<1> HIDE DEF items
<1>7. Sends(items, "Launched")
  <2>1. \A i \in DOMAIN items : i = 1 /\ items[i].do = "state" /\ items[i].kind = "Launched"
        BY <1>3 DEF State
  <2>2. \A k \in OutputKind : ~ (passed[k] < passed'[k])
        BY <1>4, <1>5
  <2> QED BY <2>1, <2>2, <1>1, <1>3 DEF Sends
<1> QED BY <1>1, <1>4, <1>6, <1>7 DEF ReportStep, Dispatch

LEMMA ReportEndStep ==
  ASSUME TypeOK, TalkInv, NEW kind \in Final, launch # "none",
         Contract!Report(kind), FlushOutput, Dispatch(Flushed \o <<State(kind)>>),
         UNCHANGED <<config, launch, made, ends, told, got, hooked, actor>>
  PROVE  \E items : ReportStep(kind, items)
<1>1. passed' = made /\ parsed' = [k \in OutputKind |-> 0]
      BY DEF FlushOutput
<1>2. PICK items : /\ Sends(items, kind)
                   /\ mail' = IF actor = "gone" THEN mail ELSE mail \o items
      BY <1>1, FlushSends
<1>3. Reads
  <2>1. /\ made' \in [OutputKind -> Text0] /\ ends' \in [OutputKind -> SUBSET (1 .. MaxText)]
        /\ passed' \in [OutputKind -> Text0] /\ parsed' \in [OutputKind -> Text0]
    <3>1. 0 \in Text0
          BY ActorAssumption DEF Text0
    <3> QED BY <3>1, <1>1 DEF TypeOK
  <2>2. ASSUME NEW k \in OutputKind
        PROVE  /\ passed[k] <= passed'[k] /\ passed'[k] + parsed'[k] <= made'[k]
               /\ passed'[k] = made'[k] /\ ends[k] \subseteq ends'[k]
               /\ config.lines => \A p \in ends'[k] : p <= passed'[k]
    <3>1. passed[k] \in Nat /\ parsed[k] \in Nat /\ made[k] \in Nat
          /\ passed[k] + parsed[k] <= made[k]
          BY ActorAssumption DEF TypeOK, Text0, TalkInv, TextInv
    <3>2. ends[k] \subseteq Nat
          BY ActorAssumption DEF TypeOK
    <3>3. WholeLines(k)
          BY WholeParts DEF TalkInv, WholeText
    <3>4. config.lines => \A p \in ends[k] : p <= made[k]
          BY <3>1, <3>2, <3>3 DEF WholeLines
    <3> QED BY <3>1, <3>4, <1>1
  <2>3. over'
        BY DEF Contract!Report, Final
  <2> QED BY <2>1, <2>2, <2>3 DEF Reads
<1> QED BY <1>2, <1>3 DEF ReportStep, Final

(* Output.                                                                 *)
LEMMA ReportOutputStep ==
  ASSUME TypeOK, TalkInv, NEW k \in OutputKind, NEW n \in 1 .. config.text,
         NEW e \in SUBSET (1 .. config.text), ReportOutput(k, n, e)
  PROVE  \E items : ReportStep(k, items)
<1> DEFINE found == {p \in ends'[k] : p > passed[k] + parsed[k]}
           upTo == IF config.lines
                   THEN IF found = {} THEN passed[k]
                                      ELSE CHOOSE p \in found : \A q \in found : q <= p
                   ELSE n
           items == Piece(k, upTo)
<1>1. /\ made[k] < n /\ e \subseteq (made[k] + 1) .. n
      /\ Contract!Report(k)
      /\ made' = [made EXCEPT ![k] = n] /\ ends' = [ends EXCEPT ![k] = @ \cup e]
      /\ passed' = [passed EXCEPT ![k] = upTo]
      /\ parsed' = [parsed EXCEPT ![k] = IF upTo = passed[k] THEN n - passed[k] ELSE 0]
      /\ Dispatch(items)
      /\ UNCHANGED <<config, launch, told, got, hooked, actor>>
      BY DEF ReportOutput, clientVars
<1>2. /\ config.lines \in BOOLEAN /\ config.text \in 0 .. MaxText
      /\ \A j \in OutputKind : /\ passed[j] \in Nat /\ parsed[j] \in Nat /\ made[j] \in Text0
                               /\ passed[j] \in Text0 /\ parsed[j] \in Text0
                               /\ ends[j] \subseteq 1 .. MaxText
      /\ MaxText \in Nat
      BY ActorAssumption, ConfigTypes, TypeParts DEF TypeOK, Text0
<1>3. /\ n \in Nat /\ n \in Text0 /\ n \in 1 .. MaxText /\ e \subseteq 1 .. MaxText
      BY <1>2 DEF Text0
<1>4. /\ ends' \in [OutputKind -> SUBSET (1 .. MaxText)] /\ ends'[k] = ends[k] \cup e
      /\ made' \in [OutputKind -> Text0] /\ made'[k] = n
      BY <1>1, <1>3 DEF TypeOK
<1>5. ~over' /\ launch # "none"
  <2>1. reports # <<>>
        BY <1>1, ActorAssumption DEF Contract!Report, Contract!Begin
  <2>2. launch # "none"
        BY <2>1 DEF TalkInv, StartInv
  <2>3. k \notin {"LaunchFailed", "Exited"}
        BY ActorAssumption
  <2>4. over' = (k \in {"LaunchFailed", "Exited"})
        BY <1>1 DEF Contract!Report
  <2> QED BY <2>2, <2>3, <2>4
<1>6. \A j \in OutputKind : /\ passed[j] + parsed[j] <= made[j]
                            /\ config.lines => \A p \in ends[j] : p <= passed[j]
  <2>1. \A j \in OutputKind : WholeLines(j)
        BY WholeParts DEF TalkInv, WholeText
  <2> QED BY <2>1 DEF WholeLines, TalkInv, TextInv
<1>7. ASSUME config.lines
      PROVE  /\ upTo \in Nat /\ passed[k] <= upTo /\ upTo <= n
             /\ passed[k] < upTo => upTo \in ends'[k]
             /\ \A p \in ends'[k] : p <= upTo
  <2>1. \A p \in ends'[k] : p \in Nat
        BY <1>4
  <2>2. \A p \in ends[k] : p \notin found
        BY <1>2, <1>6, <1>7, <2>1, <1>4
  <2>3. \A p \in found : p \in e /\ p \in Nat /\ p <= n /\ p > passed[k]
    <3>1. \A p \in found : p \in e /\ p \in Nat
          BY <2>1, <2>2, <1>4
    <3> QED BY <3>1, <1>1, <1>2, <1>3, <1>6
  <2>4. \A p \in e : p \in found
    <3>1. \A p \in e : p \in Nat /\ p > made[k] /\ p \in ends'[k]
          BY <1>1, <1>2, <1>3, <1>4 DEF Text0
    <3>2. made[k] \in Nat /\ passed[k] + parsed[k] <= made[k]
          BY <1>2, <1>6 DEF Text0
    <3> QED BY <3>1, <3>2, <1>2
  <2>5. CASE found = {}
    <3>1. upTo = passed[k]
          BY <2>5, <1>7
    <3>2. ends'[k] = ends[k]
          BY <2>4, <2>5, <1>4
    <3>3. passed[k] \in Nat /\ made[k] \in Nat /\ passed[k] <= made[k]
          BY <1>2, <1>6 DEF Text0
    <3>4. \A p \in ends'[k] : p <= passed[k]
          BY <3>2, <1>6, <1>7
    <3>5. passed[k] <= n /\ passed[k] <= passed[k] /\ ~ (passed[k] < passed[k])
          BY <3>3, <1>1, <1>3
    <3> HIDE DEF upTo
    <3> QED BY <3>1, <3>3, <3>4, <3>5
  <2>6. CASE found # {}
    <3>1. found \in SUBSET (0 .. n)
          BY <2>3, <1>3
    <3>2. \E p \in found : \A q \in found : q <= p
          BY <3>1, <2>6, <1>3, LargestExists
    <3> HIDE DEF found
    <3>3. upTo \in found /\ \A q \in found : q <= upTo
          BY <3>2, <2>6, <1>7
    <3>4. \A p \in ends'[k] : p <= upTo
      <4>1. ASSUME NEW p \in ends[k] PROVE p <= upTo
        <5>1. p <= passed[k] /\ p \in Nat
              BY <1>6, <1>7, <2>1, <1>4
        <5> QED BY <5>1, <3>3, <2>3, <1>2
      <4> QED BY <4>1, <3>3, <2>4, <1>4
    <3>5. upTo \in ends'[k]
          BY <3>3 DEF found
    <3> HIDE DEF upTo
    <3> QED BY <3>3, <3>4, <3>5, <2>3, <1>2
  <2> QED BY <2>5, <2>6
<1>8. ASSUME ~config.lines PROVE upTo = n /\ passed[k] <= upTo
  <2>1. passed[k] \in Nat /\ made[k] \in Nat /\ passed[k] <= made[k]
        BY <1>2, <1>6 DEF Text0
  <2> QED BY <2>1, <1>1, <1>3, <1>8
<1>9. upTo \in Nat /\ passed[k] <= upTo /\ upTo <= n /\ upTo \in Text0
  <2>1. upTo \in Nat /\ passed[k] <= upTo /\ upTo <= n
        BY <1>2, <1>3, <1>7, <1>8
  <2> HIDE DEF upTo
  <2> QED BY <2>1, <1>2, <1>3 DEF Text0
<1>10. config.lines => /\ passed[k] < upTo => upTo \in ends'[k]
                       /\ \A p \in ends'[k] : p <= upTo
       BY <1>7
<1> HIDE DEF upTo
<1>11. /\ passed'[k] = upTo
       /\ parsed'[k] = IF upTo = passed[k] THEN n - passed[k] ELSE 0
       /\ \A j \in OutputKind : j # k =>
             /\ passed'[j] = passed[j] /\ parsed'[j] = parsed[j] /\ made'[j] = made[j]
             /\ ends'[j] = ends[j]
       /\ passed' \in [OutputKind -> Text0]
       BY <1>1, <1>9 DEF TypeOK
<1>12. parsed'[k] \in Text0 /\ passed'[k] + parsed'[k] <= n
  <2>1. CASE upTo = passed[k]
        BY <2>1, <1>2, <1>3, <1>9, <1>11 DEF Text0
  <2>2. CASE upTo # passed[k]
        BY <2>2, <1>2, <1>3, <1>9, <1>11 DEF Text0
  <2> QED BY <2>1, <2>2
<1>13. parsed' \in [OutputKind -> Text0]
       BY <1>1, <1>11, <1>12 DEF TypeOK
<1>14. Reads
  <2>1. ASSUME NEW j \in OutputKind
        PROVE  /\ passed[j] <= passed'[j] /\ passed'[j] + parsed'[j] <= made'[j]
               /\ ends[j] \subseteq ends'[j]
               /\ config.lines =>
                    /\ passed[j] < passed'[j] => passed'[j] \in ends'[j]
                    /\ \A p \in ends'[j] : p <= passed'[j]
    <3>1. CASE j = k
          BY <3>1, <1>4, <1>9, <1>10, <1>11, <1>12
    <3>2. CASE j # k
      <4>1. passed[j] \in Nat /\ ~ (passed[j] < passed[j]) /\ passed[j] <= passed[j]
            BY <1>2
      <4> QED BY <4>1, <3>2, <1>6, <1>11
    <3> QED BY <3>1, <3>2
  <2> QED BY <2>1, <1>4, <1>5, <1>11, <1>13 DEF Reads
<1>15. Sends(items, k)
  <2>1. CASE upTo > passed[k]
    <3>1. items = <<Text(k, passed[k] + 1, upTo)>>
          BY <2>1 DEF Piece
    <3>2. Text(k, passed[k] + 1, upTo) \in Item
      <4>1. passed[k] + 1 \in Text0
            BY <2>1, <1>2, <1>9 DEF Text0
      <4> QED BY <4>1, <1>9 DEF Text, Item
    <3>3. items \in Seq(Item) /\ DOMAIN items = {1} /\ Len(items) = 1
          /\ items[1] = Text(k, passed[k] + 1, upTo)
          BY <3>1, <3>2
    <3> HIDE DEF items
    <3>4. \A i \in DOMAIN items :
             /\ i = 1 /\ items[i].do = "output" /\ items[i].kind = k
             /\ items[i].from = passed[k] + 1 /\ items[i].to = upTo
          BY <3>3 DEF Text
    <3>5. passed[k] < passed'[k]
          BY <2>1, <1>2, <1>9, <1>11
    <3>6. \A j \in OutputKind : passed[j] < passed'[j] => j = k
          BY <1>2, <1>11
    <3>7. 1 \in DOMAIN items
          BY <3>3
    <3>8. \A j \in OutputKind : passed[j] < passed'[j] =>
             \E i \in DOMAIN items : items[i].do = "output" /\ items[i].kind = j
          BY <3>4, <3>6, <3>7
    <3> QED BY <3>3, <3>4, <3>5, <3>8, <1>11 DEF Sends
  <2>2. CASE ~ (upTo > passed[k])
    <3>1. items = <<>> /\ upTo = passed[k]
          BY <2>2, <1>2, <1>9 DEF Piece
    <3>2. items \in Seq(Item) /\ DOMAIN items = {}
          BY <3>1
    <3>3. \A j \in OutputKind : ~ (passed[j] < passed'[j])
          BY <3>1, <1>2, <1>11
    <3> HIDE DEF items
    <3> QED BY <3>2, <3>3 DEF Sends
  <2> QED BY <2>1, <2>2
<1>16. mail' = IF actor = "gone" THEN mail ELSE mail \o items
       BY <1>1 DEF Dispatch
<1> HIDE DEF items
<1> QED BY <1>1, <1>5, <1>14, <1>15, <1>16 DEF ReportStep
LEMMA ReportTypes ==
  ASSUME TypeOK, TalkInv, NEW kind, NEW items, ReportStep(kind, items)
  PROVE  ThreadT' /\ mail' \in Seq(Item) /\ TalkInv' /\ (over => over')
<1>1. TalkInv'
      BY LateReportKeeps, ReportKeeps
<1>2. mail' \in Seq(Item)
  <2>1. CASE actor = "gone"
        BY <2>1 DEF ReportStep, TypeOK
  <2>2. CASE actor # "gone"
    <3>1. mail' = mail \o items /\ items \in Seq(Item)
          BY <2>2 DEF ReportStep, Sends
    <3> QED BY <3>1, JoinItems DEF TypeOK
  <2> QED BY <2>1, <2>2
<1>3. reports' \in Seq(OutputKind \cup Final \cup {"Launched"}) /\ ~over /\ over' \in BOOLEAN
  <2>1. /\ reports' = Append(reports, kind) /\ ~over
        /\ over' = (kind \in {"LaunchFailed", "Exited"})
        /\ kind \in OutputKind \cup Final \cup {"Launched"}
        BY DEF ReportStep, Contract!Report
  <2> QED BY <2>1, AppendLast DEF TypeOK
<1>4. ThreadT'
      BY <1>3 DEF ReportStep, Reads, ThreadT
<1> QED BY <1>1, <1>2, <1>3, <1>4

(* What the launch thread does changes nothing of the stops.               *)
LEMMA ThreadStepKeeps ==
  ASSUME TypeOK, TalkInv, ThreadStep
  PROVE  /\ TypeOK' /\ TalkInv' /\ (over => over')
         /\ UNCHANGED <<running, exited, pending, answer, signals, actor>>
         /\ \E kind, items : ReportStep(kind, items)
<1>0. WorldT /\ StopT /\ ClientT /\ SendT
      BY TypeParts
<1>1. CASE ReportLaunched
  <2>1. PICK items : ReportStep("Launched", items)
        BY <1>1, ReportLaunchedStep
  <2>2. ThreadT' /\ mail' \in Seq(Item) /\ TalkInv' /\ (over => over')
        BY <2>1, ReportTypes
  <2>3. WorldT'
        BY <1>0, <1>1 DEF ReportLaunched, WorldT
  <2>4. StopT' /\ ClientT' /\ SendT'
        BY <1>0, <1>1, StopStays, ClientStays, SendStays DEF ReportLaunched
  <2> QED BY <2>1, <2>2, <2>3, <2>4, <1>1, TypePartsNext DEF ReportLaunched, stopVars
<1>2. ASSUME NEW kind, NEW items, ReportStep(kind, items),
             UNCHANGED <<config, launch, worldVars, stopVars, clientVars, sendVars, actor,
                         refused, simple>>
      PROVE  /\ TypeOK' /\ TalkInv' /\ (over => over')
             /\ UNCHANGED <<running, exited, pending, answer, signals, actor>>
             /\ \E kd, its : ReportStep(kd, its)
  <2>1. ThreadT' /\ mail' \in Seq(Item) /\ TalkInv' /\ (over => over')
        BY <1>2, ReportTypes
  <2>2. WorldT' /\ StopT' /\ ClientT' /\ SendT'
        BY <1>0, <1>2, WorldStays, StopStays, ClientStays, SendStays
  <2> QED BY <2>1, <2>2, <1>2, TypePartsNext DEF stopVars, worldVars
<1>3. CASE ReportLaunchFailed
  <2>1. /\ launch # "none" /\ Contract!Report("LaunchFailed") /\ FlushOutput
        /\ Dispatch(Flushed \o <<State("LaunchFailed")>>)
        /\ UNCHANGED <<config, launch, made, ends, told, got, hooked, actor>>
        BY <1>3 DEF ReportLaunchFailed, clientVars
  <2>2. "LaunchFailed" \in Final
        BY DEF Final
  <2>3. PICK items : ReportStep("LaunchFailed", items)
        BY <2>1, <2>2, ReportEndStep
  <2> QED BY <2>3, <1>2, <1>3 DEF ReportLaunchFailed
<1>4. CASE ReportExited
  <2>1. /\ Contract!Report("Exited") /\ FlushOutput
        /\ Dispatch(Flushed \o <<State("Exited")>>)
        /\ UNCHANGED <<config, launch, made, ends, told, got, hooked, actor>>
        BY <1>4 DEF ReportExited, clientVars
  <2>2. "Exited" \in Final
        BY DEF Final
  <2>3. launch # "none"
    <3>1. reports # <<>>
          BY <2>1 DEF Contract!Report, Contract!Begin
    <3> QED BY <3>1 DEF TalkInv, StartInv
  <2>4. PICK items : ReportStep("Exited", items)
        BY <2>1, <2>2, <2>3, ReportEndStep
  <2> QED BY <2>4, <1>2, <1>4 DEF ReportExited
<1>5. ASSUME NEW k \in OutputKind, NEW n \in 1 .. config.text, NEW e \in SUBSET (1 .. config.text),
             ReportOutput(k, n, e)
      PROVE  /\ TypeOK' /\ TalkInv' /\ (over => over')
             /\ UNCHANGED <<running, exited, pending, answer, signals, actor>>
             /\ \E kind, items : ReportStep(kind, items)
  <2>1. PICK items : ReportStep(k, items)
        BY <1>5, ReportOutputStep
  <2>2. UNCHANGED <<config, launch, worldVars, stopVars, clientVars, sendVars, actor,
                    refused, simple>>
        BY <1>5 DEF ReportOutput
  <2> QED BY <2>1, <2>2, <1>2
<1> QED BY <1>1, <1>3, <1>4, <1>5 DEF ThreadStep

----------------------------------------------------------------------------
(* The stops.                                                              *)

(* A step that leaves the waiters alone.                                   *)
LEMMA StopsStay ==
  ASSUME StopInv, StopsAreServed, UNCHANGED <<running, exited, pending, answer>>,
         signals \subseteq signals', over => over', actor' = "alive" => actor = "alive"
  PROVE  StopInv' /\ StopsAreServed'
<1>1. StopInv'
      BY DEF StopInv
<1>2. StopsAreServed'
      BY DEF StopsAreServed
<1> QED BY <1>1, <1>2

(* The stops that were asked for before the launch.                        *)
LEMMA HandleLaunchedStops ==
  ASSUME TypeOK, StopInv, StopsAreServed, HandleLaunched
  PROVE  StopInv' /\ StopsAreServed'
<1>1. PICK failed \in SUBSET {p \in {q \in pending : ~q.run} : MayFail(p.stop)} :
         /\ pending' = {p \in pending : p.run}
                 \cup {[p EXCEPT !.run = TRUE] : p \in {q \in pending : ~q.run} \ failed}
         /\ answer' = [c \in Waiters |-> IF \E p \in failed : p.who = c THEN "error"
                                                                    ELSE answer[c]]
         /\ RunStops({p.stop : p \in {q \in pending : ~q.run} \ failed})
      BY DEF HandleLaunched, ApplyPending
<1>2. \A p \in pending : p \in [who : Waiters, stop : Stop, run : BOOLEAN]
      BY DEF TypeOK
<1>3. running' = TRUE /\ UNCHANGED <<exited, over, actor>>
      BY DEF HandleLaunched, threadVars
<1>4. ASSUME NEW p \in pending'
      PROVE  \E q \in pending : /\ q \notin failed /\ p.who = q.who /\ p.stop = q.stop /\ p.run
                                /\ q.run => p = q
                                /\ ~q.run => p = [q EXCEPT !.run = TRUE]
  <2>1. CASE p \in pending /\ p.run
        BY <2>1
  <2>2. ASSUME NEW q \in {q \in pending : ~q.run} \ failed, p = [q EXCEPT !.run = TRUE]
        PROVE  /\ q \in pending /\ q \notin failed /\ p.who = q.who /\ p.stop = q.stop /\ p.run
               /\ ~q.run
        BY <2>2, <1>2
  <2> QED BY <2>1, <2>2, <1>1
<1>5. ASSUME NEW q \in pending, q \notin failed PROVE \E p \in pending' : p.who = q.who
  <2>1. CASE q.run
        BY <2>1, <1>1
  <2>2. CASE ~q.run
    <3>1. [q EXCEPT !.run = TRUE] \in pending'
          BY <1>1, <1>5, <2>2
    <3>2. [q EXCEPT !.run = TRUE].who = q.who
          BY <1>2
    <3> QED BY <3>1, <3>2
  <2> QED BY <2>1, <2>2
<1>6. \A p, q \in pending' : p.who = q.who => p = q
  <2> SUFFICES ASSUME NEW p \in pending', NEW q \in pending', p.who = q.who PROVE p = q
        OBVIOUS
  <2>1. PICK a \in pending : /\ p.who = a.who
                             /\ a.run => p = a
                             /\ ~a.run => p = [a EXCEPT !.run = TRUE]
        BY <1>4
  <2>2. PICK b \in pending : /\ q.who = b.who
                             /\ b.run => q = b
                             /\ ~b.run => q = [b EXCEPT !.run = TRUE]
        BY <1>4
  <2>3. a = b
        BY <2>1, <2>2 DEF StopInv
  <2> QED BY <2>1, <2>2, <2>3
<1>7. ASSUME NEW p \in pending' PROVE p.run /\ p.stop \in signals'
  <2>1. PICK q \in pending : q \notin failed /\ p.stop = q.stop /\ p.run
        BY <1>4
  <2>2. q.stop \in signals'
    <3>1. CASE q.run
          BY <3>1, <1>1 DEF StopInv, RunStops
    <3>2. CASE ~q.run
      <4>1. q.stop \in {r.stop : r \in {r \in pending : ~r.run} \ failed}
            BY <2>1, <3>2
      <4> QED BY <4>1, <1>1 DEF RunStops
    <3> QED BY <3>1, <3>2
  <2> QED BY <2>1, <2>2
<1>8. answer \in [Waiters -> {"unasked", "waiting", "idle", "exit", "error", "lost"}]
      BY DEF TypeOK
<1>9. ASSUME NEW c \in Waiters
      PROVE  /\ answer'[c] = "exit" => over'
             /\ answer'[c] = "waiting" => \E p \in pending' : p.who = c
             /\ (\E p \in pending' : p.who = c) => answer'[c] = "waiting"
  <2>1. answer'[c] = IF \E p \in failed : p.who = c THEN "error" ELSE answer[c]
        BY <1>1
  <2>2. answer'[c] = "exit" => over'
        BY <2>1, <1>3 DEF StopsAreServed
  <2>3. ASSUME answer'[c] = "waiting" PROVE \E p \in pending' : p.who = c
    <3>1. ~ \E p \in failed : p.who = c
          BY <2>1, <2>3
    <3>2. answer[c] = "waiting"
          BY <2>1, <2>3, <3>1
    <3>3. PICK q \in pending : q.who = c
          BY <3>2 DEF StopsAreServed
    <3> QED BY <3>1, <3>3, <1>5
  <2>4. ASSUME NEW p \in pending', p.who = c PROVE answer'[c] = "waiting"
    <3>1. PICK q \in pending : q \notin failed /\ q.who = c
          BY <1>4, <2>4
    <3>2. ~ \E r \in failed : r.who = c
          BY <3>1, <1>1 DEF StopInv
    <3>3. answer[c] = "waiting"
          BY <3>1 DEF StopsAreServed
    <3> QED BY <2>1, <3>2, <3>3
  <2> QED BY <2>2, <2>3, <2>4
<1>10. exited' => pending' = {}
  <2> SUFFICES ASSUME exited PROVE \A p \in pending' : FALSE
        BY <1>3
  <2>1. pending = {}
        BY DEF StopsAreServed
  <2> QED BY <2>1, <1>4
<1>11. actor' = "alive" => answer'[Destroyer] = "unasked"
  <2> SUFFICES ASSUME actor = "alive" PROVE answer'[Destroyer] = "unasked"
        BY <1>3
  <2>1. answer[Destroyer] = "unasked" /\ Destroyer \in Waiters
        BY DEF StopInv, Waiters
  <2>2. \A p \in pending : p.who # Destroyer
        BY <2>1 DEF StopsAreServed
  <2> QED BY <2>1, <2>2, <1>1
<1>12. StopInv'
       BY <1>3, <1>6, <1>7, <1>11 DEF StopInv
<1>13. StopsAreServed'
       BY <1>7, <1>9, <1>10 DEF StopsAreServed
<1> QED BY <1>12, <1>13

(* The end is known.                                                       *)
LEMMA HandleEndStops ==
  ASSUME TypeOK, TalkInv, StopInv, StopsAreServed, HandleEnd
  PROVE  StopInv' /\ StopsAreServed'
<1>1. /\ pending' = {} /\ exited' = TRUE /\ UNCHANGED <<running, signals, over, actor>>
      /\ answer' = [c \in Waiters |-> IF \E p \in pending : p.who = c THEN "exit" ELSE answer[c]]
      BY DEF HandleEnd, AnswerPending, worldVars, threadVars
<1>2. over
  <2>1. 1 \in DOMAIN mail /\ mail[1] = Head(mail)
        BY TailItems DEF HandleEnd, TypeOK
  <2> QED BY <2>1 DEF HandleEnd, TalkInv, EndInv
<1>3. \A c \in Waiters : answer'[c] # "waiting"
      BY <1>1 DEF StopsAreServed
<1>4. actor' = "alive" => answer'[Destroyer] = "unasked"
  <2> SUFFICES ASSUME actor = "alive" PROVE answer'[Destroyer] = "unasked"
        BY <1>1
  <2>1. answer[Destroyer] = "unasked" /\ Destroyer \in Waiters
        BY DEF StopInv, Waiters
  <2>2. \A p \in pending : p.who # Destroyer
        BY <2>1 DEF StopsAreServed
  <2> QED BY <2>1, <2>2, <1>1
<1>5. StopInv'
      BY <1>1, <1>2, <1>4 DEF StopInv
<1>6. StopsAreServed'
      BY <1>1, <1>2, <1>3 DEF StopsAreServed
<1> QED BY <1>5, <1>6

(* A waiter is added, with a stop that is run if the process is there.     *)
LEMMA WaiterAdded ==
  ASSUME TypeOK, StopInv, StopsAreServed, NEW c \in Waiters, NEW stop \in Stop,
         answer[c] = "unasked", ~exited, UNCHANGED <<running, exited, over>>,
         pending' = pending \cup {[who |-> c, stop |-> stop, run |-> running]},
         answer' = [answer EXCEPT ![c] = "waiting"],
         RunStops(IF running THEN {stop} ELSE {}),
         actor' = "alive" => actor = "alive" /\ c # Destroyer
  PROVE  StopInv' /\ StopsAreServed'
<1> DEFINE w == [who |-> c, stop |-> stop, run |-> running]
<1>1. w.who = c /\ w.stop = stop /\ w.run = running
      OBVIOUS
<1> HIDE DEF w
<1>2. pending' = pending \cup {w}
      BY DEF w
<1>3. \A p \in pending : p.who # c
      BY DEF StopsAreServed
<1>4. signals \subseteq signals' /\ (running => stop \in signals')
      BY DEF RunStops
<1>5. /\ answer'[c] = "waiting"
      /\ \A d \in Waiters : d # c => answer'[d] = answer[d]
      BY DEF TypeOK
<1>6. StopInv'
  <2>1. \A p, q \in pending' : p.who = q.who => p = q
        BY <1>1, <1>2, <1>3 DEF StopInv
  <2>2. \A p \in pending' : p.run => p.stop \in signals'
        BY <1>1, <1>2, <1>4 DEF StopInv
  <2>3. actor' = "alive" => answer'[Destroyer] = "unasked"
        BY <1>5 DEF StopInv, Waiters
  <2> QED BY <2>1, <2>2, <2>3 DEF StopInv
<1>7. StopsAreServed'
  <2>1. running' => \A p \in pending' : p.run /\ p.stop \in signals'
        BY <1>1, <1>2, <1>4 DEF StopsAreServed
  <2>2. \A d \in Waiters : answer'[d] = "exit" => over'
        BY <1>5 DEF StopsAreServed
  <2>3. \A d \in Waiters : answer'[d] = "waiting" <=> \E p \in pending' : p.who = d
        BY <1>1, <1>2, <1>3, <1>5 DEF StopsAreServed
  <2> QED BY <2>1, <2>2, <2>3 DEF StopsAreServed
<1> QED BY <1>6, <1>7

LEMMA CallStopStops ==
  ASSUME TypeOK, StopInv, StopsAreServed, NEW c \in Callers, NEW stop \in config.stops,
         CallStop(c, stop)
  PROVE  StopInv' /\ StopsAreServed'
<1>1. /\ c \in Waiters /\ c # Destroyer /\ stop \in Stop /\ answer[c] = "unasked"
      /\ UNCHANGED <<running, exited, over, actor>>
      BY ActorAssumption, TypeParts, ConfigTypes DEF CallStop, Waiters, Destroyer, threadVars
<1>2. ASSUME NEW x \in {"idle", "exit", "error"}, x = "exit" => exited,
             answer' = [answer EXCEPT ![c] = x], pending' = pending, signals \subseteq signals'
      PROVE  StopInv' /\ StopsAreServed'
  <2>1. \A p \in pending : p.who # c
        BY <1>1 DEF StopsAreServed
  <2>2. answer'[c] = x /\ \A d \in Waiters : d # c => answer'[d] = answer[d]
        BY <1>1, <1>2 DEF TypeOK
  <2>3. StopInv'
        BY <1>1, <1>2, <2>2 DEF StopInv, Waiters
  <2>4. StopsAreServed'
    <3>1. running' => \A p \in pending' : p.run /\ p.stop \in signals'
          BY <1>1, <1>2 DEF StopsAreServed
    <3>2. \A d \in Waiters : answer'[d] = "exit" => over'
          BY <1>1, <1>2, <2>2 DEF StopsAreServed, StopInv
    <3>3. \A d \in Waiters : answer'[d] = "waiting" <=> \E p \in pending' : p.who = d
          BY <1>1, <1>2, <2>1, <2>2 DEF StopsAreServed
    <3> QED BY <3>1, <3>2, <3>3, <1>1, <1>2 DEF StopsAreServed
  <2> QED BY <2>3, <2>4
<1>3. CASE /\ answer' = [answer EXCEPT ![c] = "idle"]
           /\ UNCHANGED <<signals, doomed, children, pending, refused>>
      BY <1>2, <1>3
<1>4. CASE /\ exited /\ answer' = [answer EXCEPT ![c] = "exit"]
           /\ RunStops({stop} \cap {"TerminateProcessTree"}) /\ pending' = pending
      BY <1>2, <1>4 DEF RunStops
<1>5. CASE /\ answer' = [answer EXCEPT ![c] = "error"]
           /\ UNCHANGED <<signals, doomed, children, pending>>
      BY <1>2, <1>5
<1>6. CASE /\ ~exited
           /\ pending' = pending \cup {[who |-> c, stop |-> stop, run |-> running]}
           /\ answer' = [answer EXCEPT ![c] = "waiting"]
           /\ RunStops(IF running THEN {stop} ELSE {})
      BY <1>1, <1>6, WaiterAdded
<1> QED BY <1>3, <1>4, <1>5, <1>6 DEF CallStop

LEMMA DestroyStops ==
  ASSUME TypeOK, StopInv, StopsAreServed, Destroy
  PROVE  StopInv' /\ StopsAreServed'
<1>1. /\ Destroyer \in Waiters /\ DestroyStop \in Stop /\ answer[Destroyer] = "unasked"
      /\ UNCHANGED <<running, exited, over>>
      /\ actor' # "alive"
      BY DestroyStopType DEF Destroy, Waiters, threadVars, StopInv
<1>2. /\ ~exited
      /\ pending' = pending \cup {[who |-> Destroyer, stop |-> DestroyStop, run |-> running]}
      /\ answer' = [answer EXCEPT ![Destroyer] = "waiting"]
      /\ RunStops(IF running THEN {DestroyStop} ELSE {})
      BY DEF Destroy
<1> QED BY <1>1, <1>2, WaiterAdded

LEMMA DeleteStops ==
  ASSUME TypeOK, StopInv, StopsAreServed, DestroyIdle \/ DestroyFails \/ Destroyed
  PROVE  StopInv' /\ StopsAreServed'
<1>1. /\ actor' = "gone" /\ pending' = {} /\ UNCHANGED <<running, exited, over>>
      /\ answer' = [c \in Waiters |-> IF answer[c] = "waiting" THEN "lost" ELSE answer[c]]
      BY DEF DestroyIdle, DestroyFails, Destroyed, Delete, threadVars
<1>2. StopInv'
      BY <1>1 DEF StopInv
<1>3. StopsAreServed'
      BY <1>1 DEF StopsAreServed
<1> QED BY <1>2, <1>3
----------------------------------------------------------------------------
(* Every step.                                                             *)

(* The steps that send nothing to the actor and handle nothing of it.      *)
Quiet ==
  \/ Launch \/ OpenStdIn \/ StdInOpened \/ ForwardInput \/ Fork \/ Exit \/ ChildExits
  \/ Unsubscribe \/ Send \/ StartSend \/ FinishSend \/ Destroy \/ DestroySequencer
  \/ CloseLaunch \/ \E c \in Callers, stop \in config.stops : CallStop(c, stop)

LEMMA NextCases ==
  ASSUME Next
  PROVE  \/ ThreadStep \/ HandleOutput \/ HandleLaunched \/ HandleEnd \/ HandleTell
         \/ DestroyIdle \/ DestroyFails \/ Destroyed \/ Quiet
BY DEF Next, ActorStep, ClientStep, WorldStep, Quiet

LEMMA QuietStops ==
  ASSUME Inv, Quiet
  PROVE  StopInv' /\ StopsAreServed'
<1>1. TypeOK /\ StopInv /\ StopsAreServed /\ WorldT
      BY TypeParts DEF Inv
<1>2. CASE Destroy
      BY <1>1, <1>2, DestroyStops
<1>3. ASSUME NEW c \in Callers, NEW stop \in config.stops, CallStop(c, stop)
      PROVE  StopInv' /\ StopsAreServed'
      BY <1>1, <1>3, CallStopStops
<1>4. CASE \/ Launch \/ OpenStdIn \/ StdInOpened \/ ForwardInput \/ Fork \/ Exit \/ ChildExits
           \/ Unsubscribe \/ Send \/ StartSend \/ FinishSend \/ DestroySequencer
  <2>1. /\ UNCHANGED <<running, exited, pending, answer, signals, over>>
        /\ actor' = "alive" => actor = "alive"
        BY <1>4 DEF Launch, OpenStdIn, StdInOpened, ForwardInput, Fork, Exit, ChildExits,
           Unsubscribe, Send, StartSend, FinishSend, DestroySequencer, stopVars, worldVars,
           threadVars
  <2> QED BY <2>1, <1>1, StopsStay
<1>5. CASE CloseLaunch
  <2>1. /\ UNCHANGED <<running, exited, pending, answer, over, actor>>
        /\ signals \subseteq signals'
        BY <1>5 DEF CloseLaunch, RunStops, stopVars, threadVars
  <2> QED BY <2>1, <1>1, StopsStay
<1> QED BY <1>2, <1>3, <1>4, <1>5 DEF Quiet

LEMMA Initially == ASSUME Init PROVE Inv /\ Client!Init
<1>1. TypeOK
  <2>1. 0 \in Text0 /\ 0 \in 0 .. MaxSends
        BY ActorAssumption DEF Text0
  <2>2. WorldT
        BY DEF Init, WorldT
  <2>3. ThreadT
    <3>1. reports = <<>> /\ over = FALSE
          BY DEF Init, Contract!Init
    <3>2. made = [k \in OutputKind |-> 0] /\ passed = made /\ parsed = made
          BY DEF Init
    <3>3. ends = [k \in OutputKind |-> {}]
          BY DEF Init
    <3>4. made \in [OutputKind -> Text0]
          BY <3>2, <2>1
    <3>5. ends \in [OutputKind -> SUBSET (1 .. MaxText)]
          BY <3>3
    <3>6. reports \in Seq(OutputKind \cup Final \cup {"Launched"})
          BY <3>1
    <3> QED BY <3>1, <3>2, <3>4, <3>5, <3>6 DEF ThreadT
  <2>4. mail \in Seq(Item) /\ StopT
    <3>1. mail = <<>> /\ running = FALSE /\ exited = FALSE /\ pending = {}
          BY DEF Init
    <3>2. answer = [c \in Waiters |-> "unasked"] /\ actor = "alive" /\ refused = FALSE
          BY DEF Init
    <3>3. mail \in Seq(Item)
          BY <3>1
    <3>4. answer \in [Waiters -> {"unasked", "waiting", "idle", "exit", "error", "lost"}]
          BY <3>2
    <3>5. pending \subseteq [who : Waiters, stop : Stop, run : BOOLEAN]
          BY <3>1
    <3> QED BY <3>1, <3>2, <3>3, <3>4, <3>5 DEF StopT
  <2>5. ClientT
    <3>1. hooked = FALSE /\ told = <<>> /\ got = [k \in OutputKind |-> 0]
          BY DEF Init
    <3>2. got \in [OutputKind -> Text0]
          BY <3>1, <2>1
    <3>3. told \in Seq(OutputKind \cup Final \cup {"Launched"})
          BY <3>1
    <3> QED BY <3>1, <3>2, <3>3 DEF ClientT
  <2>6. SendT
        BY <2>1 DEF Init, SendT
  <2> QED BY <2>2, <2>3, <2>4, <2>5, <2>6, TypeParts
<1>2. DOMAIN mail = {} /\ \A k : Pieces(k) = {}
  <2>1. DOMAIN mail = {}
        BY DEF Init
  <2> QED BY <2>1 DEF Pieces
<1>3. StopInv
      BY DEF Init, StopInv, Waiters
<1>4. StopsAreServed
      BY DEF Init, StopsAreServed
<1>5. /\ reports = <<>> /\ over = FALSE /\ mail = <<>> /\ told = <<>> /\ ~hooked
      /\ actor = "alive" /\ launch = "none"
      /\ \A k \in OutputKind : made[k] = 0 /\ passed[k] = 0 /\ got[k] = 0 /\ parsed[k] = 0
                               /\ ends[k] = {}
      BY DEF Init, Contract!Init
<1>6. StartInv /\ HookInv /\ BeginInv /\ EndInv /\ TextInv
      BY <1>2, <1>5 DEF StartInv, HookInv, BeginInv, EndInv, TextInv
<1>7. OutputIsWhole
      BY <1>2, <1>5 DEF OutputIsWhole
<1>8. Client!Init
      BY <1>5 DEF Client!Init, ClientOver
<1> QED BY <1>1, <1>3, <1>4, <1>6, <1>7, <1>8 DEF Inv, TalkInv

(* Each step keeps the invariant, and what it tells the client is what a   *)
(* launch may report.                                                      *)
LEMMA Steps ==
  ASSUME Inv, Next
  PROVE  Inv' /\ \/ StillStep \/ DeleteStep \/ DropStep \/ MoveStep \/ ToldStep
                 \/ \E kind, items : ReportStep(kind, items)
<1>1. TypeOK /\ StopInv /\ StopsAreServed /\ TalkInv
      BY DEF Inv
<1>2. CASE ThreadStep
  <2>1. /\ TypeOK' /\ TalkInv' /\ (over => over')
        /\ UNCHANGED <<running, exited, pending, answer, signals, actor>>
        /\ \E kind, items : ReportStep(kind, items)
        BY <1>1, <1>2, ThreadStepKeeps
  <2>2. StopInv' /\ StopsAreServed'
        BY <2>1, <1>1, StopsStay
  <2> QED BY <2>1, <2>2 DEF Inv
<1>3. CASE HandleOutput
  <2>1. TypeOK' /\ TalkInv' /\ (DropStep \/ MoveStep \/ ToldStep)
        BY <1>1, <1>3, HandleOutputStep
  <2>2. UNCHANGED <<running, exited, pending, answer, signals, over, actor>>
        BY <1>3 DEF HandleOutput, stopVars, worldVars, threadVars
  <2>3. StopInv' /\ StopsAreServed'
        BY <2>2, <1>1, StopsStay
  <2> QED BY <2>1, <2>3 DEF Inv
<1>4. CASE HandleLaunched
  <2>1. TypeOK' /\ TalkInv' /\ (DropStep \/ MoveStep \/ ToldStep)
        BY <1>1, <1>4, HandleLaunchedStep
  <2>2. StopInv' /\ StopsAreServed'
        BY <1>1, <1>4, HandleLaunchedStops
  <2> QED BY <2>1, <2>2 DEF Inv
<1>5. CASE HandleEnd
  <2>1. TypeOK' /\ TalkInv' /\ (DropStep \/ MoveStep \/ ToldStep)
        BY <1>1, <1>5, HandleEndStep
  <2>2. StopInv' /\ StopsAreServed'
        BY <1>1, <1>5, HandleEndStops
  <2> QED BY <2>1, <2>2 DEF Inv
<1>6. CASE HandleTell
  <2>1. TypeOK' /\ TalkInv' /\ ToldStep
        BY <1>1, <1>6, HandleTellKeeps
  <2>2. UNCHANGED <<running, exited, pending, answer, signals, over, actor>>
        BY <1>6 DEF HandleTell, stopVars, worldVars, threadVars
  <2>3. StopInv' /\ StopsAreServed'
        BY <2>2, <1>1, StopsStay
  <2> QED BY <2>1, <2>3 DEF Inv
<1>7. CASE DestroyIdle \/ DestroyFails \/ Destroyed
  <2>1. TypeOK' /\ DeleteStep
        BY <1>1, <1>7, DeleteTypes
  <2>2. TalkInv'
        BY <2>1, <1>1, DeleteKeeps
  <2>3. StopInv' /\ StopsAreServed'
        BY <1>1, <1>7, DeleteStops
  <2> QED BY <2>1, <2>2, <2>3 DEF Inv
<1>8. CASE Quiet
  <2>1. TypeOK' /\ StillStep
        BY <1>1, <1>8, StillTypes DEF Quiet
  <2>2. TalkInv'
        BY <2>1, <1>1, StillKeeps
  <2>3. StopInv' /\ StopsAreServed'
        BY <1>8, QuietStops
  <2> QED BY <2>1, <2>2, <2>3 DEF Inv
<1> QED BY <1>2, <1>3, <1>4, <1>5, <1>6, <1>7, <1>8, NextCases

LEMMA Stutters == ASSUME Inv, UNCHANGED vars PROVE Inv' /\ UNCHANGED Client!vars
<1>1. UNCHANGED <<config, launch, process, doomed, children, signals>>
      BY DEF vars, worldVars
<1>2. UNCHANGED <<reports, over, made, ends, passed, parsed, mail>>
      BY DEF vars, threadVars
<1>3. UNCHANGED <<running, exited, pending, answer, hooked, told, got>>
      BY DEF vars, stopVars, clientVars
<1>4. UNCHANGED <<asked, started, finished, actor, refused, simple>>
      BY DEF vars, sendVars
<1>5. TypeOK'
  <2>1. WorldT' /\ ThreadT' /\ StopT' /\ ClientT' /\ SendT'
        BY <1>1, <1>2, <1>3, <1>4, TypeParts
           DEF Inv, WorldT, ThreadT, StopT, ClientT, SendT
  <2>2. mail' \in Seq(Item)
        BY <1>2 DEF Inv, TypeOK
  <2> QED BY <2>1, <2>2, TypePartsNext
<1>6. StopInv' /\ StopsAreServed'
      BY <1>1, <1>2, <1>3, <1>4, StopsStay DEF Inv
<1>7. StillStep
      BY <1>1, <1>2, <1>3, <1>4 DEF StillStep, threadVars
<1>8. TalkInv'
      BY <1>7, StillKeeps DEF Inv
<1>9. UNCHANGED Client!vars
      BY <1>3 DEF Client!vars, ClientOver
<1> QED BY <1>5, <1>6, <1>8, <1>9 DEF Inv

(* What a step does for the client.                                        *)
LEMMA ClientSteps ==
  ASSUME Inv, \/ StillStep \/ DeleteStep \/ DropStep \/ MoveStep \/ ToldStep
              \/ \E kind, items : ReportStep(kind, items)
  PROVE  [Client!Next]_Client!vars
<1>1. TypeOK /\ TalkInv
      BY DEF Inv
<1>2. CASE told' = told /\ hooked' = hooked
      BY <1>2 DEF Client!vars, ClientOver
<1>3. CASE told' = told /\ ~hooked'
  <2>1. CASE told = <<>> \/ ClientOver
        BY <1>3, <2>1 DEF Client!vars, ClientOver
  <2>2. CASE told # <<>> /\ ~ClientOver
    <3>1. ClientOver' = TRUE
          BY <1>3, <2>2 DEF ClientOver
    <3> QED BY <3>1, <1>3, <2>2 DEF Client!Next, Client!Abandon
  <2> QED BY <2>1, <2>2
<1>4. CASE told' = told /\ told = <<>>
      BY <1>4 DEF Client!vars, ClientOver
<1>5. CASE ToldStep
  <2>1. /\ told' = Append(told, Head(mail).kind) /\ hooked /\ mail # <<>>
        /\ hooked' \/ Head(mail).kind \in Final
        BY <1>5 DEF ToldStep, HandleStep
  <2>2. /\ Head(mail) \in Item /\ told' # <<>> /\ Last(told') = Head(mail).kind
        /\ told = <<>> <=> Head(mail).kind \in Contract!Begin
        BY <1>1, <1>5, ToldFirst
  <2>3. ~ClientOver
        BY <2>1, <1>1 DEF ClientOver, TalkInv, EndInv
  <2>4. ClientOver' = (Head(mail).kind \in {"LaunchFailed", "Exited"})
    <3>1. ClientOver' <=> Head(mail).kind \in Final
          BY <2>1, <2>2 DEF ClientOver
    <3>2. Final = {"LaunchFailed", "Exited"}
          BY DEF Final
    <3>3. ClientOver' \in BOOLEAN
          BY DEF ClientOver
    <3> QED BY <3>1, <3>2, <3>3
  <2>5. Head(mail).kind \in OutputKind \cup {"Exited", "LaunchFailed", "Launched"}
        BY <2>2 DEF Item, Final
  <2>6. told # <<>> => Head(mail).kind \in OutputKind \cup {"Exited"}
        BY <2>2, <2>5 DEF Contract!Begin
  <2>7. Client!Report(Head(mail).kind)
        BY <2>1, <2>2, <2>3, <2>4, <2>6 DEF Client!Report, Client!Begin, Contract!Begin
  <2>8. Head(mail).kind \in OutputKind \cup Client!Begin \cup {"Exited"}
        BY <2>5 DEF Client!Begin
  <2> QED BY <2>7, <2>8 DEF Client!Next
<1>6. CASE StillStep
  <2>1. launch = "none" => told = <<>>
        BY <1>1 DEF TalkInv, StartInv
  <2> QED BY <2>1, <1>2, <1>3, <1>4, <1>6 DEF StillStep
<1>7. CASE DeleteStep
      BY <1>3, <1>7 DEF DeleteStep
<1>8. CASE DropStep
      BY <1>3, <1>8 DEF DropStep
<1>9. CASE MoveStep
  <2>1. told' = told /\ (hooked' <=> hooked)
        BY <1>9 DEF MoveStep
  <2> QED BY <2>1 DEF Client!vars, ClientOver
<1>10. ASSUME NEW kind, NEW items, ReportStep(kind, items)
       PROVE  [Client!Next]_Client!vars
       BY <1>2, <1>10 DEF ReportStep
<1> QED BY <1>5, <1>6, <1>7, <1>8, <1>9, <1>10

----------------------------------------------------------------------------
(* Theorems.                                                               *)

LEMMA Invariance == Spec => []Inv
<1>1. Init => Inv
      BY Initially
<1>2. Inv /\ [Next]_vars => Inv'
      BY Steps, Stutters
<1> QED BY <1>1, <1>2, PTL DEF Spec

(* Every variable stays in its type: no send finishes before it started,   *)
(* and none starts that nobody asked for.                                  *)
THEOREM TypeCorrect == Spec => []TypeOK
<1>1. Inv => TypeOK
      BY DEF Inv
<1> QED BY <1>1, Invariance, PTL

(* However the output is read, buffered by lines, flushed, dispatched and  *)
(* handed on, and whenever the client lets go of it or the actor is        *)
(* destroyed, no text is lost, repeated or reordered, and the client has   *)
(* all of it when it hears of the exit.                                    *)
THEOREM WholeOutput == Spec => []OutputIsWhole
<1>1. Inv => OutputIsWhole
      BY DEF Inv, TalkInv
<1> QED BY <1>1, Invariance, PTL

(* A stop that is waited for is run once there is a process, nobody hears  *)
(* of an exit that was not, and nobody is left waiting when the end is     *)
(* known.                                                                  *)
THEOREM StopsServed == Spec => []StopsAreServed
<1>1. Inv => StopsAreServed
      BY DEF Inv
<1> QED BY <1>1, Invariance, PTL

(* What the actor tells its client keeps the contract of a launch.         *)
THEOREM Refinement == Spec => KeepsContract
<1>1. Init => Client!Init
      BY Initially
<1>2. Inv /\ [Next]_vars => [Client!Next]_Client!vars
  <2> SUFFICES ASSUME Inv, [Next]_vars PROVE [Client!Next]_Client!vars
        OBVIOUS
  <2>1. CASE Next
        BY <2>1, Steps, ClientSteps
  <2>2. CASE UNCHANGED vars
        BY <2>2, Stutters
  <2> QED BY <2>1, <2>2
<1> QED BY <1>1, <1>2, Invariance, PTL DEF Spec, KeepsContract, Client!Spec

=============================================================================
