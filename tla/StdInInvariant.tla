--------------------------- MODULE StdInInvariant ---------------------------
(***************************************************************************)
(* The invariants of StdInReader (Inv) and of StdInClients (ClientsInv),   *)
(* and the relations between states that their proofs in StdInProofs are   *)
(* stated with. What is read is followed from the loop through the mail    *)
(* and the buffers to the calls: u is what was taken of it, b the pieces   *)
(* in a buffer, and K are the places in the mail m that go there.          *)
(***************************************************************************)
EXTENDS StdInClients, FiniteSets

(* The readers.                                                            *)

(* The implementations that were taken out and are not acknowledged yet.   *)
Removing == {i \in Imps : life[i] \in {"taken", "leaving", "cleared"}}

(* m_pStdInReaderImp is the one that is registered or waits for it, as     *)
(* long as there are readers; those not made yet have no trace.            *)
LifeInv ==
  /\ \A i \in Imps : life[i] \in {"waiting", "registered"} <=> i = imp
  /\ \A i \in Imps : i > made => life[i] = "unused"
  /\ pending <=> imp # 0 /\ life[imp] = "waiting"
  /\ imp = 0 <=> readers = {}

(* m_nClosing counts the removals, and nothing waits but for them.         *)
CountInv == closing = Cardinality(Removing) /\ (pending => closing > 0)

(* The settings are saved when the input is registered, and they are those *)
(* the terminal had before the first registration.                         *)
SavedInv ==
  /\ \A i \in Imps :
        /\ life[i] \in {"unused", "waiting"} => saved[i] = "unset"
        /\ life[i] = "registered" => saved[i] # "unset"
        /\ saved[i] \in IF paced THEN {"unset", "none"} ELSE {"unset", "original"}
  /\ paced \/ (\A i \in Imps : ~InLoop(i)) => mode = "original"

(* Who is in fp_OnReadable with the lock is registered, or one of the      *)
(* callbacks it makes has taken it out.                                    *)
HeldInv ==
  \A i \in Held : (i = imp /\ life[i] = "registered") \/ i \in inside

(* The invariant of the readers.                                           *)
Inv ==
  /\ TypeOK /\ LifeInv /\ CountInv /\ SavedInv /\ HeldInv
  /\ OneRegistration /\ ModeFitsReaders /\ NothingDropped

-----------------------------------------------------------------------------
(* Prompts, and the order of what is on its way.                           *)

(* A prompt with its cursor in what was typed.                             *)
Promptly == {p \in Prompts : p.pos <= Len(p.typed)}

(* The keys of a blocking prompt, one after the other.                     *)
Simply == {p \in Promptly : p.pos = 0}

(* The relations of a position to those after it: in what is handed on the *)
(* messages do not count, and in what one reader hears there is one        *)
(* message at most, and it is the last.                                    *)
InText == {x \in (0 .. Length) \X (0 .. Length) : x[1] # 0 /\ x[2] # 0 => x[1] < x[2]}

Heard == {x \in (0 .. Length) \X (0 .. Length) : x[1] # 0 /\ (x[2] = 0 \/ x[1] < x[2])}

(* The positions of a piece, and those of two after each other.            *)
Row(p, R) == \A i, j \in DOMAIN p : i < j => <<p[i], p[j]>> \in R

Before(P, Q, R) == \A x \in P, y \in Q : <<x, y>> \in R

(* What was taken, the pieces b and, of the mail m, those in the places K  *)
(* come in this order.                                                     *)
TakenFirst(u, b, m, K, R) ==
  /\ Row(u, R)
  /\ \A j \in DOMAIN b : Before(ToSet(u), ToSet(b[j].at), R)
  /\ \A k \in K : Before(ToSet(u), ToSet(m[k].at), R)

(* The pieces that nobody has taken from come in this order.               *)
InARow(b, m, K, R) ==
  /\ \A j \in DOMAIN b : Row(b[j].at, R)
  /\ \A i, j \in DOMAIN b : i < j => Before(ToSet(b[i].at), ToSet(b[j].at), R)
  /\ \A j \in DOMAIN b, k \in K : Before(ToSet(b[j].at), ToSet(m[k].at), R)
  /\ \A k \in K : Row(m[k].at, R)
  /\ \A i, k \in K : i < k => Before(ToSet(m[i].at), ToSet(m[k].at), R)

(* Both: each of what was taken, of the pieces and of the mail comes after *)
(* those before it.                                                        *)
Sorted(u, b, m, K, R) == TakenFirst(u, b, m, K, R) /\ InARow(b, m, K, R)

(* The positions in it.                                                    *)
Texts(b) == UNION {ToSet(b[j].at) : j \in DOMAIN b}

MailTexts(m, K) == UNION {ToSet(m[k].at) : k \in K}

All(u, b, m, K) == ToSet(u) \cup Texts(b) \cup MailTexts(m, K)

(* Mail of any age.                                                        *)
Letters == Seq([to : {"text", "binary"}, type : {"stdIn", "endOfFile", "error"},
                at : Positions, age : Nat])

(* The first characters of the first piece are taken.                      *)
Shortened(b, n, c) ==
  LET at == b[1].at
  IN \/ /\ Len(c) = Len(b) /\ c[1].at = SubSeq(at, n + 1, Len(at))
        /\ \A j \in 2 .. Len(b) : c[j] = b[j]
     \/ /\ n = Len(at) /\ Len(c) = Len(b) - 1
        /\ \A j \in 1 .. Len(c) : c[j] = b[j + 1]

(* Of the pieces b the first e are d, and the others c.                    *)
Parts(b, e, c, d) ==
  /\ c \in Items /\ Len(c) = Len(b) - e /\ \A j \in 1 .. Len(c) : c[j] = b[j + e]
  /\ d \in Items /\ Len(d) = e /\ \A j \in 1 .. e : d[j] = b[j]

(* The first pieces are taken away, and with them also what was taken.     *)
Dropped(u, b, c, d, m, K, R) ==
  /\ Sorted(u, c, m, K, R) /\ Sorted(<<>>, c, m, K, R)
  /\ All(u, b, m, K) = All(u, c, m, K) \cup Texts(d)
  /\ Before(ToSet(u) \cup Texts(d), All(<<>>, c, m, K), R)
  /\ \A j \in DOMAIN c : \E i \in DOMAIN b : c[j] = b[i]

(* A message is one character that is none of the input.                   *)
Message(item) ==
  IF item.type = "stdIn" THEN 0 \notin ToSet(item.at) ELSE item.at = <<0>>

Messages(b) == \A k \in DOMAIN b : Message(b[k])

(* A piece is put behind the others, or to the last one.                   *)
Longer(b, type, x, c) ==
  /\ Len(c) = Len(b) + 1 /\ \A j \in 1 .. Len(b) : c[j] = b[j]
  /\ c[Len(b) + 1] = [type |-> type, at |-> x]

(* A piece of text is put to the last one, ...                             *)
Fuller(b, x, c) ==
  /\ Len(b) > 0 /\ Len(c) = Len(b) /\ \A j \in 1 .. Len(b) - 1 : c[j] = b[j]
  /\ c[Len(b)] = [type |-> "stdIn", at |-> b[Len(b)].at \o x]
  /\ b[Len(b)].type = "stdIn"

(* ... or it is the last one.                                              *)
Again(b, x, c) == Len(b) > 0 /\ c = b /\ x = b[Len(b)].at

(* What a reader hears, from what the first call has got on: all that is   *)
(* read while it is open, up to t.                                         *)
Flow(t, u, b, m, K) ==
  /\ Sorted(u, b, m, K, Heard)
  /\ \A p \in All(u, b, m, K) : p # 0 /\ p < t => p + 1 \in All(u, b, m, K)
  /\ All(u, b, m, K) \subseteq 0 .. t

(* No character is missing, and there is no message.                       *)
Gapless(at) ==
  /\ 0 \notin ToSet(at)
  /\ \A k \in 2 .. Len(at) : at[k] = at[k - 1] + 1

-----------------------------------------------------------------------------
(* The calls.                                                              *)

(* A call, whose prompt has its cursor in what was typed.                  *)
CallRecord == [kind : ActorKind \cup BlockingKind, at : Positions, prompt : Promptly,
               answer : {"none", "value", "failed", "nothing"}]

(* One call is changed.                                                    *)
Changed(cs, c, kind, at, prompt, answer, ds) ==
  /\ ds \in Seq(CallRecord) /\ Len(ds) = Len(cs) /\ DOMAIN ds = DOMAIN cs
  /\ \A d \in DOMAIN cs : d # c => ds[d] = cs[d]
  /\ ds[c] = [kind |-> kind, at |-> at, prompt |-> prompt, answer |-> answer]

(* What is read of the text.                                               *)
TextKind == {"line", "prompt"}

(* Who waits: in the order of the calls; only the first has got something. *)
WaitsFor(es, cs, kinds) ==
  /\ es \in Seq(Nat) /\ \A k \in DOMAIN es : es[k] \in DOMAIN cs
  /\ \A j, k \in DOMAIN es : j < k => es[j] < es[k]
  /\ \A k \in DOMAIN es : cs[es[k]].kind \in kinds /\ cs[es[k]].answer # "value"
  /\ \A k \in DOMAIN es : k > 1 => cs[es[k]].at = <<>> /\ cs[es[k]].prompt = Fresh

(* What the first of them has got.                                         *)
First(es, cs) == IF es = <<>> THEN <<>> ELSE cs[es[1]].at

(* What a prompt is given is what it has taken.                            *)
Follows(r) == Keys(Fresh, r.at).n = Len(r.at) /\ Keys(Fresh, r.at).prompt = r.prompt

(* What a waiting call has got does not answer it.                         *)
Goes(r) ==
  /\ r.kind = "line" => r.at = <<>>
  /\ r.kind = "prompt" => Follows(r) /\ ~ r.prompt.done

(* What an answer is.                                                      *)
Fits(r) ==
  r.answer = "value" =>
     /\ r.kind \in {"line", "blockingLine", "tryLine"} =>
            r.at # <<>> /\ FirstOf(r.at, {"newline"}) = Len(r.at)
     /\ r.kind = "prompt" => r.prompt.typed = Keys(Fresh, r.at).prompt.typed
     /\ r.kind = "blockingPrompt" => r.prompt.typed = SimpleKeys(Fresh, r.at).typed

(* What it has got has no gap, and a binary read goes on to an end.        *)
Pure(r, e) ==
  r.answer = "value" => Gapless(r.at) /\ (r.kind = "binary" /\ r.at # <<>> => Last(r.at) \in e)

(* Calls of other kinds are left alone.                                    *)
CallsFrom(cs, ds, kinds) ==
  /\ cs \in Seq(CallRecord) /\ Len(cs) = Len(ds)
  /\ \A c \in DOMAIN cs : cs[c].kind = ds[c].kind /\ (cs[c].kind \notin kinds => cs[c] = ds[c])

(* Where the mail to one of them is.                                       *)
MailTo(m, to) == {k \in DOMAIN m : m[k].to = to}

(* What is read for the lines and prompts is on its way or lost.           *)
Kept(u, b, m, l) ==
  /\ Sorted(u, b, m, MailTo(m, "text"), InText)
  /\ (All(u, b, m, MailTo(m, "text")) \ {0}) \cap l = {}
  /\ (All(u, b, m, MailTo(m, "text")) \ {0}) \cup l = given

(* A reader that is closed, or waits for its registration, hears nothing.  *)
Stream(r, u, b, m, K) ==
  /\ Flow(taken, u, b, m, K)
  /\ 0 \in All(u, b, m, K) => imp \in finished
  /\ r \notin readers \/ life[imp] = "waiting" => u = <<>> /\ b = <<>> /\ K = {}

(* f_HandleBufferedStdIn, while w.mail is dispatched.                      *)
Holds(cs, es, b, u, l, w) ==
  /\ CallsFrom(cs, w.calls, TextKind)
  /\ WaitsFor(es, cs, TextKind)
  /\ \A c \in DOMAIN cs : Fits(cs[c])
  /\ b \in Items /\ Messages(b) /\ u \in Positions /\ l \subseteq 0 .. Length
  /\ Kept(u, b, w.mail, l)
  /\ w.late = {} => /\ \A c \in DOMAIN cs : Pure(cs[c], ends)
                    /\ Stream("text", First(es, cs), b, w.mail, w.now)

(* When it is answered the next one waits, which has got nothing yet.      *)
NextWaits(es, cs, ds, kinds) ==
  /\ WaitsFor(Tail(es), ds, kinds) /\ First(Tail(es), ds) = <<>>
  /\ Len(Tail(es)) = Len(es) - 1
  /\ Tail(es) # <<>> => /\ ds[Tail(es)[1]].at = <<>> /\ ds[Tail(es)[1]].prompt = Fresh
                        /\ Tail(es)[1] \in DOMAIN ds

(* One piece is behind another, and is the beginning of one.               *)
Joins(z, x, y) == z = x \o y

Starts(x, at, n) == x = SubSeq(at, 1, n)

(* The first call takes n characters of the first piece: y is what it has  *)
(* got then, p its prompt, and d the pieces that are left.                 *)
Takes(cs, es, b, u, l, w, n, x, p, y, t, ds, d) ==
  /\ Holds(cs, es, b, u, l, w) /\ es # <<>> /\ b # <<>>
  /\ n \in 0 .. Len(b[1].at) /\ Starts(x, b[1].at, n)
  /\ Joins(y, cs[es[1]].at, x) /\ Joins(t, u, x)
  /\ Changed(cs, es[1], cs[es[1]].kind, y, p, cs[es[1]].answer, ds)
  /\ d \in Items /\ Shortened(b, n, d) /\ Messages(d)

(* The end of the input is told where it is.                               *)
EndKnown(b, m, K) ==
  (\E j \in DOMAIN b : b[j].type = "endOfFile") \/ (\E k \in K : m[k].type = "endOfFile")
     => taken \in ends

(* f_HandleBufferedStdInBinary, while w.mail is dispatched.                *)
HoldsAll(cs, es, b, w) ==
  /\ CallsFrom(cs, w.calls, {"binary"})
  /\ WaitsFor(es, cs, {"binary"})
  /\ \A c \in DOMAIN cs : Fits(cs[c])
  /\ b \in Items /\ Messages(b)
  /\ w.late = {} => /\ \A c \in DOMAIN cs : Pure(cs[c], ends)
                    /\ Stream("binary", First(es, cs), b, w.mail, w.now)
                    /\ EndKnown(b, w.mail, w.now)

-----------------------------------------------------------------------------
(* The invariant of the clients.                                           *)

(* Where the loops are: readiness is requested, and input read, for those  *)
(* that are registered or were until a moment ago, and nothing is read     *)
(* after the end of the input.  A new one waits for all removals.          *)
LoopInv ==
  /\ \A i \in Imps : life[i] \in {"unused", "waiting", "cleared", "over"} =>
        place[i] = "idle" /\ i \notin armed
  /\ \A i \in Imps : life[i] = "leaving" => i \notin armed
  /\ \A i \in finished : place[i] # "reading"
  /\ imp # 0 /\ closing > 0 => pending

(* What the callbacks dispatch, before or after an abort.                  *)
Letter == [to : {"text", "binary"}, type : {"stdIn", "endOfFile", "error"},
           at : Positions, age : 0 .. aborts]

(* The types of the fields; a message is one character of no text.         *)
FieldsInv ==
  /\ config \in Configs /\ Len(calls) <= config.calls
  /\ doing \in {"nothing", "text", "binary", "subscription", "spinning", "gone"}
  /\ dying \in BOOLEAN
  /\ mail \in Seq(Letter) /\ buffer \in Items /\ binaryBuffer \in Items
  /\ blocking \in [place : {"none", "idle", "checking", "waiting", "closed"},
                   call : Nat, buffer : Positions, errors : BOOLEAN, event : BOOLEAN]
  /\ used \in Positions
  /\ lost \subseteq 0 .. Length /\ given \subseteq 1 .. taken
  /\ late \subseteq 0 .. Length /\ aborts \in Nat /\ ends \subseteq 0 .. Length
  /\ Messages(buffer) /\ Messages(binaryBuffer) /\ Messages(mail)
  /\ \A k \in DOMAIN mail : mail[k].at # <<>>

(* The calls: those that wait for the actor, and the answers.              *)
CallsAre(cs, es, bs, l, e) ==
  /\ cs \in Seq(CallRecord)
  /\ WaitsFor(es, cs, TextKind) /\ (es # <<>> => Goes(cs[es[1]]))
  /\ WaitsFor(bs, cs, {"binary"})
  /\ \A c \in DOMAIN cs : Fits(cs[c])
  /\ l = {} => \A c \in DOMAIN cs : Pure(cs[c], e)

(* The calls of this state.                                                *)
CallsInv == CallsAre(calls, entries, binary, late, ends)

(* A call that waits for the blocking reader is where it would be if what  *)
(* it has got had come at once, and that does not answer it.               *)
WaitsHere(r) ==
  /\ r.kind \in BlockingKind /\ r.answer = "none" /\ r.prompt = SimpleKeys(Fresh, r.at)
  /\ ~ r.prompt.done /\ ~ r.prompt.aborted
  /\ r.kind # "blockingPrompt" => r.at = <<>>

(* What the owner of the blocking reader waits for, and what it has got.   *)
BlockingCall == blocking.place \in {"checking", "waiting"}

Got == IF BlockingCall THEN calls[blocking.call].at ELSE <<>>

(* What the blocking reader hears goes to its call, in order.              *)
BlockingInv ==
  /\ BlockingCall => blocking.call \in DOMAIN calls /\ WaitsHere(calls[blocking.call])
  /\ "blocking" \in readers <=> BlockingCall \/ blocking.place = "idle"
  /\ "blocking" \in readers =>
        /\ Stream("blocking", Got \o blocking.buffer, <<>>, <<>>, {})
        /\ 0 \notin ToSet(Got \o blocking.buffer)
  /\ blocking.place = "none" => blocking.buffer = <<>>

(* How far the actor has come in closing its readers.                      *)
DoingInv ==
  /\ doing \in {"text", "binary", "subscription", "gone"} => entries = <<>> /\ binary = <<>>
  /\ doing \in {"binary", "subscription", "gone"} => "text" \notin readers
  /\ doing \in {"subscription", "gone"} => "binary" \notin readers /\ dying
  /\ doing = "gone" => "subscription" \notin readers /\ mail = <<>>

(* What is read for the lines and prompts is on its way or lost.           *)
TextWay == All(used, buffer, mail, MailTo(mail, "text"))

(* It comes in order, and together with what was lost it is all.           *)
KeptInv ==
  /\ Sorted(used, buffer, mail, MailTo(mail, "text"), InText)
  /\ ((TextWay \ {0}) \cup lost) = given
  /\ doing # "gone" => (TextWay \ {0}) \cap lost = {}

(* What a reader of the actor hears comes in the order of the input.       *)
MailNow(m, to) == {k \in DOMAIN m : m[k].to = to /\ m[k].age = aborts}

(* So do the text and the binary input, if nothing came late.              *)
StreamsInv ==
  late = {} =>
    /\ doing # "binary" =>
          Stream("text", First(entries, calls), buffer, mail, MailNow(mail, "text"))
    /\ Stream("binary", First(binary, calls), binaryBuffer, mail, MailNow(mail, "binary"))
    /\ EndKnown(binaryBuffer, mail, MailNow(mail, "binary"))

(* The invariant of the clients.                                           *)
ClientsInv ==
  /\ Inv /\ LoopInv /\ FieldsInv /\ CallsInv /\ BlockingInv /\ DoingInv /\ KeptInv
  /\ StreamsInv

-----------------------------------------------------------------------------
(* What a step does to what a reader hears, and to the actor.              *)

(* A reader that hears the input hears it on.                              *)
Carried(r) ==
  r \in readers /\ life[imp] # "waiting" =>
     /\ r \in readers' /\ imp' = imp /\ life'[imp] # "waiting"
     /\ taken' = taken /\ finished \subseteq finished'

(* A step that reads nothing and opens or closes no reader but q.          *)
Quiet(q) ==
  /\ Inv' /\ LoopInv' /\ taken' = taken
  /\ \A r : r # q => (r \in readers' <=> r \in readers) /\ Carried(r)

(* What a reader has heard after a step.                                   *)
StreamThen(r, u, b, m, K) ==
  /\ Flow(taken', u, b, m, K)
  /\ 0 \in All(u, b, m, K) => imp' \in finished'
  /\ r \notin readers' \/ life'[imp'] = "waiting" => u = <<>> /\ b = <<>> /\ K = {}

(* The mail n is m with x behind it in the places L, which are K and       *)
(* another, or the same.                                                   *)
Same(m, n, K) == \A k \in K : n[k].at = m[k].at

Adds(m, n, K, L, x) ==
  /\ Same(m, n, K)
  /\ \E l \in Nat : K \in SUBSET (1 .. l - 1) /\ L = K \cup {l} /\ n[l].at = x

(* The letters of a callback.                                              *)
Hears(i, to) == to \in ReadersOf(i) /\ doing # "gone"

Written(to, type, x) == [to |-> to, type |-> type, at |-> x, age |-> aborts]

(* They are put behind the mail.                                           *)
Posted(i, type, x, n) ==
  /\ n \in Seq(Letter)
  /\ \A k \in DOMAIN n : \/ k \in DOMAIN mail /\ n[k] = mail[k]
                         \/ n[k].type = type /\ n[k].at = x
  /\ ~ Hears(i, "text") /\ ~ Hears(i, "binary") => n = mail
  /\ \A to \in {"text", "binary"} :
        IF Hears(i, to)
        THEN /\ Adds(mail, n, MailTo(mail, to), MailTo(n, to), x)
             /\ Adds(mail, n, MailNow(mail, to), MailNow(n, to), x)
        ELSE /\ Same(mail, n, MailTo(mail, to)) /\ MailTo(n, to) = MailTo(mail, to)
             /\ MailNow(n, to) = MailNow(mail, to)

(* What is read and given to the readers of i: a piece of the input that   *)
(* comes after all that was read, or a message.                            *)
Comes(i, type, x) ==
  /\ x \in Positions /\ x # <<>> /\ type \in {"stdIn", "endOfFile", "error"}
  /\ Row(x, Heard) /\ Row(x, InText) /\ Message([type |-> type, at |-> x])
  /\ \/ /\ type = "stdIn" /\ taken < taken' /\ ToSet(x) = taken + 1 .. taken'
        /\ finished' = finished
     \/ /\ type # "stdIn" /\ ToSet(x) = {0} /\ taken' = taken
        /\ finished' = finished \cup {i}
  /\ ends' = IF type = "endOfFile" THEN ends \cup {taken} ELSE ends

(* What holds of the calls cs, of which es and bs wait, the pieces b and   *)
(* bb, the mail m and what was late, used and lost.                        *)
Hearings(cs, es, bs, b, bb, m) ==
  /\ Stream("text", First(es, cs), b, m, MailNow(m, "text"))
  /\ Stream("binary", First(bs, cs), bb, m, MailNow(m, "binary"))
  /\ EndKnown(bb, m, MailNow(m, "binary"))

(* All that the actor keeps.                                               *)
Actor(cs, es, bs, b, bb, m, l, u, x) ==
  /\ CallsAre(cs, es, bs, l, ends) /\ Len(cs) <= config.calls
  /\ b \in Items /\ bb \in Items /\ m \in Seq(Letter)
  /\ Messages(b) /\ Messages(bb) /\ Messages(m) /\ \A k \in DOMAIN m : m[k].at # <<>>
  /\ u \in Positions /\ x \subseteq 0 .. Length /\ l \subseteq 0 .. Length
  /\ Kept(u, b, m, x)
  /\ l = {} => Hearings(cs, es, bs, b, bb, m)

(* A call that nobody has given anything yet.                              *)
New(r) ==
  r \in CallRecord /\ r.answer # "value" /\ r.at = <<>> /\ r.prompt = Fresh

(* A call is put behind the others.                                        *)
Grows(cs, r, ds) ==
  /\ ds \in Seq(CallRecord) /\ Len(ds) = Len(cs) + 1 /\ Len(cs) \in Nat
  /\ \A c \in DOMAIN cs : c \in DOMAIN ds /\ ds[c] = cs[c]
  /\ \A c \in DOMAIN ds : c \in DOMAIN cs \/ ds[c] = r
  /\ Len(ds) \in DOMAIN ds /\ ds[Len(ds)] = r

(* The reads fail.                                                         *)
Failed(r) ==
  IF r.answer = "none" /\ r.kind \in ActorKind THEN [r EXCEPT !.answer = "failed"] ELSE r

(* How much of the input the call of the owner takes.                      *)
Much(kind, at) ==
  IF kind = "blockingPrompt" THEN UpToEnd(at) ELSE FirstOf(at, {"newline"})

(* The call when it has taken it, and what it is answered.                 *)
Decides(kind, n, p, a) ==
  /\ a = "value" => IF kind = "blockingPrompt" THEN p.done ELSE n > 0
  /\ a = "none" => IF kind = "blockingPrompt" THEN ~ p.done /\ ~ p.aborted ELSE n = 0

=============================================================================
