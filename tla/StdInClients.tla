---------------------------- MODULE StdInClients ----------------------------
(***************************************************************************)
(* Who reads the standard input through StdInReader: CStdInActor           *)
(* (src/Source/Malterlib_Process_StdInActor.cpp), an actor that answers    *)
(* calls for lines, prompts and binary input and lets others subscribe;    *)
(* CBlockingStdInReader (src/Source/Malterlib_Process_StdIn.cpp), whose    *)
(* owner waits for a line or a prompt; and others that open a reader.      *)
(*                                                                         *)
(* A character is its position in the input, and a piece of the input a    *)
(* sequence of positions; position 0 is the text of a message such as "End *)
(* of file".  The callbacks of the actor's readers dispatch to it, in      *)
(* order, through "mail".  An escape sequence is "escape" and the command  *)
(* it ends in, or "string", which goes on up to "bell".  Not in the model: *)
(* what is drawn, partial code points, how much a subscriber is given at a *)
(* time, and a second subscriber.                                          *)
(* Operators commented "Slip" are mutations, used in no specification.     *)
(***************************************************************************)
EXTENDS StdInReader, Sequences, FiniteSets, SequencesExt

CONSTANTS
    MaxCalls,  \* bound: calls of the actor and of the blocking reader
    Configs    \* what is read, and by whom

Own == {"text", "binary", "subscription", "blocking"}   \* the places of this module
ActorKind == {"line", "prompt", "binary"}
BlockingKind == {"blockingLine", "tryLine", "blockingPrompt"}
Character == {"letter", "newline", "break", "erase", "home", "end", "escape",
              "left", "right", "delete", "insert", "string", "bell"}

ASSUME ClientsAssumption ==
    /\ Own \subseteq Readers /\ "blocking" \in Exclusive
    /\ Configs \subseteq [text : Seq(Character), paced : SUBSET BOOLEAN,
                          kinds : SUBSET (ActorKind \cup BlockingKind),
                          calls : 0 .. MaxCalls, aborts : Nat, subscribe : BOOLEAN,
                          destroy : BOOLEAN, imps : 0 .. MaxImps,
                          others : SUBSET (Readers \ Own)]
    /\ \A c \in Configs : Len(c.text) <= Length

VARIABLES
    config,    \* the input, the bounds and the clients
    calls,     \* the calls of the actor and of the blocking reader
    doing,     \* what the actor is in the middle of
    dying,     \* fp_Destroy
    mail,      \* what is dispatched to the actor
    entries,   \* m_ReadEntries
    binary,    \* m_ReadEntriesBinary
    buffer,    \* m_BufferedStdIn
    binaryBuffer,  \* m_BufferedStdInBinary
    blocking,  \* CBlockingStdInReader and its owner
    used,      \* history: the text that entries have taken, in order
    lost,      \* history: the text that was thrown away
    given,     \* history: the text that was read for the actor
    late,      \* history: the input the actor got from a reader it had closed
    aborts,    \* history: how often the actor has closed its readers
    ends       \* history: where the input had an end

historyOfReads == <<used, lost, given, late, aborts, ends>>
actorVars == <<calls, doing, dying, entries, binary, buffer, binaryBuffer>>
clientVars == <<config, actorVars, mail, blocking, historyOfReads>>
allVars == <<stdinVars, clientVars>>

Fresh == [typed |-> <<>>, pos |-> 0, insert |-> TRUE, done |-> FALSE, aborted |-> FALSE]

ClientsInit ==
    /\ Init
    /\ config \in Configs
    /\ paced \in config.paced /\ written \in {0, Len(config.text)}
    /\ calls = <<>> /\ doing = "nothing" /\ dying = FALSE
    /\ mail = <<>> /\ entries = <<>> /\ binary = <<>>
    /\ buffer = <<>> /\ binaryBuffer = <<>>
    /\ blocking = [place |-> "none", call |-> 0, buffer |-> <<>>, errors |-> FALSE,
                   event |-> FALSE]
    /\ used = <<>> /\ lost = {} /\ given = {} /\ late = {} /\ aborts = 0
    /\ ends = {}

----------------------------------------------------------------------------
(* A prompt takes the characters it is given, one key after the other.     *)

Char(p) == IF p = 0 THEN "letter" ELSE config.text[p]

\* A printing character, put in at the cursor or over the one there.
Type(prompt, x) ==
    [prompt EXCEPT !.typed =
                       IF prompt.pos = Len(@) THEN Append(@, x)
                       ELSE IF prompt.insert THEN InsertAt(@, prompt.pos + 1, x)
                       ELSE ReplaceAt(@, prompt.pos + 1, x),
                   !.pos = @ + 1]

\* A break does not end the reading of a chunk, and an end of line wins.
Key(prompt, x) ==
    CASE Char(x) = "break"   -> [prompt EXCEPT !.aborted = TRUE]
      [] Char(x) = "newline" -> [prompt EXCEPT !.done = TRUE]
      [] Char(x) = "erase"   -> IF prompt.pos = 0 THEN prompt
                                ELSE [prompt EXCEPT !.typed = Front(@), !.pos = @ - 1]
      [] Char(x) = "home"    -> [prompt EXCEPT !.pos = 0]
      [] Char(x) = "end"     -> [prompt EXCEPT !.pos = Len(prompt.typed)]
      [] Char(x) = "bell"    -> prompt
      [] OTHER               -> Type(prompt, x)

\* What an escape sequence does; those it does not know are passed over.
Escape(prompt, command) ==
    CASE command = "left"   -> [prompt EXCEPT !.pos = IF @ > 0 THEN @ - 1 ELSE 0]
      [] command = "right"  -> [prompt EXCEPT !.pos = IF @ < Len(prompt.typed)
                                                      THEN @ + 1 ELSE @]
      [] command = "delete" -> IF prompt.pos = Len(prompt.typed) THEN prompt
                               ELSE [prompt EXCEPT !.typed = RemoveAt(@, prompt.pos + 1)]
      [] command = "insert" -> [prompt EXCEPT !.insert = ~@]
      [] OTHER              -> prompt

\* The first place of one of some characters in a piece, 0 when there is none.
FirstOf(at, cs) == SelectInSeq(at, LAMBDA x : Char(x) \in cs)

\* One pass of the loop over a piece, of which the first n are done.  It stops
\* at the end of a line and at an escape of which there is no more than its first
\* character; at a string that has no end yet it does not get on.
After(prompt, n) == [prompt |-> prompt, n |-> n, spins |-> FALSE]
KeyPass(at, k) ==
    LET n == k.n + 1
        bell == FirstOf(SubSeq(at, n, Len(at)), {"bell"})
    IN IF k.prompt.done \/ k.n = Len(at) THEN k
       ELSE IF Char(at[n]) # "escape" THEN After(Key(k.prompt, at[n]), n)
       ELSE IF n = Len(at) THEN k
       ELSE IF Char(at[n + 1]) # "string"
       THEN After(Escape(k.prompt, Char(at[n + 1])), n + 1)
       ELSE IF bell = 0 THEN [prompt |-> k.prompt, n |-> k.n, spins |-> TRUE]
       ELSE After(k.prompt, k.n + bell)

\* The keys of a piece of input: the prompt after them, how many they are, and
\* whether the loop spins.  A pass that does not stop takes a key at least.
Keys(prompt, at) ==
    LET after[j \in 0 .. Len(at)] ==
            IF j = 0 THEN After(prompt, 0) ELSE KeyPass(at, after[j - 1])
    IN after[Len(at)]

----------------------------------------------------------------------------
(* The input that has come for text reads: f_HandleBufferedStdIn.          *)

Answer(cs, c, a) == [cs EXCEPT ![c].answer = IF @ = "none" THEN a ELSE @]
Take(cs, c, at) == [cs EXCEPT ![c].at = @ \o at]

\* The text of pieces.
TextOf(items) == (UNION {ToSet(items[k].at) : k \in DOMAIN items}) \ {0}

\* Slip: the rest of a piece goes with the line.
LineSlip(s) ==
    LET at == Head(s.buffer).at
        line == SubSeq(at, 1, FirstOf(at, {"newline"}))
    IN [s EXCEPT !.calls = Answer(Take(@, Head(s.entries), line), Head(s.entries), "value"),
                 !.entries = Tail(@),
                 !.buffer = Tail(@),
                 !.used = @ \o line]

\* The entry gets the line; what is left of the piece stays, also when empty.
Line(s) ==
    LET at == Head(s.buffer).at
        line == SubSeq(at, 1, FirstOf(at, {"newline"}))
        rest == SubSeq(at, FirstOf(at, {"newline"}) + 1, Len(at))
    IN [s EXCEPT !.calls = Answer(Take(@, Head(s.entries), line), Head(s.entries), "value"),
                 !.entries = Tail(@),
                 !.buffer[1].at = rest,
                 !.used = @ \o line]

\* Slip: the cursor is not where it was when the next piece comes.
PromptSlip(s, read) ==
    LET at == Head(s.buffer).at
        keys == SubSeq(at, 1, read.n)
        c == Head(s.entries)
    IN [s EXCEPT !.calls = [Take(@, c, keys) EXCEPT
                                ![c].prompt = [read.prompt EXCEPT !.pos = Len(read.prompt.typed)]],
                 !.buffer = IF read.n = Len(at) THEN Tail(@)
                            ELSE [@ EXCEPT ![1].at = SubSeq(at, read.n + 1, Len(at))],
                 !.used = @ \o keys,
                 !.loop = IF read.spins THEN "spins" ELSE @]

\* The prompt takes the keys of the first piece, also of a message.
Prompt(s, read) ==
    LET at == Head(s.buffer).at
        keys == SubSeq(at, 1, read.n)
        c == Head(s.entries)
    IN [s EXCEPT !.calls = [Take(@, c, keys) EXCEPT ![c].prompt = read.prompt],
                 !.buffer = IF read.n = Len(at) THEN Tail(@)
                            ELSE [@ EXCEPT ![1].at = SubSeq(at, read.n + 1, Len(at))],
                 !.used = @ \o keys,
                 !.loop = IF read.spins THEN "spins" ELSE @]

Done(s, a) == [s EXCEPT !.calls = Answer(@, Head(s.entries), a), !.entries = Tail(@)]

FirstError(items) == SelectInSeq(items, LAMBDA item : item.type = "error")

\* One pass of the loop over the first entry and the first piece.
TextPass(s) ==
    IF s.loop # "on" THEN s
    ELSE IF s.entries = <<>>
    THEN IF "subscription" \in readers
         THEN [s EXCEPT !.loop = "over", !.buffer = <<>>, !.lost = @ \cup TextOf(s.buffer)]
         ELSE [s EXCEPT !.loop = "over"]
    ELSE IF s.buffer = <<>> THEN [s EXCEPT !.loop = "over"]
    ELSE IF Head(s.buffer).type = "error" THEN Done(s, "failed")
    ELSE IF s.calls[Head(s.entries)].kind = "line"
    THEN IF FirstOf(Head(s.buffer).at, {"newline"}) = 0 THEN [s EXCEPT !.loop = "over"]
         ELSE Line(s)
    ELSE LET read == Keys(s.calls[Head(s.entries)].prompt, Head(s.buffer).at)
             t == Prompt(s, read)
             error == FirstError(t.buffer)
         IN IF read.spins THEN t
            ELSE IF read.prompt.done THEN Done(t, "value")
            ELSE IF read.prompt.aborted THEN Done(t, "failed")
            ELSE IF error > 0
            THEN [Done(t, "failed") EXCEPT
                     !.loop = "over",
                     !.buffer = SubSeq(@, error + 1, Len(@)),
                     !.lost = @ \cup TextOf(SubSeq(t.buffer, 1, error))]
            ELSE [t EXCEPT !.loop = "over"]

\* A pass that goes on has answered an entry.
HandleBufferedStdIn(s) ==
    LET after[n \in 0 .. Len(s.entries) + 1] == IF n = 0 THEN s ELSE TextPass(after[n - 1])
    IN after[Len(s.entries) + 1]

State == [calls |-> calls, entries |-> entries, buffer |-> buffer, used |-> used,
          lost |-> lost, loop |-> "on"]

\* The actor runs f_HandleBufferedStdIn on s.
RunText(s) ==
    LET t == HandleBufferedStdIn(s)
    IN /\ calls' = t.calls /\ entries' = t.entries /\ buffer' = t.buffer
       /\ used' = t.used /\ lost' = t.lost
       /\ doing' = IF t.loop = "spins" THEN "spinning" ELSE doing

\* A read gets all up to the end, which stays.
BinaryPass(s) ==
    IF s.entries = <<>> \/ s.buffer = <<>> THEN s
    ELSE CASE Head(s.buffer).type = "error"     -> Done(s, "failed")
           [] Head(s.buffer).type = "endOfFile" -> Done(s, "value")
           [] Head(s.buffer).type = "stdIn"     ->
                  [s EXCEPT !.calls = Take(@, Head(s.entries), Head(s.buffer).at),
                            !.buffer = Tail(@)]

\* A pass answers an entry or takes a piece.
HandleBufferedStdInBinary(s) ==
    LET after[n \in 0 .. Len(s.entries) + Len(s.buffer)] ==
            IF n = 0 THEN s ELSE BinaryPass(after[n - 1])
    IN after[Len(s.entries) + Len(s.buffer)]

RunBinary(cs, es, b) ==
    LET t == HandleBufferedStdInBinary([calls |-> cs, entries |-> es, buffer |-> b])
    IN calls' = t.calls /\ binary' = t.entries /\ binaryBuffer' = t.buffer

----------------------------------------------------------------------------
(* What the readers are given: a piece of the input or a message.          *)

\* A callback of the actor's readers: ThisWeak.f_Lock and the dispatch.
MailOf(i, type, at) ==
    LET item(to) == IF to \in ReadersOf(i) /\ doing # "gone"
                    THEN <<[to |-> to, type |-> type, at |-> at, age |-> aborts]>>
                    ELSE <<>>
    IN item("text") \o item("binary")

\* Slip: only input wakes up the owner.
ReceiveSlip(b, type, at) ==
    [b EXCEPT !.buffer = IF type = "stdIn" THEN @ \o at ELSE @,
              !.errors = @ \/ type # "stdIn",
              !.event = @ \/ type = "stdIn"]

\* The callback of CBlockingStdInReader: what is no input goes to mp_Errors.
Receive(b, type, at) ==
    [b EXCEPT !.buffer = IF type = "stdIn" THEN @ \o at ELSE @,
              !.errors = @ \/ type # "stdIn",
              !.event = TRUE]

Deliver(i, type, at) ==
    /\ mail' = mail \o MailOf(i, type, at)
    /\ given' = IF "text" \in ReadersOf(i) /\ doing # "gone"
                THEN given \cup (ToSet(at) \ {0}) ELSE given
    /\ blocking' = IF "blocking" \in ReadersOf(i) THEN Receive(blocking, type, at)
                                                  ELSE blocking
    /\ UNCHANGED <<config, actorVars, used, lost, late, aborts>>

DeliverChunk(i) ==
    /\ ReadChunk(i) /\ UNCHANGED ends
    /\ Deliver(i, "stdIn", [k \in 1 .. taken' - taken |-> taken + k])

DeliverEnd(i) ==
    /\ \/ ReadEnd(i) /\ Deliver(i, "endOfFile", <<0>>) /\ ends' = ends \cup {taken}
       \/ ReadFails(i) /\ Deliver(i, "error", <<0>>) /\ UNCHANGED ends

\* The rest of the readers, the loops and the other end of the input.
ReaderStep ==
    /\ \/ Write /\ written < Len(config.text)
       \/ EndInput
       \/ \E i \in Imps :
              \/ Deregister(i) \/ Clear(i) \/ OnClosed(i) \/ CallBack(i)
              \/ OnReadable(i) \/ ReadNothing(i) \/ CallbacksDone(i)
       \/ \E r \in config.others : (Open(r) /\ made' <= config.imps) \/ Close(r)
    /\ UNCHANGED clientVars

----------------------------------------------------------------------------
(* The actor.  It has no lock of the loop thread's.                        *)

\* The actor opens a reader, or finds that it cannot.
OpenOwn(r) == Held = {} /\ Open(r) /\ made' <= config.imps
CannotOpen(r) == Held = {} /\ r \notin readers /\ ~CanOpen(r)

Call(kind, answer) ==
    [kind |-> kind, answer |-> answer, at |-> <<>>, prompt |-> Fresh]
MayCall(kind) ==
    doing = "nothing" /\ ~dying /\ kind \in config.kinds /\ Len(calls) < config.calls

\* f_ReadLine, f_ReadPrompt: when no reader can be opened the entry stays.
ReadText(kind) ==
    /\ kind \in {"line", "prompt"} /\ MayCall(kind)
    /\ \/ /\ IF "text" \in readers THEN UNCHANGED stdinVars ELSE OpenOwn("text")
          /\ RunText([State EXCEPT !.calls = Append(@, Call(kind, "none")),
                                   !.entries = Append(@, Len(calls) + 1)])
       \/ /\ CannotOpen("text")
          /\ calls' = Append(calls, Call(kind, "failed"))
          /\ entries' = Append(entries, Len(calls) + 1)
          /\ UNCHANGED <<stdinVars, doing, buffer, used, lost>>
    /\ UNCHANGED <<config, dying, mail, binary, binaryBuffer, blocking, given, late, aborts,
                   ends>>

\* f_ReadBinary
ReadBinary ==
    /\ MayCall("binary")
    /\ \/ /\ IF "binary" \in readers THEN UNCHANGED stdinVars ELSE OpenOwn("binary")
          /\ RunBinary(Append(calls, Call("binary", "none")),
                       Append(binary, Len(calls) + 1), binaryBuffer)
       \/ /\ CannotOpen("binary")
          /\ calls' = Append(calls, Call("binary", "failed"))
          /\ binary' = Append(binary, Len(calls) + 1)
          /\ UNCHANGED <<stdinVars, binaryBuffer>>
    /\ UNCHANGED <<config, doing, dying, mail, entries, buffer, blocking, historyOfReads>>

\* A piece is put to one of its kind that comes before it, or behind the others.
Insert(items, type, at) ==
    IF items # <<>> /\ Last(items).type = type
    THEN [items EXCEPT ![Len(items)].at = IF type = "stdIn" THEN @ \o at ELSE @]
    ELSE Append(items, [type |-> type, at |-> at])

TakeMail ==
    /\ doing \in {"nothing", "subscription"} /\ mail # <<>>
    /\ mail' = Tail(mail)

\* What is dispatched to the actor, which may have closed that reader since.
HandleMail ==
    /\ TakeMail
    /\ LET item == Head(mail)
       IN /\ IF item.to = "text"
             THEN /\ RunText([State EXCEPT !.buffer = Insert(@, item.type, item.at)])
                  /\ UNCHANGED <<binary, binaryBuffer>>
             ELSE /\ RunBinary(calls, binary, Insert(binaryBuffer, item.type, item.at))
                  /\ UNCHANGED <<entries, buffer, doing, used, lost>>
          /\ late' = IF item.age = aborts THEN late ELSE late \cup ToSet(item.at)
    /\ UNCHANGED <<stdinVars, config, dying, blocking, given, aborts, ends>>

\* f_AbortReads, also the first that fp_Destroy does: the reads fail, ...
Abort ==
    /\ doing = "nothing" /\ ~dying
    /\ \/ aborts < config.aborts /\ UNCHANGED dying
       \/ config.destroy /\ dying' = TRUE
    /\ doing' = "text"
    /\ calls' = [c \in DOMAIN calls |->
                    IF calls[c].answer = "none" /\ calls[c].kind \in ActorKind
                    THEN [calls[c] EXCEPT !.answer = "failed"] ELSE calls[c]]
    /\ entries' = <<>> /\ binary' = <<>>
    /\ UNCHANGED <<stdinVars, config, mail, buffer, binaryBuffer, blocking, historyOfReads>>

CloseOwn(r) == Held = {} /\ IF r \in readers THEN Close(r) ELSE UNCHANGED stdinVars

\* ... the readers are closed, one after the other,
CloseText ==
    /\ doing = "text" /\ CloseOwn("text")
    /\ doing' = "binary"
    /\ UNCHANGED <<config, calls, dying, entries, binary, buffer, binaryBuffer, mail,
                   blocking, historyOfReads>>

\* ... and what has been buffered is thrown away.
CloseBinary ==
    /\ doing = "binary" /\ CloseOwn("binary")
    /\ buffer' = <<>> /\ binaryBuffer' = <<>>
    /\ lost' = lost \cup TextOf(buffer)
    /\ aborts' = aborts + 1
    /\ doing' = IF dying THEN "subscription" ELSE "nothing"
    /\ UNCHANGED <<config, calls, dying, entries, binary, mail, blocking, used, given,
                   late, ends>>

\* fp_Destroy has waited for the output actor; ~CInternal
Delete ==
    /\ doing = "subscription" /\ CloseOwn("subscription")
    /\ doing' = "gone"
    /\ mail' = <<>>
    /\ lost' = lost \cup given
    /\ UNCHANGED <<config, calls, dying, entries, binary, buffer, binaryBuffer, blocking,
                   used, given, late, aborts, ends>>

\* f_RegisterForInput, f_RegisterForInputBinary, and the end of a subscription.
Subscribe ==
    /\ doing = "nothing" /\ ~dying /\ config.subscribe
    /\ OpenOwn("subscription") \/ (Held = {} /\ Close("subscription"))
    /\ UNCHANGED clientVars

----------------------------------------------------------------------------
(* CBlockingStdInReader, whose owner is one thread.                        *)

OpenBlocking ==
    /\ blocking.place = "none" /\ config.kinds \cap BlockingKind # {}
    /\ OpenOwn("blocking")
    /\ blocking' = [blocking EXCEPT !.place = "idle"]
    /\ UNCHANGED <<config, actorVars, mail, historyOfReads>>

\* f_ReadLine, f_TryReadLine, f_ReadPrompt
CallBlocking(kind) ==
    /\ blocking.place = "idle" /\ kind \in config.kinds /\ Len(calls) < config.calls
    /\ calls' = Append(calls, Call(kind, "none"))
    /\ blocking' = [blocking EXCEPT !.place = "checking", !.call = Len(calls) + 1]
    /\ UNCHANGED <<stdinVars, config, doing, dying, entries, binary, buffer, binaryBuffer,
                   mail, historyOfReads>>

\* A blocking prompt knows no cursor and ends at an escape.
SimpleKey(prompt, x) ==
    IF prompt.done \/ prompt.aborted THEN prompt
    ELSE CASE Char(x) \in {"break", "escape"} -> [prompt EXCEPT !.aborted = TRUE]
           [] Char(x) = "newline" -> [prompt EXCEPT !.done = TRUE]
           [] Char(x) = "erase" -> [prompt EXCEPT !.typed = IF @ = <<>> THEN @ ELSE Front(@)]
           [] Char(x) \in {"home", "end", "bell"} -> prompt
           [] OTHER -> [prompt EXCEPT !.typed = Append(@, x)]

SimpleKeys(prompt, at) ==
    LET after[j \in 0 .. Len(at)] ==
            IF j = 0 THEN prompt ELSE SimpleKey(after[j - 1], at[j])
    IN after[Len(at)]

\* As much of the input as a prompt takes: up to what ends it.
UpToEnd(at) ==
    LET stop == FirstOf(at, {"break", "escape", "newline"})
    IN IF stop = 0 THEN Len(at) ELSE stop

\* With mp_Lock: what has come decides, an error first.
Check ==
    /\ blocking.place = "checking"
    /\ LET c == blocking.call
           n == IF calls[c].kind = "blockingPrompt" THEN UpToEnd(blocking.buffer)
                ELSE FirstOf(blocking.buffer, {"newline"})
           at == SubSeq(blocking.buffer, 1, n)
           prompt == SimpleKeys(calls[c].prompt, at)
           answer == IF blocking.errors THEN "failed"
                     ELSE IF calls[c].kind = "blockingPrompt"
                     THEN IF prompt.done THEN "value"
                          ELSE IF prompt.aborted THEN "failed" ELSE "none"
                     ELSE IF n > 0 THEN "value"
                          ELSE IF calls[c].kind = "tryLine" THEN "nothing" ELSE "none"
       IN /\ calls' = IF blocking.errors THEN Answer(calls, c, answer)
                      ELSE Answer([Take(calls, c, at) EXCEPT ![c].prompt = prompt], c, answer)
          /\ blocking' = [blocking EXCEPT
                !.buffer = IF blocking.errors THEN @ ELSE SubSeq(@, n + 1, Len(@)),
                !.place = IF answer = "none" THEN "waiting" ELSE "idle"]
    /\ UNCHANGED <<stdinVars, config, doing, dying, entries, binary, buffer, binaryBuffer,
                   mail, historyOfReads>>

\* mp_Event.f_Wait
Wake ==
    /\ blocking.place = "waiting" /\ blocking.event
    /\ blocking' = [blocking EXCEPT !.place = "checking", !.event = FALSE]
    /\ UNCHANGED <<stdinVars, config, actorVars, mail, historyOfReads>>

CloseBlocking ==
    /\ blocking.place = "idle" /\ Held = {} /\ Close("blocking")
    /\ blocking' = [blocking EXCEPT !.place = "closed"]
    /\ UNCHANGED <<config, actorVars, mail, historyOfReads>>

----------------------------------------------------------------------------
ClientsNext ==
    \/ ReaderStep
    \/ \E i \in Imps : DeliverChunk(i) \/ DeliverEnd(i)
    \/ \E kind \in ActorKind : ReadText(kind)
    \/ ReadBinary \/ HandleMail \/ Subscribe
    \/ Abort \/ CloseText \/ CloseBinary \/ Delete
    \/ \E kind \in BlockingKind : CallBlocking(kind)
    \/ OpenBlocking \/ Check \/ Wake \/ CloseBlocking

ClientsSpec == ClientsInit /\ [][ClientsNext]_allVars

\* The loops go on, the actor handles its mail and what it has begun, and so
\* does the owner of the blocking reader.
ClientsFairness ==
    /\ InputFairness
    /\ WF_mail(TakeMail) /\ WF_allVars(CloseText) /\ WF_allVars(CloseBinary)
    /\ WF_allVars(Delete) /\ WF_allVars(Check) /\ WF_allVars(Wake)

FairClientsSpec == ClientsSpec /\ ClientsFairness

----------------------------------------------------------------------------
(* Properties                                                              *)

Positions == Seq(0 .. Length)
Prompts == [typed : Positions, pos : Nat, insert : BOOLEAN, done : BOOLEAN,
            aborted : BOOLEAN]
Items == Seq([type : {"stdIn", "endOfFile", "error"}, at : Positions])

ClientsTypeOK ==
    /\ TypeOK
    /\ config \in Configs
    /\ calls \in Seq([kind : ActorKind \cup BlockingKind, at : Positions, prompt : Prompts,
                      answer : {"none", "value", "failed", "nothing"}])
    /\ Len(calls) <= config.calls
    /\ \A c \in DOMAIN calls : calls[c].prompt.pos <= Len(calls[c].prompt.typed)
    /\ doing \in {"nothing", "text", "binary", "subscription", "spinning", "gone"}
    /\ dying \in BOOLEAN
    /\ mail \in Seq([to : {"text", "binary"}, type : {"stdIn", "endOfFile", "error"},
                     at : Positions, age : 0 .. aborts])
    /\ entries \in Seq(DOMAIN calls) /\ binary \in Seq(DOMAIN calls)
    /\ buffer \in Items /\ binaryBuffer \in Items
    /\ blocking \in [place : {"none", "idle", "checking", "waiting", "closed"},
                     call : Nat, buffer : Positions, errors : BOOLEAN, event : BOOLEAN]
    /\ used \in Positions
    /\ lost \subseteq 0 .. Length /\ given \subseteq 0 .. Length
    /\ late \subseteq 0 .. Length /\ aborts \in Nat /\ ends \subseteq 0 .. Length

\* The text for the lines and prompts of the actor, piece by piece: what the
\* entries have taken, what is buffered, and what is dispatched.
Way ==
    <<used>> \o [k \in DOMAIN buffer |-> buffer[k].at]
             \o [k \in DOMAIN mail |-> IF mail[k].to = "text" THEN mail[k].at ELSE <<>>]
OnTheWay == (UNION {ToSet(Way[k]) : k \in DOMAIN Way}) \ {0}

\* What is read for the lines and prompts of the actor is handed to them once
\* and in order, and the rest of it waits for the next: nothing is lost but
\* what an abort or a subscription throws away (m_BufferedStdIn), and what
\* stands before an error that a waiting prompt is answered with.
TextIsKept ==
    /\ LET way == Way
       IN \A i, j \in DOMAIN way : \A m \in DOMAIN way[i], n \in DOMAIN way[j] :
              /\ i < j \/ (i = j /\ m < n)
              /\ way[i][m] # 0 /\ way[j][n] # 0
              => way[i][m] < way[j][n]
    /\ OnTheWay \cap lost \subseteq IF doing = "gone" THEN given ELSE {}
    /\ OnTheWay \cup lost = given

\* A call is answered with a whole line, with what was typed at its prompt as
\* if it had come at once, or with all input up to the end: a piece of the
\* input without gaps and without messages, as long as nothing came late from
\* a reader that an abort had closed.
ReadsAreWhole ==
    \A c \in DOMAIN calls :
        LET r == calls[c]
        IN r.answer = "value" =>
            /\ r.kind \in {"line", "blockingLine", "tryLine"} =>
                   r.at # <<>> /\ FirstOf(r.at, {"newline"}) = Len(r.at)
            /\ r.kind = "prompt" => r.prompt.typed = Keys(Fresh, r.at).prompt.typed
            /\ r.kind = "blockingPrompt" =>
                   r.prompt.typed = SimpleKeys(Fresh, r.at).typed
            /\ late = {} =>
                   /\ 0 \notin ToSet(r.at)
                   /\ \A k \in 2 .. Len(r.at) : r.at[k] = r.at[k - 1] + 1
                   /\ r.kind = "binary" /\ r.at # <<>> => Last(r.at) \in ends

Waits(c, kinds) ==
    c \in DOMAIN calls /\ calls[c].kind \in kinds /\ calls[c].answer = "none"

\* While its reader is heard (a reader opened when the input has ended is not
\* told of it), the first read of the actor is answered when a line comes, and
\* a binary read when the input ends, unless the actor spins in a string
\* without an end, or a message that came late is in the way of the lines.
ReadsAreAnswered ==
    \A c \in 1 .. MaxCalls :
        /\ ( /\ Waits(c, {"line", "prompt"}) /\ Head(entries) = c /\ imp \notin finished
             /\ \E p \in taken + 1 .. written : Char(p) = "newline")
             ~> ~Waits(c, ActorKind) \/ imp \in finished \/ doing = "spinning" \/ 0 \in late
        /\ Waits(c, {"binary"}) /\ imp \notin finished /\ ended
             ~> ~Waits(c, ActorKind) \/ doing = "spinning"

\* Whoever waits in CBlockingStdInReader wakes up for what has come.
BlockedOwnerWakes ==
    \A c \in 1 .. MaxCalls :
        /\ Waits(c, BlockingKind)
        /\ blocking.errors \/ FirstOf(blocking.buffer, {"newline"}) > 0
        ~> ~Waits(c, BlockingKind)

InputIsServed == InputIsRead /\ ReadsAreAnswered /\ BlockedOwnerWakes
=============================================================================
