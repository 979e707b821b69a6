---------------------------- MODULE StdInReader ----------------------------
(***************************************************************************)
(* The readers of the standard input                                       *)
(* (src/Source/Platform/Malterlib_Process_Platform_POSIX_StdInReader.cpp). *)
(* All open readers share one implementation, which is registered with an  *)
(* io loop and is given what the file has.  When the last reader is closed *)
(* the implementation is taken out and its registration removed, which the *)
(* loop acknowledges later; a new one must not register before that, as    *)
(* the old one restores the mode of the terminal.                          *)
(*                                                                         *)
(* The implementations are numbered in the order in which they are made;   *)
(* "life" says how far each has come.  Of the input only the amount is     *)
(* kept.  A chunk is given to all readers in one step; what their          *)
(* callbacks do, which is to open and to close readers, follows.  Not in   *)
(* the model: what is in a chunk, how a loop is found, and failures to     *)
(* make the pace pipe.                                                     *)
(* Operators commented "Slip" are mutations, used in no specification.     *)
(***************************************************************************)
EXTENDS Integers

CONSTANTS
    Readers,      \* the places that open readers, one each at a time
    LineInput,    \* those that open them with EStdInReaderFlag_LineInput
    Exclusive,    \* those that open them with EStdInReaderFlag_Exclusive
    Length,       \* bound: characters that are written to the input
    MaxImps,      \* bound: implementations that are made
    MayFail       \* reading may fail

ASSUME ReadersAssumption == LineInput \subseteq Readers /\ Exclusive \subseteq Readers
ASSUME InputAssumption == Length \in Nat /\ MaxImps \in Nat /\ MayFail \in BOOLEAN

VARIABLES
    paced,     \* mp_bPaced: the input is a file, otherwise a terminal
    written,   \* the characters that have been written to the input
    ended,     \* it has come to its end
    taken,     \* the characters that have been read
    mode,      \* the mode of the terminal
    imp,       \* m_pStdInReaderImp
    readers,   \* m_Readers of it
    made,      \* the implementations that have been made
    life,      \* how far each has come
    saved,     \* mp_OldSettings, "unset" before f_Register
    finished,  \* the implementations with mp_bFinished
    armed,     \* those whose readiness has been requested
    pace,      \* those with a byte in the pace pipe
    place,     \* where the loop thread of each is in fp_OnReadable
    closing,   \* m_nClosing
    pending,   \* m_bRegistrationPending
    inside,    \* history: implementations a callback took out
    dropped    \* history: implementations that read for no reader

inputVars == <<paced, written, ended, taken>>
readerVars == <<imp, readers, made>>
loopVars == <<finished, armed, pace, place>>
closeVars == <<closing, pending>>
historyVars == <<inside, dropped>>
stdinVars == <<inputVars, mode, readerVars, life, saved, loopVars, closeVars,
               historyVars>>

Imps == 1 .. MaxImps

Init ==
    /\ \/ paced = FALSE /\ written = 0 /\ ended = FALSE
       \/ paced = TRUE /\ written \in 0 .. Length /\ ended = TRUE
    /\ taken = 0
    /\ mode = "original"
    /\ imp = 0 /\ readers = {} /\ made = 0
    /\ life = [i \in Imps |-> "unused"]
    /\ saved = [i \in Imps |-> "unset"]
    /\ finished = {} /\ armed = {} /\ pace = {}
    /\ place = [i \in Imps |-> "idle"]
    /\ closing = 0 /\ pending = FALSE
    /\ inside = {} /\ dropped = {}

----------------------------------------------------------------------------
\* m_StdInReaderImpLock is held by the loop thread that is in fp_OnReadable; a
\* callback that it makes can take it again.
Held == {i \in Imps : place[i] \in {"reading", "calling"}}
InCallback == \E i \in Imps : place[i] = "calling"
LockFree == Held = {} \/ InCallback

\* f_UpdateTerminalMode, which does nothing before f_Register found a terminal.
ModeOf(rs) == IF rs \subseteq LineInput THEN "line" ELSE "raw"
UpdateTerminalMode(rs) ==
    mode' = IF saved[imp] \in {"unset", "none"} THEN mode ELSE ModeOf(rs)

\* f_Register
Register(i, rs) ==
    /\ saved' = [saved EXCEPT ![i] = IF paced THEN "none" ELSE mode]
    /\ mode' = IF paced THEN mode ELSE ModeOf(rs)
    /\ armed' = armed \cup {i}

CanOpen(r) ==
    IF r \in Exclusive THEN readers = {} ELSE readers \cap Exclusive = {}

\* Slip: the removal of an old registration is not waited for.
OpenSlip(r) ==
    /\ LockFree /\ r \notin readers /\ CanOpen(r)
    /\ readers' = readers \cup {r}
    /\ IF imp # 0
       THEN /\ UpdateTerminalMode(readers')
            /\ UNCHANGED <<imp, made, life, saved, armed, pace, pending>>
       ELSE /\ made < MaxImps
            /\ made' = made + 1
            /\ imp' = made'
            /\ pace' = IF paced THEN pace \cup {imp'} ELSE pace
            /\ life' = [life EXCEPT ![imp'] = "registered"]
            /\ Register(imp', readers') /\ UNCHANGED pending
    /\ UNCHANGED <<inputVars, finished, place, closing, historyVars>>

\* fg_Process_StdInReader_Open, which fails when r cannot be opened.
Open(r) ==
    /\ LockFree /\ r \notin readers /\ CanOpen(r)
    /\ readers' = readers \cup {r}
    /\ IF imp # 0
       THEN /\ UpdateTerminalMode(readers')
            /\ UNCHANGED <<imp, made, life, saved, armed, pace, pending>>
       ELSE /\ made < MaxImps
            /\ made' = made + 1
            /\ imp' = made'
            /\ pace' = IF paced THEN pace \cup {imp'} ELSE pace
            /\ IF closing > 0
               THEN /\ pending' = TRUE
                    /\ life' = [life EXCEPT ![imp'] = "waiting"]
                    /\ UNCHANGED <<mode, saved, armed>>
               ELSE /\ life' = [life EXCEPT ![imp'] = "registered"]
                    /\ Register(imp', readers') /\ UNCHANGED pending
    /\ UNCHANGED <<inputVars, finished, place, closing, historyVars>>

\* Slip: the removal is not counted.
CloseSlip(r) ==
    /\ LockFree /\ r \in readers
    /\ readers' = readers \ {r}
    /\ IF readers' = {}
       THEN /\ imp' = 0
            /\ life' = [life EXCEPT ![imp] = IF @ = "registered" THEN "taken"
                                                                 ELSE "leaving"]
            /\ pending' = FALSE
            /\ inside' = IF InCallback THEN inside \cup {imp} ELSE inside
            /\ UNCHANGED <<mode, closing>>
       ELSE /\ UpdateTerminalMode(readers')
            /\ UNCHANGED <<imp, life, closing, pending, inside>>
    /\ UNCHANGED <<inputVars, made, saved, loopVars, dropped>>

\* ~CPOSIXStdInReader: the last reader takes the implementation out.
Close(r) ==
    /\ LockFree /\ r \in readers
    /\ readers' = readers \ {r}
    /\ IF readers' = {}
       THEN /\ imp' = 0
            /\ life' = [life EXCEPT ![imp] = IF @ = "registered" THEN "taken"
                                                                 ELSE "leaving"]
            /\ closing' = closing + 1
            /\ pending' = FALSE
            /\ inside' = IF InCallback THEN inside \cup {imp} ELSE inside
            /\ UNCHANGED mode
       ELSE /\ UpdateTerminalMode(readers')
            /\ UNCHANGED <<imp, life, closing, pending, inside>>
    /\ UNCHANGED <<inputVars, made, saved, loopVars, dropped>>

\* f_DeregisterAsync
Deregister(i) ==
    /\ life[i] = "taken"
    /\ life' = [life EXCEPT ![i] = "leaving"]
    /\ armed' = armed \ {i}
    /\ UNCHANGED <<inputVars, mode, readerVars, saved, finished, pace, place,
                   closeVars, historyVars>>

\* fOnClosed: once the loop makes no callback any more, the mode is restored
\* and the implementation deleted ...
Clear(i) ==
    /\ life[i] = "leaving" /\ place[i] = "idle"
    /\ life' = [life EXCEPT ![i] = "cleared"]
    /\ mode' = IF saved[i] \in {"unset", "none"} THEN mode ELSE saved[i]
    /\ UNCHANGED <<inputVars, readerVars, saved, loopVars, closeVars,
                   historyVars>>

\* Slip: a pending registration waits for its own removal only.
OnClosedSlip(i) ==
    /\ LockFree /\ life[i] = "cleared"
    /\ closing' = closing - 1
    /\ IF pending
       THEN /\ pending' = FALSE
            /\ Register(imp, readers)
            /\ life' = [life EXCEPT ![i] = "over", ![imp] = "registered"]
       ELSE /\ life' = [life EXCEPT ![i] = "over"]
            /\ UNCHANGED <<pending, saved, mode, armed>>
    /\ UNCHANGED <<inputVars, readerVars, finished, pace, place, historyVars>>

\* ... and f_OnClosed registers one that waits for the last removal.
OnClosed(i) ==
    /\ LockFree /\ life[i] = "cleared"
    /\ closing' = closing - 1
    /\ IF closing' = 0 /\ pending
       THEN /\ pending' = FALSE
            /\ Register(imp, readers)
            /\ life' = [life EXCEPT ![i] = "over", ![imp] = "registered"]
       ELSE /\ life' = [life EXCEPT ![i] = "over"]
            /\ UNCHANGED <<pending, saved, mode, armed>>
    /\ UNCHANGED <<inputVars, readerVars, finished, pace, place, historyVars>>

----------------------------------------------------------------------------
(* The loop thread in fp_OnReadable.                                       *)

\* The loop finds an armed registration ready, and calls back once.
Ready(i) == IF paced THEN i \in pace ELSE taken < written \/ ended

CallBack(i) ==
    /\ i \in armed /\ place[i] = "idle" /\ Ready(i)
    /\ armed' = armed \ {i}
    /\ place' = [place EXCEPT ![i] = "called"]
    /\ UNCHANGED <<inputVars, mode, readerVars, life, saved, finished, pace,
                   closeVars, historyVars>>

\* Slip: an implementation that was taken out meanwhile reads on.
OnReadableSlip(i) ==
    /\ place[i] = "called" /\ Held = {}
    /\ place' = [place EXCEPT ![i] = IF i \in finished THEN "idle" ELSE "reading"]
    /\ IF paced
       THEN pace' = pace \ {i} /\ armed' = armed \cup {i}
       ELSE UNCHANGED <<pace, armed>>
    /\ UNCHANGED <<inputVars, mode, readerVars, life, saved, finished, closeVars,
                   historyVars>>

\* With the lock: nothing is read without a registration.  A file is read one
\* chunk a pass, and the readiness for the next pass requested first.
OnReadable(i) ==
    /\ place[i] = "called" /\ Held = {}
    /\ IF i \in finished \/ life[i] # "registered"
       THEN /\ place' = [place EXCEPT ![i] = "idle"]
            /\ UNCHANGED <<pace, armed>>
       ELSE /\ place' = [place EXCEPT ![i] = "reading"]
            /\ IF paced
               THEN pace' = pace \ {i} /\ armed' = armed \cup {i}
               ELSE UNCHANGED <<pace, armed>>
    /\ UNCHANGED <<inputVars, mode, readerVars, life, saved, finished, closeVars,
                   historyVars>>

ReadersOf(i) == IF i = imp THEN readers ELSE {}

\* fp_SendToReaders
SendToReaders(i) == place' = [place EXCEPT ![i] = "calling"]

\* fp_Read: a chunk,
ReadChunk(i) ==
    /\ place[i] = "reading" /\ taken < written
    /\ taken' \in (taken + 1) .. written
    /\ SendToReaders(i)
    /\ dropped' = IF ReadersOf(i) = {} THEN dropped \cup {i} ELSE dropped
    /\ UNCHANGED <<paced, written, ended, mode, readerVars, life, saved, finished,
                   armed, pace, closeVars, inside>>

\* the end of the file, after which a terminal goes on,
ReadEnd(i) ==
    /\ place[i] = "reading" /\ taken = written /\ ended
    /\ ended' \in {TRUE, paced}
    /\ SendToReaders(i)
    /\ finished' = finished \cup {i}
    /\ UNCHANGED <<paced, written, taken, mode, readerVars, life, saved, armed, pace,
                   closeVars, historyVars>>

\* an error, of the loop too,
ReadFails(i) ==
    /\ MayFail /\ place[i] = "reading"
    /\ SendToReaders(i)
    /\ finished' = finished \cup {i}
    /\ UNCHANGED <<inputVars, mode, readerVars, life, saved, armed, pace,
                   closeVars, historyVars>>

\* or nothing more for now: readiness is requested, if someone still listens.
ReadNothing(i) ==
    /\ place[i] = "reading" /\ taken = written /\ ~ended
    /\ place' = [place EXCEPT ![i] = "idle"]
    /\ armed' = IF life[i] = "registered" THEN armed \cup {i} ELSE armed
    /\ UNCHANGED <<inputVars, mode, readerVars, life, saved, finished, pace,
                   closeVars, historyVars>>

\* Slip: the next pass over a file is not scheduled.
CallbacksDoneSlip(i) ==
    /\ place[i] = "calling"
    /\ place' = [place EXCEPT ![i] = IF i \in finished \/ paced THEN "idle"
                                                                ELSE "reading"]
    /\ UNCHANGED <<inputVars, mode, readerVars, life, saved, finished, armed, pace,
                   closeVars, historyVars>>

\* When the callbacks have returned, the reading goes on; of a file in another
\* pass, for which the pace pipe gets a byte.
CallbacksDone(i) ==
    /\ place[i] = "calling"
    /\ place' = [place EXCEPT ![i] = IF i \in finished \/ paced THEN "idle"
                                                                ELSE "reading"]
    /\ pace' = IF paced /\ i \notin finished THEN pace \cup {i} ELSE pace
    /\ UNCHANGED <<inputVars, mode, readerVars, life, saved, finished, armed,
                   closeVars, historyVars>>

----------------------------------------------------------------------------
(* The other end of the input.  A file is there from the start.  The end of *)
(* what is typed at a terminal can be followed by more.                    *)

Write ==
    /\ ~ended /\ written < Length
    /\ written' = written + 1
    /\ UNCHANGED <<paced, ended, taken, mode, readerVars, life, saved, loopVars,
                   closeVars, historyVars>>

EndInput ==
    /\ ~ended
    /\ ended' = TRUE
    /\ UNCHANGED <<paced, written, taken, mode, readerVars, life, saved, loopVars,
                   closeVars, historyVars>>

LoopStep(i) ==
    \/ Clear(i) \/ OnClosed(i) \/ CallBack(i) \/ OnReadable(i)
    \/ ReadChunk(i) \/ ReadEnd(i) \/ ReadFails(i) \/ ReadNothing(i) \/ CallbacksDone(i)

InputNext ==
    \/ Write \/ EndInput
    \/ \E i \in Imps : Deregister(i) \/ LoopStep(i)

Next == InputNext \/ \E r \in Readers : Open(r) \/ Close(r)

Spec == Init /\ [][Next]_stdinVars

\* The loop threads go on, and so does who closes a reader.
InputFairness == \A i \in Imps : WF_stdinVars(LoopStep(i)) /\ WF_stdinVars(Deregister(i))

FairSpec == Spec /\ InputFairness

----------------------------------------------------------------------------
(* Properties                                                              *)

TypeOK ==
    /\ paced \in BOOLEAN /\ written \in 0 .. Length /\ ended \in BOOLEAN
    /\ taken \in 0 .. written
    /\ mode \in {"original", "line", "raw"}
    /\ imp \in 0 .. made /\ readers \subseteq Readers /\ made \in 0 .. MaxImps
    /\ life \in [Imps -> {"unused", "waiting", "registered", "taken", "leaving",
                          "cleared", "over"}]
    /\ saved \in [Imps -> {"unset", "none", "original", "line", "raw"}]
    /\ finished \subseteq Imps /\ armed \subseteq Imps /\ pace \subseteq Imps
    /\ place \in [Imps -> {"idle", "called", "reading", "calling"}]
    /\ closing \in Nat /\ pending \in BOOLEAN
    /\ inside \subseteq Imps /\ dropped \subseteq Imps

InLoop(i) == saved[i] # "unset" /\ life[i] \in {"registered", "taken", "leaving"}

\* The standard input is registered with a loop at most once at a time
\* ("registers a pending reader only when no old registrations remain").
OneRegistration ==
    \A i, j \in Imps : InLoop(i) /\ InLoop(j) => i = j

\* While readers are open the terminal is in the mode they ask for together,
\* and once they are closed in the mode it had before the first
\* (f_UpdateTerminalMode, ~CPOSIXStdInReaderImplementation).
ModeFitsReaders ==
    /\ imp # 0 /\ life[imp] = "registered" /\ ~paced => mode = ModeOf(readers)
    /\ imp = 0 /\ closing = 0 => mode = "original"

\* What is read is given to a reader ("Serialize reads and readiness requests
\* with the last reader's registration removal"), unless the callback for an
\* earlier chunk of the same pass has closed the last one.
NothingDropped == dropped \subseteq inside

\* The registration of the input is sound, whoever reads.
RegistrationIsSound == OneRegistration /\ ModeFitsReaders /\ NothingDropped

\* As long as a reader is open, the input is read.
InputIsRead ==
    \A i \in Imps :
        imp = i /\ taken < written ~> imp # i \/ taken = written \/ i \in finished

=============================================================================
