---------------------------- MODULE StdInProofs ----------------------------
(***************************************************************************)
(* Theorems about StdInReader for every set of readers, whatever flags     *)
(* they open with, every length of the input, every number of              *)
(* implementations, and reads that may fail or may not; and about          *)
(* StdInClients for every input and every number of calls, aborts and      *)
(* subscriptions.                                                          *)
(*                                                                         *)
(* The invariant of the readers is Inv.  That of the clients is            *)
(* ClientsInv: what is read is followed from the loop through the mail and *)
(* the buffers to the calls.  Each piece of input on its way comes after   *)
(* those before it (Sorted), what one reader hears has no gap (Flow), and  *)
(* what a prompt has taken is what it would have taken at once (lemmas     *)
(* KeysCompose and SimpleKeysCompose).  The loops of                       *)
(* f_HandleBufferedStdIn and of the prompts are functions on the number of *)
(* their passes; a lemma about one pass is carried to the whole loop with  *)
(* UpTo.                                                                   *)
(***************************************************************************)
EXTENDS StdInInvariant, FiniteSetTheorems, SequenceTheorems, WellFoundedInduction, TLAPS
----------------------------------------------------------------------------
(* Counting removals.                                                      *)

(* There are finitely many removals.                                       *)
LEMMA RemovingFinite ==
  ASSUME TypeOK
  PROVE  IsFiniteSet(Removing) /\ Cardinality(Removing) \in Nat
<1>1. IsFiniteSet(Imps) BY FS_Interval, InputAssumption DEF Imps
<1>2. Removing \subseteq Imps BY DEF Removing
<1> QED BY <1>1, <1>2, FS_Subset, FS_CardinalityType

(* One that was not among them is taken out, or the removal of one that    *)
(* was is acknowledged.                                                    *)
LEMMA OneMore ==
  ASSUME TypeOK, NEW i, i \notin Removing
  PROVE  Cardinality(Removing \cup {i}) = Cardinality(Removing) + 1
BY RemovingFinite, FS_AddElement

(* A removal that is acknowledged counts no longer.                        *)
LEMMA OneLess ==
  ASSUME TypeOK, NEW i \in Removing
  PROVE  Cardinality(Removing \ {i}) = Cardinality(Removing) - 1
BY RemovingFinite, FS_RemoveElement

(* When none is counted there is none.                                     *)
LEMMA NoneLeft ==
  ASSUME TypeOK, Cardinality(Removing) = 0
  PROVE  Removing = {}
BY RemovingFinite, FS_EmptySet

(* When there is one it is counted.                                        *)
LEMMA SomeLeft ==
  ASSUME TypeOK, NEW i \in Removing
  PROVE  Cardinality(Removing) > 0
BY RemovingFinite, FS_EmptySet

----------------------------------------------------------------------------
(* The steps.                                                              *)

(* What the loop threads and the other end of the input do leaves the      *)
(* readers, the registrations and the terminal alone.                      *)
ReadStep ==
  \/ Write \/ EndInput
  \/ \E i \in Imps : \/ CallBack(i) \/ OnReadable(i) \/ ReadChunk(i) \/ ReadEnd(i)
                     \/ ReadFails(i) \/ ReadNothing(i) \/ CallbacksDone(i)

regVars == <<paced, mode, readerVars, life, saved, closeVars>>

(* The loops and the other end of the input keep the types ...             *)
LEMMA ReadTypes == ASSUME TypeOK, ReadStep PROVE TypeOK'
<1>1. ASSUME Write \/ EndInput PROVE TypeOK'
  <2>1. UNCHANGED <<paced, taken, mode, readerVars, life, saved, loopVars, closeVars,
                    historyVars>>
    BY <1>1 DEF Write, EndInput
  <2>2. /\ written' \in 0 .. Length /\ ended' \in BOOLEAN
        /\ taken \in 0 .. written'
    <3>1. CASE Write BY <3>1, InputAssumption DEF Write, TypeOK
    <3>2. CASE EndInput BY <3>2 DEF EndInput, TypeOK
    <3> QED BY <1>1, <3>1, <3>2
  <2> QED BY <2>1, <2>2 DEF TypeOK, readerVars, loopVars, closeVars, historyVars
<1>2. ASSUME NEW i \in Imps, CallBack(i) \/ OnReadable(i) \/ ReadNothing(i)
      PROVE  TypeOK'
  BY <1>2 DEF TypeOK, CallBack, OnReadable, ReadNothing, inputVars, readerVars, closeVars,
         historyVars
<1>3. ASSUME NEW i \in Imps, ReadChunk(i)
      PROVE  TypeOK'
  BY <1>3, InputAssumption
         DEF TypeOK, ReadChunk, SendToReaders, readerVars, closeVars
<1>4. ASSUME NEW i \in Imps, ReadEnd(i) \/ ReadFails(i) \/ CallbacksDone(i)
      PROVE  TypeOK'
  BY <1>4 DEF TypeOK, ReadEnd, ReadFails, CallbacksDone, SendToReaders, inputVars,
         readerVars, closeVars, historyVars
<1> QED BY <1>1, <1>2, <1>3, <1>4 DEF ReadStep

(* ... and leave what a registration is made of.                           *)
LEMMA ReadLeaves == ASSUME ReadStep PROVE UNCHANGED regVars
BY DEF ReadStep, regVars, Write, EndInput, CallBack, OnReadable, ReadChunk, ReadEnd, ReadFails,
   ReadNothing, CallbacksDone, inputVars, readerVars, closeVars, historyVars, loopVars

(* A chunk is read for the readers, unless one of them took them out.      *)
LEMMA ReadKeeps == ASSUME Inv, ReadStep PROVE Inv'
<1>1. TypeOK' BY ReadTypes DEF Inv
<1>2. UNCHANGED regVars BY ReadLeaves
<1>3. LifeInv' /\ CountInv' /\ SavedInv' /\ OneRegistration' /\ ModeFitsReaders'
  BY <1>2 DEF Inv, regVars, readerVars, closeVars, LifeInv, CountInv, Removing, SavedInv,
         OneRegistration, ModeFitsReaders, InLoop
<1>4. ASSUME NEW i \in Imps, OnReadable(i)
      PROVE  HeldInv' /\ NothingDropped'
  <2>1. life[i] = "registered" => i = imp BY DEF Inv, LifeInv
  <2> QED BY <1>2, <1>4, <2>1 DEF Inv, TypeOK, HeldInv, Held, NothingDropped, OnReadable,
             regVars, readerVars, historyVars
<1>5. ASSUME NEW i \in Imps, ReadChunk(i)
      PROVE  HeldInv' /\ NothingDropped'
  <2>1. i \in Held BY <1>5 DEF ReadChunk, Held
  <2>2. i = imp => readers # {} BY InputAssumption DEF Inv, LifeInv, Imps
  <2>3. ReadersOf(i) = {} => i \in inside
    BY <2>1, <2>2 DEF Inv, HeldInv, ReadersOf
  <2> QED BY <1>2, <1>5, <2>1, <2>3 DEF Inv, TypeOK, HeldInv, Held, NothingDropped, ReadChunk,
             SendToReaders, regVars, readerVars
<1>6. ASSUME NEW i \in Imps,
             CallBack(i) \/ ReadEnd(i) \/ ReadFails(i) \/ ReadNothing(i) \/ CallbacksDone(i)
      PROVE  HeldInv' /\ NothingDropped'
  <2>1. Held' \subseteq Held /\ UNCHANGED historyVars
    BY <1>6 DEF Inv, TypeOK, Held, CallBack, ReadEnd, ReadFails, ReadNothing,
           CallbacksDone, SendToReaders
  <2> QED BY <1>2, <2>1 DEF Inv, HeldInv, NothingDropped, regVars, readerVars, historyVars
<1>7. ASSUME Write \/ EndInput
      PROVE  HeldInv' /\ NothingDropped'
  BY <1>2, <1>7 DEF Inv, HeldInv, Held, NothingDropped, Write, EndInput, loopVars,
         historyVars, regVars, readerVars
<1>8. HeldInv' /\ NothingDropped' BY <1>4, <1>5, <1>6, <1>7 DEF ReadStep
<1> QED BY <1>1, <1>3, <1>8 DEF Inv
----------------------------------------------------------------------------
(* Readers are opened and closed, and registrations removed.               *)

(* What is registered when nothing is in a loop: the settings are those    *)
(* the terminal had at first.                                              *)
LEMMA FirstRegistration ==
  ASSUME Inv, NEW i \in Imps, NEW rs \in SUBSET Readers, Register(i, rs),
         saved[i] = "unset", \A j \in Imps : ~InLoop(j)
  PROVE  /\ saved' = [saved EXCEPT ![i] = IF paced THEN "none" ELSE "original"]
         /\ mode' = IF paced THEN "original" ELSE ModeOf(rs)
         /\ armed' \subseteq Imps
BY DEF Register, Inv, SavedInv, TypeOK

(* Opening a reader keeps the types.                                       *)
LEMMA OpenTypes == ASSUME Inv, NEW r \in Readers, Open(r) PROVE TypeOK'
<1>1. UNCHANGED <<inputVars, finished, place, closing, historyVars>> BY DEF Open
<1>2. readers' \subseteq Readers BY DEF Open, Inv, TypeOK
<1>3. CASE imp # 0
  <2>1. UNCHANGED <<imp, made, life, saved, armed, pace, pending>>
    BY <1>3 DEF Open
  <2>2. mode' \in {"original", "line", "raw"}
    BY <1>3 DEF Open, UpdateTerminalMode, ModeOf, Inv, TypeOK
  <2> QED BY <1>1, <1>2, <2>1, <2>2 DEF Inv, TypeOK, inputVars, historyVars
<1>4. CASE imp = 0
  <2>1. /\ made' = made + 1 /\ imp' = made + 1 /\ made' \in 0 .. MaxImps
        /\ imp' \in 0 .. made' /\ imp' \in Imps
    BY <1>4, InputAssumption DEF Open, Inv, TypeOK, Imps
  <2>2. pace' \subseteq Imps BY <1>4, <2>1 DEF Open, Inv, TypeOK
  <2>3. CASE closing > 0
    BY <1>1, <1>2, <1>4, <2>1, <2>2, <2>3 DEF Open, Inv, TypeOK, inputVars, historyVars
  <2>4. CASE ~(closing > 0)
    BY <1>1, <1>2, <1>4, <2>1, <2>2, <2>4
           DEF Open, Register, ModeOf, Inv, TypeOK, inputVars, historyVars
  <2> QED BY <2>3, <2>4
<1> QED BY <1>3, <1>4

(* The first reader makes an implementation, which is registered unless    *)
(* another is still being removed; the others change the mode at most.     *)
LEMMA OpenKeeps == ASSUME Inv, NEW r \in Readers, Open(r) PROVE Inv'
<1>1. TypeOK' BY OpenTypes
<1>2. UNCHANGED <<place, closing, inside, dropped, paced>>
  BY DEF Open, inputVars, historyVars
<1>3. readers' # {} /\ readers' \subseteq Readers BY <1>1 DEF Open, TypeOK
<1>4. CASE imp # 0
  <2>1. UNCHANGED <<imp, made, life, saved, pending>> BY <1>4 DEF Open
  <2>2. LifeInv' /\ CountInv' /\ HeldInv' /\ OneRegistration' /\ NothingDropped'
    BY <1>2, <1>3, <1>4, <2>1 DEF Inv, LifeInv, CountInv, Removing, HeldInv, Held,
           OneRegistration, InLoop, NothingDropped
  <2>3. imp \in Imps /\ life[imp] \in {"waiting", "registered"}
    BY <1>4, InputAssumption DEF Inv, LifeInv, TypeOK, Imps
  <2>4. mode' = IF saved[imp] \in {"unset", "none"} THEN mode ELSE ModeOf(readers')
    BY <1>4 DEF Open, UpdateTerminalMode
  <2>5. CASE life[imp] = "waiting"
    <3>1. mode' = mode BY <2>3, <2>4, <2>5 DEF Inv, SavedInv
    <3> QED BY <1>1, <1>2, <1>4, <2>1, <2>2, <2>5, <3>1
            DEF Inv, SavedInv, ModeFitsReaders, InLoop
  <2>6. CASE life[imp] = "registered"
    <3>1. InLoop(imp) BY <2>3, <2>6 DEF Inv, SavedInv, InLoop
    <3>2. paced => mode' = mode BY <2>3, <2>4 DEF Inv, SavedInv
    <3>3. ~paced => mode' = ModeOf(readers')
      BY <2>3, <2>4, <2>6 DEF Inv, SavedInv
    <3>4. SavedInv' BY <1>2, <2>1, <2>3, <3>1, <3>2 DEF Inv, SavedInv, InLoop
    <3>5. ModeFitsReaders' BY <1>2, <1>4, <2>1, <3>3 DEF ModeFitsReaders, ModeOf
    <3> QED BY <1>1, <2>2, <3>4, <3>5 DEF Inv
  <2> QED BY <2>3, <2>5, <2>6
<1>5. CASE imp = 0
  <2> DEFINE n == made + 1
  <2>1. n \in Imps /\ imp' = n /\ made' = n /\ n # 0
    BY <1>5, InputAssumption DEF Open, Inv, TypeOK, Imps
  <2>2. life[n] = "unused" /\ saved[n] = "unset" /\ ~pending
    BY <1>5, <2>1 DEF Inv, LifeInv, SavedInv, TypeOK
  <2>3. PICK l \in {"waiting", "registered"} : life' = [life EXCEPT ![n] = l]
    BY <1>5, <2>1 DEF Open
  <2> HIDE DEF n
  <2>4. \A i \in Imps : life'[i] = IF i = n THEN l ELSE life[i]
    BY <2>1, <2>3 DEF Inv, TypeOK
  <2>5. n \notin Removing /\ Removing' = Removing
    BY <2>1, <2>2, <2>4 DEF Removing
  <2>6. HeldInv' /\ NothingDropped'
    <3>1. \A i \in Held : i \in inside
      BY <1>5, InputAssumption DEF Inv, HeldInv, Held, Imps
    <3> QED BY <1>2, <3>1 DEF Inv, HeldInv, Held, NothingDropped
  <2>7. CASE closing > 0
    <3>1. pending' /\ l = "waiting" /\ UNCHANGED <<mode, saved>>
      BY <1>5, <2>1, <2>3, <2>4, <2>7 DEF Open, Inv, TypeOK
    <3>2. LifeInv'
      <4>1. \A i \in Imps : i > made' => life'[i] = "unused"
        BY <2>1, <2>4 DEF Inv, LifeInv, TypeOK, Imps, n
      <4> QED BY <1>3, <1>5, <2>1, <2>4, <3>1, <4>1, InputAssumption DEF Inv, LifeInv, Imps
    <3>3. CountInv' BY <1>2, <2>5, <2>7 DEF Inv, CountInv
    <3>4. \A i \in Imps : InLoop(i)' <=> InLoop(i)
      BY <2>1, <2>2, <2>4, <3>1 DEF InLoop
    <3>5. SavedInv' BY <1>2, <2>1, <2>2, <2>4, <3>1, <3>4 DEF Inv, SavedInv
    <3>6. OneRegistration' BY <3>4 DEF Inv, OneRegistration
    <3>7. ModeFitsReaders' BY <2>1, <2>4, <3>1 DEF ModeFitsReaders
    <3> QED BY <1>1, <2>6, <3>2, <3>3, <3>5, <3>6, <3>7 DEF Inv
  <2>8. CASE ~(closing > 0)
    <3>1. closing = 0 /\ Removing = {}
      BY <2>8, NoneLeft DEF Inv, CountInv, TypeOK
    <3>2. l = "registered" /\ ~pending' /\ Register(n, readers')
      BY <1>5, <2>1, <2>2, <2>3, <2>4, <2>8 DEF Open
    <3>3. \A j \in Imps : ~InLoop(j)
      BY <1>5, <3>1, InputAssumption DEF Inv, LifeInv, InLoop, Removing, Imps
    <3>4. /\ saved' = [saved EXCEPT ![n] = IF paced THEN "none" ELSE "original"]
          /\ mode' = IF paced THEN "original" ELSE ModeOf(readers')
      BY <1>3, <2>1, <2>2, <3>2, <3>3, FirstRegistration
    <3>5. \A i \in Imps : saved'[i] = IF i = n THEN IF paced THEN "none" ELSE "original"
                                               ELSE saved[i]
      BY <2>1, <3>4 DEF Inv, TypeOK
    <3>6. \A i \in Imps : InLoop(i)' <=> i = n
      BY <2>1, <2>4, <3>2, <3>3, <3>5 DEF InLoop
    <3>7. LifeInv'
      <4>1. \A i \in Imps : i > made' => life'[i] = "unused"
        BY <2>1, <2>4 DEF Inv, LifeInv, TypeOK, Imps, n
      <4> QED BY <1>3, <1>5, <2>1, <2>4, <3>2, <4>1, InputAssumption DEF Inv, LifeInv, Imps
    <3>8. CountInv' BY <1>2, <2>5, <3>2 DEF Inv, CountInv
    <3>9. SavedInv'
      BY <1>2, <2>1, <2>4, <3>2, <3>4, <3>5, <3>6 DEF Inv, SavedInv
    <3>10. OneRegistration' BY <3>6 DEF OneRegistration
    <3>11. ModeFitsReaders' BY <1>2, <2>1, <3>4 DEF ModeFitsReaders, ModeOf
    <3> QED BY <1>1, <2>6, <3>7, <3>8, <3>9, <3>10, <3>11 DEF Inv
  <2> QED BY <2>7, <2>8
<1> QED BY <1>4, <1>5

(* So does closing one.                                                    *)
LEMMA CloseTypes == ASSUME Inv, NEW r \in Readers, Close(r) PROVE TypeOK'
<1>1. /\ UNCHANGED <<inputVars, made, saved, loopVars, dropped>>
      /\ readers' \subseteq Readers
  BY DEF Close, Inv, TypeOK
<1>2. imp \in Imps BY InputAssumption DEF Close, Inv, LifeInv, TypeOK, Imps
<1>3. CASE readers' = {}
  <2>1. /\ imp' = 0 /\ closing' = closing + 1 /\ pending' = FALSE /\ mode' = mode
        /\ inside' \subseteq Imps
    BY <1>2, <1>3 DEF Close, Inv, TypeOK
  <2>2. life' = [life EXCEPT ![imp] = IF @ = "registered" THEN "taken" ELSE "leaving"]
    BY <1>3 DEF Close
  <2>3. life' \in [Imps -> {"unused", "waiting", "registered", "taken", "leaving",
                            "cleared", "over"}]
    BY <1>2, <2>2 DEF Inv, TypeOK
  <2>4. imp' \in 0 .. made' /\ closing' \in Nat
    BY <1>1, <2>1, InputAssumption DEF Inv, TypeOK
  <2> QED BY <1>1, <2>1, <2>3, <2>4 DEF Inv, TypeOK, inputVars, loopVars
<1>4. CASE readers' # {}
  <2>1. UNCHANGED <<imp, life, closing, pending, inside>> /\ UpdateTerminalMode(readers')
    BY <1>4 DEF Close
  <2>2. mode' \in {"original", "line", "raw"}
    BY <2>1 DEF UpdateTerminalMode, ModeOf, Inv, TypeOK
  <2> QED BY <1>1, <2>1, <2>2 DEF Inv, TypeOK, inputVars, loopVars
<1> QED BY <1>3, <1>4

(* The last reader takes the implementation out, which is counted; the     *)
(* others change the mode at most.                                         *)
LEMMA CloseKeeps == ASSUME Inv, NEW r \in Readers, Close(r) PROVE Inv'
<1>1. TypeOK' BY CloseTypes
<1>2. UNCHANGED <<place, dropped, paced, made, saved>>
  BY DEF Close, inputVars, loopVars
<1>3. imp \in Imps /\ imp # 0 /\ life[imp] \in {"waiting", "registered"}
  BY InputAssumption DEF Close, Inv, LifeInv, TypeOK, Imps
<1>4. CASE readers' # {}
  <2>1. UNCHANGED <<imp, life, closing, pending, inside>> BY <1>4 DEF Close
  <2>2. LifeInv' /\ CountInv' /\ HeldInv' /\ OneRegistration' /\ NothingDropped'
    BY <1>2, <1>3, <1>4, <2>1 DEF Inv, LifeInv, CountInv, Removing, HeldInv, Held,
           OneRegistration, InLoop, NothingDropped
  <2>3. mode' = IF saved[imp] \in {"unset", "none"} THEN mode ELSE ModeOf(readers')
    BY <1>4 DEF Close, UpdateTerminalMode
  <2>4. CASE life[imp] = "waiting"
    <3>1. mode' = mode BY <1>3, <2>3, <2>4 DEF Inv, SavedInv
    <3> QED BY <1>1, <1>2, <1>3, <2>1, <2>2, <2>4, <3>1
            DEF Inv, SavedInv, ModeFitsReaders, InLoop
  <2>5. CASE life[imp] = "registered"
    <3>1. InLoop(imp) BY <1>3, <2>5 DEF Inv, SavedInv, InLoop
    <3>2. paced => mode' = mode BY <1>3, <2>3 DEF Inv, SavedInv
    <3>3. ~paced => mode' = ModeOf(readers')
      BY <1>3, <2>3, <2>5 DEF Inv, SavedInv
    <3>4. SavedInv' BY <1>2, <1>3, <2>1, <3>1, <3>2 DEF Inv, SavedInv, InLoop
    <3>5. ModeFitsReaders' BY <1>2, <1>3, <2>1, <3>3 DEF ModeFitsReaders, ModeOf
    <3> QED BY <1>1, <2>2, <3>4, <3>5 DEF Inv
  <2> QED BY <1>3, <2>4, <2>5
<1>5. CASE readers' = {}
  <2>1. /\ imp' = 0 /\ closing' = closing + 1 /\ pending' = FALSE /\ mode' = mode
        /\ life' = [life EXCEPT ![imp] = IF @ = "registered" THEN "taken" ELSE "leaving"]
        /\ inside' = IF InCallback THEN inside \cup {imp} ELSE inside
    BY <1>5 DEF Close
  <2>2. \A i \in Imps : life'[i] = IF i # imp THEN life[i]
                                   ELSE IF life[i] = "registered" THEN "taken" ELSE "leaving"
    BY <2>1 DEF Inv, TypeOK
  <2>3. imp \notin Removing /\ Removing' = Removing \cup {imp}
    BY <1>3, <2>2 DEF Removing
  <2>4. LifeInv'
    <3>1. \A i \in Imps : life'[i] \notin {"waiting", "registered"}
      BY <2>2 DEF Inv, LifeInv
    <3>2. \A i \in Imps : i > made' => life'[i] = "unused"
      BY <1>2, <1>3, <2>2 DEF Inv, LifeInv
    <3> QED BY <1>5, <2>1, <3>1, <3>2, InputAssumption DEF LifeInv, Imps
  <2>5. CountInv'
    <3>1. Cardinality(Removing \cup {imp}) = Cardinality(Removing) + 1
      BY <2>3, OneMore DEF Inv
    <3> QED BY <2>1, <2>3, <3>1 DEF Inv, CountInv
  <2>6. \A i \in Imps : InLoop(i)' <=> InLoop(i)
    BY <1>2, <1>3, <2>2 DEF Inv, SavedInv, InLoop
  <2>7. SavedInv' BY <1>2, <1>3, <2>1, <2>2, <2>6 DEF Inv, SavedInv
  <2>8. OneRegistration' BY <2>6 DEF Inv, OneRegistration
  <2>9. ModeFitsReaders' BY <2>1 DEF Inv, CountInv, TypeOK, ModeFitsReaders
  <2>10. HeldInv' /\ NothingDropped'
    <3>1. ASSUME NEW i \in Held PROVE i \in inside'
      <4>1. InCallback BY DEF Close, LockFree
      <4> QED BY <2>1, <4>1 DEF Inv, HeldInv
    <3>2. inside \subseteq inside' BY <2>1
    <3> QED BY <1>2, <3>1, <3>2 DEF Inv, HeldInv, Held, NothingDropped
  <2> QED BY <1>1, <2>4, <2>5, <2>7, <2>8, <2>9, <2>10 DEF Inv
<1> QED BY <1>4, <1>5

(* The registration is to be removed.                                      *)
LEMMA DeregisterKeeps == ASSUME Inv, NEW i \in Imps, Deregister(i) PROVE Inv'
<1>1. UNCHANGED <<paced, mode, readerVars, saved, place, closeVars, historyVars>>
  BY DEF Deregister, inputVars
<1>2. life' = [life EXCEPT ![i] = "leaving"] /\ life[i] = "taken"
  BY DEF Deregister
<1>3. TypeOK'
  BY <1>1, <1>2 DEF Inv, TypeOK, Deregister, inputVars, readerVars, closeVars, historyVars
<1>4. \A j \in Imps : life'[j] = IF j = i THEN "leaving" ELSE life[j]
  BY <1>2 DEF Inv, TypeOK
<1>5. Removing' = Removing BY <1>2, <1>4 DEF Removing
<1>6. \A j \in Imps : InLoop(j)' <=> InLoop(j) BY <1>1, <1>2, <1>4 DEF InLoop
<1>7. imp # 0 => imp \in Imps /\ life'[imp] = life[imp]
  BY <1>2, <1>4, InputAssumption DEF Inv, LifeInv, TypeOK, Imps
<1>8. LifeInv'
  <2>1. \A j \in Imps : life'[j] \in {"waiting", "registered"} <=> j = imp
    BY <1>2, <1>4 DEF Inv, LifeInv
  <2>2. \A j \in Imps : j > made => life'[j] = "unused"
    BY <1>2, <1>4 DEF Inv, LifeInv
  <2> QED BY <1>1, <1>7, <2>1, <2>2 DEF Inv, LifeInv, readerVars, closeVars
<1>9. CountInv' BY <1>1, <1>5 DEF Inv, CountInv, closeVars
<1>10. SavedInv' /\ OneRegistration'
  BY <1>1, <1>4, <1>6 DEF Inv, SavedInv, OneRegistration
<1>11. ModeFitsReaders'
  BY <1>1, <1>7 DEF Inv, ModeFitsReaders, readerVars, closeVars
<1>12. HeldInv' /\ NothingDropped'
  BY <1>1, <1>2, <1>4 DEF Inv, HeldInv, Held, NothingDropped, readerVars, historyVars
<1> QED BY <1>3, <1>8, <1>9, <1>10, <1>11, <1>12 DEF Inv

(* The mode the terminal had at first is restored by the only one that can *)
(* have changed it.                                                        *)
LEMMA ClearKeeps == ASSUME Inv, NEW i \in Imps, Clear(i) PROVE Inv'
<1>1. UNCHANGED <<paced, readerVars, saved, place, closeVars, historyVars>>
  BY DEF Clear, inputVars, loopVars
<1>2. life' = [life EXCEPT ![i] = "cleared"] /\ life[i] = "leaving" BY DEF Clear
<1>3. mode' = IF saved[i] \in {"unset", "none"} THEN mode ELSE saved[i]
  BY DEF Clear
<1>4. TypeOK'
  <2>1. mode' \in {"original", "line", "raw"} BY <1>3 DEF Inv, TypeOK
  <2> QED BY <1>1, <1>2, <2>1
          DEF Inv, TypeOK, Clear, inputVars, readerVars, closeVars, historyVars, loopVars
<1>5. \A j \in Imps : life'[j] = IF j = i THEN "cleared" ELSE life[j]
  BY <1>2 DEF Inv, TypeOK
<1>6. Removing' = Removing BY <1>2, <1>5 DEF Removing
<1>7. \A j \in Imps : InLoop(j)' <=> InLoop(j) /\ j # i BY <1>1, <1>5 DEF InLoop
<1>8. imp # 0 => imp \in Imps /\ imp # i /\ life'[imp] = life[imp]
  BY <1>2, <1>5, InputAssumption DEF Inv, LifeInv, TypeOK, Imps
<1>9. LifeInv'
  <2>1. \A j \in Imps : life'[j] \in {"waiting", "registered"} <=> j = imp
    BY <1>2, <1>5 DEF Inv, LifeInv
  <2>2. \A j \in Imps : j > made => life'[j] = "unused"
    BY <1>2, <1>5 DEF Inv, LifeInv
  <2> QED BY <1>1, <1>8, <2>1, <2>2 DEF Inv, LifeInv, readerVars, closeVars
<1>10. CountInv' BY <1>1, <1>6 DEF Inv, CountInv, closeVars
<1>11. OneRegistration' BY <1>7 DEF Inv, OneRegistration
<1>12. HeldInv' /\ NothingDropped'
  BY <1>1, <1>2, <1>5 DEF Inv, HeldInv, Held, NothingDropped, readerVars, historyVars
<1>13. CASE saved[i] \in {"unset", "none"}
  <2>1. mode' = mode BY <1>3, <1>13
  <2>2. ~paced => ~InLoop(i) BY <1>13 DEF Inv, SavedInv, InLoop
  <2>3. SavedInv' BY <1>1, <1>2, <1>5, <1>7, <2>1, <2>2 DEF Inv, SavedInv
  <2>4. ModeFitsReaders'
    BY <1>1, <1>8, <2>1 DEF Inv, ModeFitsReaders, readerVars, closeVars
  <2> QED BY <1>4, <1>9, <1>10, <1>11, <1>12, <2>3, <2>4 DEF Inv
<1>14. CASE saved[i] \notin {"unset", "none"}
  <2>1. ~paced /\ saved[i] = "original" /\ mode' = "original" /\ InLoop(i)
    BY <1>2, <1>3, <1>14 DEF Inv, SavedInv, InLoop
  <2>2. \A j \in Imps : InLoop(j) => j = i BY <2>1 DEF Inv, OneRegistration
  <2>3. SavedInv' BY <1>1, <1>2, <1>5, <2>1 DEF Inv, SavedInv
  <2>4. imp # 0 => life'[imp] # "registered"
    BY <1>8, <2>2 DEF Inv, SavedInv, InLoop
  <2>5. ModeFitsReaders' BY <1>1, <2>1, <2>4 DEF ModeFitsReaders, readerVars
  <2> QED BY <1>4, <1>9, <1>10, <1>11, <1>12, <2>3, <2>5 DEF Inv
<1> QED BY <1>13, <1>14
(* With the last removal, one that waits is registered.                    *)
LEMMA OnClosedKeeps == ASSUME Inv, NEW i \in Imps, OnClosed(i) PROVE Inv'
<1>1. /\ UNCHANGED <<inputVars, readerVars, finished, pace, place, historyVars>>
      /\ life[i] = "cleared" /\ closing' = closing - 1
  BY DEF OnClosed
<1>2. i \in Removing /\ closing > 0 /\ i # imp
  <2>1. i \in Removing BY <1>1 DEF Removing
  <2> QED BY <1>1, <2>1, SomeLeft DEF Inv, CountInv, LifeInv
<1>3. closing' \in Nat BY <1>1, <1>2 DEF Inv, TypeOK
<1>4. Cardinality(Removing \ {i}) = closing'
  BY <1>1, <1>2, OneLess DEF Inv, CountInv
<1>5. \A j \in Imps : InLoop(j) => life[j] = "registered" \/ j \in Removing \ {i}
  BY <1>1 DEF InLoop, Removing
<1>6. HeldInv' /\ NothingDropped'
  <2>1. ASSUME NEW j \in Held, life[j] = "registered" PROVE life'[j] = "registered"
    BY <1>1, <1>2, <2>1 DEF OnClosed, Inv, TypeOK, Held
  <2> QED BY <1>1, <2>1 DEF Inv, HeldInv, Held, NothingDropped, readerVars, historyVars
<1>7. CASE closing' = 0 /\ pending
  <2>1. /\ pending' = FALSE /\ Register(imp, readers)
        /\ life' = [life EXCEPT ![i] = "over", ![imp] = "registered"]
    BY <1>7 DEF OnClosed
  <2>2. imp \in Imps /\ imp # 0 /\ life[imp] = "waiting" /\ saved[imp] = "unset"
    BY <1>7, InputAssumption DEF Inv, LifeInv, SavedInv, TypeOK, Imps
  <2>3. Removing \ {i} = {}
    <3>1. IsFiniteSet(Removing \ {i}) BY RemovingFinite, FS_Subset DEF Inv
    <3> QED BY <1>4, <1>7, <3>1, FS_EmptySet
  <2>4. \A j \in Imps : ~InLoop(j) BY <1>5, <2>2, <2>3 DEF Inv, LifeInv
  <2>5. /\ saved' = [saved EXCEPT ![imp] = IF paced THEN "none" ELSE "original"]
        /\ mode' = IF paced THEN "original" ELSE ModeOf(readers)
        /\ armed' \subseteq Imps
    BY <2>1, <2>2, <2>4, FirstRegistration DEF Inv, TypeOK
  <2>6. \A j \in Imps : life'[j] = IF j = imp THEN "registered"
                                   ELSE IF j = i THEN "over" ELSE life[j]
    BY <2>1, <2>2 DEF Inv, TypeOK
  <2>7. \A j \in Imps : saved'[j] = IF j # imp THEN saved[j]
                                    ELSE IF paced THEN "none" ELSE "original"
    BY <2>2, <2>5 DEF Inv, TypeOK
  <2>8. TypeOK'
    <3>1. life' \in [Imps -> {"unused", "waiting", "registered", "taken", "leaving",
                              "cleared", "over"}]
      BY <2>1 DEF Inv, TypeOK
    <3>2. saved' \in [Imps -> {"unset", "none", "original", "line", "raw"}]
      BY <2>5 DEF Inv, TypeOK
    <3>3. mode' \in {"original", "line", "raw"} BY <2>5 DEF ModeOf
    <3> QED BY <1>1, <1>3, <2>1, <2>5, <3>1, <3>2, <3>3
            DEF Inv, TypeOK, inputVars, readerVars, historyVars
  <2>9. Removing' = {} BY <2>2, <2>3, <2>6 DEF Removing
  <2>10. \A j \in Imps : InLoop(j)' <=> j = imp
    BY <1>1, <2>2, <2>4, <2>6, <2>7 DEF InLoop
  <2>11. LifeInv'
    <3>1. \A j \in Imps : life'[j] \in {"waiting", "registered"} <=> j = imp
      BY <1>1, <2>6 DEF Inv, LifeInv
    <3>2. \A j \in Imps : j > made => life'[j] = "unused"
      BY <1>1, <2>2, <2>6 DEF Inv, LifeInv
    <3>3. ~pending' /\ imp' = imp /\ made' = made /\ readers' = readers /\ readers # {}
      BY <1>1, <2>1, <2>2 DEF Inv, LifeInv, readerVars
    <3>4. imp' # 0 /\ life'[imp'] # "waiting" BY <2>2, <2>6, <3>3
    <3> QED BY <3>1, <3>2, <3>3, <3>4 DEF LifeInv
  <2>12. CountInv' BY <1>7, <2>1, <2>9, FS_EmptySet DEF CountInv
  <2>13. SavedInv'
    BY <1>1, <2>2, <2>5, <2>6, <2>7, <2>10 DEF Inv, SavedInv, inputVars
  <2>14. OneRegistration' /\ ModeFitsReaders'
    BY <1>1, <2>2, <2>5, <2>10
           DEF OneRegistration, ModeFitsReaders, ModeOf, readerVars, inputVars
  <2> QED BY <1>6, <2>8, <2>11, <2>12, <2>13, <2>14 DEF Inv
<1>8. CASE ~(closing' = 0 /\ pending)
  <2>1. UNCHANGED <<pending, saved, mode, armed>> /\ life' = [life EXCEPT ![i] = "over"]
    BY <1>8 DEF OnClosed
  <2>2. \A j \in Imps : life'[j] = IF j = i THEN "over" ELSE life[j]
    BY <2>1 DEF Inv, TypeOK
  <2>3. TypeOK'
    BY <1>1, <1>3, <2>1 DEF Inv, TypeOK, inputVars, readerVars, historyVars
  <2>4. Removing' = Removing \ {i} BY <2>2 DEF Removing
  <2>5. \A j \in Imps : InLoop(j)' <=> InLoop(j) BY <1>1, <2>1, <2>2 DEF InLoop
  <2>6. imp # 0 => imp \in Imps /\ life'[imp] = life[imp]
    BY <1>2, <2>2, InputAssumption DEF Inv, TypeOK, Imps
  <2>7. LifeInv'
    <3>1. \A j \in Imps : life'[j] \in {"waiting", "registered"} <=> j = imp
      BY <1>1, <2>2 DEF Inv, LifeInv
    <3>2. \A j \in Imps : j > made => life'[j] = "unused"
      BY <1>1, <2>2 DEF Inv, LifeInv
    <3> QED BY <1>1, <2>1, <2>6, <3>1, <3>2 DEF Inv, LifeInv, readerVars
  <2>8. CountInv' BY <1>3, <1>4, <1>8, <2>1, <2>4 DEF CountInv
  <2>9. SavedInv' /\ OneRegistration'
    BY <1>1, <2>1, <2>2, <2>5 DEF Inv, SavedInv, OneRegistration, inputVars
  <2>10. ModeFitsReaders'
    <3>1. ASSUME imp = 0, closing' = 0 PROVE mode = "original"
      <4>1. Removing \ {i} = {}
        <5>1. IsFiniteSet(Removing \ {i}) BY RemovingFinite, FS_Subset DEF Inv
        <5> QED BY <1>4, <3>1, <5>1, FS_EmptySet
      <4>2. \A j \in Imps : ~InLoop(j)
        BY <1>5, <3>1, <4>1, InputAssumption DEF Inv, LifeInv, Imps
      <4> QED BY <4>2 DEF Inv, SavedInv
    <3> QED BY <1>1, <2>1, <2>6, <3>1 DEF Inv, ModeFitsReaders, ModeOf, readerVars, inputVars
  <2> QED BY <1>6, <2>3, <2>7, <2>8, <2>9, <2>10 DEF Inv
<1> QED BY <1>7, <1>8

----------------------------------------------------------------------------
(* The theorems.                                                           *)

(* The invariant of the readers holds initially, ...                       *)
LEMMA Initially == ASSUME Init PROVE Inv
<1>1. TypeOK
  <2>1. /\ paced \in BOOLEAN /\ written \in 0 .. Length /\ ended \in BOOLEAN
        /\ taken \in 0 .. written
    <3>1. paced \in BOOLEAN /\ ended \in BOOLEAN BY DEF Init
    <3>2. written \in 0 .. Length /\ taken = 0 BY InputAssumption DEF Init
    <3> QED BY <3>1, <3>2, InputAssumption
  <2>2. life = [i \in Imps |-> "unused"] /\ saved = [i \in Imps |-> "unset"]
    BY DEF Init
  <2>3. place = [i \in Imps |-> "idle"] BY DEF Init
  <2>4. imp \in 0 .. made /\ made \in 0 .. MaxImps /\ closing \in Nat
    BY InputAssumption DEF Init
  <2>5. /\ life \in [Imps -> {"unused", "waiting", "registered", "taken", "leaving",
                             "cleared", "over"}]
        /\ saved \in [Imps -> {"unset", "none", "original", "line", "raw"}]
        /\ place \in [Imps -> {"idle", "called", "reading", "calling"}]
    BY <2>2, <2>3
  <2>6. /\ mode = "original" /\ readers = {} /\ pending = FALSE
        /\ finished = {} /\ armed = {} /\ pace = {} /\ inside = {} /\ dropped = {}
    BY DEF Init
  <2> QED BY <2>1, <2>4, <2>5, <2>6 DEF TypeOK
<1>2. \A i \in Imps : life[i] = "unused" /\ saved[i] = "unset" /\ place[i] = "idle"
  BY DEF Init
<1>3. LifeInv BY <1>2, InputAssumption DEF Init, LifeInv, Imps
<1>4. CountInv
  <2>1. Removing = {} BY <1>2 DEF Removing
  <2> QED BY <2>1, FS_EmptySet DEF Init, CountInv
<1>5. SavedInv /\ OneRegistration /\ ModeFitsReaders
  BY <1>2 DEF Init, SavedInv, OneRegistration, ModeFitsReaders, InLoop
<1>6. HeldInv /\ NothingDropped BY <1>2 DEF Init, HeldInv, Held, NothingDropped
<1> QED BY <1>1, <1>3, <1>4, <1>5, <1>6 DEF Inv

(* ... when nothing happens to them ...                                    *)
LEMMA Stutters == ASSUME Inv, UNCHANGED stdinVars PROVE Inv'
<1>1. TypeOK'
  BY DEF Inv, TypeOK, stdinVars, inputVars, readerVars, loopVars, closeVars, historyVars
<1>2. LifeInv' /\ CountInv' /\ SavedInv' /\ OneRegistration' /\ ModeFitsReaders'
  BY DEF Inv, LifeInv, CountInv, Removing, SavedInv, OneRegistration, ModeFitsReaders,
         InLoop, stdinVars, inputVars, readerVars, closeVars
<1>3. HeldInv' /\ NothingDropped'
  BY DEF Inv, HeldInv, Held, NothingDropped, stdinVars, readerVars, loopVars, historyVars
<1> QED BY <1>1, <1>2, <1>3 DEF Inv

(* ... and always.                                                         *)
LEMMA Invariance == Spec => []Inv
<1>1. Inv /\ [Next]_stdinVars => Inv'
  <2> SUFFICES ASSUME Inv, [Next]_stdinVars PROVE Inv' OBVIOUS
  <2>1. ASSUME NEW r \in Readers, Open(r) \/ Close(r) PROVE Inv'
    BY <2>1, OpenKeeps, CloseKeeps
  <2>2. ASSUME NEW i \in Imps, Deregister(i) \/ Clear(i) \/ OnClosed(i) PROVE Inv'
    BY <2>2, DeregisterKeeps, ClearKeeps, OnClosedKeeps
  <2>3. CASE ReadStep BY <2>3, ReadKeeps
  <2>4. CASE UNCHANGED stdinVars BY <2>4, Stutters
  <2> QED BY <2>1, <2>2, <2>3, <2>4 DEF Next, InputNext, LoopStep, ReadStep
<1> QED BY <1>1, Initially, PTL DEF Spec

(* Every variable stays in its type: no more input is taken than was       *)
(* written, and m_nClosing does not run below zero.                        *)
THEOREM TypeCorrect == Spec => []TypeOK
<1>1. Inv => TypeOK BY DEF Inv
<1> QED BY <1>1, Invariance, PTL

(* However readers are opened and closed, by their own callbacks and while *)
(* registrations are still being removed: the input is registered once at  *)
(* a time, the terminal is in the mode the readers ask for together and    *)
(* in its own when they are gone, and no chunk is read for nobody.         *)
THEOREM RegistrationSound == Spec => []RegistrationIsSound
<1>1. Inv => RegistrationIsSound BY DEF Inv, RegistrationIsSound
<1> QED BY <1>1, Invariance, PTL

(* A set of natural numbers has a least one.                               *)
LEMMA LeastExists ==
  ASSUME NEW U \in SUBSET Nat, U # {}
  PROVE  \E u \in U : \A v \in U : u <= v
<1>1. PICK u \in U : \A v \in U : ~ (<<v, u>> \in OpToRel(<, Nat))
  BY WFMin, NatLessThanWellFounded
<1>2. \A v \in U : ~ (v < u) BY <1>1 DEF OpToRel
<1> QED BY <1>2

(* What holds of 0 and of a number with its predecessor holds up to n.     *)
LEMMA UpTo ==
  ASSUME NEW n \in Nat, NEW P \in SUBSET (0 .. n), 0 \in P,
         \A k \in 1 .. n : k - 1 \in P => k \in P
  PROVE  \A k \in 0 .. n : k \in P
<1> DEFINE U == (0 .. n) \ P
<1> SUFFICES ASSUME U # {} PROVE FALSE OBVIOUS
<1>1. PICK u \in U : \A v \in U : u <= v
  <2>1. U \in SUBSET Nat OBVIOUS
  <2> HIDE DEF U
  <2> QED BY <2>1, LeastExists
<1>2. u \in 1 .. n /\ u - 1 \in 0 .. n OBVIOUS
<1> QED BY <1>1, <1>2

(* Steps from s on, one after the other, are a function on their numbers.  *)
Repeats(f, T, step, s, n) ==
  f \in [0 .. n -> T] /\ f[0] = s /\ \A k \in 1 .. n : f[k] = step[k][f[k - 1]]

(* There is such a function.                                               *)
LEMMA Repeated ==
  ASSUME NEW T, NEW n \in Nat, NEW step \in [1 .. n -> [T -> T]], NEW s \in T
  PROVE  \E f : Repeats(f, T, step, s, n)
<1> DEFINE Up(m) == \E f \in [0 .. n -> T] :
                       f[0] = s /\ \A k \in 1 .. m : f[k] = step[k][f[k - 1]]
           P == {m \in 0 .. n : Up(m)}
<1>1. 0 \in P
  <2>1. [k \in 0 .. n |-> s] \in [0 .. n -> T] OBVIOUS
  <2>2. Up(0)
    <3> WITNESS [k \in 0 .. n |-> s] \in [0 .. n -> T]
    <3> QED OBVIOUS
  <2> QED BY <2>2
<1>2. ASSUME NEW m \in 1 .. n, m - 1 \in P PROVE m \in P
  <2>1. PICK f \in [0 .. n -> T] : f[0] = s /\ \A k \in 1 .. m - 1 : f[k] = step[k][f[k - 1]]
    BY <1>2
  <2> DEFINE g == [f EXCEPT ![m] = step[m][f[m - 1]]]
  <2>2. step[m][f[m - 1]] \in T BY <2>1
  <2>3. g \in [0 .. n -> T] BY <2>2
  <2>4. g[0] = s /\ \A k \in 1 .. m : g[k] = step[k][g[k - 1]]
    <3>1. g[m] = step[m][f[m - 1]] /\ \A k \in 0 .. n : k # m => g[k] = f[k]
      BY <2>1
    <3> HIDE DEF g
    <3>2. g[m] = step[m][g[m - 1]] BY <3>1
    <3>3. \A k \in 1 .. m - 1 : g[k] = f[k] /\ g[k - 1] = f[k - 1] BY <3>1
    <3>4. \A k \in 1 .. m - 1 : g[k] = step[k][g[k - 1]] BY <3>3, <2>1
    <3>5. g[0] = s BY <3>1, <2>1
    <3>6. \A k \in 1 .. m : k = m \/ k \in 1 .. m - 1 OBVIOUS
    <3>7. ASSUME NEW k \in 1 .. m PROVE g[k] = step[k][g[k - 1]]
      <4>1. CASE k = m BY <4>1, <3>2
      <4>2. CASE k \in 1 .. m - 1 BY <4>2, <3>4
      <4> QED BY <4>1, <4>2, <3>6
    <3> QED BY <3>5, <3>7
  <2>5. Up(m)
    <3> HIDE DEF g
    <3> WITNESS g \in [0 .. n -> T]
    <3> QED BY <2>4
  <2> HIDE DEF Up
  <2> QED BY <2>5
<1>3. n \in P
  <2> HIDE DEF P
  <2>1. P \in SUBSET (0 .. n) BY DEF P
  <2>2. \A m \in 1 .. n : m - 1 \in P => m \in P BY <1>2
  <2>3. \A m \in 0 .. n : m \in P BY <2>1, <2>2, <1>1, UpTo
  <2> QED BY <2>3
<1> QED BY <1>3 DEF Repeats

----------------------------------------------------------------------------
(* The keys of a piece.                                                    *)

(* Where the loop over a piece can be.                                     *)
Passes == [prompt : Promptly, n : Nat, spins : BOOLEAN]

(* The pieces of input are short sequences of positions.                   *)
LEMMA PositionsSeq ==
  ASSUME NEW at \in Positions
  PROVE  /\ Len(at) \in Nat /\ DOMAIN at = 1 .. Len(at)
         /\ \A k \in 1 .. Len(at) : at[k] \in 0 .. Length
BY LenProperties, ElementOfSeq DEF Positions

(* A part of a piece is a piece.                                           *)
LEMMA PartOfPiece ==
  ASSUME NEW at \in Positions, NEW a \in 1 .. Len(at) + 1, NEW b \in a - 1 .. Len(at)
  PROVE  /\ SubSeq(at, a, b) \in Positions
         /\ Len(SubSeq(at, a, b)) = b - a + 1
         /\ \A k \in 1 .. b - a + 1 : SubSeq(at, a, b)[k] = at[a + k - 1]
<1>1. Len(at) \in Nat BY PositionsSeq
<1>2. \A i \in a .. b : at[i] \in 0 .. Length BY <1>1, PositionsSeq
<1> QED BY <1>1, <1>2, SubSeqProperties DEF Positions

(* The first place of a character.                                         *)
LEMMA FirstPlace ==
  ASSUME NEW at \in Positions, NEW C
  PROVE  /\ FirstOf(at, C) \in 0 .. Len(at)
         /\ FirstOf(at, C) = 0 => \A k \in 1 .. Len(at) : Char(at[k]) \notin C
         /\ FirstOf(at, C) > 0 =>
               /\ Char(at[FirstOf(at, C)]) \in C
               /\ \A k \in 1 .. FirstOf(at, C) - 1 : Char(at[k]) \notin C
<1> DEFINE I == {i \in 1 .. Len(at) : Char(at[i]) \in C}
<1>1. Len(at) \in Nat BY PositionsSeq
<1>2. CASE I = {}
  <2>1. FirstOf(at, C) = 0 BY <1>2 DEF SelectInSeq, FirstOf
  <2> QED BY <2>1, <1>1, <1>2
<1>3. CASE I # {}
  <2>1. \E u \in I : \A v \in I : u <= v
    <3>1. I \in SUBSET Nat BY <1>1
    <3> HIDE DEF I
    <3> QED BY <3>1, <1>3, LeastExists
  <2> DEFINE m == CHOOSE x \in I : \A y \in I : x <= y
  <2>2. FirstOf(at, C) = m BY <1>3 DEF SelectInSeq, FirstOf, Min
  <2>3. m \in I /\ \A y \in I : m <= y BY <2>1
  <2> HIDE DEF m
  <2>4. \A k \in 1 .. m - 1 : k \notin I BY <1>1, <2>3
  <2>5. m \in 1 .. Len(at) /\ Char(at[m]) \in C /\ \A k \in 1 .. m - 1 : Char(at[k]) \notin C
    BY <1>1, <2>3, <2>4
  <2> QED BY <2>2, <2>5
<1> QED BY <1>2, <1>3

(* The fields of a prompt.                                                 *)
LEMMA PromptFields ==
  ASSUME NEW p \in Promptly
  PROVE  /\ p.typed \in Positions /\ Len(p.typed) \in Nat /\ p.pos \in 0 .. Len(p.typed)
         /\ p.insert \in BOOLEAN /\ p.done \in BOOLEAN /\ p.aborted \in BOOLEAN
         /\ p = [typed |-> p.typed, pos |-> p.pos, insert |-> p.insert, done |-> p.done,
                 aborted |-> p.aborted]
BY PositionsSeq DEF Promptly, Prompts

(* Pieces after each other.                                                *)
LEMMA Joined ==
  ASSUME NEW a \in Positions, NEW b \in Positions
  PROVE  /\ a \o b \in Positions /\ Len(a \o b) = Len(a) + Len(b)
         /\ \A i \in 1 .. Len(a) : (a \o b)[i] = a[i]
         /\ \A i \in 1 .. Len(b) : (a \o b)[Len(a) + i] = b[i]
<1>1. Len(a) \in Nat /\ Len(b) \in Nat BY PositionsSeq
<1>2. /\ a \o b \in Positions /\ Len(a \o b) = Len(a) + Len(b)
      /\ \A i \in 1 .. Len(a) + Len(b) :
            (a \o b)[i] = IF i <= Len(a) THEN a[i] ELSE b[i - Len(a)]
  BY ConcatProperties DEF Positions
<1>3. ASSUME NEW i \in 1 .. Len(b) PROVE (a \o b)[Len(a) + i] = b[i]
  <2>1. /\ Len(a) + i \in 1 .. Len(a) + Len(b) /\ ~ (Len(a) + i <= Len(a))
        /\ Len(a) + i - Len(a) = i
    BY <1>1
  <2> QED BY <2>1, <1>2
<1> QED BY <1>1, <1>2, <1>3

(* What is typed at a prompt when a character is put in, put over another  *)
(* or taken out.                                                           *)
LEMMA Typing ==
  ASSUME NEW t \in Positions, NEW n \in 1 .. Len(t), NEW x \in 0 .. Length
  PROVE  /\ InsertAt(t, n, x) \in Positions /\ Len(InsertAt(t, n, x)) = Len(t) + 1
         /\ ReplaceAt(t, n, x) \in Positions /\ Len(ReplaceAt(t, n, x)) = Len(t)
         /\ RemoveAt(t, n) \in Positions /\ Len(RemoveAt(t, n)) = Len(t) - 1
         /\ Front(t) \in Positions /\ Len(Front(t)) = Len(t) - 1
<1>0. Len(t) \in Nat BY PositionsSeq
<1>1. SubSeq(t, 1, n - 1) \in Positions /\ Len(SubSeq(t, 1, n - 1)) = n - 1
  <2>1. 1 \in 1 .. Len(t) + 1 /\ n - 1 \in 1 - 1 .. Len(t) BY <1>0
  <2>2. SubSeq(t, 1, n - 1) \in Positions /\ Len(SubSeq(t, 1, n - 1)) = (n - 1) - 1 + 1
    BY <2>1, PartOfPiece
  <2>3. (n - 1) - 1 + 1 = n - 1 BY <1>0
  <2> QED BY <2>2, <2>3
<1>2. SubSeq(t, n, Len(t)) \in Positions /\ Len(SubSeq(t, n, Len(t))) = Len(t) - n + 1
  <2>1. n \in 1 .. Len(t) + 1 /\ Len(t) \in n - 1 .. Len(t) BY <1>0
  <2> QED BY <2>1, PartOfPiece
<1>3. SubSeq(t, n + 1, Len(t)) \in Positions /\ Len(SubSeq(t, n + 1, Len(t))) = Len(t) - n
  <2> DEFINE m == n + 1
  <2>1. m \in 1 .. Len(t) + 1 /\ Len(t) \in m - 1 .. Len(t) /\ Len(t) - m + 1 = Len(t) - n
    BY <1>0
  <2> HIDE DEF m
  <2>2. SubSeq(t, m, Len(t)) \in Positions /\ Len(SubSeq(t, m, Len(t))) = Len(t) - m + 1
    BY <2>1, PartOfPiece
  <2> QED BY <2>1, <2>2 DEF m
<1>4. Front(t) \in Positions /\ Len(Front(t)) = Len(t) - 1
  <2>1. 1 \in 1 .. Len(t) + 1 /\ Len(t) - 1 \in 1 - 1 .. Len(t) BY <1>0
  <2>2. /\ SubSeq(t, 1, Len(t) - 1) \in Positions
        /\ Len(SubSeq(t, 1, Len(t) - 1)) = Len(t) - 1 - 1 + 1
    BY <2>1, PartOfPiece
  <2>3. Len(t) - 1 - 1 + 1 = Len(t) - 1 BY <1>0
  <2> QED BY <2>2, <2>3 DEF Front
<1>5. <<x>> \in Positions /\ Len(<<x>>) = 1 BY DEF Positions
<1>6. RemoveAt(t, n) \in Positions /\ Len(RemoveAt(t, n)) = Len(t) - 1
  <2> DEFINE a == SubSeq(t, 1, n - 1)
             b == SubSeq(t, n + 1, Len(t))
  <2>1. a \in Positions /\ b \in Positions /\ Len(a) = n - 1 /\ Len(b) = Len(t) - n
    BY <1>1, <1>3
  <2> HIDE DEF a, b
  <2>2. a \o b \in Positions /\ Len(a \o b) = Len(a) + Len(b) BY <2>1, Joined
  <2>3. Len(a) + Len(b) = Len(t) - 1 BY <1>0, <2>1
  <2> QED BY <2>2, <2>3 DEF RemoveAt, a, b
<1>7. ReplaceAt(t, n, x) \in Positions /\ Len(ReplaceAt(t, n, x)) = Len(t)
  BY ExceptSeq DEF ReplaceAt, Positions
<1>8. SubSeq(t, 1, n - 1) \o <<x>> \in Positions /\ Len(SubSeq(t, 1, n - 1) \o <<x>>) = n
  BY <1>0, <1>1, <1>5, ConcatProperties DEF Positions
<1>9. InsertAt(t, n, x) \in Positions /\ Len(InsertAt(t, n, x)) = Len(t) + 1
  <2>1. /\ SubSeq(t, 1, n - 1) \o <<x>> \in Seq(0 .. Length)
        /\ SubSeq(t, n, Len(t)) \in Seq(0 .. Length)
    BY <1>8, <1>2 DEF Positions
  <2>2. /\ InsertAt(t, n, x) \in Seq(0 .. Length)
        /\ Len(InsertAt(t, n, x)) = n + (Len(t) - n + 1)
    BY <2>1, <1>8, <1>2, ConcatProperties DEF InsertAt
  <2>3. n + (Len(t) - n + 1) = Len(t) + 1 BY <1>0
  <2> QED BY <2>2, <2>3 DEF Positions
<1> QED BY <1>4, <1>6, <1>7, <1>9

(* A printing character keeps the cursor in what is typed.                 *)
LEMMA TypeTypes ==
  ASSUME NEW p \in Promptly, NEW x \in 0 .. Length
  PROVE  Type(p, x) \in Promptly
<1> DEFINE t == IF p.pos = Len(p.typed) THEN Append(p.typed, x)
                ELSE IF p.insert THEN InsertAt(p.typed, p.pos + 1, x)
                ELSE ReplaceAt(p.typed, p.pos + 1, x)
<1>1. p.typed \in Positions /\ Len(p.typed) \in Nat /\ p.pos \in 0 .. Len(p.typed)
  BY PromptFields
<1>2. t \in Positions /\ p.pos + 1 \in 0 .. Len(t)
  <2>1. CASE p.pos = Len(p.typed) BY <1>1, <2>1, AppendProperties DEF Positions
  <2>2. CASE p.pos # Len(p.typed)
    <3>1. p.pos + 1 \in 1 .. Len(p.typed) BY <1>1, <2>2
    <3> QED BY SMTT(30), <3>1, <2>2, <1>1, Typing
  <2> QED BY <2>1, <2>2
<1>3. Type(p, x) = [p EXCEPT !.typed = t, !.pos = p.pos + 1]
  BY DEF Type, Promptly, Prompts
<1>4. t \in Positions /\ p.pos + 1 \in Nat /\ p.pos + 1 <= Len(t) BY <1>1, <1>2
<1> HIDE DEF t
<1> QED BY <1>3, <1>4 DEF Promptly, Prompts

(* So does every key.                                                      *)
LEMMA KeyTypes ==
  ASSUME NEW p \in Promptly, NEW x \in 0 .. Length
  PROVE  Key(p, x) \in Promptly
<1>1. p.typed \in Positions /\ Len(p.typed) \in Nat /\ p.pos \in 0 .. Len(p.typed)
  BY PromptFields
<1>2. [p EXCEPT !.aborted = TRUE] \in Promptly /\ [p EXCEPT !.done = TRUE] \in Promptly
  BY DEF Promptly, Prompts
<1>3. [p EXCEPT !.pos = 0] \in Promptly /\ [p EXCEPT !.pos = Len(p.typed)] \in Promptly
  BY <1>1 DEF Promptly, Prompts
<1>4. p.pos # 0 => [p EXCEPT !.typed = Front(@), !.pos = @ - 1] \in Promptly
  <2> HAVE p.pos # 0
  <2>1. Len(p.typed) \in 1 .. Len(p.typed) BY <1>1
  <2>2. Front(p.typed) \in Positions /\ Len(Front(p.typed)) = Len(p.typed) - 1
    <3>1. 0 \in 0 .. Length BY InputAssumption
    <3> QED BY <2>1, <3>1, <1>1, Typing
  <2>3. p.pos - 1 \in Nat /\ p.pos - 1 <= Len(Front(p.typed)) BY <1>1, <2>2
  <2> QED BY <2>2, <2>3 DEF Promptly, Prompts
<1>5. Type(p, x) \in Promptly BY TypeTypes
<1> QED BY <1>2, <1>3, <1>4, <1>5 DEF Key

(* And every escape sequence.                                              *)
LEMMA EscapeTypes ==
  ASSUME NEW p \in Promptly, NEW c
  PROVE  Escape(p, c) \in Promptly
<1>1. p.typed \in Positions /\ Len(p.typed) \in Nat /\ p.pos \in 0 .. Len(p.typed)
  BY PromptFields
<1>2. [p EXCEPT !.pos = IF @ > 0 THEN @ - 1 ELSE 0] \in Promptly
  BY <1>1 DEF Promptly, Prompts
<1>3. [p EXCEPT !.pos = IF @ < Len(p.typed) THEN @ + 1 ELSE @] \in Promptly
  BY <1>1 DEF Promptly, Prompts
<1>4. p.pos # Len(p.typed) => [p EXCEPT !.typed = RemoveAt(@, p.pos + 1)] \in Promptly
  <2> HAVE p.pos # Len(p.typed)
  <2>1. p.pos + 1 \in 1 .. Len(p.typed) BY <1>1
  <2>2. 0 \in 0 .. Length BY InputAssumption
  <2>3. RemoveAt(p.typed, p.pos + 1) \in Positions
        /\ Len(RemoveAt(p.typed, p.pos + 1)) = Len(p.typed) - 1
    BY <2>1, <2>2, <1>1, Typing
  <2>4. p.pos <= Len(RemoveAt(p.typed, p.pos + 1)) BY <1>1, <2>1, <2>3
  <2> QED BY <2>3, <2>4 DEF Promptly, Prompts
<1>5. [p EXCEPT !.insert = ~@] \in Promptly BY DEF Promptly, Prompts
<1> QED BY <1>2, <1>3, <1>4, <1>5 DEF Escape

(* Where a loop over a piece is.                                           *)
LEMMA PassFields ==
  ASSUME NEW k \in Passes
  PROVE  k.prompt \in Promptly /\ k.n \in Nat /\ k.spins \in BOOLEAN
BY DEF Passes

(* A pass that does not spin.                                              *)
LEMMA AfterFields ==
  ASSUME NEW q \in Promptly, NEW n \in Nat
  PROVE  /\ After(q, n) \in Passes
         /\ After(q, n).prompt = q /\ After(q, n).n = n /\ ~ After(q, n).spins
BY DEF Passes, After

Spinning(k) == [prompt |-> k.prompt, n |-> k.n, spins |-> TRUE]

(* A pass that spins leaves the keys where they are.                       *)
LEMMA SpinningFields ==
  ASSUME NEW k \in Passes
  PROVE  /\ Spinning(k) \in Passes
         /\ Spinning(k).prompt = k.prompt /\ Spinning(k).n = k.n /\ Spinning(k).spins
         /\ Spinning(Spinning(k)) = Spinning(k)
BY DEF Passes, Spinning

(* What one pass does: nothing when the loop stops, or the first key that  *)
(* is left, or the loop spins.                                             *)
Bell(at, n) == FirstOf(SubSeq(at, n, Len(at)), {"bell"})

Stops(at, k) ==
  /\ \/ k.prompt.done \/ k.n = Len(at)
     \/ k.n + 1 = Len(at) /\ Char(at[k.n + 1]) = "escape"
  /\ KeyPass(at, k) = k

Types(at, k) ==
  LET n == k.n + 1
  IN /\ ~ k.prompt.done /\ n <= Len(at)
     /\ Char(at[n]) # "escape"
     /\ Key(k.prompt, at[n]) \in Promptly
     /\ KeyPass(at, k) = After(Key(k.prompt, at[n]), n)

Escapes(at, k) ==
  LET n == k.n + 1
  IN /\ ~ k.prompt.done /\ n + 1 <= Len(at)
     /\ Char(at[n]) = "escape" /\ Char(at[n + 1]) # "string"
     /\ Escape(k.prompt, Char(at[n + 1])) \in Promptly
     /\ KeyPass(at, k) = After(Escape(k.prompt, Char(at[n + 1])), n + 1)

Spins(at, k) ==
  LET n == k.n + 1
  IN /\ ~ k.prompt.done /\ n + 1 <= Len(at)
     /\ Char(at[n]) = "escape" /\ Char(at[n + 1]) = "string" /\ Bell(at, n) = 0
     /\ KeyPass(at, k) = Spinning(k)

Skips(at, k) ==
  LET n == k.n + 1
  IN /\ ~ k.prompt.done /\ n + 1 <= Len(at)
     /\ Char(at[n]) = "escape" /\ Char(at[n + 1]) = "string"
     /\ Bell(at, n) \in 1 .. Len(at) - k.n
     /\ KeyPass(at, k) = After(k.prompt, k.n + Bell(at, n))

(* There is no other pass.                                                 *)
LEMMA KeyPassCases ==
  ASSUME NEW at \in Positions, NEW k \in Passes, k.n <= Len(at)
  PROVE  Stops(at, k) \/ Types(at, k) \/ Escapes(at, k) \/ Spins(at, k) \/ Skips(at, k)
<1> DEFINE n == k.n + 1
<1>1. /\ Len(at) \in Nat /\ k.n \in 0 .. Len(at) /\ k.n \in Nat /\ k.prompt \in Promptly
      /\ k.prompt.done \in BOOLEAN /\ k.spins \in BOOLEAN
  BY PositionsSeq, PromptFields DEF Passes
<1>2. CASE k.prompt.done \/ k.n = Len(at)
  <2>1. KeyPass(at, k) = k BY <1>2 DEF KeyPass
  <2> QED BY <2>1, <1>2 DEF Stops
<1>3. CASE ~ (k.prompt.done \/ k.n = Len(at)) /\ Char(at[n]) # "escape"
  <2>1. n \in 1 .. Len(at) BY <1>1, <1>3
  <2>2. Key(k.prompt, at[n]) \in Promptly BY <2>1, <1>1, PositionsSeq, KeyTypes
  <2>3. KeyPass(at, k) = After(Key(k.prompt, at[n]), n) BY <1>3 DEF KeyPass
  <2>4. n <= Len(at) BY <2>1, <1>1
  <2>5. Types(at, k) BY <2>2, <2>3, <2>4, <1>3 DEF Types
  <2> QED BY <2>5
<1>4. CASE ~ (k.prompt.done \/ k.n = Len(at)) /\ Char(at[n]) = "escape"
  <2>1. n \in 1 .. Len(at) BY <1>1, <1>4
  <2>2. CASE n = Len(at)
    <3>1. KeyPass(at, k) = k BY <2>2, <1>4, <1>1 DEF KeyPass
    <3> QED BY <3>1, <2>2, <1>4 DEF Stops
  <2>3. CASE n # Len(at) /\ Char(at[n + 1]) # "string"
    <3>1. Escape(k.prompt, Char(at[n + 1])) \in Promptly BY <1>1, EscapeTypes
    <3>2. KeyPass(at, k) = After(Escape(k.prompt, Char(at[n + 1])), n + 1)
      BY <1>4, <2>3 DEF KeyPass
    <3>3. n + 1 <= Len(at) BY <2>1, <2>3, <1>1
    <3>4. Escapes(at, k) BY <2>3, <3>1, <3>2, <3>3, <1>4 DEF Escapes
    <3> QED BY <3>4
  <2>4. CASE n # Len(at) /\ Char(at[n + 1]) = "string"
    <3>1. Bell(at, n) \in 0 .. Len(at) - k.n
      <4>1. n \in 1 .. Len(at) + 1 /\ Len(at) \in n - 1 .. Len(at) BY <2>1, <1>1
      <4>2. SubSeq(at, n, Len(at)) \in Positions /\ Len(SubSeq(at, n, Len(at))) = Len(at) - n + 1
        BY <4>1, PartOfPiece
      <4>3. Len(at) - n + 1 = Len(at) - k.n BY <1>1
      <4> HIDE DEF n
      <4> QED BY <4>2, <4>3, FirstPlace DEF Bell
    <3>2. n + 1 <= Len(at) BY <2>1, <2>4, <1>1
    <3>3. CASE Bell(at, n) = 0
      <4>1. KeyPass(at, k) = Spinning(k)
        BY <1>4, <2>4, <3>3 DEF KeyPass, Bell, Spinning
      <4>2. Spins(at, k) BY <4>1, <2>4, <3>2, <3>3, <1>4 DEF Spins
      <4> QED BY <4>2
    <3>4. CASE Bell(at, n) # 0
      <4>1. KeyPass(at, k) = After(k.prompt, k.n + Bell(at, n))
        BY <1>4, <2>4, <3>4 DEF KeyPass, Bell
      <4>2. Bell(at, n) \in 1 .. Len(at) - k.n BY <3>1, <3>4
      <4>3. Skips(at, k) BY <4>1, <4>2, <2>4, <3>2, <1>4 DEF Skips
      <4> QED BY <4>3
    <3> QED BY <3>3, <3>4
  <2> QED BY <2>2, <2>3, <2>4
<1> QED BY <1>2, <1>3, <1>4

(* A pass takes no key back, and where it takes none the prompt stays and  *)
(* so would the loop.                                                      *)
LEMMA KeyPassTypes ==
  ASSUME NEW at \in Positions, NEW k \in Passes, k.n <= Len(at)
  PROVE  /\ KeyPass(at, k) \in Passes
         /\ KeyPass(at, k).n <= Len(at) /\ k.n <= KeyPass(at, k).n
         /\ KeyPass(at, k).n = k.n => KeyPass(at, k).prompt = k.prompt
         /\ KeyPass(at, k).n = k.n => KeyPass(at, KeyPass(at, k)) = KeyPass(at, k)
         /\ KeyPass(at, k).n # k.n => ~ KeyPass(at, k).spins
         /\ KeyPass(at, k).n # k.n =>
               KeyPass(at, k) = After(KeyPass(at, k).prompt, KeyPass(at, k).n)
<1> DEFINE n == k.n + 1
<1>1. Len(at) \in Nat /\ k.n \in Nat /\ k.prompt \in Promptly
  BY PositionsSeq DEF Passes
<1>2. CASE Stops(at, k)
  <2>1. KeyPass(at, k) = k BY <1>2 DEF Stops
  <2> QED BY <2>1, <1>1
<1>3. CASE Types(at, k)
  <2> DEFINE q == Key(k.prompt, at[n])
  <2>1. q \in Promptly /\ n \in Nat /\ KeyPass(at, k) = After(q, n) /\ n <= Len(at)
    BY <1>1, <1>3 DEF Types
  <2> HIDE DEF q
  <2>2. /\ KeyPass(at, k) \in Passes /\ KeyPass(at, k).n = n
        /\ ~ KeyPass(at, k).spins /\ KeyPass(at, k).prompt = q
    BY <2>1, AfterFields
  <2> QED BY <2>2, <2>1, <1>1
<1>4. CASE Escapes(at, k)
  <2> DEFINE q == Escape(k.prompt, Char(at[n + 1]))
             m == n + 1
  <2>1. /\ q \in Promptly /\ m \in Nat /\ KeyPass(at, k) = After(q, m) /\ m <= Len(at)
        /\ m > k.n
    BY <1>1, <1>4 DEF Escapes
  <2> HIDE DEF q, m
  <2>2. /\ KeyPass(at, k) \in Passes /\ KeyPass(at, k).n = m
        /\ ~ KeyPass(at, k).spins /\ KeyPass(at, k).prompt = q
    BY <2>1, AfterFields
  <2> QED BY <2>2, <2>1, <1>1
<1>5. CASE Spins(at, k)
  <2> DEFINE l == Spinning(k)
  <2>1. /\ l \in Passes /\ l.n = k.n /\ l.prompt = k.prompt /\ Spinning(l) = l
    BY SpinningFields
  <2>2. /\ ~ (k.prompt.done \/ k.n = Len(at)) /\ n # Len(at)
        /\ Char(at[n]) = "escape" /\ Char(at[n + 1]) = "string" /\ Bell(at, n) = 0
        /\ KeyPass(at, k) = l
    BY <1>1, <1>5 DEF Spins
  <2> HIDE DEF l
  <2>3. KeyPass(at, l) = Spinning(l) BY <2>1, <2>2 DEF KeyPass, Bell, Spinning
  <2> QED BY <2>1, <2>2, <2>3, <1>1
<1>6. CASE Skips(at, k)
  <2> DEFINE m == k.n + Bell(at, n)
  <2>1. m \in Nat /\ m <= Len(at) /\ m > k.n /\ KeyPass(at, k) = After(k.prompt, m)
    BY <1>1, <1>6 DEF Skips
  <2> HIDE DEF m
  <2>2. /\ KeyPass(at, k) \in Passes /\ KeyPass(at, k).n = m
        /\ ~ KeyPass(at, k).spins /\ KeyPass(at, k).prompt = k.prompt
    BY <2>1, <1>1, AfterFields
  <2> QED BY <2>2, <2>1, <1>1
<1> QED BY <1>2, <1>3, <1>4, <1>5, <1>6, KeyPassCases

(* The passes over a piece, one after the other.                           *)
PassesOver(at) == {k \in Passes : k.n <= Len(at)}

Run(p, at, f) ==
  /\ f \in [0 .. Len(at) -> PassesOver(at)]
  /\ f[0] = After(p, 0)
  /\ \A j \in 1 .. Len(at) : f[j] = KeyPass(at, f[j - 1])

(* Keys runs the passes over the piece.                                    *)
LEMMA KeysRun ==
  ASSUME NEW p \in Promptly, NEW at \in Positions
  PROVE  \E f : Run(p, at, f) /\ f[Len(at)] = Keys(p, at)
<1> DEFINE T == PassesOver(at)
           step == [j \in 1 .. Len(at) |-> [k \in T |-> KeyPass(at, k)]]
           Is(f) == f = [j \in 0 .. Len(at) |->
                           IF j = 0 THEN After(p, 0) ELSE KeyPass(at, f[j - 1])]
           run == CHOOSE f : Is(f)
<1>1. Len(at) \in Nat BY PositionsSeq
<1>2. After(p, 0) \in T BY <1>1, AfterFields DEF PassesOver
<1>3. step \in [1 .. Len(at) -> [T -> T]] BY KeyPassTypes DEF PassesOver
<1>4. PICK g : Repeats(g, T, step, After(p, 0), Len(at))
  <2> HIDE DEF T, step
  <2> QED BY <1>1, <1>2, <1>3, Repeated
<1>5. ASSUME NEW j \in 0 .. Len(at)
      PROVE  g[j] = IF j = 0 THEN After(p, 0) ELSE KeyPass(at, g[j - 1])
  <2>1. CASE j = 0 BY <2>1, <1>4 DEF Repeats
  <2>2. CASE j # 0
    <3>1. j \in 1 .. Len(at) /\ j - 1 \in 0 .. Len(at) BY <2>2, <1>1
    <3>2. g[j - 1] \in T BY <3>1, <1>4 DEF Repeats
    <3> HIDE DEF T
    <3> QED BY <3>1, <3>2, <1>4, <2>2 DEF Repeats
  <2> QED BY <2>1, <2>2
<1>6. Is(g)
  <2> HIDE DEF T
  <2> QED BY <1>4, <1>5 DEF Repeats
<1>7. Is(run)
  <2> HIDE DEF Is
  <2> QED BY <1>6
<1>8. run = [j \in 0 .. Len(at) |-> IF j = 0 THEN After(p, 0) ELSE KeyPass(at, run[j - 1])]
  <2> HIDE DEF run
  <2> QED BY <1>7
<1>9. Keys(p, at) = run[Len(at)] BY DEF Keys
<1> HIDE DEF run, Is
<1>10. run[0] = After(p, 0) /\ \A j \in 1 .. Len(at) : run[j] = KeyPass(at, run[j - 1])
  BY <1>1, <1>8
<1>11. \A j \in 0 .. Len(at) : run[j] \in T
  <2> DEFINE P == {j \in 0 .. Len(at) : run[j] \in T}
  <2>1. P \in SUBSET (0 .. Len(at)) /\ 0 \in P BY <1>1, <1>2, <1>10
  <2>2. ASSUME NEW j \in 1 .. Len(at), j - 1 \in P PROVE j \in P
    <3>1. run[j - 1] \in Passes /\ run[j - 1].n <= Len(at)
      BY <2>2 DEF PassesOver
    <3> QED BY <3>1, <1>10, KeyPassTypes DEF PassesOver
  <2>3. \A j \in 0 .. Len(at) : j \in P
    <3> HIDE DEF P
    <3> QED BY <2>1, <2>2, <1>1, UpTo
  <2> QED BY <2>3
<1>12. run = [j \in 0 .. Len(at) |-> run[j]] BY <1>8
<1>13. run \in [0 .. Len(at) -> T]
  <2> HIDE DEF T
  <2> QED BY <1>11, <1>12
<1> QED BY <1>9, <1>10, <1>13 DEF Run

(* Each pass takes a key or the loop has stopped, so the last stops.       *)
LEMMA RunStops ==
  ASSUME NEW p \in Promptly, NEW at \in Positions, NEW f, Run(p, at, f)
  PROVE  KeyPass(at, f[Len(at)]) = f[Len(at)]
<1> DEFINE P == {j \in 0 .. Len(at) : f[j].n >= j \/ KeyPass(at, f[j]) = f[j]}
<1>1. /\ Len(at) \in Nat /\ f[0].n = 0
      /\ \A j \in 0 .. Len(at) : f[j] \in Passes /\ f[j].n <= Len(at) /\ f[j].n \in Nat
  BY PositionsSeq, AfterFields, PassFields DEF Run, PassesOver
<1>2. P \in SUBSET (0 .. Len(at)) /\ 0 \in P BY <1>1
<1>3. ASSUME NEW j \in 1 .. Len(at), j - 1 \in P PROVE j \in P
  <2>1. f[j] = KeyPass(at, f[j - 1]) /\ j - 1 \in 0 .. Len(at) BY <1>1 DEF Run
  <2>2. CASE KeyPass(at, f[j - 1]) = f[j - 1] BY <2>1, <2>2
  <2>3. CASE KeyPass(at, f[j - 1]) # f[j - 1]
    <3>1. f[j - 1].n >= j - 1 BY <2>3, <1>3
    <3>2. f[j].n = f[j - 1].n => KeyPass(at, f[j]) = f[j]
      BY <2>1, <1>1, KeyPassTypes
    <3>3. f[j].n >= f[j - 1].n BY <2>1, <1>1, KeyPassTypes
    <3>4. f[j].n # f[j - 1].n => f[j].n >= j BY <3>1, <3>3, <2>1, <1>1
    <3> QED BY <3>2, <3>4
  <2> QED BY <2>2, <2>3
<1>4. \A j \in 0 .. Len(at) : j \in P
  <2> HIDE DEF P
  <2> QED BY <1>2, <1>3, <1>1, UpTo
<1>5. f[Len(at)].n = Len(at) => KeyPass(at, f[Len(at)]) = f[Len(at)]
  BY DEF KeyPass
<1> QED BY <1>1, <1>4, <1>5

(* Where the loop over a piece ends.                                       *)
LEMMA KeysTypes ==
  ASSUME NEW p \in Promptly, NEW at \in Positions
  PROVE  /\ Keys(p, at) \in Passes /\ Keys(p, at).n \in 0 .. Len(at)
         /\ Keys(p, at).prompt \in Promptly /\ Keys(p, at).spins \in BOOLEAN
         /\ KeyPass(at, Keys(p, at)) = Keys(p, at)
<1>1. PICK f : Run(p, at, f) /\ f[Len(at)] = Keys(p, at) BY KeysRun
<1>2. Len(at) \in Nat BY PositionsSeq
<1>3. Keys(p, at) \in Passes /\ Keys(p, at).n <= Len(at)
  BY <1>1, <1>2 DEF Run, PassesOver
<1>4. KeyPass(at, Keys(p, at)) = Keys(p, at) BY <1>1, RunStops
<1> QED BY <1>2, <1>3, <1>4, PassFields

(* The line ends with the key that ends it.                                *)
LEMMA LineEnds ==
  ASSUME NEW p \in Promptly, NEW at \in Positions, ~ p.done, Keys(p, at).prompt.done
  PROVE  Keys(p, at).n \in 1 .. Len(at) /\ Char(at[Keys(p, at).n]) = "newline"
<1>1. PICK f : Run(p, at, f) /\ f[Len(at)] = Keys(p, at) BY KeysRun
<1> DEFINE P == {j \in 0 .. Len(at) :
                    f[j].prompt.done => f[j].n >= 1 /\ Char(at[f[j].n]) = "newline"}
<1>2. /\ Len(at) \in Nat /\ f[0].prompt = p
      /\ \A j \in 0 .. Len(at) : f[j] \in Passes /\ f[j].n <= Len(at) /\ f[j].n \in Nat
  BY <1>1, PositionsSeq, AfterFields, PassFields DEF Run, PassesOver
<1>3. P \in SUBSET (0 .. Len(at)) /\ 0 \in P BY <1>2
<1>4. ASSUME NEW j \in 1 .. Len(at), j - 1 \in P PROVE j \in P
  <2> DEFINE k == f[j - 1]
  <2>1. f[j] = KeyPass(at, k) /\ k \in Passes /\ k.n <= Len(at) /\ k.n \in Nat
    BY <1>1, <1>2 DEF Run
  <2>2. k.prompt.done => k.n >= 1 /\ Char(at[k.n]) = "newline" BY <1>4
  <2>3. k.prompt \in Promptly BY <2>1, PassFields
  <2> HIDE DEF k
  <2>4. CASE Stops(at, k) BY <2>1, <2>2, <2>4 DEF Stops
  <2>5. CASE Types(at, k)
    <3>1. /\ f[j].prompt = Key(k.prompt, at[k.n + 1]) /\ f[j].n = k.n + 1 /\ ~ k.prompt.done
      BY <2>5, <2>1, AfterFields DEF Types
    <3>2. Key(k.prompt, at[k.n + 1]).done => Char(at[k.n + 1]) = "newline"
      <4> DEFINE x == at[k.n + 1]
      <4>1. /\ ~ [k.prompt EXCEPT !.aborted = TRUE].done
            /\ ~ [k.prompt EXCEPT !.typed = Front(@), !.pos = @ - 1].done
            /\ ~ [k.prompt EXCEPT !.pos = 0].done
            /\ ~ [k.prompt EXCEPT !.pos = Len(k.prompt.typed)].done
        BY <3>1, <2>3 DEF Promptly, Prompts
      <4>2. ~ Type(k.prompt, x).done BY <3>1, <2>3 DEF Type, Promptly, Prompts
      <4> QED BY <4>1, <4>2, <3>1 DEF Key
    <3> QED BY <3>1, <3>2, <2>1
  <2>6. CASE Escapes(at, k)
    <3> DEFINE c == Char(at[k.n + 2])
    <3>1. f[j].prompt = Escape(k.prompt, Char(at[k.n + 1 + 1])) /\ ~ k.prompt.done
      <4>1. k.n + 1 + 1 \in Nat BY <2>1
      <4> QED BY <4>1, <2>6, <2>1, AfterFields DEF Escapes
    <3>2. ASSUME NEW d PROVE ~ Escape(k.prompt, d).done
      BY <3>1, <2>3 DEF Escape, Promptly, Prompts
    <3> QED BY <3>1, <3>2
  <2>7. CASE Spins(at, k) BY <2>7, <2>1, SpinningFields DEF Spins
  <2>8. CASE Skips(at, k)
    <3>1. k.n + Bell(at, k.n + 1) \in Nat BY <2>8, <2>1, <1>2 DEF Skips
    <3>2. f[j].prompt = k.prompt /\ ~ k.prompt.done
      BY <3>1, <2>8, <2>1, <2>3, AfterFields DEF Skips
    <3> QED BY <3>2
  <2> QED BY <2>1, <2>4, <2>5, <2>6, <2>7, <2>8, KeyPassCases
<1>5. \A j \in 0 .. Len(at) : j \in P
  <2> HIDE DEF P
  <2> QED BY <1>2, <1>3, <1>4, UpTo
<1> QED BY <1>1, <1>2, <1>5

(* The next bell.                                                          *)
LEMMA NextBell ==
  ASSUME NEW at \in Positions, NEW n \in 1 .. Len(at)
  PROVE  /\ Bell(at, n) \in 0 .. Len(at) - n + 1
         /\ Bell(at, n) = 0 => \A i \in n .. Len(at) : Char(at[i]) # "bell"
         /\ Bell(at, n) > 0 =>
               /\ Char(at[n + Bell(at, n) - 1]) = "bell"
               /\ \A i \in n .. n + Bell(at, n) - 2 : Char(at[i]) # "bell"
<1> DEFINE s == SubSeq(at, n, Len(at))
<1>1. Len(at) \in Nat BY PositionsSeq
<1>2. /\ s \in Positions /\ Len(s) = Len(at) - n + 1
      /\ \A k \in 1 .. Len(at) - n + 1 : s[k] = at[n + k - 1]
  <2>1. n \in 1 .. Len(at) + 1 /\ Len(at) \in n - 1 .. Len(at) BY <1>1
  <2> QED BY <2>1, PartOfPiece
<1> DEFINE b == FirstOf(s, {"bell"})
<1> HIDE DEF s
<1>3. /\ b \in 0 .. Len(s)
      /\ b = 0 => \A k \in 1 .. Len(s) : Char(s[k]) # "bell"
      /\ b > 0 => Char(s[b]) = "bell" /\ \A k \in 1 .. b - 1 : Char(s[k]) # "bell"
  BY <1>2, FirstPlace
<1>4. Bell(at, n) = b BY DEF Bell, s
<1> HIDE DEF b
<1>5. ASSUME NEW i \in n .. Len(at) PROVE i - n + 1 \in 1 .. Len(s) /\ s[i - n + 1] = at[i]
  <2>1. i - n + 1 \in 1 .. Len(at) - n + 1 /\ n + (i - n + 1) - 1 = i BY <1>1
  <2> QED BY <2>1, <1>2
<1>6. b = 0 => \A i \in n .. Len(at) : Char(at[i]) # "bell" BY <1>3, <1>5
<1>7. b > 0 => Char(at[n + b - 1]) = "bell"
  <2> HAVE b > 0
  <2>1. b \in 1 .. Len(at) - n + 1 BY <1>1, <1>2, <1>3
  <2> QED BY <2>1, <1>2, <1>3
<1>8. b > 0 => \A i \in n .. n + b - 2 : Char(at[i]) # "bell"
  <2> HAVE b > 0
  <2> TAKE i \in n .. n + b - 2
  <2>1. i \in n .. Len(at) /\ i - n + 1 \in 1 .. b - 1 BY <1>1, <1>2, <1>3
  <2> QED BY <2>1, <1>3, <1>5
<1> QED BY <1>2, <1>3, <1>4, <1>6, <1>7, <1>8

(* A bell that is the first is the next.                                   *)
LEMMA BellIsNext ==
  ASSUME NEW at \in Positions, NEW n \in 1 .. Len(at), NEW b \in 1 .. Len(at) - n + 1,
         Char(at[n + b - 1]) = "bell", \A i \in n .. n + b - 2 : Char(at[i]) # "bell"
  PROVE  Bell(at, n) = b
<1> DEFINE a == Bell(at, n)
<1>1. Len(at) \in Nat BY PositionsSeq
<1>2. /\ a \in 0 .. Len(at) - n + 1
      /\ a = 0 => \A i \in n .. Len(at) : Char(at[i]) # "bell"
      /\ a > 0 => /\ Char(at[n + a - 1]) = "bell"
                  /\ \A i \in n .. n + a - 2 : Char(at[i]) # "bell"
  BY NextBell
<1> HIDE DEF a
<1>3. n + b - 1 \in n .. Len(at) BY <1>1
<1>4. a > 0 BY <1>2, <1>3
<1>5. ~ (a < b)
  <2> SUFFICES ASSUME a < b PROVE FALSE OBVIOUS
  <2>1. n + a - 1 \in n .. n + b - 2 BY <1>1, <1>2, <1>4
  <2> QED BY <2>1, <1>2, <1>4
<1>6. ~ (b < a)
  <2> SUFFICES ASSUME b < a PROVE FALSE OBVIOUS
  <2>1. n + b - 1 \in n .. n + a - 2 BY <1>1, <1>2, <1>4
  <2> QED BY <2>1, <1>2, <1>4
<1>7. a = b BY <1>1, <1>2, <1>5, <1>6
<1> QED BY <1>7 DEF a

(* A pass that takes a key looks no further than this key goes.            *)
Begins(x, z) ==
  /\ x \in Positions /\ z \in Positions /\ Len(x) <= Len(z)
  /\ \A i \in 1 .. Len(x) : z[i] = x[i]

(* So it is the same pass over all pieces that begin in the same way.      *)
LEMMA KeyIsLocal ==
  ASSUME NEW x, NEW z, Begins(x, z), NEW k \in Passes, k.n <= Len(x)
  PROVE  /\ KeyPass(x, k).n > k.n => KeyPass(z, k) = KeyPass(x, k)
         /\ KeyPass(z, k).n > k.n /\ KeyPass(z, k).n <= Len(x) => KeyPass(x, k) = KeyPass(z, k)
<1> DEFINE n == k.n + 1
<1>1. /\ x \in Positions /\ z \in Positions /\ Len(x) <= Len(z)
      /\ \A i \in 1 .. Len(x) : z[i] = x[i]
      /\ Len(x) \in Nat /\ Len(z) \in Nat /\ k.n \in Nat /\ k.n <= Len(z)
      /\ k.prompt \in Promptly
  BY PositionsSeq, PassFields DEF Begins
<1>2. ASSUME KeyPass(x, k).n > k.n PROVE KeyPass(z, k) = KeyPass(x, k)
  <2>1. ~ Stops(x, k) BY <1>1, <1>2 DEF Stops
  <2>2. ~ Spins(x, k) BY <1>1, <1>2, SpinningFields DEF Spins
  <2>3. CASE Types(x, k)
    <3>1. n \in 1 .. Len(x) /\ n # Len(z) + 1 /\ k.n # Len(z) /\ z[n] = x[n]
      BY <2>3, <1>1 DEF Types
    <3> QED BY <3>1, <2>3 DEF Types, KeyPass
  <2>4. CASE Escapes(x, k)
    <3>1. /\ n \in 1 .. Len(x) /\ n + 1 \in 1 .. Len(x) /\ k.n # Len(z) /\ n # Len(z)
          /\ z[n] = x[n] /\ z[n + 1] = x[n + 1]
      BY <2>4, <1>1 DEF Escapes
    <3> QED BY <3>1, <2>4 DEF Escapes, KeyPass
  <2>5. CASE Skips(x, k)
    <3> DEFINE b == Bell(x, n)
    <3>1. /\ n \in 1 .. Len(x) /\ n + 1 \in 1 .. Len(x) /\ k.n # Len(z) /\ n # Len(z)
          /\ z[n] = x[n] /\ z[n + 1] = x[n + 1] /\ n \in 1 .. Len(z)
      BY <2>5, <1>1 DEF Skips
    <3>2. b \in 1 .. Len(x) - k.n BY <2>5 DEF Skips
    <3>3. Char(x[n + b - 1]) = "bell" /\ \A i \in n .. n + b - 2 : Char(x[i]) # "bell"
      <4>1. b > 0 BY <3>2, <1>1
      <4> HIDE DEF n
      <4> QED BY <4>1, <3>1, <1>1, NextBell
    <3> HIDE DEF b
    <3>4. /\ b \in 1 .. Len(z) - n + 1 /\ n + b - 1 \in 1 .. Len(x)
          /\ \A i \in n .. n + b - 2 : i \in 1 .. Len(x)
      <4>1. \A l, m, c, j \in Nat :
               /\ c \in 1 .. l - j /\ l <= m
               => /\ c \in 1 .. m - (j + 1) + 1 /\ (j + 1) + c - 1 \in 1 .. l
                  /\ \A i \in (j + 1) .. (j + 1) + c - 2 : i \in 1 .. l
        OBVIOUS
      <4>2. b \in Nat BY <3>2, <1>1
      <4> QED BY <4>1, <4>2, <3>2, <1>1
    <3>5. Char(z[n + b - 1]) = "bell" /\ \A i \in n .. n + b - 2 : Char(z[i]) # "bell"
      BY <3>3, <3>4, <1>1
    <3>6. Bell(z, n) = b
      <4> HIDE DEF n
      <4> QED BY <3>1, <3>4, <3>5, <1>1, BellIsNext
    <3>7. b # 0 BY <3>2, <1>1
    <3>8. KeyPass(z, k) = After(k.prompt, k.n + b)
      BY <3>1, <3>6, <3>7, <2>5 DEF Skips, KeyPass, Bell
    <3> QED BY <3>8, <2>5 DEF Skips, b
  <2> QED BY <2>1, <2>2, <2>3, <2>4, <2>5, <1>1, KeyPassCases
<1>3. ASSUME KeyPass(z, k).n > k.n, KeyPass(z, k).n <= Len(x)
      PROVE  KeyPass(x, k) = KeyPass(z, k)
  <2>1. ~ Stops(z, k) BY <1>1, <1>3 DEF Stops
  <2>2. ~ Spins(z, k) BY <1>1, <1>3, SpinningFields DEF Spins
  <2>3. CASE Types(z, k)
    <3>1. KeyPass(z, k).n = n BY <2>3, <1>1, AfterFields DEF Types
    <3>2. n \in 1 .. Len(x) /\ k.n # Len(x) /\ z[n] = x[n] BY <3>1, <1>1, <1>3
    <3> QED BY <3>2, <2>3 DEF Types, KeyPass
  <2>4. CASE Escapes(z, k)
    <3>1. KeyPass(z, k).n = n + 1
      <4>1. n + 1 \in Nat BY <1>1
      <4> QED BY <4>1, <2>4, <1>1, AfterFields DEF Escapes
    <3>2. /\ n \in 1 .. Len(x) /\ n + 1 \in 1 .. Len(x) /\ k.n # Len(x) /\ n # Len(x)
          /\ z[n] = x[n] /\ z[n + 1] = x[n + 1]
      BY <3>1, <1>1, <1>3
    <3> QED BY <3>2, <2>4 DEF Escapes, KeyPass
  <2>5. CASE Skips(z, k)
    <3> DEFINE b == Bell(z, n)
    <3>1. b \in 1 .. Len(z) - k.n /\ n + 1 <= Len(z) BY <2>5 DEF Skips
    <3>2. k.n + b <= Len(x)
      <4>1. k.n + b \in Nat BY <3>1, <1>1
      <4>2. KeyPass(z, k).n = k.n + b BY <4>1, <2>5, <1>1, AfterFields DEF Skips
      <4> QED BY <4>2, <1>3
    <3>3. n \in 1 .. Len(z) BY <3>1, <1>1
    <3>4. Char(z[n + b - 1]) = "bell" /\ \A i \in n .. n + b - 2 : Char(z[i]) # "bell"
      <4>1. b > 0 BY <3>1, <1>1
      <4> HIDE DEF n
      <4> QED BY <4>1, <3>3, <1>1, NextBell
    <3>5. b # 1
      <4> SUFFICES ASSUME b = 1 PROVE FALSE OBVIOUS
      <4>1. Char(z[n]) = "bell"
        <5>1. n + 1 - 1 = n BY <1>1
        <5> QED BY <5>1, <3>4
      <4> QED BY <4>1, <2>5 DEF Skips
    <3> HIDE DEF b
    <3>6. /\ n \in 1 .. Len(x) /\ n + 1 \in 1 .. Len(x) /\ k.n # Len(x) /\ n # Len(x)
          /\ z[n] = x[n] /\ z[n + 1] = x[n + 1]
      BY SMTT(30), <3>1, <3>2, <3>5, <1>1
    <3>7. /\ b \in 1 .. Len(x) - n + 1 /\ n + b - 1 \in 1 .. Len(x)
          /\ \A i \in n .. n + b - 2 : i \in 1 .. Len(x)
      BY <3>1, <3>2, <1>1
    <3>8. Char(x[n + b - 1]) = "bell" /\ \A i \in n .. n + b - 2 : Char(x[i]) # "bell"
      BY <3>4, <3>7, <1>1
    <3>9. Bell(x, n) = b
      <4> HIDE DEF n
      <4> QED BY <3>6, <3>7, <3>8, <1>1, BellIsNext
    <3>10. b # 0 BY <3>1, <1>1
    <3>11. KeyPass(x, k) = After(k.prompt, k.n + b)
      BY <3>6, <3>9, <3>10, <2>5 DEF Skips, KeyPass, Bell
    <3> QED BY <3>11, <2>5 DEF Skips, b
  <2> QED BY <2>1, <2>2, <2>3, <2>4, <2>5, <1>1, KeyPassCases
<1> QED BY <1>2, <1>3

(* A loop that has stopped stays where it is.                              *)
LEMMA RunStays ==
  ASSUME NEW p, NEW at \in Positions, NEW f, Run(p, at, f), NEW i \in 0 .. Len(at),
         KeyPass(at, f[i]) = f[i]
  PROVE  f[Len(at)] = f[i]
<1> DEFINE P == {j \in 0 .. Len(at) : j >= i => f[j] = f[i]}
<1>1. Len(at) \in Nat BY PositionsSeq
<1>2. P \in SUBSET (0 .. Len(at)) /\ 0 \in P BY <1>1
<1>3. ASSUME NEW j \in 1 .. Len(at), j - 1 \in P PROVE j \in P
  <2>1. f[j] = KeyPass(at, f[j - 1]) BY DEF Run
  <2>2. j - 1 >= i \/ j = i \/ j < i BY <1>1
  <2> QED BY <2>1, <2>2, <1>3
<1>4. \A j \in 0 .. Len(at) : j \in P
  <2> HIDE DEF P
  <2> QED BY <1>1, <1>2, <1>3, UpTo
<1> QED BY <1>1, <1>4

(* Two loops over pieces one of which the other begins with go the same    *)
(* way, as far as both pieces go.                                          *)
LEMMA RunFollows ==
  ASSUME NEW p \in Promptly, NEW a, NEW b, Begins(a, b) \/ Begins(b, a),
         NEW f, Run(p, a, f), NEW g, Run(p, b, g)
  PROVE  \A j \in 0 .. Len(a) :
            f[j].n <= Len(b) =>
               \E i \in 0 .. Len(b) : i <= f[j].n /\ g[i] = After(f[j].prompt, f[j].n)
<1> DEFINE There(j, i) == i <= f[j].n /\ g[i] = After(f[j].prompt, f[j].n)
           P == {j \in 0 .. Len(a) : f[j].n <= Len(b) => \E i \in 0 .. Len(b) : There(j, i)}
<1>1. a \in Positions /\ b \in Positions /\ Len(a) \in Nat /\ Len(b) \in Nat
  BY PositionsSeq DEF Begins
<1>2. \A j \in 0 .. Len(a) : /\ f[j] \in Passes /\ f[j].n \in Nat /\ f[j].n <= Len(a)
                             /\ f[j].prompt \in Promptly
  BY PassFields DEF Run, PassesOver
<1>3. P \in SUBSET (0 .. Len(a)) /\ 0 \in P
  <2>1. f[0] = After(p, 0) /\ g[0] = After(p, 0) /\ f[0].n = 0 /\ f[0].prompt = p
    BY AfterFields DEF Run
  <2>2. There(0, 0) BY <2>1
  <2> QED BY <2>2, <1>1
<1>4. ASSUME NEW j \in 1 .. Len(a), j - 1 \in P PROVE j \in P
  <2> DEFINE k == f[j - 1]
             l == After(k.prompt, k.n)
  <2>1. /\ f[j] = KeyPass(a, k) /\ k \in Passes /\ k.n \in Nat /\ k.n <= Len(a)
        /\ k.prompt \in Promptly /\ f[j].n \in Nat /\ f[j].n >= k.n
    BY <1>1, <1>2, KeyPassTypes DEF Run
  <2>2. l \in Passes /\ l.n = k.n /\ l.prompt = k.prompt BY <2>1, AfterFields
  <2> SUFFICES ASSUME f[j].n <= Len(b) PROVE \E i \in 0 .. Len(b) : There(j, i)
    OBVIOUS
  <2>3. PICK i \in 0 .. Len(b) : i <= k.n /\ g[i] = l BY <2>1, <1>1, <1>4
  <2> HIDE DEF k
  <2>4. CASE f[j].n = k.n
    <3>1. f[j].prompt = k.prompt BY <2>4, <2>1, <1>1, KeyPassTypes
    <3>2. There(j, i) BY <3>1, <2>3, <2>4
    <3> QED BY <3>2
  <2>5. CASE f[j].n # k.n
    <3>1. KeyPass(a, l) = KeyPass(a, k)
      <4>1. ~ Stops(a, k) /\ ~ Spins(a, k)
        BY <2>1, <2>5, SpinningFields DEF Stops, Spins
      <4>2. CASE Types(a, k) BY <4>2, <2>1, <2>2 DEF Types, KeyPass
      <4>3. CASE Escapes(a, k) BY <4>3, <2>1, <2>2 DEF Escapes, KeyPass
      <4>4. CASE Skips(a, k) BY <4>4, <2>1, <2>2 DEF Skips, KeyPass, Bell
      <4> QED BY <4>1, <4>2, <4>3, <4>4, <2>1, <1>1, KeyPassCases
    <3>2. KeyPass(a, l).n > l.n /\ KeyPass(a, l).n <= Len(b) /\ l.n <= Len(b) /\ l.n <= Len(a)
      BY <3>1, <2>1, <2>2, <2>5, <1>1
    <3>3. KeyPass(b, l) = KeyPass(a, l)
      <4>1. CASE Begins(a, b)
        <5> HIDE DEF l
        <5> QED BY <4>1, <3>2, <2>2, KeyIsLocal
      <4>2. CASE Begins(b, a)
        <5> HIDE DEF l
        <5> QED BY <4>2, <3>2, <2>2, KeyIsLocal
      <4> QED BY <4>1, <4>2
    <3>4. i + 1 \in 0 .. Len(b) /\ i + 1 \in 1 .. Len(b) /\ (i + 1) - 1 = i /\ i + 1 <= f[j].n
      BY <2>1, <2>3, <2>5, <1>1
    <3>5. g[i + 1] = f[j] BY <3>1, <3>3, <3>4, <2>1, <2>3 DEF Run
    <3>6. f[j] = After(f[j].prompt, f[j].n) BY <2>1, <2>5, <1>1, KeyPassTypes
    <3>7. There(j, i + 1) BY <3>4, <3>5, <3>6
    <3> QED BY <3>4, <3>7
  <2> QED BY <2>4, <2>5
<1>5. \A j \in 0 .. Len(a) : j \in P
  <2> HIDE DEF P
  <2> QED BY <1>1, <1>3, <1>4, UpTo
<1> QED BY <1>5

(* The keys that were taken of a piece are taken of it also alone.         *)
LEMMA KeysOfPrefix ==
  ASSUME NEW p \in Promptly, NEW at \in Positions
  PROVE  LET x == SubSeq(at, 1, Keys(p, at).n)
         IN /\ x \in Positions /\ Len(x) = Keys(p, at).n
            /\ Keys(p, x).n = Len(x) /\ Keys(p, x).prompt = Keys(p, at).prompt
<1> DEFINE r == Keys(p, at)
           x == SubSeq(at, 1, r.n)
<1>1. r \in Passes /\ r.n \in 0 .. Len(at) /\ r.prompt \in Promptly /\ Len(at) \in Nat
  BY KeysTypes, PositionsSeq
<1>2. x \in Positions /\ Len(x) = r.n /\ \A k \in 1 .. r.n : x[k] = at[k]
  <2> HIDE DEF r
  <2>1. 1 \in 1 .. Len(at) + 1 /\ r.n \in 1 - 1 .. Len(at) /\ r.n - 1 + 1 = r.n
    BY <1>1
  <2>2. x \in Positions /\ Len(x) = r.n /\ \A k \in 1 .. r.n : x[k] = at[1 + k - 1]
    BY <2>1, PartOfPiece
  <2>3. \A k \in 1 .. r.n : 1 + k - 1 = k BY <1>1
  <2> QED BY <2>2, <2>3
<1>3. PICK f : Run(p, at, f) /\ f[Len(at)] = r BY KeysRun
<1> HIDE DEF r
<1>4. PICK g : Run(p, x, g) /\ g[Len(x)] = Keys(p, x)
  <2> HIDE DEF x
  <2> QED BY <1>2, KeysRun
<1> HIDE DEF x
<1>5. Begins(x, at) BY <1>1, <1>2 DEF Begins
<1>6. PICK i \in 0 .. Len(x) : g[i] = After(r.prompt, r.n)
  <2>1. Len(at) \in 0 .. Len(at) /\ f[Len(at)].n <= Len(x) BY <1>1, <1>2, <1>3
  <2> QED BY <2>1, <1>3, <1>4, <1>5, RunFollows
<1>7. g[i].n = Len(x) /\ g[i].prompt = r.prompt BY <1>1, <1>2, <1>6, AfterFields
<1>8. KeyPass(x, g[i]) = g[i] BY <1>7 DEF KeyPass
<1>9. Keys(p, x) = g[i] BY <1>2, <1>4, <1>8, RunStays
<1> QED BY <1>2, <1>7, <1>9 DEF x, r

(* Where a loop is, a piece further on.                                    *)
Shifted(k, m) == [prompt |-> k.prompt, n |-> m + k.n, spins |-> k.spins]

(* A pass over the second of two pieces is the same pass further on.       *)
LEMMA KeyShift ==
  ASSUME NEW x \in Positions, NEW y \in Positions, NEW k \in Passes, k.n <= Len(y)
  PROVE  /\ Shifted(k, Len(x)) \in Passes
         /\ KeyPass(x \o y, Shifted(k, Len(x))) = Shifted(KeyPass(y, k), Len(x))
<1> DEFINE n == k.n + 1
           m == Len(x)
           z == x \o y
           l == Shifted(k, Len(x))
<1>1. /\ Len(y) \in Nat /\ k.n \in Nat /\ k.prompt \in Promptly /\ k.spins \in BOOLEAN
      /\ m \in Nat
  BY PositionsSeq, PassFields
<1>2. /\ z \in Positions /\ Len(z) = m + Len(y)
      /\ \A i \in 1 .. Len(y) : z[m + i] = y[i]
  BY Joined
<1>3. l \in Passes /\ l.prompt = k.prompt /\ l.n = m + k.n
  BY <1>1 DEF Passes, Shifted
<1>4. l.n + 1 = m + n /\ (l.n = Len(z) <=> k.n = Len(y)) /\ (m + n = Len(z) <=> n = Len(y))
  <2>1. \A a, b, c \in Nat : /\ (a + b) + 1 = a + (b + 1)
                             /\ a + b = a + c <=> b = c
                             /\ a + (b + 1) = a + c <=> b + 1 = c
    OBVIOUS
  <2>2. l.n = m + k.n /\ Len(z) = m + Len(y) BY <1>2, <1>3
  <2> DEFINE a == k.n
             c == Len(y)
  <2>3. a \in Nat /\ c \in Nat /\ l.n = m + a /\ Len(z) = m + c /\ n = a + 1
    BY <2>2, <1>1
  <2> HIDE DEF z, l, m, n, a, c
  <2>4. l.n + 1 = m + n BY <2>1, <2>3, <1>1
  <2>5. l.n = Len(z) <=> a = c BY <2>1, <2>3, <1>1
  <2>6. m + n = Len(z) <=> n = c BY <2>1, <2>3, <1>1
  <2> QED BY <2>4, <2>5, <2>6 DEF a, c
<1> HIDE DEF z, l, m
<1>5. KeyPass(z, l) = Shifted(KeyPass(y, k), m)
  <2>1. CASE Stops(y, k)
    <3>1. \/ l.prompt.done \/ l.n = Len(z)
          \/ l.n + 1 = Len(z) /\ Char(z[l.n + 1]) = "escape"
      <4>1. n = Len(y) => z[l.n + 1] = y[n] BY <1>1, <1>2, <1>4
      <4> QED BY <4>1, <2>1, <1>3, <1>4 DEF Stops
    <3>2. KeyPass(z, l) = l BY <3>1 DEF KeyPass
    <3> QED BY <3>2, <2>1 DEF Stops, l, m
  <2>2. CASE Types(y, k)
    <3> DEFINE q == Key(k.prompt, y[n])
    <3>1. n \in 1 .. Len(y) /\ z[m + n] = y[n] /\ k.n # Len(y)
      BY <2>2, <1>1, <1>2 DEF Types
    <3>2. KeyPass(z, l) = After(q, m + n)
      BY <3>1, <2>2, <1>3, <1>4 DEF Types, KeyPass
    <3>3. KeyPass(y, k) = After(q, n) /\ q \in Promptly /\ n \in Nat
      BY <2>2, <1>1 DEF Types
    <3> HIDE DEF q, n
    <3> QED BY <3>2, <3>3 DEF After, Shifted
  <2>3. CASE Escapes(y, k)
    <3> DEFINE q == Escape(k.prompt, Char(y[n + 1]))
    <3>1. /\ n \in 1 .. Len(y) /\ z[m + n] = y[n] /\ k.n # Len(y) /\ n # Len(y)
          /\ n + 1 \in 1 .. Len(y) /\ z[m + (n + 1)] = y[n + 1]
          /\ m + n + 1 = m + (n + 1)
      <4>1. n \in Nat /\ n + 1 <= Len(y) /\ n = k.n + 1
        BY <2>3, <1>1 DEF Escapes
      <4>2. n \in 1 .. Len(y) /\ k.n # Len(y) /\ n # Len(y) /\ n + 1 \in 1 .. Len(y)
        BY <4>1, <1>1
      <4>3. m + n + 1 = m + (n + 1) BY <4>1, <1>1
      <4> HIDE DEF n
      <4> QED BY <4>2, <4>3, <1>2
    <3>2. KeyPass(z, l) = After(q, m + (n + 1))
      BY <3>1, <2>3, <1>3, <1>4 DEF Escapes, KeyPass
    <3>3. KeyPass(y, k) = After(q, n + 1) BY <2>3, <1>1 DEF Escapes
    <3> HIDE DEF q, n
    <3> QED BY <3>2, <3>3 DEF After, Shifted
  <2>4. CASE Spins(y, k) \/ Skips(y, k)
    <3> DEFINE b == Bell(y, n)
    <3>1. /\ n \in 1 .. Len(y) /\ z[m + n] = y[n] /\ k.n # Len(y) /\ n # Len(y)
          /\ n + 1 \in 1 .. Len(y) /\ z[m + (n + 1)] = y[n + 1]
          /\ m + n + 1 = m + (n + 1) /\ m + n \in 1 .. Len(z)
          /\ ~ k.prompt.done /\ Char(y[n]) = "escape" /\ Char(y[n + 1]) = "string"
      <4>1. /\ n \in Nat /\ n + 1 <= Len(y) /\ n = k.n + 1
            /\ ~ k.prompt.done /\ Char(y[n]) = "escape" /\ Char(y[n + 1]) = "string"
        BY <2>4, <1>1 DEF Spins, Skips
      <4>2. n \in 1 .. Len(y) /\ k.n # Len(y) /\ n # Len(y) /\ n + 1 \in 1 .. Len(y)
        BY <4>1, <1>1
      <4>3. m + n + 1 = m + (n + 1) /\ m + n \in 1 .. m + Len(y) BY <4>1, <1>1
      <4> HIDE DEF n
      <4> QED BY <4>1, <4>2, <4>3, <1>2
    <3>2. Bell(z, m + n) = b
      <4>1. CASE b = 0
        <5>1. \A i \in n .. Len(y) : Char(y[i]) # "bell"
          <6> HIDE DEF n
          <6> QED BY <4>1, <3>1, NextBell
        <5>2. ASSUME NEW i \in m + n .. Len(z) PROVE Char(z[i]) # "bell"
          <6>1. i - m \in n .. Len(y) /\ m + (i - m) = i /\ i - m \in 1 .. Len(y)
            BY <1>1, <1>2, <3>1
          <6> QED BY SMTT(30), <6>1, <5>1, <1>2
        <5>3. Bell(z, m + n) \in 0 .. Len(z) - (m + n) + 1
          BY <3>1, <1>2, NextBell
        <5>4. Bell(z, m + n) > 0 =>
                 /\ Char(z[m + n + Bell(z, m + n) - 1]) = "bell"
          BY <3>1, <1>2, NextBell
        <5>5. Bell(z, m + n) > 0 => m + n + Bell(z, m + n) - 1 \in m + n .. Len(z)
          <6>1. \A c, d, e \in Nat : e \in 0 .. d - c + 1 /\ e > 0 => c + e - 1 \in c .. d
            OBVIOUS
          <6>2. m + n \in Nat /\ Len(z) \in Nat /\ Bell(z, m + n) \in Nat
            BY <5>3, <3>1, <1>1, <1>2
          <6> HIDE DEF n
          <6> QED BY <6>1, <6>2, <5>3
        <5>6. ~ (Bell(z, m + n) > 0) BY <5>2, <5>4, <5>5
        <5>7. Bell(z, m + n) \in Nat BY <5>3, <3>1, <1>1, <1>2
        <5> QED BY <5>6, <5>7, <4>1
      <4>2. CASE b # 0
        <5>1. /\ b \in 1 .. Len(y) - n + 1
              /\ Char(y[n + b - 1]) = "bell"
              /\ \A i \in n .. n + b - 2 : Char(y[i]) # "bell"
          <6>1. b \in 0 .. Len(y) - n + 1
            <7> HIDE DEF n
            <7> QED BY <3>1, NextBell
          <6>2. b > 0 /\ b \in 1 .. Len(y) - n + 1
            <7>1. \A c \in Int : \A e : e \in 0 .. c /\ e # 0 => e > 0 /\ e \in 1 .. c
              BY SMTT(30)
            <7>2. Len(y) - n + 1 \in Int BY <1>1, <3>1
            <7> HIDE DEF n, b
            <7> QED BY <6>1, <4>2, <7>1, <7>2
          <6> HIDE DEF n
          <6> QED BY <6>2, <3>1, NextBell
        <5> HIDE DEF b
        <5>2. /\ b \in 1 .. Len(z) - (m + n) + 1
              /\ n + b - 1 \in 1 .. Len(y) /\ (m + n) + b - 1 = m + (n + b - 1)
          <6>1. \A a, c, d, e \in Nat :
                   c \in 1 .. d /\ e \in 1 .. d - c + 1
                   => /\ e \in 1 .. (a + d) - (a + c) + 1
                      /\ c + e - 1 \in 1 .. d /\ (a + c) + e - 1 = a + (c + e - 1)
            OBVIOUS
          <6>2. n \in Nat /\ b \in Nat
            <7>1. n \in Nat BY <1>1
            <7>2. b \in 1 .. Len(y) - n + 1 BY <5>1
            <7> HIDE DEF n
            <7> QED BY <7>1, <7>2, <1>1
          <6> DEFINE d == Len(y)
          <6>3. n \in 1 .. d /\ b \in 1 .. d - n + 1 /\ d \in Nat /\ Len(z) = m + d
            BY <5>1, <3>1, <1>1, <1>2
          <6> HIDE DEF n, d
          <6> QED BY <6>1, <6>2, <6>3, <1>1 DEF d
        <5>3. ASSUME NEW i \in m + n .. (m + n) + b - 2 PROVE Char(z[i]) # "bell"
          <6>1. \A a, c, d, e \in Nat : \A j \in a + c .. (a + c) + e - 2 :
                   c \in 1 .. d /\ e \in 1 .. d - c + 1
                   => j - a \in c .. c + e - 2 /\ a + (j - a) = j /\ j - a \in 1 .. d
            OBVIOUS
          <6>2. n \in Nat /\ b \in Nat
            <7>1. n \in Nat BY <1>1
            <7>2. b \in 1 .. Len(y) - n + 1 BY <5>1
            <7> HIDE DEF n
            <7> QED BY <7>1, <7>2, <1>1
          <6>3. i - m \in n .. n + b - 2 /\ m + (i - m) = i /\ i - m \in 1 .. Len(y)
            <7> HIDE DEF n
            <7> QED BY <6>1, <6>2, <5>1, <3>1, <1>1
          <6> HIDE DEF n
          <6> QED BY <6>3, <5>1, <1>2
        <5>4. Char(z[(m + n) + b - 1]) = "bell" BY <5>1, <5>2, <1>2
        <5> HIDE DEF n
        <5> QED BY <5>2, <5>3, <5>4, <3>1, <1>2, BellIsNext DEF b
      <4> QED BY <4>1, <4>2
    <3>3. CASE Spins(y, k)
      <4>1. b = 0 /\ KeyPass(y, k) = Spinning(k) BY <3>3 DEF Spins
      <4>2. KeyPass(z, l) = Spinning(l)
        BY <4>1, <3>1, <3>2, <1>3, <1>4 DEF KeyPass, Bell, Spinning
      <4> QED BY <4>1, <4>2, <1>3 DEF Spinning, Shifted
    <3>4. CASE Skips(y, k)
      <4>1. b \in 1 .. Len(y) - k.n /\ KeyPass(y, k) = After(k.prompt, k.n + b)
        BY <3>4 DEF Skips
      <4>2. b # 0 /\ b \in Nat BY <4>1, <1>1
      <4>3. KeyPass(z, l) = After(k.prompt, l.n + b)
        BY <4>2, <3>1, <3>2, <1>3, <1>4 DEF KeyPass, Bell
      <4>4. l.n + b = m + (k.n + b) BY <4>2, <1>1, <1>3
      <4>5. KeyPass(y, k) = After(k.prompt, k.n + b) BY <4>1
      <4> HIDE DEF b
      <4>6. KeyPass(z, l) = After(k.prompt, m + (k.n + b)) BY <4>3, <4>4
      <4>7. \A q, i, j : Shifted(After(q, j), i) = After(q, i + j)
        BY DEF After, Shifted
      <4> QED BY <4>5, <4>6, <4>7
    <3> QED BY <2>4, <3>3, <3>4
  <2> QED BY <2>1, <2>2, <2>3, <2>4, KeyPassCases
<1> QED BY <1>3, <1>5 DEF l, m, z

(* When all of a piece is taken, the keys of the next go on from there, as *)
(* if both had come at once.                                               *)
LEMMA KeysCompose ==
  ASSUME NEW p \in Promptly, NEW x \in Positions, NEW y \in Positions,
         Keys(p, x).n = Len(x)
  PROVE  Keys(p, x \o y) = Shifted(Keys(Keys(p, x).prompt, y), Len(x))
<1> DEFINE q == Keys(p, x).prompt
           z == x \o y
<1>1. /\ z \in Positions /\ Len(z) = Len(x) + Len(y) /\ Len(x) \in Nat /\ Len(y) \in Nat
      /\ \A i \in 1 .. Len(x) : z[i] = x[i]
  BY Joined, PositionsSeq
<1>2. q \in Promptly BY KeysTypes
<1> HIDE DEF z
<1>3. PICK f : Run(p, x, f) /\ f[Len(x)] = Keys(p, x) BY KeysRun
<1>4. f[Len(x)].n = Len(x) /\ f[Len(x)].prompt = q BY <1>3
<1> HIDE DEF q
<1>5. PICK g : Run(p, z, g) /\ g[Len(z)] = Keys(p, z) BY <1>1, KeysRun
<1>6. PICK h : Run(q, y, h) /\ h[Len(y)] = Keys(q, y) BY <1>2, KeysRun
<1>7. PICK i \in 0 .. Len(z) : i <= Len(x) /\ g[i] = After(q, Len(x))
  <2>1. Begins(x, z) BY <1>1 DEF Begins
  <2>2. Len(x) \in 0 .. Len(x) /\ f[Len(x)].n <= Len(z) BY <1>1, <1>4
  <2> QED BY <2>1, <2>2, <1>3, <1>4, <1>5, RunFollows
<1> DEFINE P == {j \in 0 .. Len(y) : g[i + j] = Shifted(h[j], Len(x))}
<1>8. P \in SUBSET (0 .. Len(y)) /\ 0 \in P
  <2>1. i + 0 = i /\ Len(x) + 0 = Len(x) BY <1>1, <1>7
  <2>2. h[0] = After(q, 0) BY <1>6 DEF Run
  <2>3. Shifted(After(q, 0), Len(x)) = After(q, Len(x))
    BY <2>1 DEF Shifted, After
  <2> QED BY <2>1, <2>2, <2>3, <1>7, <1>1
<1>9. ASSUME NEW j \in 1 .. Len(y), j - 1 \in P PROVE j \in P
  <2>1. i + j \in 1 .. Len(z) /\ (i + j) - 1 = i + (j - 1) /\ j - 1 \in 0 .. Len(y)
    BY <1>1, <1>7
  <2>2. h[j - 1] \in Passes /\ h[j - 1].n <= Len(y)
    BY <2>1, <1>6 DEF Run, PassesOver
  <2>3. g[i + j] = KeyPass(z, g[i + (j - 1)]) /\ h[j] = KeyPass(y, h[j - 1])
    BY <2>1, <1>5, <1>6 DEF Run
  <2>4. KeyPass(z, Shifted(h[j - 1], Len(x))) = Shifted(KeyPass(y, h[j - 1]), Len(x))
    BY <2>2, KeyShift DEF z
  <2> QED BY <2>3, <2>4, <1>9
<1>10. \A j \in 0 .. Len(y) : j \in P
  <2> HIDE DEF P
  <2> QED BY <1>1, <1>8, <1>9, UpTo
<1>11. g[i + Len(y)] = Shifted(h[Len(y)], Len(x)) /\ i + Len(y) \in 0 .. Len(z)
  BY <1>1, <1>7, <1>10
<1>12. KeyPass(z, g[i + Len(y)]) = g[i + Len(y)]
  <2>1. h[Len(y)] \in Passes /\ h[Len(y)].n <= Len(y)
    BY <1>1, <1>6 DEF Run, PassesOver
  <2>2. KeyPass(y, h[Len(y)]) = h[Len(y)] BY <1>2, <1>6, RunStops
  <2> QED BY <2>1, <2>2, <1>11, KeyShift DEF z
<1>13. g[Len(z)] = g[i + Len(y)] BY <1>1, <1>5, <1>11, <1>12, RunStays
<1> QED BY <1>5, <1>6, <1>11, <1>13 DEF z, q

SimpleRun(p, at, f) ==
  /\ f \in [0 .. Len(at) -> Simply]
  /\ f[0] = p
  /\ \A j \in 1 .. Len(at) : f[j] = SimpleKey(f[j - 1], at[j])

(* A key of a blocking prompt moves no cursor.                             *)
LEMMA SimpleKeyTypes ==
  ASSUME NEW p \in Simply, NEW x \in 0 .. Length
  PROVE  SimpleKey(p, x) \in Simply
<1>1. p.typed \in Positions /\ Len(p.typed) \in Nat /\ p.pos = 0 /\ p \in Promptly
  BY PromptFields DEF Simply
<1>2. [p EXCEPT !.aborted = TRUE] \in Simply /\ [p EXCEPT !.done = TRUE] \in Simply
  BY <1>1 DEF Simply, Promptly, Prompts
<1> DEFINE t == IF p.typed = <<>> THEN p.typed ELSE Front(p.typed)
<1>3. t \in Positions /\ Len(t) \in Nat
  <2>1. CASE p.typed = <<>> BY <2>1, <1>1
  <2>2. CASE p.typed # <<>>
    <3>1. Len(p.typed) \in 1 .. Len(p.typed) /\ 0 \in 0 .. Length
      BY <2>2, <1>1, EmptySeq, InputAssumption DEF Positions
    <3>2. Front(p.typed) \in Positions BY <3>1, <1>1, Typing
    <3> QED BY <3>2, <2>2, PositionsSeq
  <2> QED BY <2>1, <2>2
<1>4. [p EXCEPT !.typed = IF @ = <<>> THEN @ ELSE Front(@)] \in Simply
  <2>1. [p EXCEPT !.typed = IF @ = <<>> THEN @ ELSE Front(@)] = [p EXCEPT !.typed = t]
    BY DEF Simply, Promptly, Prompts
  <2> HIDE DEF t
  <2> QED BY <2>1, <1>1, <1>3 DEF Simply, Promptly, Prompts
<1>5. [p EXCEPT !.typed = Append(@, x)] \in Simply
  <2> DEFINE u == Append(p.typed, x)
  <2>1. u \in Positions /\ Len(u) \in Nat
    BY <1>1, AppendProperties, PositionsSeq DEF Positions
  <2>2. [p EXCEPT !.typed = Append(@, x)] = [p EXCEPT !.typed = u]
    BY DEF Simply, Promptly, Prompts
  <2> HIDE DEF u
  <2> QED BY <2>1, <2>2, <1>1 DEF Simply, Promptly, Prompts
<1> QED BY <1>2, <1>4, <1>5 DEF SimpleKey

(* SimpleKeys runs over the piece key by key, ...                          *)
LEMMA SimpleKeysRun ==
  ASSUME NEW p \in Simply, NEW at \in Positions
  PROVE  \E f : SimpleRun(p, at, f) /\ f[Len(at)] = SimpleKeys(p, at)
<1> DEFINE T == Simply
           step == [j \in 1 .. Len(at) |-> [q \in T |-> SimpleKey(q, at[j])]]
           Is(f) == f = [j \in 0 .. Len(at) |->
                           IF j = 0 THEN p ELSE SimpleKey(f[j - 1], at[j])]
           run == CHOOSE f : Is(f)
<1>1. Len(at) \in Nat BY PositionsSeq
<1>3. step \in [1 .. Len(at) -> [T -> T]] BY SimpleKeyTypes, PositionsSeq
<1>4. PICK g : Repeats(g, T, step, p, Len(at))
  <2> HIDE DEF T, step
  <2>1. p \in T BY DEF T
  <2> QED BY <1>1, <2>1, <1>3, Repeated
<1>5. ASSUME NEW j \in 0 .. Len(at)
      PROVE  g[j] = IF j = 0 THEN p ELSE SimpleKey(g[j - 1], at[j])
  <2>1. CASE j = 0 BY <2>1, <1>4 DEF Repeats
  <2>2. CASE j # 0
    <3>1. j \in 1 .. Len(at) /\ j - 1 \in 0 .. Len(at) BY <2>2, <1>1
    <3>2. g[j - 1] \in T BY <3>1, <1>4 DEF Repeats
    <3> HIDE DEF T
    <3> QED BY <3>1, <3>2, <1>4, <2>2 DEF Repeats
  <2> QED BY <2>1, <2>2
<1>6. Is(g)
  <2> HIDE DEF T
  <2> QED BY <1>4, <1>5 DEF Repeats
<1>7. Is(run)
  <2> HIDE DEF Is
  <2> QED BY <1>6
<1>8. run = [j \in 0 .. Len(at) |-> IF j = 0 THEN p ELSE SimpleKey(run[j - 1], at[j])]
  <2> HIDE DEF run
  <2> QED BY <1>7
<1>9. SimpleKeys(p, at) = run[Len(at)] BY DEF SimpleKeys
<1> HIDE DEF run, Is
<1>10. run[0] = p /\ \A j \in 1 .. Len(at) : run[j] = SimpleKey(run[j - 1], at[j])
  BY <1>1, <1>8
<1>11. \A j \in 0 .. Len(at) : run[j] \in T
  <2> DEFINE P == {j \in 0 .. Len(at) : run[j] \in T}
  <2>1. P \in SUBSET (0 .. Len(at)) /\ 0 \in P BY <1>1, <1>10
  <2>2. ASSUME NEW j \in 1 .. Len(at), j - 1 \in P PROVE j \in P
    <3>1. run[j - 1] \in Simply /\ at[j] \in 0 .. Length BY <2>2, PositionsSeq
    <3>2. run[j] \in Simply BY <3>1, <1>10, SimpleKeyTypes
    <3> QED BY <3>2, <1>1
  <2>3. \A j \in 0 .. Len(at) : j \in P
    <3> HIDE DEF P
    <3> QED BY <2>1, <2>2, <1>1, UpTo
  <2> QED BY <2>3
<1>12. run = [j \in 0 .. Len(at) |-> run[j]] BY <1>8
<1>13. run \in [0 .. Len(at) -> T]
  <2> HIDE DEF T
  <2> QED BY <1>11, <1>12
<1> QED BY <1>9, <1>10, <1>13 DEF SimpleRun

(* ... and ends in a prompt whose cursor has not moved.                    *)
LEMMA SimpleKeysTypes ==
  ASSUME NEW p \in Simply, NEW at \in Positions
  PROVE  SimpleKeys(p, at) \in Simply
<1>1. PICK f : SimpleRun(p, at, f) /\ f[Len(at)] = SimpleKeys(p, at)
  BY SimpleKeysRun
<1>2. Len(at) \in Nat BY PositionsSeq
<1> QED BY <1>1, <1>2 DEF SimpleRun

(* A prompt that is given a piece after another is where it would be if    *)
(* both had come at once.                                                  *)
LEMMA SimpleKeysCompose ==
  ASSUME NEW p \in Simply, NEW x \in Positions, NEW y \in Positions
  PROVE  SimpleKeys(p, x \o y) = SimpleKeys(SimpleKeys(p, x), y)
<1> DEFINE q == SimpleKeys(p, x)
           z == x \o y
<1>1. /\ z \in Positions /\ Len(z) = Len(x) + Len(y) /\ Len(x) \in Nat /\ Len(y) \in Nat
      /\ \A i \in 1 .. Len(x) : z[i] = x[i]
      /\ \A i \in 1 .. Len(y) : z[Len(x) + i] = y[i]
  BY Joined, PositionsSeq
<1>2. q \in Simply BY SimpleKeysTypes
<1> HIDE DEF z
<1>3. PICK f : SimpleRun(p, x, f) /\ f[Len(x)] = SimpleKeys(p, x)
  BY SimpleKeysRun
<1>4. f[Len(x)] = q BY <1>3
<1> HIDE DEF q
<1>5. PICK g : SimpleRun(p, z, g) /\ g[Len(z)] = SimpleKeys(p, z)
  BY <1>1, SimpleKeysRun
<1>6. PICK h : SimpleRun(q, y, h) /\ h[Len(y)] = SimpleKeys(q, y)
  BY <1>2, SimpleKeysRun
<1> DEFINE A == {j \in 0 .. Len(x) : g[j] = f[j]}
           B == {j \in 0 .. Len(y) : g[Len(x) + j] = h[j]}
<1>7. \A j \in 0 .. Len(x) : j \in A
  <2>1. A \in SUBSET (0 .. Len(x)) /\ 0 \in A BY <1>1, <1>3, <1>5 DEF SimpleRun
  <2>2. ASSUME NEW j \in 1 .. Len(x), j - 1 \in A PROVE j \in A
    <3>1. j \in 1 .. Len(z) /\ z[j] = x[j] BY <1>1
    <3>2. g[j] = SimpleKey(g[j - 1], z[j]) /\ f[j] = SimpleKey(f[j - 1], x[j])
      BY <3>1, <1>3, <1>5 DEF SimpleRun
    <3> QED BY <3>1, <3>2, <2>2, <1>1
  <2> HIDE DEF A
  <2> QED BY <2>1, <2>2, <1>1, UpTo
<1>8. \A j \in 0 .. Len(y) : j \in B
  <2>1. B \in SUBSET (0 .. Len(y)) /\ 0 \in B
    <3>1. g[Len(x)] = q BY <1>7, <1>1, <1>4
    <3>2. h[0] = q /\ Len(x) + 0 = Len(x) BY <1>6, <1>1 DEF SimpleRun
    <3> QED BY <3>1, <3>2, <1>1
  <2>2. ASSUME NEW j \in 1 .. Len(y), j - 1 \in B PROVE j \in B
    <3>1. /\ Len(x) + j \in 1 .. Len(z) /\ z[Len(x) + j] = y[j]
          /\ (Len(x) + j) - 1 = Len(x) + (j - 1)
      BY <1>1
    <3>2. /\ g[Len(x) + j] = SimpleKey(g[Len(x) + (j - 1)], z[Len(x) + j])
          /\ h[j] = SimpleKey(h[j - 1], y[j])
      BY <3>1, <1>5, <1>6 DEF SimpleRun
    <3> QED BY <3>1, <3>2, <2>2, <1>1
  <2> HIDE DEF B
  <2> QED BY <2>1, <2>2, <1>1, UpTo
<1>9. g[Len(z)] = h[Len(y)] BY <1>8, <1>1
<1> QED BY <1>5, <1>6, <1>9 DEF z, q

----------------------------------------------------------------------------
(* Pieces of input on their way, one after the other.                      *)

(* A part of a sequence.                                                   *)
LEMMA PartOfSeq ==
  ASSUME NEW S, NEW s \in Seq(S), NEW a \in 1 .. Len(s) + 1, NEW b \in a - 1 .. Len(s)
  PROVE  /\ SubSeq(s, a, b) \in Seq(S)
         /\ Len(SubSeq(s, a, b)) = b - a + 1
         /\ \A k \in 1 .. b - a + 1 : SubSeq(s, a, b)[k] = s[a + k - 1]
<1>1. Len(s) \in Nat BY LenProperties
<1>2. \A i \in a .. b : i \in 1 .. Len(s) BY <1>1
<1>3. \A i \in a .. b : s[i] \in S BY <1>2, ElementOfSeq
<1> QED BY <1>1, <1>3, SubSeqProperties

(* The pieces that are buffered ...                                        *)
LEMMA ItemsSeq ==
  ASSUME NEW b \in Items
  PROVE  /\ Len(b) \in Nat /\ DOMAIN b = 1 .. Len(b)
         /\ \A j \in 1 .. Len(b) : /\ b[j].at \in Positions
                                   /\ b[j] = [type |-> b[j].type, at |-> b[j].at]
                                   /\ b[j].type \in {"stdIn", "endOfFile", "error"}
<1>1. Len(b) \in Nat /\ DOMAIN b = 1 .. Len(b) BY LenProperties DEF Items
<1>2. \A j \in 1 .. Len(b) : b[j] \in [type : {"stdIn", "endOfFile", "error"}, at : Positions]
  BY ElementOfSeq DEF Items
<1> QED BY <1>1, <1>2

(* ... and the mail.                                                       *)
LEMMA LettersSeq ==
  ASSUME NEW m \in Letters
  PROVE  /\ Len(m) \in Nat /\ DOMAIN m = 1 .. Len(m)
         /\ \A j \in 1 .. Len(m) : /\ m[j].at \in Positions /\ m[j].age \in Nat
                                   /\ m[j].to \in {"text", "binary"}
                                   /\ m[j].type \in {"stdIn", "endOfFile", "error"}
<1>1. Len(m) \in Nat /\ DOMAIN m = 1 .. Len(m) BY LenProperties DEF Letters
<1>2. \A j \in 1 .. Len(m) : m[j] \in [to : {"text", "binary"},
              type : {"stdIn", "endOfFile", "error"}, at : Positions, age : Nat]
  BY ElementOfSeq DEF Letters
<1> QED BY <1>1, <1>2

(* The characters of a piece.                                              *)
LEMMA SetOfPiece ==
  ASSUME NEW at \in Positions
  PROVE  /\ ToSet(at) \subseteq 0 .. Length
         /\ \A x : x \in ToSet(at) <=> \E i \in 1 .. Len(at) : at[i] = x
BY PositionsSeq DEF ToSet

(* Pieces after each other are in order when each is and the first comes   *)
(* before the second.                                                      *)
LEMMA JoinedRow ==
  ASSUME NEW a \in Positions, NEW b \in Positions
  PROVE  /\ ToSet(a \o b) = ToSet(a) \cup ToSet(b)
         /\ \A R : Row(a, R) /\ Row(b, R) /\ Before(ToSet(a), ToSet(b), R) => Row(a \o b, R)
<1>1. /\ a \o b \in Positions /\ Len(a \o b) = Len(a) + Len(b)
      /\ \A i \in 1 .. Len(a) : (a \o b)[i] = a[i]
      /\ \A i \in 1 .. Len(b) : (a \o b)[Len(a) + i] = b[i]
  BY Joined
<1>2. /\ Len(a) \in Nat /\ DOMAIN a = 1 .. Len(a)
      /\ Len(b) \in Nat /\ DOMAIN b = 1 .. Len(b)
      /\ DOMAIN (a \o b) = 1 .. Len(a) + Len(b)
  BY <1>1, PositionsSeq
<1>3. \A m, n \in Nat : \A i \in 1 .. m + n :
         i \in 1 .. m \/ (i - m \in 1 .. n /\ m + (i - m) = i)
  OBVIOUS
<1>4. \A m, n \in Nat : /\ \A i \in 1 .. m : i \in 1 .. m + n
                        /\ \A i \in 1 .. n : m + i \in 1 .. m + n
  OBVIOUS
<1>5. \A i \in 1 .. Len(a) + Len(b) : \/ i \in 1 .. Len(a) /\ (a \o b)[i] = a[i]
                                      \/ /\ i - Len(a) \in 1 .. Len(b)
                                         /\ (a \o b)[i] = b[i - Len(a)]
  <2> SUFFICES ASSUME NEW i \in 1 .. Len(a) + Len(b)
               PROVE  \/ i \in 1 .. Len(a) /\ (a \o b)[i] = a[i]
                      \/ i - Len(a) \in 1 .. Len(b) /\ (a \o b)[i] = b[i - Len(a)]
    OBVIOUS
  <2>1. i \in 1 .. Len(a) \/ (i - Len(a) \in 1 .. Len(b) /\ Len(a) + (i - Len(a)) = i)
    BY <1>2, <1>3
  <2> QED BY <2>1, <1>1
<1>6. ToSet(a \o b) = ToSet(a) \cup ToSet(b)
  <2>1. ASSUME NEW x \in ToSet(a \o b) PROVE x \in ToSet(a) \cup ToSet(b)
    BY <2>1, <1>2, <1>5 DEF ToSet
  <2>2. ASSUME NEW x \in ToSet(a) \cup ToSet(b) PROVE x \in ToSet(a \o b)
    BY <2>2, <1>1, <1>2, <1>4 DEF ToSet
  <2> QED BY <2>1, <2>2
<1>7. ASSUME NEW R, Row(a, R), Row(b, R), Before(ToSet(a), ToSet(b), R)
      PROVE  Row(a \o b, R)
  <2> SUFFICES ASSUME NEW i \in 1 .. Len(a) + Len(b), NEW j \in 1 .. Len(a) + Len(b), i < j
               PROVE  <<(a \o b)[i], (a \o b)[j]>> \in R
    BY <1>2 DEF Row
  <2>1. CASE i \in 1 .. Len(a) /\ j \in 1 .. Len(a)
    BY <2>1, <1>1, <1>2, <1>7 DEF Row
  <2>2. CASE i \in 1 .. Len(a) /\ j - Len(a) \in 1 .. Len(b)
    <3>1. (a \o b)[i] \in ToSet(a) /\ (a \o b)[j] \in ToSet(b)
      <4>1. Len(a) + (j - Len(a)) = j BY <1>2
      <4> QED BY <2>2, <4>1, <1>1, <1>2 DEF ToSet
    <3> QED BY <3>1, <1>7 DEF Before
  <2>3. CASE i - Len(a) \in 1 .. Len(b) /\ j - Len(a) \in 1 .. Len(b)
    <3>1. i - Len(a) < j - Len(a) /\ Len(a) + (i - Len(a)) = i /\ Len(a) + (j - Len(a)) = j
      BY <1>2
    <3> QED BY <2>3, <3>1, <1>1, <1>2, <1>7 DEF Row
  <2>4. ~ (i - Len(a) \in 1 .. Len(b) /\ j \in 1 .. Len(a)) BY <1>2
  <2> QED BY <2>1, <2>2, <2>3, <2>4, <1>5
<1> QED BY <1>6, <1>7

(* The first characters of a piece and the rest of it.                     *)
LEMMA PartsOfPiece ==
  ASSUME NEW at \in Positions, NEW n \in 0 .. Len(at)
  PROVE  LET p == SubSeq(at, 1, n)
             q == SubSeq(at, n + 1, Len(at))
         IN /\ p \in Positions /\ q \in Positions /\ Len(p) = n /\ Len(q) = Len(at) - n
            /\ ToSet(at) = ToSet(p) \cup ToSet(q)
            /\ \A R : Row(at, R) => Row(p, R) /\ Row(q, R) /\ Before(ToSet(p), ToSet(q), R)
<1> DEFINE p == SubSeq(at, 1, n)
           q == SubSeq(at, n + 1, Len(at))
<1>1. Len(at) \in Nat /\ DOMAIN at = 1 .. Len(at) BY PositionsSeq
<1>2. /\ p \in Positions /\ Len(p) = n
      /\ \A i \in 1 .. n : p[i] = at[i]
  <2>1. \A l \in Nat : \A k \in 0 .. l :
           1 \in 1 .. l + 1 /\ k \in 1 - 1 .. l /\ k - 1 + 1 = k
    OBVIOUS
  <2>2. \A i \in 1 .. n : 1 + i - 1 = i BY <1>1
  <2> QED BY <1>1, <2>1, <2>2, PartOfPiece
<1>3. /\ q \in Positions /\ Len(q) = Len(at) - n
      /\ \A i \in 1 .. Len(at) - n : q[i] = at[n + i]
  <2>1. PICK a \in Nat : a = n + 1 BY <1>1
  <2>2. /\ a \in 1 .. Len(at) + 1 /\ Len(at) \in a - 1 .. Len(at)
        /\ Len(at) - a + 1 = Len(at) - n
        /\ \A i \in 1 .. Len(at) - n : a + i - 1 = n + i
    BY <1>1, <2>1
  <2>3. /\ SubSeq(at, a, Len(at)) \in Positions
        /\ Len(SubSeq(at, a, Len(at))) = Len(at) - a + 1
        /\ \A i \in 1 .. Len(at) - a + 1 : SubSeq(at, a, Len(at))[i] = at[a + i - 1]
    BY <2>2, PartOfPiece
  <2>4. q = SubSeq(at, a, Len(at)) BY <2>1
  <2> HIDE DEF q
  <2> QED BY <2>2, <2>3, <2>4
<1>4. n \in Nat /\ DOMAIN p = 1 .. n /\ DOMAIN q = 1 .. Len(at) - n
  BY <1>1, <1>2, <1>3, PositionsSeq
<1> HIDE DEF p, q
<1>5. ASSUME NEW i \in 1 .. n PROVE i \in 1 .. Len(at) /\ p[i] = at[i]
  BY <1>1, <1>2
<1>6. ASSUME NEW i \in 1 .. Len(at) - n PROVE n + i \in 1 .. Len(at) /\ q[i] = at[n + i]
  BY <1>1, <1>3
<1>7. ToSet(at) = ToSet(p) \cup ToSet(q)
  <2>1. ASSUME NEW x \in ToSet(at) PROVE x \in ToSet(p) \cup ToSet(q)
    <3>1. PICK i \in 1 .. Len(at) : at[i] = x BY <1>1 DEF ToSet
    <3>2. CASE i <= n BY <3>1, <3>2, <1>1, <1>4, <1>5 DEF ToSet
    <3>3. CASE i > n
      <4>1. i - n \in 1 .. Len(at) - n /\ n + (i - n) = i BY <3>3, <1>1, <1>4
      <4> QED BY <3>1, <4>1, <1>4, <1>6 DEF ToSet
    <3> QED BY <1>4, <3>2, <3>3
  <2>2. ASSUME NEW x \in ToSet(p) \cup ToSet(q) PROVE x \in ToSet(at)
    BY <1>1, <1>4, <1>5, <1>6 DEF ToSet
  <2> QED BY <2>1, <2>2
<1>8. ASSUME NEW R, Row(at, R)
      PROVE  Row(p, R) /\ Row(q, R) /\ Before(ToSet(p), ToSet(q), R)
  <2>1. Row(p, R) BY <1>1, <1>4, <1>5, <1>8 DEF Row
  <2>2. Row(q, R)
    <3> SUFFICES ASSUME NEW i \in 1 .. Len(at) - n, NEW j \in 1 .. Len(at) - n, i < j
                 PROVE  <<q[i], q[j]>> \in R
      BY <1>4 DEF Row
    <3>1. n + i < n + j BY <1>4
    <3> QED BY <3>1, <1>1, <1>6, <1>8 DEF Row
  <2>3. ASSUME NEW x \in ToSet(p), NEW y \in ToSet(q) PROVE <<x, y>> \in R
    <3>1. PICK i \in 1 .. n : p[i] = x BY <1>4 DEF ToSet
    <3>2. PICK j \in 1 .. Len(at) - n : q[j] = y BY <1>4 DEF ToSet
    <3>3. i < n + j BY <1>4
    <3> QED BY <3>1, <3>2, <3>3, <1>1, <1>5, <1>6, <1>8 DEF Row
  <2> QED BY <2>1, <2>2, <2>3 DEF Before
<1> QED BY <1>2, <1>3, <1>7, <1>8 DEF p, q

(* Then what was taken and the rest are in the order they were in.         *)
LEMMA SortedMove ==
  ASSUME NEW u \in Positions, NEW b \in Items, b # <<>>, NEW n \in 0 .. Len(b[1].at),
         NEW c \in Items, Shortened(b, n, c), NEW m, NEW K, NEW R,
         Sorted(u, b, m, K, R)
  PROVE  LET v == u \o SubSeq(b[1].at, 1, n)
         IN v \in Positions /\ Sorted(v, c, m, K, R) /\ All(v, c, m, K) = All(u, b, m, K)
<1> DEFINE at == b[1].at
           p == SubSeq(at, 1, n)
           q == SubSeq(at, n + 1, Len(at))
           v == u \o p
<1>1. /\ Len(b) \in Nat \ {0} /\ DOMAIN b = 1 .. Len(b) /\ 1 \in 1 .. Len(b)
      /\ Len(c) \in Nat /\ DOMAIN c = 1 .. Len(c)
      /\ at \in Positions
  <2>1. Len(b) \in Nat \ {0} BY EmptySeq DEF Items
  <2>2. 1 \in 1 .. Len(b) BY <2>1
  <2> QED BY <2>1, <2>2, ItemsSeq
<1>2. /\ p \in Positions /\ q \in Positions /\ Len(q) = Len(at) - n
      /\ ToSet(at) = ToSet(p) \cup ToSet(q)
      /\ Row(at, R) => Row(p, R) /\ Row(q, R) /\ Before(ToSet(p), ToSet(q), R)
  <2> HIDE DEF at
  <2>1. n \in 0 .. Len(at) BY DEF at
  <2> QED BY <1>1, <2>1, PartsOfPiece
<1> HIDE DEF p, q
<1>3. /\ v \in Positions /\ ToSet(v) = ToSet(u) \cup ToSet(p)
      /\ Row(u, R) /\ Row(p, R) /\ Before(ToSet(u), ToSet(p), R) => Row(v, R)
  BY <1>2, Joined, JoinedRow
<1> HIDE DEF v
<1>4. Shortened(b, n, c) =>
         \/ /\ Len(c) = Len(b) /\ c[1].at = q /\ \A j \in 2 .. Len(b) : c[j] = b[j]
         \/ /\ q = <<>> /\ Len(c) = Len(b) - 1 /\ \A j \in 1 .. Len(c) : c[j] = b[j + 1]
  <2>1. n = Len(at) => q = <<>>
    <3>1. n = Len(at) => Len(q) = 0 BY <1>1, <1>2, PositionsSeq
    <3> QED BY <3>1, <1>2, EmptySeq DEF Positions
  <2> QED BY <2>1 DEF Shortened, q
<1>5. /\ Row(u, R) /\ Row(at, R) /\ Before(ToSet(u), ToSet(at), R)
      /\ \A j \in 2 .. Len(b) : /\ Row(b[j].at, R) /\ Before(ToSet(u), ToSet(b[j].at), R)
                                /\ Before(ToSet(at), ToSet(b[j].at), R)
      /\ \A i, j \in 2 .. Len(b) : i < j => Before(ToSet(b[i].at), ToSet(b[j].at), R)
      /\ \A k \in K : /\ Row(m[k].at, R) /\ Before(ToSet(u), ToSet(m[k].at), R)
                      /\ Before(ToSet(at), ToSet(m[k].at), R)
      /\ \A j \in 2 .. Len(b), k \in K : Before(ToSet(b[j].at), ToSet(m[k].at), R)
      /\ \A i, k \in K : i < k => Before(ToSet(m[i].at), ToSet(m[k].at), R)
  <2>1. \A j \in 2 .. Len(b) : j \in 1 .. Len(b) /\ 1 < j BY <1>1
  <2> QED BY <1>1, <2>1 DEF Sorted, TakenFirst, InARow
<1> HIDE DEF at
<1>6. /\ Row(v, R) /\ Row(p, R) /\ Row(q, R) /\ Before(ToSet(v), ToSet(q), R)
      /\ \A j \in 2 .. Len(b) : /\ Before(ToSet(v), ToSet(b[j].at), R)
                                /\ Before(ToSet(q), ToSet(b[j].at), R)
      /\ \A k \in K : /\ Before(ToSet(v), ToSet(m[k].at), R)
                      /\ Before(ToSet(q), ToSet(m[k].at), R)
  BY <1>2, <1>3, <1>5 DEF Before
<1> DEFINE Later == UNION {ToSet(b[j].at) : j \in 2 .. Len(b)}
<1>7. All(u, b, m, K) = ToSet(u) \cup ToSet(at) \cup Later \cup MailTexts(m, K)
  <2>1. \A j : j \in 1 .. Len(b) <=> j = 1 \/ j \in 2 .. Len(b) BY <1>1
  <2>2. Texts(b) = ToSet(at) \cup Later BY <1>1, <2>1 DEF Texts, at
  <2> HIDE DEF Later
  <2> QED BY <2>2 DEF All
<1>8. ASSUME Len(c) = Len(b), c[1].at = q, \A j \in 2 .. Len(b) : c[j] = b[j]
      PROVE  Sorted(v, c, m, K, R) /\ All(v, c, m, K) = All(u, b, m, K)
  <2>1. \A j : j \in DOMAIN c <=> j = 1 \/ j \in 2 .. Len(b) BY <1>1, <1>8
  <2>2. \A i, j \in DOMAIN c : i < j => j \in 2 .. Len(b) BY <1>1, <1>8
  <2>3. TakenFirst(v, c, m, K, R) BY <1>6, <1>8, <2>1 DEF TakenFirst
  <2>4. \A i, j \in DOMAIN c : i < j => Before(ToSet(c[i].at), ToSet(c[j].at), R)
    BY <1>5, <1>6, <1>8, <2>1, <2>2
  <2>5. InARow(c, m, K, R) BY <1>5, <1>6, <1>8, <2>1, <2>4 DEF InARow
  <2>6. Texts(c) = ToSet(q) \cup Later BY <1>8, <2>1 DEF Texts
  <2> HIDE DEF Later
  <2> QED BY <1>2, <1>3, <1>7, <2>3, <2>5, <2>6 DEF All, Sorted
<1>9. ASSUME q = <<>>, Len(c) = Len(b) - 1, \A j \in 1 .. Len(c) : c[j] = b[j + 1]
      PROVE  Sorted(v, c, m, K, R) /\ All(v, c, m, K) = All(u, b, m, K)
  <2>1. \A j \in DOMAIN c : j + 1 \in 2 .. Len(b) /\ c[j] = b[j + 1]
    BY <1>1, <1>9
  <2>2. \A i, j \in DOMAIN c : i < j => i + 1 < j + 1 BY <1>1
  <2>3. \A j \in 2 .. Len(b) : j - 1 \in DOMAIN c /\ c[j - 1] = b[j]
    <3>1. \A j \in 2 .. Len(b) : j - 1 \in 1 .. Len(b) - 1 /\ (j - 1) + 1 = j
      BY <1>1
    <3> QED BY <1>1, <1>9, <3>1
  <2>4. TakenFirst(v, c, m, K, R) BY <1>6, <2>1 DEF TakenFirst
  <2>5. \A i, j \in DOMAIN c : i < j => Before(ToSet(c[i].at), ToSet(c[j].at), R)
    BY <1>5, <2>1, <2>2
  <2>6. InARow(c, m, K, R) BY <1>5, <2>1, <2>5 DEF InARow
  <2>7. Texts(c) = Later BY <2>1, <2>3 DEF Texts
  <2> HIDE DEF Later
  <2>8. ToSet(q) = {} BY <1>9 DEF ToSet
  <2> QED BY <1>2, <1>3, <1>7, <2>4, <2>6, <2>7, <2>8 DEF All, Sorted
<1> QED BY <1>3, <1>4, <1>8, <1>9 DEF v, p, at

(* Nothing comes before whatever comes.                                    *)
LEMMA NothingTaken ==
  /\ ToSet(<<>>) = {}
  /\ \A c, m, K, R : TakenFirst(<<>>, c, m, K, R)
<1>1. ToSet(<<>>) = {} /\ \A R : Row(<<>>, R) BY DEF ToSet, Row
<1> QED BY <1>1 DEF TakenFirst, Before

(* The first pieces and the rest of them.                                  *)
LEMMA PartsOfItems ==
  ASSUME NEW b \in Items, NEW e \in 0 .. Len(b)
  PROVE  Parts(b, e, SubSeq(b, e + 1, Len(b)), SubSeq(b, 1, e))
<1> DEFINE c == SubSeq(b, e + 1, Len(b))
           d == SubSeq(b, 1, e)
<1>1. Len(b) \in Nat /\ DOMAIN b = 1 .. Len(b) BY ItemsSeq
<1>2. /\ c \in Items /\ Len(c) = Len(b) - e
      /\ \A j \in 1 .. Len(c) : c[j] = b[j + e]
  <2>1. PICK a \in Nat : a = e + 1 BY <1>1
  <2>2. /\ a \in 1 .. Len(b) + 1 /\ Len(b) \in a - 1 .. Len(b)
        /\ Len(b) - a + 1 = Len(b) - e
        /\ \A j \in 1 .. Len(b) - e : a + j - 1 = j + e
    BY <1>1, <2>1
  <2>3. /\ SubSeq(b, a, Len(b)) \in Items
        /\ Len(SubSeq(b, a, Len(b))) = Len(b) - a + 1
        /\ \A j \in 1 .. Len(b) - a + 1 : SubSeq(b, a, Len(b))[j] = b[a + j - 1]
    BY <2>2, PartOfSeq DEF Items
  <2>4. c = SubSeq(b, a, Len(b)) BY <2>1
  <2> HIDE DEF c
  <2> QED BY <2>2, <2>3, <2>4
<1>3. /\ d \in Items /\ Len(d) = e /\ \A j \in 1 .. e : d[j] = b[j]
  <2>1. /\ 1 \in 1 .. Len(b) + 1 /\ e \in 1 - 1 .. Len(b) /\ e - 1 + 1 = e
        /\ \A j \in 1 .. e : 1 + j - 1 = j
    BY <1>1
  <2>2. /\ d \in Items /\ Len(d) = e - 1 + 1
        /\ \A j \in 1 .. e - 1 + 1 : d[j] = b[1 + j - 1]
    BY ZenonT(60), <2>1, PartOfSeq DEF Items
  <2> HIDE DEF d
  <2> QED BY <2>1, <2>2
<1> HIDE DEF c, d
<1>4. Parts(b, e, c, d) BY <1>2, <1>3 DEF Parts
<1> QED BY <1>4 DEF c, d

(* What is left is in order, with and without what was taken.              *)
LEMMA SortedDrop ==
  ASSUME NEW u \in Positions, NEW b \in Items, NEW e \in 0 .. Len(b), NEW m, NEW K, NEW R,
         Sorted(u, b, m, K, R), NEW c, NEW d, Parts(b, e, c, d)
  PROVE  Dropped(u, b, c, d, m, K, R)
<1>1. Len(b) \in Nat /\ DOMAIN b = 1 .. Len(b) BY ItemsSeq
<1>2. /\ c \in Items /\ Len(c) = Len(b) - e
      /\ \A j \in 1 .. Len(c) : c[j] = b[j + e]
  BY DEF Parts
<1>3. /\ d \in Items /\ Len(d) = e /\ \A j \in 1 .. e : d[j] = b[j] BY DEF Parts
<1>4. DOMAIN c = 1 .. Len(c) /\ DOMAIN d = 1 .. e /\ e \in Nat
  BY <1>1, <1>2, <1>3, ItemsSeq
<1>5. \A j \in DOMAIN c : j + e \in DOMAIN b /\ c[j] = b[j + e] /\ j + e > e
  BY <1>1, <1>2, <1>4
<1>6. \A j \in DOMAIN d : j \in DOMAIN b /\ d[j] = b[j] /\ j <= e
  BY <1>1, <1>3, <1>4
<1>7. \A j \in DOMAIN b : \/ j \in DOMAIN d /\ d[j] = b[j]
                          \/ j - e \in DOMAIN c /\ c[j - e] = b[j]
  <2>1. \A j \in 1 .. Len(b) : j \in 1 .. e \/ (j - e \in 1 .. Len(c) /\ (j - e) + e = j)
    BY <1>1, <1>2, <1>4
  <2> QED BY <1>1, <1>2, <1>3, <1>4, <2>1
<1>8. InARow(c, m, K, R)
  <2>1. \A i, j \in DOMAIN c : i < j => i + e < j + e BY <1>2, <1>4
  <2>2. \A i, j \in DOMAIN c : i < j => Before(ToSet(c[i].at), ToSet(c[j].at), R)
    BY <1>5, <2>1 DEF Sorted, InARow
  <2> QED BY <1>5, <2>2 DEF Sorted, InARow
<1>9. TakenFirst(u, c, m, K, R) /\ TakenFirst(<<>>, c, m, K, R)
  <2>1. TakenFirst(u, c, m, K, R) BY <1>5 DEF Sorted, TakenFirst
  <2> QED BY <2>1, NothingTaken
<1>10. Texts(b) = Texts(c) \cup Texts(d)
  <2>1. ASSUME NEW x \in Texts(b) PROVE x \in Texts(c) \cup Texts(d)
    BY <1>7, <2>1 DEF Texts
  <2>2. ASSUME NEW x \in Texts(c) \cup Texts(d) PROVE x \in Texts(b)
    BY <1>5, <1>6, <2>2 DEF Texts
  <2> QED BY <2>1, <2>2
<1>11. Before(ToSet(u) \cup Texts(d), All(<<>>, c, m, K), R)
  <2> SUFFICES ASSUME NEW x \in ToSet(u) \cup Texts(d), NEW y \in All(<<>>, c, m, K)
               PROVE  <<x, y>> \in R
    BY DEF Before
  <2>1. y \in Texts(c) \/ y \in MailTexts(m, K) BY DEF All, ToSet
  <2>2. CASE x \in ToSet(u)
    BY <1>9, <2>1, <2>2 DEF TakenFirst, Before, Texts, MailTexts
  <2>3. CASE x \in Texts(d)
    <3>1. PICK i \in DOMAIN d : x \in ToSet(d[i].at) BY <2>3 DEF Texts
    <3>2. i \in DOMAIN b /\ x \in ToSet(b[i].at) /\ i <= e BY <3>1, <1>6
    <3>3. CASE y \in Texts(c)
      <4>1. PICK j \in DOMAIN c : y \in ToSet(c[j].at) BY <3>3 DEF Texts
      <4>2. j + e \in DOMAIN b /\ y \in ToSet(b[j + e].at) /\ i < j + e
        BY <4>1, <3>2, <1>1, <1>4, <1>5
      <4> QED BY <3>2, <4>2 DEF Sorted, InARow, Before
    <3>4. CASE y \in MailTexts(m, K)
      BY <3>2, <3>4 DEF Sorted, InARow, Before, MailTexts
    <3> QED BY <2>1, <3>3, <3>4
  <2> QED BY <2>2, <2>3
<1> QED BY <1>2, <1>3, <1>5, <1>8, <1>9, <1>10, <1>11 DEF Sorted, All, Dropped

(* Insert does nothing else.                                               *)
LEMMA InsertCases ==
  ASSUME NEW b \in Items, NEW type \in {"stdIn", "endOfFile", "error"}, NEW x \in Positions,
         Messages(b), Message([type |-> type, at |-> x])
  PROVE  /\ Insert(b, type, x) \in Items
         /\ \/ Longer(b, type, x, Insert(b, type, x))
            \/ type = "stdIn" /\ Fuller(b, x, Insert(b, type, x))
            \/ Again(b, x, Insert(b, type, x))
<1> DEFINE I == [type : {"stdIn", "endOfFile", "error"}, at : Positions]
           c == Insert(b, type, x)
           item == [type |-> type, at |-> x]
<1>1. Len(b) \in Nat /\ DOMAIN b = 1 .. Len(b) BY ItemsSeq
<1>2. CASE ~ (b # <<>> /\ Last(b).type = type)
  <2>1. c = Append(b, item) BY <1>2 DEF Insert
  <2>2. b \in Seq(I) /\ item \in I BY DEF Items
  <2>3. c \in Seq(I) /\ Longer(b, type, x, c)
    <3> HIDE DEF I, item
    <3>1. /\ Append(b, item) \in Seq(I)
          /\ Len(Append(b, item)) = Len(b)+1
          /\ \A i \in 1.. Len(b) : Append(b, item)[i] = b[i]
          /\ Append(b, item)[Len(b)+1] = item
      BY <2>2, AppendProperties
    <3> HIDE DEF c
    <3> QED BY <2>1, <3>1 DEF Longer, item
  <2> QED BY <2>3 DEF Items
<1>3. CASE b # <<>> /\ Last(b).type = type
  <2>1. Len(b) > 0 /\ Len(b) \in 1 .. Len(b) /\ b[Len(b)].type = type
    <3>1. Len(b) \in Nat \ {0} BY <1>3, EmptySeq DEF Items
    <3> QED BY <1>3, <3>1 DEF Last
  <2> DEFINE l == b[Len(b)]
             y == IF type = "stdIn" THEN l.at \o x ELSE l.at
  <2>2. l.at \in Positions /\ l = [type |-> type, at |-> l.at] BY <2>1, ItemsSeq
  <2>3. y \in Positions BY <2>2, Joined
  <2>4. c = [b EXCEPT ![Len(b)] = [type |-> type, at |-> y]]
    <3>1. c = [b EXCEPT ![Len(b)].at = IF type = "stdIn" THEN @ \o x ELSE @]
      BY <1>3 DEF Insert
    <3>2. l \in I /\ l.type = type BY <2>1, <2>2
    <3>3. \A z : [l EXCEPT !.at = z] = [type |-> type, at |-> z]
      <4> HIDE DEF l
      <4> QED BY <3>2
    <3> QED BY <3>1, <3>3
  <2> HIDE DEF y, c
  <2>5. [type |-> type, at |-> y] \in I /\ b \in Seq(I) BY <2>3 DEF Items
  <2> HIDE DEF I
  <2>6. /\ c \in Seq(I) /\ Len(c) = Len(b)
        /\ \A j \in 1 .. Len(b) : c[j] = IF j = Len(b) THEN [type |-> type, at |-> y] ELSE b[j]
    BY <2>1, <2>4, <2>5, ExceptSeq
  <2>7. c \in Items BY <2>6 DEF Items, I
  <2>8. CASE type = "stdIn"
    <3>1. \A j \in 1 .. Len(b) - 1 : j \in 1 .. Len(b) /\ j # Len(b)
      <4>1. \A n \in Nat : \A j \in 1 .. n - 1 : j \in 1 .. n /\ j # n OBVIOUS
      <4> QED BY <1>1, <4>1
    <3>2. c[Len(b)] = [type |-> "stdIn", at |-> l.at \o x]
      BY <2>1, <2>6, <2>8 DEF y
    <3>3. Fuller(b, x, c) BY <1>1, <2>1, <2>6, <2>8, <3>1, <3>2 DEF Fuller
    <3> QED BY <2>7, <2>8, <3>3 DEF c
  <2>9. CASE type # "stdIn"
    <3>1. l.at = <<0>> /\ x = <<0>> BY <1>1, <2>1, <2>9 DEF Messages, Message
    <3>2. y = l.at BY <2>9 DEF y
    <3>3. c = b BY <2>2, <2>5, <2>6, <2>1, <3>2, SeqEqual
    <3> QED BY <2>1, <2>7, <3>1, <3>3 DEF Again, c
  <2> QED BY <2>8, <2>9
<1> QED BY <1>2, <1>3

(* A message is a piece with one message.                                  *)
LEMMA InsertMessages ==
  ASSUME NEW b \in Items, NEW type \in {"stdIn", "endOfFile", "error"}, NEW x \in Positions,
         Messages(b), Message([type |-> type, at |-> x])
  PROVE  Messages(Insert(b, type, x))
<1> DEFINE c == Insert(b, type, x)
<1>1. /\ c \in Items
      /\ \/ Longer(b, type, x, c)
         \/ type = "stdIn" /\ Fuller(b, x, c)
         \/ Again(b, x, c)
  BY InsertCases
<1> HIDE DEF c
<1>2. Len(b) \in Nat /\ DOMAIN b = 1 .. Len(b) /\ Len(c) \in Nat /\ DOMAIN c = 1 .. Len(c)
  BY <1>1, ItemsSeq
<1>3. CASE Longer(b, type, x, c)
  <2>1. \A j \in DOMAIN c : j \in DOMAIN b \/ j = Len(b) + 1
    BY <1>2, <1>3 DEF Longer
  <2> QED BY <1>2, <1>3, <2>1 DEF Longer, Messages, c
<1>4. CASE type = "stdIn" /\ Fuller(b, x, c)
  <2>1. \A j \in DOMAIN c : j \in 1 .. Len(b) - 1 \/ j = Len(b)
    BY <1>2, <1>4 DEF Fuller
  <2>2. \A j \in 1 .. Len(b) - 1 : j \in DOMAIN b BY <1>2
  <2>3. Len(b) \in DOMAIN b BY <1>2, <1>4 DEF Fuller
  <2>4. ToSet(b[Len(b)].at \o x) = ToSet(b[Len(b)].at) \cup ToSet(x)
    BY <1>2, <2>3, ItemsSeq, JoinedRow
  <2>5. 0 \notin ToSet(b[Len(b)].at) /\ 0 \notin ToSet(x)
    BY <1>4, <2>3 DEF Messages, Message, Fuller
  <2>6. Message(c[Len(b)]) BY <1>4, <2>4, <2>5 DEF Message, Fuller
  <2> QED BY <1>4, <2>1, <2>2, <2>6 DEF Fuller, Messages, c
<1> QED BY <1>1, <1>3, <1>4 DEF Again, c

(* A piece that comes after the others and before the mail.                *)
LEMMA SortedInsert ==
  ASSUME NEW u \in Positions, NEW b \in Items, NEW x \in Positions, NEW c \in Items,
         NEW type,
         Longer(b, type, x, c) \/ Fuller(b, x, c) \/ Again(b, x, c),
         NEW m, NEW K, NEW R, Sorted(u, b, m, K, R), Row(x, R),
         Before(ToSet(u) \cup Texts(b), ToSet(x), R),
         \A k \in K : Before(ToSet(x), ToSet(m[k].at), R)
  PROVE  Sorted(u, c, m, K, R) /\ All(u, c, m, K) = All(u, b, m, K) \cup ToSet(x)
<1>1. Len(b) \in Nat /\ DOMAIN b = 1 .. Len(b) /\ Len(c) \in Nat /\ DOMAIN c = 1 .. Len(c)
  BY ItemsSeq
<1>2. /\ Before(ToSet(u), ToSet(x), R)
      /\ \A j \in 1 .. Len(b) : Before(ToSet(b[j].at), ToSet(x), R)
  BY <1>1 DEF Before, Texts
<1>3. CASE Again(b, x, c)
  <2>1. Len(b) \in DOMAIN b /\ x = b[Len(b)].at BY <1>1, <1>3 DEF Again
  <2>2. ToSet(x) \subseteq Texts(b) BY <2>1 DEF Texts
  <2> QED BY <1>3, <2>2 DEF Again, All
<1>4. CASE Longer(b, type, x, c)
  <2>1. \A j \in DOMAIN c : (j \in DOMAIN b /\ c[j] = b[j]) \/ (j = Len(b) + 1 /\ c[j].at = x)
    BY <1>1, <1>4 DEF Longer
  <2>2. \A j \in DOMAIN b : j \in DOMAIN c /\ c[j] = b[j]
    BY <1>1, <1>4 DEF Longer
  <2>3. Len(b) + 1 \in DOMAIN c /\ c[Len(b) + 1].at = x BY <1>1, <1>4 DEF Longer
  <2>4. \A i, j \in DOMAIN c : i < j => i \in DOMAIN b BY <1>1, <1>4 DEF Longer
  <2>5. TakenFirst(u, c, m, K, R) BY <1>2, <2>1 DEF Sorted, TakenFirst
  <2>6. \A i, j \in DOMAIN c : i < j => Before(ToSet(c[i].at), ToSet(c[j].at), R)
    BY <1>1, <1>2, <2>1, <2>2, <2>4 DEF Sorted, InARow
  <2>7. InARow(c, m, K, R) BY <2>1, <2>6 DEF Sorted, InARow
  <2>8. Texts(c) = Texts(b) \cup ToSet(x) BY <2>1, <2>2, <2>3 DEF Texts
  <2> QED BY <2>5, <2>7, <2>8 DEF Sorted, All
<1>5. CASE Fuller(b, x, c)
  <2> DEFINE y == b[Len(b)].at
             z == c[Len(b)].at
  <2>1. \A j \in DOMAIN c : (j \in 1 .. Len(b) - 1 /\ c[j] = b[j]) \/ j = Len(b)
    BY <1>1, <1>5 DEF Fuller
  <2>2. \A j \in 1 .. Len(b) - 1 : j \in DOMAIN b /\ c[j] = b[j] /\ j < Len(b)
    BY <1>1, <1>5 DEF Fuller
  <2>3. Len(b) \in DOMAIN b /\ DOMAIN c = DOMAIN b BY <1>1, <1>5 DEF Fuller
  <2>4. y \in Positions BY <2>3, <1>1, ItemsSeq
  <2>5. z = y \o x BY <1>5 DEF Fuller
  <2>6. /\ Row(y, R) /\ Before(ToSet(u), ToSet(y), R)
        /\ Before(ToSet(y), ToSet(x), R)
        /\ \A j \in 1 .. Len(b) - 1 : Before(ToSet(b[j].at), ToSet(y), R)
        /\ \A k \in K : Before(ToSet(y), ToSet(m[k].at), R)
    BY <1>1, <1>2, <2>2, <2>3 DEF Sorted, TakenFirst, InARow
  <2> HIDE DEF y, z
  <2>7. ToSet(z) = ToSet(y) \cup ToSet(x) /\ Row(z, R)
    BY <2>4, <2>5, <2>6, JoinedRow
  <2>8. /\ Before(ToSet(u), ToSet(z), R)
        /\ \A j \in 1 .. Len(b) - 1 : Before(ToSet(b[j].at), ToSet(z), R)
        /\ \A k \in K : Before(ToSet(z), ToSet(m[k].at), R)
    BY <1>1, <1>2, <2>2, <2>6, <2>7 DEF Before
  <2>9. TakenFirst(u, c, m, K, R) BY <2>1, <2>2, <2>8 DEF Sorted, TakenFirst, z
  <2>10. \A i, j \in DOMAIN c : i < j => i \in 1 .. Len(b) - 1 BY <1>1, <2>3
  <2>11. \A i, j \in DOMAIN c : i < j => Before(ToSet(c[i].at), ToSet(c[j].at), R)
    BY <2>1, <2>2, <2>8, <2>10 DEF Sorted, InARow, z
  <2>12. InARow(c, m, K, R)
    BY <2>1, <2>2, <2>7, <2>8, <2>11 DEF Sorted, InARow, z
  <2>13. Texts(c) = Texts(b) \cup ToSet(x)
    <3>1. ASSUME NEW p \in Texts(c) PROVE p \in Texts(b) \cup ToSet(x)
      BY <3>1, <2>1, <2>2, <2>3, <2>7 DEF Texts, y, z
    <3>2. ASSUME NEW p \in Texts(b) \cup ToSet(x) PROVE p \in Texts(c)
      BY <3>2, <2>1, <2>2, <2>3, <2>7 DEF Texts, y, z
    <3> QED BY <3>1, <3>2
  <2> QED BY <2>9, <2>12, <2>13 DEF Sorted, All
<1> QED BY <1>3, <1>4, <1>5

(* Only the texts of the mail count, ...                                   *)
LEMMA SortedSame ==
  ASSUME NEW u, NEW b, NEW m, NEW K, NEW n, NEW R, Sorted(u, b, m, K, R),
         \A k \in K : n[k].at = m[k].at
  PROVE  Sorted(u, b, n, K, R) /\ All(u, b, n, K) = All(u, b, m, K)
<1>1. MailTexts(n, K) = MailTexts(m, K) BY DEF MailTexts
<1> QED BY <1>1 DEF Sorted, TakenFirst, InARow, All

(* ... of which some can be left out ...                                   *)
LEMMA SortedFewer ==
  ASSUME NEW u, NEW b, NEW m, NEW K, NEW L \in SUBSET K, NEW R, Sorted(u, b, m, K, R)
  PROVE  Sorted(u, b, m, L, R)
BY DEF Sorted, TakenFirst, InARow

(* ... and also when the first is gone and the others are one nearer.      *)
Nearer(m, K) == {k \in 1 .. Len(m) - 1 : k + 1 \in K}

(* Then all are in the order they were in.                                 *)
LEMMA SortedShift ==
  ASSUME NEW u, NEW b, NEW m \in Letters, m # <<>>, NEW K \in SUBSET (2 .. Len(m)), NEW R,
         Sorted(u, b, m, K, R)
  PROVE  /\ Sorted(u, b, Tail(m), Nearer(m, K), R)
         /\ All(u, b, Tail(m), Nearer(m, K)) = All(u, b, m, K)
<1> DEFINE n == Tail(m)
           L == Nearer(m, K)
<1>1. Len(m) \in Nat BY LettersSeq
<1>2. \A k \in L : k + 1 \in K /\ n[k] = m[k + 1]
  BY <1>1, HeadTailProperties DEF Nearer, Letters
<1>3. \A k \in K : k - 1 \in L /\ n[k - 1] = m[k]
  <2>1. \A k \in 2 .. Len(m) : k - 1 \in 1 .. Len(m) - 1 /\ (k - 1) + 1 = k
    BY <1>1
  <2>2. \A k \in K : k - 1 \in L /\ (k - 1) + 1 = k BY <2>1 DEF Nearer
  <2> HIDE DEF L, n
  <2> QED BY <1>2, <2>2
<1>4. \A i, k \in L : i < k => i + 1 < k + 1 BY <1>1 DEF Nearer
<1> HIDE DEF n, L
<1>5. TakenFirst(u, b, n, L, R) BY <1>2 DEF Sorted, TakenFirst
<1>6. InARow(b, n, L, R)
  <2>1. \A i, k \in L : i < k => Before(ToSet(n[i].at), ToSet(n[k].at), R)
    BY <1>2, <1>4 DEF Sorted, InARow
  <2> QED BY <1>2, <2>1 DEF Sorted, InARow
<1>7. MailTexts(n, L) = MailTexts(m, K) BY <1>2, <1>3 DEF MailTexts
<1> QED BY <1>5, <1>6, <1>7 DEF Sorted, All, n, L

(* A letter that comes after all.                                          *)
LEMMA SortedAppend ==
  ASSUME NEW u, NEW b, NEW m, NEW i \in Nat, NEW K \in SUBSET (1 .. i - 1), NEW R,
         Sorted(u, b, m, K, R), Row(m[i].at, R),
         Before(All(u, b, m, K), ToSet(m[i].at), R)
  PROVE  /\ Sorted(u, b, m, K \cup {i}, R)
         /\ All(u, b, m, K \cup {i}) = All(u, b, m, K) \cup ToSet(m[i].at)
<1> DEFINE L == K \cup {i}
           X == ToSet(m[i].at)
<1>1. Before(ToSet(u), X, R) BY DEF All, Before
<1>2. \A j \in DOMAIN b : Before(ToSet(b[j].at), X, R) BY DEF All, Texts, Before
<1>3. \A k \in K : Before(ToSet(m[k].at), X, R) BY DEF All, MailTexts, Before
<1>4. \A j, k \in L : j < k => j \in K OBVIOUS
<1>5. TakenFirst(u, b, m, L, R) BY <1>1 DEF Sorted, TakenFirst
<1>6. InARow(b, m, L, R)
  <2>1. \A j, k \in L : j < k => Before(ToSet(m[j].at), ToSet(m[k].at), R)
    BY <1>3, <1>4 DEF Sorted, InARow
  <2> QED BY <1>2, <2>1 DEF Sorted, InARow
<1>7. MailTexts(m, L) = MailTexts(m, K) \cup X BY DEF MailTexts
<1> QED BY <1>5, <1>6, <1>7 DEF Sorted, All

(* What was taken and some pieces are thrown away: what comes after them   *)
(* has no gap.                                                             *)
LEMMA FlowDrop ==
  ASSUME NEW t \in Nat, NEW u \in Positions, NEW b \in Items, NEW e \in 0 .. Len(b),
         NEW m, NEW K, Flow(t, u, b, m, K),
         NEW c, NEW d, Parts(b, e, c, d)
  PROVE  Flow(t, <<>>, c, m, K) /\ All(<<>>, c, m, K) \subseteq All(u, b, m, K)
<1> DEFINE A == All(<<>>, c, m, K)
<1>1. /\ Sorted(<<>>, c, m, K, Heard)
      /\ All(u, b, m, K) = All(u, c, m, K) \cup Texts(d)
      /\ Before(ToSet(u) \cup Texts(d), A, Heard)
  <2>1. Sorted(u, b, m, K, Heard) BY DEF Flow
  <2>2. /\ Sorted(<<>>, c, m, K, Heard)
        /\ All(u, b, m, K) = All(u, c, m, K) \cup Texts(d)
        /\ Before(ToSet(u) \cup Texts(d), All(<<>>, c, m, K), Heard)
    <3>1. Dropped(u, b, c, d, m, K, Heard) BY <2>1, SortedDrop
    <3> QED BY <3>1 DEF Dropped
  <2> QED BY <2>2
<1>2. All(u, b, m, K) = A \cup (ToSet(u) \cup Texts(d))
  BY <1>1, NothingTaken DEF All
<1> HIDE DEF A
<1>3. ASSUME NEW p \in A, p # 0, p < t PROVE p + 1 \in A
  <2>1. p + 1 \in All(u, b, m, K) /\ p \in 0 .. t BY <1>2, <1>3 DEF Flow
  <2>2. ASSUME p + 1 \in ToSet(u) \cup Texts(d) PROVE FALSE
    <3>1. <<p + 1, p>> \in Heard BY <1>1, <1>3, <2>2 DEF Before
    <3> QED BY <3>1, <2>1, <1>3 DEF Heard
  <2> QED BY <1>2, <2>1, <2>2
<1> QED BY <1>1, <1>2, <1>3 DEF Flow, A

(* What was taken has no gap, ...                                          *)
LEMMA FlowGapless ==
  ASSUME NEW t \in Nat, NEW u \in Positions, NEW b, NEW m, NEW K, Flow(t, u, b, m, K),
         0 \notin ToSet(u)
  PROVE  Gapless(u)
<1>1. Len(u) \in Nat /\ DOMAIN u = 1 .. Len(u) /\ \A i \in 1 .. Len(u) : u[i] \in 0 .. Length
  BY PositionsSeq
<1>2. \A i, j \in 1 .. Len(u) : i < j => u[i] < u[j]
  <2>1. \A i \in 1 .. Len(u) : u[i] # 0 BY <1>1 DEF ToSet
  <2> QED BY <1>1, <2>1 DEF Flow, Sorted, TakenFirst, Row, Heard
<1>3. ASSUME NEW k \in 2 .. Len(u) PROVE u[k] = u[k - 1] + 1
  <2>1. k \in 1 .. Len(u) /\ k - 1 \in 1 .. Len(u) /\ k - 1 < k BY <1>1
  <2>2. PICK p \in Nat : p = u[k - 1] BY <1>1, <2>1
  <2>3. PICK q \in Nat : q = u[k] BY <1>1, <2>1
  <2>4. p < q /\ p \in ToSet(u) /\ q \in ToSet(u)
    BY <1>1, <1>2, <2>1, <2>2, <2>3 DEF ToSet
  <2>5. p # 0 /\ q <= t BY <2>4 DEF Flow, All
  <2>6. p + 1 \in All(u, b, m, K) BY <2>4, <2>5 DEF Flow, All
  <2> SUFFICES ASSUME p + 1 < q PROVE FALSE BY <2>2, <2>3, <2>4
  <2>7. CASE p + 1 \in ToSet(u)
    <3>1. PICK i \in 1 .. Len(u) : u[i] = p + 1 BY <1>1, <2>7 DEF ToSet
    <3>2. i < k - 1 \/ i = k - 1 \/ i = k \/ k < i BY <1>1
    <3>3. ~ (i < k - 1) BY <1>2, <2>1, <2>2, <3>1
    <3>4. ~ (k < i) BY <1>2, <2>1, <2>3, <3>1
    <3> QED BY <2>2, <2>3, <3>1, <3>2, <3>3, <3>4
  <2>8. CASE p + 1 \in Texts(b) \cup MailTexts(m, K)
    <3>1. <<q, p + 1>> \in Heard
      BY <2>4, <2>8 DEF Flow, Sorted, TakenFirst, Before, Texts, MailTexts
    <3> QED BY <3>1 DEF Heard
  <2> QED BY <2>6, <2>7, <2>8 DEF All
<1> QED BY <1>3 DEF Gapless

(* ... and no message when its last character is none.                     *)
LEMMA NoMessageBefore ==
  ASSUME NEW u \in Positions, Row(u, Heard), Len(u) > 0 => u[Len(u)] # 0
  PROVE  0 \notin ToSet(u)
<1>1. Len(u) \in Nat /\ DOMAIN u = 1 .. Len(u) BY PositionsSeq
<1>2. ASSUME NEW i \in 1 .. Len(u), u[i] = 0 PROVE FALSE
  <2>1. Len(u) \in 1 .. Len(u) /\ Len(u) > 0 /\ (i # Len(u) => i < Len(u))
    <3>1. \A n \in Nat : \A j \in 1 .. n : n \in 1 .. n /\ n > 0 /\ (j # n => j < n)
      OBVIOUS
    <3> QED BY <1>1, <3>1
  <2>2. i < Len(u) BY <1>2, <2>1
  <2>3. <<u[i], u[Len(u)]>> \in Heard BY <1>1, <2>1, <2>2 DEF Row
  <2> QED BY <1>2, <2>3 DEF Heard
<1> QED BY <1>1, <1>2 DEF ToSet

(* When a message comes next, all that was read before it was taken.       *)
LEMMA FlowEnds ==
  ASSUME NEW t \in Nat, NEW u \in Positions, NEW b \in Items, b # <<>>, b[1].at = << 0 >>,
         NEW m, NEW K, Flow(t, u, b, m, K)
  PROVE  0 \notin ToSet(u) /\ (u # <<>> => Last(u) = t)
<1>1. Len(u) \in Nat /\ DOMAIN u = 1 .. Len(u) /\ \A i \in 1 .. Len(u) : u[i] \in 0 .. Length
  BY PositionsSeq
<1>2. 1 \in DOMAIN b /\ \A j \in DOMAIN b : j = 1 \/ 1 < j
  <2>1. Len(b) \in Nat \ {0} BY EmptySeq DEF Items
  <2> QED BY <2>1, ItemsSeq
<1>3. 0 \in ToSet(b[1].at) BY DEF ToSet
<1>4. \A x \in ToSet(u) : x # 0
  BY <1>2, <1>3 DEF Flow, Sorted, TakenFirst, Before, Heard
<1>5. ASSUME NEW x \in Texts(b) \cup MailTexts(m, K) PROVE x = 0
  <2>1. ASSUME NEW j \in DOMAIN b, 1 < j, x \in ToSet(b[j].at) PROVE FALSE
    <3>1. <<0, x>> \in Heard
      BY <1>2, <1>3, <2>1 DEF Flow, Sorted, InARow, Before
    <3> QED BY <3>1 DEF Heard
  <2>2. ASSUME NEW k \in K, x \in ToSet(m[k].at) PROVE FALSE
    <3>1. <<0, x>> \in Heard
      BY <1>2, <1>3, <2>2 DEF Flow, Sorted, InARow, Before
    <3> QED BY <3>1 DEF Heard
  <2>3. ASSUME x \in ToSet(b[1].at) PROVE x = 0 BY <2>3 DEF ToSet
  <2> QED BY <1>2, <1>5, <2>1, <2>2, <2>3 DEF Texts, MailTexts
<1>6. ASSUME u # <<>> PROVE Last(u) = t
  <2>1. Len(u) \in 1 .. Len(u)
    <3>1. Len(u) \in Nat \ {0} BY <1>6, EmptySeq DEF Positions
    <3> QED BY <3>1
  <2>2. PICK p \in Nat : p = u[Len(u)] BY <1>1, <2>1
  <2>3. p \in ToSet(u) /\ p # 0 BY <1>1, <1>4, <2>1, <2>2 DEF ToSet
  <2>4. p <= t BY <2>3 DEF Flow, All
  <2>5. ASSUME p < t PROVE FALSE
    <3>1. p + 1 \in All(u, b, m, K) BY <2>3, <2>5 DEF Flow, All
    <3>2. p + 1 \in ToSet(u) BY <1>5, <3>1 DEF All
    <3>3. PICK i \in 1 .. Len(u) : u[i] = p + 1 BY <1>1, <3>2 DEF ToSet
    <3>4. i < Len(u) BY <1>1, <2>2, <3>3
    <3>5. <<p + 1, p>> \in Heard
      BY <1>1, <2>1, <2>2, <3>3, <3>4 DEF Flow, Sorted, TakenFirst, Row
    <3> QED BY <2>3, <3>5 DEF Heard
  <2> QED BY <2>2, <2>4, <2>5 DEF Last
<1> QED BY <1>4, <1>6

----------------------------------------------------------------------------
(* Calls.                                                                  *)

(* What a call is made of.                                                 *)
LEMMA CallsSeq ==
  ASSUME NEW cs \in Seq(CallRecord)
  PROVE  /\ Len(cs) \in Nat /\ DOMAIN cs = 1 .. Len(cs)
         /\ \A c \in 1 .. Len(cs) :
               /\ cs[c].kind \in ActorKind \cup BlockingKind /\ cs[c].at \in Positions
               /\ cs[c].prompt \in Promptly
               /\ cs[c].answer \in {"none", "value", "failed", "nothing"}
               /\ cs[c] = [kind |-> cs[c].kind, at |-> cs[c].at, prompt |-> cs[c].prompt,
                           answer |-> cs[c].answer]
<1>1. Len(cs) \in Nat /\ DOMAIN cs = 1 .. Len(cs) BY LenProperties
<1>2. \A c \in 1 .. Len(cs) : cs[c] \in CallRecord BY ElementOfSeq
<1> QED BY <1>1, <1>2 DEF CallRecord

(* One call gets another piece, prompt and answer: ...                     *)
LEMMA ChangedOne ==
  ASSUME NEW cs \in Seq(CallRecord), NEW c \in DOMAIN cs, NEW at \in Positions,
         NEW prompt \in Promptly, NEW answer \in {"none", "value", "failed", "nothing"}
  PROVE  Changed(cs, c, cs[c].kind, at, prompt, answer,
                 [cs EXCEPT ![c] = [kind |-> cs[c].kind, at |-> at, prompt |-> prompt,
                                    answer |-> answer]])
<1> DEFINE r == [kind |-> cs[c].kind, at |-> at, prompt |-> prompt, answer |-> answer]
           ds == [cs EXCEPT ![c] = r]
<1>1. DOMAIN cs = 1 .. Len(cs) /\ c \in 1 .. Len(cs) /\ r \in CallRecord
  BY CallsSeq DEF CallRecord
<1> HIDE DEF r
<1>2. /\ ds \in Seq(CallRecord) /\ Len(ds) = Len(cs)
      /\ \A j \in 1 .. Len(cs) : ds[j] = IF j=c THEN r ELSE cs[j]
  BY <1>1, ExceptSeq
<1> HIDE DEF ds
<1>3. DOMAIN ds = 1 .. Len(ds) BY <1>2, LenProperties
<1> QED BY <1>1, <1>2, <1>3 DEF Changed, ds, r

(* ... it takes a piece more, ...                                          *)
LEMMA TakeChanges ==
  ASSUME NEW cs \in Seq(CallRecord), NEW c \in DOMAIN cs, NEW x \in Positions
  PROVE  Changed(cs, c, cs[c].kind, cs[c].at \o x, cs[c].prompt, cs[c].answer, Take(cs, c, x))
<1> DEFINE r == cs[c]
<1>1. r.at \in Positions /\ r.prompt \in Promptly /\ r \in CallRecord
      /\ r.answer \in {"none", "value", "failed", "nothing"}
  BY CallsSeq, ElementOfSeq
<1>2. r.at \o x \in Positions BY <1>1, Joined
<1>3. Take(cs, c, x) = [cs EXCEPT ![c].at = r.at \o x] BY DEF Take
<1>4. \A y : [r EXCEPT !.at = y] = [kind |-> r.kind, at |-> y, prompt |-> r.prompt,
                                    answer |-> r.answer]
  <2> HIDE DEF r
  <2> QED BY <1>1 DEF CallRecord
<1> DEFINE y == r.at \o x
           e == [kind |-> cs[c].kind, at |-> y, prompt |-> cs[c].prompt,
                 answer |-> cs[c].answer]
<1>5. Take(cs, c, x) = [cs EXCEPT ![c] = e] BY <1>3, <1>4
<1>6. Changed(cs, c, cs[c].kind, y, cs[c].prompt, cs[c].answer, [cs EXCEPT ![c] = e])
  <2>1. y \in Positions BY <1>2
  <2> HIDE DEF y
  <2> QED BY ZenonT(60), <1>1, <2>1, ChangedOne
<1> HIDE DEF e
<1> QED BY <1>5, <1>6

(* ... is answered when it was not, ...                                    *)
LEMMA AnswerChanges ==
  ASSUME NEW cs \in Seq(CallRecord), NEW c \in DOMAIN cs,
         NEW a \in {"none", "value", "failed", "nothing"}
  PROVE  Changed(cs, c, cs[c].kind, cs[c].at, cs[c].prompt,
                 IF cs[c].answer = "none" THEN a ELSE cs[c].answer, Answer(cs, c, a))
<1> DEFINE r == cs[c]
           b == IF r.answer = "none" THEN a ELSE r.answer
<1>1. r.at \in Positions /\ r.prompt \in Promptly /\ r \in CallRecord
      /\ b \in {"none", "value", "failed", "nothing"}
  BY CallsSeq, ElementOfSeq
<1>2. Answer(cs, c, a) = [cs EXCEPT ![c].answer = b] BY DEF Answer
<1>3. \A y : [r EXCEPT !.answer = y] = [kind |-> r.kind, at |-> r.at, prompt |-> r.prompt,
                                        answer |-> y]
  <2> HIDE DEF r, b
  <2> QED BY <1>1 DEF CallRecord
<1> DEFINE e == [kind |-> cs[c].kind, at |-> cs[c].at, prompt |-> cs[c].prompt,
                 answer |-> b]
<1>4. Answer(cs, c, a) = [cs EXCEPT ![c] = e] BY <1>2, <1>3
<1>5. Changed(cs, c, cs[c].kind, cs[c].at, cs[c].prompt, b, [cs EXCEPT ![c] = e])
  <2> HIDE DEF b
  <2> QED BY <1>1, ChangedOne
<1> HIDE DEF e
<1>6. Changed(cs, c, cs[c].kind, cs[c].at, cs[c].prompt, b, Answer(cs, c, a))
  BY <1>4, <1>5
<1> QED BY <1>6

(* ... or takes the keys of a prompt.                                      *)
LEMMA PromptChanges ==
  ASSUME NEW cs \in Seq(CallRecord), NEW c \in DOMAIN cs, NEW x \in Positions,
         NEW p \in Promptly
  PROVE  Changed(cs, c, cs[c].kind, cs[c].at \o x, p, cs[c].answer,
                 [Take(cs, c, x) EXCEPT ![c].prompt = p])
<1> DEFINE ds == Take(cs, c, x)
           r == ds[c]
           q == cs[c]
           at == q.at \o x
<1>1. Changed(cs, c, q.kind, at, q.prompt, q.answer, ds) BY TakeChanges
<1>2. q.at \in Positions /\ q.answer \in {"none", "value", "failed", "nothing"}
  BY CallsSeq
<1>3. at \in Positions BY <1>2, Joined
<1> HIDE DEF ds, at, q
<1>4. /\ ds \in Seq(CallRecord) /\ c \in DOMAIN ds /\ DOMAIN ds = DOMAIN cs
      /\ r.kind = q.kind /\ r.at = at /\ r.answer = q.answer /\ r \in CallRecord
  <2>1. ds \in Seq(CallRecord) /\ c \in DOMAIN ds /\ DOMAIN ds = DOMAIN cs
    BY <1>1 DEF Changed
  <2>2. r \in CallRecord BY <2>1, LenProperties, ElementOfSeq
  <2> QED BY <1>1, <2>1, <2>2 DEF Changed
<1> DEFINE es == [ds EXCEPT ![c].prompt = p]
<1>5. \A y : [r EXCEPT !.prompt = y] = [kind |-> r.kind, at |-> r.at, prompt |-> y,
                                        answer |-> r.answer]
  <2> HIDE DEF r
  <2> QED BY <1>4 DEF CallRecord
<1>6. es = [ds EXCEPT ![c] = [kind |-> r.kind, at |-> r.at, prompt |-> p,
                              answer |-> r.answer]]
  BY <1>5
<1>7. Changed(ds, c, r.kind, r.at, p, r.answer, es)
  <2> HIDE DEF es, r
  <2>1. r.at \in Positions /\ r.answer \in {"none", "value", "failed", "nothing"}
    BY <1>2, <1>3, <1>4
  <2> QED BY <1>4, <1>6, <2>1, ChangedOne DEF r
<1> HIDE DEF r, es
<1>8. Changed(cs, c, q.kind, at, p, q.answer, es)
  BY <1>1, <1>4, <1>7 DEF Changed
<1> QED BY <1>8 DEF es, ds, q, at

(* The first of those who wait.                                            *)
LEMMA WaitingFirst ==
  ASSUME NEW es, NEW cs, NEW kinds, WaitsFor(es, cs, kinds), es # <<>>
  PROVE  /\ Len(es) \in Nat /\ DOMAIN es = 1 .. Len(es) /\ 1 \in DOMAIN es /\ Head(es) = es[1]
         /\ es[1] \in DOMAIN cs /\ cs[es[1]].kind \in kinds /\ cs[es[1]].answer # "value"
         /\ \A k \in DOMAIN es : k # 1 => es[k] # es[1]
         /\ First(es, cs) = cs[es[1]].at
<1>1. es \in Seq(Nat) BY DEF WaitsFor
<1>2. Len(es) \in Nat \ {0} /\ DOMAIN es = 1 .. Len(es)
  BY <1>1, EmptySeq, LenProperties
<1>3. 1 \in DOMAIN es /\ \A k \in DOMAIN es : k # 1 => 1 < k BY <1>2
<1>4. \A k \in DOMAIN es : k # 1 => es[1] < es[k] BY <1>3 DEF WaitsFor
<1>5. \A k \in DOMAIN es : es[k] \in Nat BY <1>1, <1>2, ElementOfSeq
<1>6. \A k \in DOMAIN es : k # 1 => es[k] # es[1] BY <1>3, <1>4, <1>5
<1> QED BY <1>2, <1>3, <1>6 DEF WaitsFor, First

(* When the first call has got more of the same kind it waits on.          *)
LEMMA WaitingOn ==
  ASSUME NEW es, NEW cs \in Seq(CallRecord), NEW kinds, WaitsFor(es, cs, kinds), es # <<>>,
         NEW at, NEW p, NEW ds, Changed(cs, es[1], cs[es[1]].kind, at, p, cs[es[1]].answer, ds)
  PROVE  WaitsFor(es, ds, kinds) /\ First(es, ds) = at
<1>1. /\ es[1] \in DOMAIN cs /\ cs[es[1]].kind \in kinds /\ cs[es[1]].answer # "value"
      /\ \A k \in DOMAIN es : k # 1 => es[k] # es[1]
  BY WaitingFirst
<1>2. /\ DOMAIN ds = DOMAIN cs
      /\ \A d \in DOMAIN cs : d # es[1] => ds[d] = cs[d]
      /\ ds[es[1]].kind = cs[es[1]].kind /\ ds[es[1]].at = at
      /\ ds[es[1]].answer = cs[es[1]].answer
  BY DEF Changed
<1>3. \A k \in DOMAIN es : k # 1 => ds[es[k]] = cs[es[k]]
  BY <1>1, <1>2 DEF WaitsFor
<1>4. \A k \in DOMAIN es : ds[es[k]].kind \in kinds /\ ds[es[k]].answer # "value"
  BY <1>1, <1>2, <1>3 DEF WaitsFor
<1>5. \A k \in DOMAIN es : k > 1 => ds[es[k]].at = <<>> /\ ds[es[k]].prompt = Fresh
  BY <1>3 DEF WaitsFor
<1> QED BY <1>2, <1>4, <1>5 DEF WaitsFor, First

(* Only the first has got something, so the next has nothing.              *)
LEMMA WaitingNext ==
  ASSUME NEW es, NEW cs \in Seq(CallRecord), NEW kinds, WaitsFor(es, cs, kinds), es # <<>>,
         NEW at, NEW p, NEW a, NEW ds, Changed(cs, es[1], cs[es[1]].kind, at, p, a, ds)
  PROVE  NextWaits(es, cs, ds, kinds)
<1> DEFINE fs == Tail(es)
<1>1. /\ Len(es) \in Nat /\ DOMAIN es = 1 .. Len(es)
      /\ \A k \in DOMAIN es : k # 1 => es[k] # es[1]
  BY WaitingFirst
<1>2. /\ fs \in Seq(Nat) /\ Len(fs) = Len(es) - 1
      /\ \A i \in 1 .. Len(fs) : fs[i] = es[i+1]
  BY HeadTailProperties DEF WaitsFor
<1> HIDE DEF fs
<1>3. Len(fs) \in Nat /\ DOMAIN fs = 1 .. Len(fs) BY <1>2, LenProperties
<1>4. \A k \in DOMAIN fs : k + 1 \in DOMAIN es /\ k + 1 > 1 /\ fs[k] = es[k + 1]
  BY <1>1, <1>2, <1>3
<1>5. /\ DOMAIN ds = DOMAIN cs
      /\ \A d \in DOMAIN cs : d # es[1] => ds[d] = cs[d]
  BY DEF Changed
<1>6. \A k \in DOMAIN fs : fs[k] \in DOMAIN cs /\ ds[fs[k]] = cs[es[k + 1]]
  BY <1>1, <1>4, <1>5 DEF WaitsFor
<1>7. \A k \in DOMAIN fs : /\ ds[fs[k]].kind \in kinds /\ ds[fs[k]].answer # "value"
                           /\ ds[fs[k]].at = <<>> /\ ds[fs[k]].prompt = Fresh
  BY <1>4, <1>6 DEF WaitsFor
<1>8. \A j, k \in DOMAIN fs : j < k => fs[j] < fs[k]
  <2>1. \A j, k \in DOMAIN fs : j < k => j + 1 < k + 1 BY <1>3
  <2> QED BY <1>4, <2>1 DEF WaitsFor
<1>9. WaitsFor(fs, ds, kinds) BY <1>2, <1>5, <1>6, <1>7, <1>8 DEF WaitsFor
<1>10. fs # <<>> => 1 \in DOMAIN fs
  <2>1. fs # <<>> => Len(fs) \in Nat \ {0} BY <1>2, EmptySeq
  <2> QED BY <1>3, <2>1
<1> QED BY <1>2, <1>5, <1>6, <1>7, <1>9, <1>10 DEF First, fs, NextWaits

(* Its record is the only one that changes.                                *)
LEMMA CallsStay ==
  ASSUME NEW cs, NEW cs0, NEW kinds, CallsFrom(cs, cs0, kinds), NEW c \in DOMAIN cs,
         cs[c].kind \in kinds, NEW at, NEW p, NEW a, NEW ds,
         Changed(cs, c, cs[c].kind, at, p, a, ds)
  PROVE  CallsFrom(ds, cs0, kinds)
<1>1. /\ ds \in Seq(CallRecord) /\ Len(ds) = Len(cs) /\ DOMAIN ds = DOMAIN cs
      /\ \A d \in DOMAIN cs : d # c => ds[d] = cs[d]
      /\ ds[c].kind = cs[c].kind
  BY DEF Changed
<1> QED BY <1>1 DEF CallsFrom

(* What it takes goes on where it was, and nothing else changes.           *)
LEMMA TakeKeeps ==
  ASSUME NEW cs, NEW es, NEW b, NEW u, NEW l, NEW w, NEW n, NEW x, NEW p, NEW y, NEW t,
         NEW ds, NEW d, Takes(cs, es, b, u, l, w, n, x, p, y, t, ds, d), taken \in Nat
  PROVE  Holds(ds, es, d, t, l, w)
<1> /\ Holds(cs, es, b, u, l, w) /\ es # <<>> /\ b # <<>>
    /\ n \in 0 .. Len(b[1].at)
    /\ Changed(cs, es[1], cs[es[1]].kind, y, p, cs[es[1]].answer, ds)
    /\ d \in Items /\ Shortened(b, n, d) /\ Messages(d)
  BY DEF Takes
<1>0. y = cs[es[1]].at \o x /\ t = u \o x /\ x = SubSeq(b[1].at, 1, n)
  BY DEF Takes, Joins, Starts
<1>1. /\ cs \in Seq(CallRecord) /\ WaitsFor(es, cs, TextKind) /\ b \in Items /\ u \in Positions
      /\ CallsFrom(cs, w.calls, TextKind)
  BY DEF Holds, CallsFrom
<1>2. /\ es[1] \in DOMAIN cs /\ cs[es[1]].kind \in TextKind /\ cs[es[1]].answer # "value"
      /\ First(es, cs) = cs[es[1]].at
  BY <1>1, WaitingFirst
<1>3. CallsFrom(ds, w.calls, TextKind) BY <1>1, <1>2, CallsStay
<1>4. WaitsFor(es, ds, TextKind) /\ First(es, ds) = y BY ZenonT(60), <1>1, WaitingOn
<1>5. /\ DOMAIN ds = DOMAIN cs /\ \A c \in DOMAIN cs : c # es[1] => ds[c] = cs[c]
      /\ ds[es[1]].answer # "value"
  BY <1>2 DEF Changed
<1>6. \A c \in DOMAIN ds : Fits(ds[c]) BY <1>5 DEF Holds, Fits
<1>7. t \in Positions /\ Kept(t, d, w.mail, l)
  <2> DEFINE K == MailTo(w.mail, "text")
  <2>1. Sorted(u, b, w.mail, K, InText) BY DEF Holds, Kept
  <2>2. /\ u \o x \in Positions /\ Sorted(u \o x, d, w.mail, K, InText)
        /\ All(u \o x, d, w.mail, K) = All(u, b, w.mail, K)
    <3> HIDE DEF K
    <3> QED BY <1>0, <1>1, <2>1, SortedMove
  <2>3. t \in Positions /\ Sorted(t, d, w.mail, K, InText)
        /\ All(t, d, w.mail, K) = All(u, b, w.mail, K)
    BY <1>0, <2>2
  <2> QED BY <2>3 DEF Holds, Kept
<1>8. ASSUME w.late = {}
      PROVE  /\ \A c \in DOMAIN ds : Pure(ds[c], ends)
             /\ Stream("text", First(es, ds), d, w.mail, w.now)
  <2>1. \A c \in DOMAIN ds : Pure(ds[c], ends) BY <1>5, <1>8 DEF Holds, Pure
  <2> DEFINE v == cs[es[1]].at
  <2>2. Stream("text", v, b, w.mail, w.now) /\ v \in Positions
    BY <1>1, <1>2, <1>8, CallsSeq DEF Holds
  <2>3. Sorted(v, b, w.mail, w.now, Heard) BY <2>2 DEF Stream, Flow
  <2>4. /\ Sorted(y, d, w.mail, w.now, Heard)
        /\ All(y, d, w.mail, w.now) = All(v, b, w.mail, w.now)
    <3>1. y = v \o x BY <1>0
    <3> HIDE DEF v
    <3>2. /\ Sorted(v \o x, d, w.mail, w.now, Heard)
          /\ All(v \o x, d, w.mail, w.now) = All(v, b, w.mail, w.now)
      BY <1>0, <1>1, <2>2, <2>3, SortedMove
    <3> QED BY <3>1, <3>2
  <2>5. ~ (("text" \notin readers) \/ life[imp] = "waiting") BY <2>2 DEF Stream
  <2> HIDE DEF v
  <2>6. Stream("text", y, d, w.mail, w.now) BY <2>2, <2>4, <2>5 DEF Stream, Flow
  <2> QED BY <1>4, <2>1, <2>6 DEF v
<1> QED BY <1>3, <1>4, <1>6, <1>7, <1>8 DEF Holds

(* The first call is answered.                                             *)
LEMMA AnswerKeeps ==
  ASSUME NEW cs, NEW es, NEW b, NEW u, NEW l, NEW w, Holds(cs, es, b, u, l, w), taken \in Nat,
         es # <<>>, NEW p, NEW a, NEW ds,
         Changed(cs, es[1], cs[es[1]].kind, cs[es[1]].at, p, a, ds), Fits(ds[es[1]]),
         w.late = {} /\ a = "value" => 0 \notin ToSet(cs[es[1]].at)
  PROVE  /\ Holds(ds, Tail(es), b, u, l, w) /\ First(Tail(es), ds) = <<>>
         /\ Len(Tail(es)) = Len(es) - 1
         /\ Tail(es) # <<>> => Goes(ds[Tail(es)[1]])
<1>1. /\ cs \in Seq(CallRecord) /\ WaitsFor(es, cs, TextKind) /\ b \in Items
      /\ CallsFrom(cs, w.calls, TextKind)
  BY DEF Holds, CallsFrom
<1>2. /\ es[1] \in DOMAIN cs /\ cs[es[1]].kind \in TextKind
      /\ First(es, cs) = cs[es[1]].at
  BY <1>1, WaitingFirst
<1>3. CallsFrom(ds, w.calls, TextKind) BY <1>1, <1>2, CallsStay
<1>4. /\ WaitsFor(Tail(es), ds, TextKind) /\ First(Tail(es), ds) = <<>>
      /\ Len(Tail(es)) = Len(es) - 1
      /\ Tail(es) # <<>> => ds[Tail(es)[1]].at = <<>> /\ ds[Tail(es)[1]].prompt = Fresh
  <2>1. cs \in Seq(CallRecord) /\ WaitsFor(es, cs, TextKind) BY <1>1
  <2>2. NextWaits(es, cs, ds, TextKind) BY <2>1, WaitingNext
  <2> QED BY <2>2 DEF NextWaits
<1>5. /\ DOMAIN ds = DOMAIN cs /\ \A c \in DOMAIN cs : c # es[1] => ds[c] = cs[c]
      /\ ds[es[1]].answer = a /\ ds[es[1]].at = cs[es[1]].at
      /\ ds[es[1]].kind = cs[es[1]].kind
  BY DEF Changed
<1>6. \A c \in DOMAIN ds : Fits(ds[c]) BY <1>5 DEF Holds
<1>7. ASSUME w.late = {}
      PROVE  /\ \A c \in DOMAIN ds : Pure(ds[c], ends)
             /\ Stream("text", First(Tail(es), ds), b, w.mail, w.now)
  <2> DEFINE v == cs[es[1]].at
  <2>1. Stream("text", v, b, w.mail, w.now) /\ v \in Positions
    BY <1>1, <1>2, <1>7, CallsSeq DEF Holds
  <2>2. Flow(taken, v, b, w.mail, w.now) BY <2>1 DEF Stream
  <2>3. a = "value" => Gapless(v)
    <3> HIDE DEF v
    <3>1. a = "value" => 0 \notin ToSet(v) BY <1>7 DEF v
    <3> QED BY <2>1, <2>2, <3>1, FlowGapless
  <2>4. Pure(ds[es[1]], ends) BY <1>2, <1>5, <2>3 DEF Pure, TextKind
  <2>5. \A c \in DOMAIN ds : Pure(ds[c], ends) BY <1>5, <1>7, <2>4 DEF Holds
  <2>6. Parts(b, 0, b, <<>>)
    <3>1. Len(b) \in Nat BY <1>1, ItemsSeq
    <3>2. <<>> \in Items /\ Len(<<>>) = 0 BY EmptySeq DEF Items
    <3> QED BY <1>1, <3>1, <3>2 DEF Parts
  <2>7. 0 \in 0 .. Len(b) BY <1>1, ItemsSeq
  <2>8. /\ Flow(taken, <<>>, b, w.mail, w.now)
        /\ All(<<>>, b, w.mail, w.now) \subseteq All(v, b, w.mail, w.now)
    <3> HIDE DEF v
    <3> QED BY <1>1, <2>1, <2>2, <2>6, <2>7, FlowDrop
  <2>9. Stream("text", <<>>, b, w.mail, w.now)
    <3> HIDE DEF v
    <3> QED BY <2>1, <2>8 DEF Stream
  <2> QED BY <1>4, <2>5, <2>9
<1>8. Tail(es) # <<>> => Goes(ds[Tail(es)[1]])
  <2>1. <<>> \in Positions /\ Len(<<>>) = 0 BY EmptySeq DEF Positions
  <2>2. Fresh \in Promptly /\ ~ Fresh.done BY <2>1 DEF Fresh, Promptly, Prompts
  <2>3. Keys(Fresh, <<>>) = After(Fresh, 0) BY <2>1, <2>2, KeysRun DEF Run
  <2>4. Keys(Fresh, <<>>).n = 0 /\ Keys(Fresh, <<>>).prompt = Fresh
    BY <2>2, <2>3, AfterFields
  <2> QED BY <1>4, <2>1, <2>2, <2>4 DEF Goes, Follows
<1>9. Holds(ds, Tail(es), b, u, l, w) BY <1>3, <1>4, <1>6, <1>7 DEF Holds
<1> QED BY <1>4, <1>8, <1>9

(* Pieces are thrown away when nobody has got anything of them.            *)
LEMMA DropKeeps ==
  ASSUME NEW cs, NEW es, NEW b, NEW u, NEW l, NEW w, Holds(cs, es, b, u, l, w), taken \in Nat,
         First(es, cs) = <<>>, NEW e \in 0 .. Len(b), NEW c, NEW d, Parts(b, e, c, d)
  PROVE  Holds(cs, es, c, u, l \cup (Texts(d) \ {0}), w)
<1>1. /\ b \in Items /\ u \in Positions /\ c \in Items /\ Messages(b)
      /\ Kept(u, b, w.mail, l)
  BY DEF Holds, Parts
<1> DEFINE K == MailTo(w.mail, "text")
           k == l \cup (Texts(d) \ {0})
<1>2. /\ Sorted(u, c, w.mail, K, InText)
      /\ All(u, b, w.mail, K) = All(u, c, w.mail, K) \cup Texts(d)
      /\ Before(ToSet(u) \cup Texts(d), All(<<>>, c, w.mail, K), InText)
      /\ \A j \in DOMAIN c : \E i \in DOMAIN b : c[j] = b[i]
  <2>1. Sorted(u, b, w.mail, K, InText) BY <1>1 DEF Kept
  <2>2. Dropped(u, b, c, d, w.mail, K, InText)
    <3> HIDE DEF K
    <3> QED BY <1>1, <2>1, SortedDrop
  <2> QED BY <2>2 DEF Dropped
<1>3. Messages(c) BY <1>1, <1>2 DEF Messages
<1>4. k \subseteq 0 .. Length
  <2>1. Texts(d) \subseteq 0 .. Length
    <3>1. d \in Items BY DEF Parts
    <3>2. \A j \in DOMAIN d : d[j].at \in Positions BY <3>1, ItemsSeq
    <3> QED BY <3>2, SetOfPiece DEF Texts
  <2> QED BY <2>1 DEF Holds
<1>5. ((All(u, c, w.mail, K) \ {0}) \cap k = {})
  <2> SUFFICES ASSUME NEW x \in All(u, c, w.mail, K), x # 0, x \in k PROVE FALSE
    OBVIOUS
  <2>1. x \notin l BY <1>1, <1>2 DEF Kept
  <2>2. x \in Texts(d) BY <2>1
  <2>3. CASE x \in All(<<>>, c, w.mail, K)
    <3>1. <<x, x>> \in InText BY <1>2, <2>2, <2>3 DEF Before
    <3> QED BY <3>1, InputAssumption DEF InText
  <2>4. CASE x \in ToSet(u)
    <3>1. PICK j \in DOMAIN d : x \in ToSet(d[j].at) BY <2>2 DEF Texts
    <3>2. j \in DOMAIN b /\ d[j] = b[j]
      <4>1. Len(b) \in Nat /\ DOMAIN b = 1 .. Len(b) /\ DOMAIN d = 1 .. Len(d)
        BY <1>1, ItemsSeq DEF Parts
      <4> QED BY <4>1 DEF Parts
    <3>3. <<x, x>> \in InText
      BY <1>1, <2>4, <3>1, <3>2 DEF Kept, Sorted, TakenFirst, Before
    <3> QED BY <3>3, InputAssumption DEF InText
  <2> QED BY <2>3, <2>4, NothingTaken DEF All
<1>6. ((All(u, c, w.mail, K) \ {0}) \cup k = given) BY <1>1, <1>2 DEF Kept
<1>7. Kept(u, c, w.mail, k) BY <1>2, <1>5, <1>6 DEF Kept
<1>8. ASSUME w.late = {} PROVE Stream("text", First(es, cs), c, w.mail, w.now)
  <2>1. Stream("text", <<>>, b, w.mail, w.now) BY <1>8 DEF Holds
  <2>2. Flow(taken, <<>>, b, w.mail, w.now) BY <2>1 DEF Stream
  <2>3. <<>> \in Positions BY EmptySeq DEF Positions
  <2>4. /\ Flow(taken, <<>>, c, w.mail, w.now)
        /\ All(<<>>, c, w.mail, w.now) \subseteq All(<<>>, b, w.mail, w.now)
    BY <1>1, <2>2, <2>3, FlowDrop
  <2>5. b = <<>> => c = <<>>
    <3>1. b = <<>> => Len(c) = 0 BY EmptySeq DEF Parts
    <3> QED BY <1>1, <3>1, EmptySeq DEF Items
  <2> QED BY <2>1, <2>4, <2>5 DEF Stream
<1> HIDE DEF k
<1>9. Holds(cs, es, c, u, k, w) BY <1>1, <1>3, <1>4, <1>7, <1>8 DEF Holds
<1> QED BY <1>9 DEF k

(* A loop that spins has not come to the end of a line.                    *)
LEMMA SpinsBeforeEnd ==
  ASSUME NEW p \in Promptly, NEW at \in Positions, Keys(p, at).spins
  PROVE  ~ Keys(p, at).prompt.done
<1>1. PICK f : Run(p, at, f) /\ f[Len(at)] = Keys(p, at) BY KeysRun
<1> DEFINE P == {j \in 0 .. Len(at) : f[j].spins => ~ f[j].prompt.done}
<1>2. Len(at) \in Nat BY PositionsSeq
<1>3. 0 \in P
  <2>1. ~ f[0].spins BY <1>1, AfterFields DEF Run
  <2> QED BY <1>2, <2>1
<1>4. ASSUME NEW j \in 1 .. Len(at), j - 1 \in P PROVE j \in P
  <2>1. f[j - 1] \in Passes /\ f[j - 1].n <= Len(at) /\ f[j] = KeyPass(at, f[j - 1])
    BY <1>1, <1>2 DEF Run, PassesOver
  <2> DEFINE k == f[j - 1]
  <2>2. k.prompt \in Promptly /\ k.n \in Nat BY <2>1, PassFields
  <2>3. k.spins => ~ k.prompt.done BY <1>4
  <2> HIDE DEF k
  <2>4. k \in Passes /\ k.n <= Len(at) BY <2>1 DEF k
  <2>5. KeyPass(at, k).spins => ~ KeyPass(at, k).prompt.done
    <3>1. CASE Stops(at, k) BY <2>3, <3>1 DEF Stops
    <3>2. CASE Types(at, k) BY <2>2, <3>2, AfterFields DEF Types
    <3>3. CASE Escapes(at, k) BY <2>2, <3>3, AfterFields DEF Escapes
    <3>4. CASE Spins(at, k) BY <2>4, <3>4, SpinningFields DEF Spins
    <3>5. CASE Skips(at, k)
      <4>1. k.n + Bell(at, k.n + 1) \in Nat BY <1>2, <2>2, <3>5 DEF Skips
      <4> QED BY <2>2, <3>5, <4>1, AfterFields DEF Skips
    <3> QED BY <2>4, <3>1, <3>2, <3>3, <3>4, <3>5, KeyPassCases
  <2> QED BY <2>1, <2>5 DEF k
<1> HIDE DEF P
<1>5. P \in SUBSET (0 .. Len(at)) BY DEF P
<1>6. \A j \in 0 .. Len(at) : j \in P BY <1>2, <1>3, <1>4, <1>5, UpTo
<1>7. Len(at) \in P BY <1>2, <1>6
<1> QED BY <1>1, <1>7 DEF P

(* The first piece without its first characters, ...                       *)
LEMMA CutPiece ==
  ASSUME NEW b \in Items, b # <<>>, NEW n \in 0 .. Len(b[1].at), Messages(b),
         b[1].type = "stdIn" \/ n = 0
  PROVE  LET d == [b EXCEPT ![1].at = SubSeq(b[1].at, n + 1, Len(b[1].at))]
         IN d \in Items /\ Messages(d) /\ Shortened(b, n, d)
<1> DEFINE I == [type : {"stdIn", "endOfFile", "error"}, at : Positions]
           h == b[1]
           at == h.at
           rest == SubSeq(at, n + 1, Len(at))
           d == [b EXCEPT ![1].at = rest]
<1>1. Len(b) \in Nat \ {0} /\ 1 \in 1 .. Len(b) /\ DOMAIN b = 1 .. Len(b)
  <2>1. Len(b) \in Nat \ {0} BY EmptySeq DEF Items
  <2> QED BY <2>1, ItemsSeq
<1>2. h \in I /\ at \in Positions
  <2>1. b \in Seq(I) /\ \A i \in 1 .. Len(b) : b[i] \in I
    <3>1. b \in Seq(I) BY DEF Items
    <3> HIDE DEF I
    <3> QED BY <3>1, ElementOfSeq
  <2> HIDE DEF I
  <2>2. h \in I BY <1>1, <2>1
  <2> QED BY <2>2 DEF I
<1>3. /\ rest \in Positions /\ ToSet(rest) \subseteq ToSet(at)
      /\ n = 0 => rest = at
  <2>1. rest \in Positions /\ ToSet(rest) \subseteq ToSet(at)
    <3> HIDE DEF at
    <3>1. n \in 0 .. Len(at) BY DEF at
    <3> QED BY <1>2, <3>1, PartsOfPiece
  <2>2. n = 0 => rest = at
    <3>1. SubSeq(at, 1, Len(at)) = at BY <1>2, SubSeqFull DEF Positions
    <3> QED BY <3>1
  <2> QED BY <2>1, <2>2
<1>4. [h EXCEPT !.at = rest] = [type |-> h.type, at |-> rest]
  <2> HIDE DEF h, rest
  <2> QED BY <1>2
<1>5. d = [b EXCEPT ![1] = [type |-> h.type, at |-> rest]] BY <1>4
<1>6. [type |-> h.type, at |-> rest] \in I /\ b \in Seq(I)
  <2> HIDE DEF rest, h
  <2> QED BY <1>2, <1>3 DEF Items
<1>7. /\ d \in Seq(I) /\ Len(d) = Len(b)
      /\ \A j \in 1 .. Len(b) : d[j] = IF j = 1 THEN [type |-> h.type, at |-> rest] ELSE b[j]
  <2> HIDE DEF h, rest, I, d
  <2> QED BY <1>1, <1>5, <1>6, ExceptSeq
<1>8. d \in Items BY <1>7 DEF Items
<1> HIDE DEF d, I, rest
<1>9. DOMAIN d = 1 .. Len(b) BY <1>7, <1>8, ItemsSeq
<1>10. d[1] = [type |-> h.type, at |-> rest] /\ \A j \in 2 .. Len(b) : d[j] = b[j]
  <2>1. \A j \in 2 .. Len(b) : j \in 1 .. Len(b) /\ j # 1 BY <1>1
  <2> QED BY <1>1, <1>7, <2>1
<1>11. Shortened(b, n, d) BY <1>7, <1>10 DEF Shortened, rest
<1>12. Message(d[1])
  <2>1. Message(h) BY <1>1 DEF Messages
  <2>2. d[1].type = h.type /\ d[1].at = rest BY <1>10
  <2>3. CASE h.type = "stdIn" BY <1>3, <2>1, <2>2, <2>3 DEF Message
  <2>4. CASE h.type # "stdIn" BY <1>3, <2>1, <2>2, <2>4 DEF Message
  <2> QED BY <2>3, <2>4
<1>13. Messages(d)
  <2>1. \A j \in 1 .. Len(b) : j = 1 \/ j \in 2 .. Len(b) BY <1>1
  <2> QED BY <1>1, <1>9, <1>10, <1>12, <2>1 DEF Messages
<1> QED BY <1>8, <1>11, <1>13 DEF d, rest

(* ... or the pieces without it.                                           *)
LEMMA CutAll ==
  ASSUME NEW b \in Items, b # <<>>, Messages(b)
  PROVE  Tail(b) \in Items /\ Messages(Tail(b)) /\ Shortened(b, Len(b[1].at), Tail(b))
<1> DEFINE I == [type : {"stdIn", "endOfFile", "error"}, at : Positions]
           d == Tail(b)
<1>1. Len(b) \in Nat \ {0} /\ DOMAIN b = 1 .. Len(b)
  BY EmptySeq, ItemsSeq DEF Items
<1>2. /\ d \in Seq(I) /\ Len(d) = Len(b) - 1
      /\ \A i \in 1 .. Len(d) : d[i] = b[i+1]
  <2> HIDE DEF I, d
  <2> QED BY HeadTailProperties DEF Items, I, d
<1>3. d \in Items BY <1>2 DEF Items
<1> HIDE DEF d, I
<1>4. DOMAIN d = 1 .. Len(d) BY <1>3, ItemsSeq
<1>5. Messages(d)
  <2>1. \A j \in DOMAIN d : j + 1 \in DOMAIN b /\ d[j] = b[j + 1]
    BY <1>1, <1>2, <1>4
  <2> QED BY <2>1 DEF Messages
<1>6. Shortened(b, Len(b[1].at), d) BY <1>2 DEF Shortened
<1> QED BY <1>3, <1>5, <1>6 DEF d

(* A line is its characters up to the first end of line.                   *)
LEMMA LineOf ==
  ASSUME NEW at \in Positions, FirstOf(at, {"newline"}) # 0,
         NEW x, Starts(x, at, FirstOf(at, {"newline"}))
  PROVE  /\ x \in Positions /\ Len(x) > 0 /\ Len(x) = FirstOf(at, {"newline"})
         /\ FirstOf(x, {"newline"}) = Len(x) /\ x[Len(x)] # 0
<1> DEFINE C == {"newline"}
<1>1. PICK n \in 1 .. Len(at) : n = FirstOf(at, C) BY FirstPlace, PositionsSeq
<1>2. /\ Char(at[n]) \in C
      /\ \A k \in 1 .. n - 1 : Char(at[k]) \notin C
  BY <1>1, FirstPlace
<1>3. Len(at) \in Nat BY PositionsSeq
<1>4. x \in Positions /\ Len(x) = n /\ \A k \in 1 .. n : x[k] = at[k]
  <2>1. \A l \in Nat : \A k \in 1 .. l :
           1 \in 1 .. l + 1 /\ k \in 1 - 1 .. l /\ k - 1 + 1 = k
    OBVIOUS
  <2>2. /\ \A i \in 1 .. n : 1 + i - 1 = i BY <1>1
  <2>3. 1 \in 1 .. Len(at) + 1 /\ n \in 1 - 1 .. Len(at) /\ n - 1 + 1 = n
    BY <1>3, <2>1
  <2>4. /\ SubSeq(at, 1, n) \in Positions
        /\ Len(SubSeq(at, 1, n)) = n - 1 + 1
        /\ \A k \in 1 .. n - 1 + 1 : SubSeq(at, 1, n)[k] = at[1 + k - 1]
    BY <2>3, PartOfPiece
  <2> QED BY <1>1, <2>2, <2>3, <2>4 DEF Starts
<1>5. PICK i \in 0 .. n : i = FirstOf(x, C) BY <1>4, FirstPlace
<1>6. n \in 1 .. n BY <1>1
<1>7. i # 0
  <2>1. i = 0 => Char(x[n]) \notin C BY <1>4, <1>5, <1>6, FirstPlace
  <2> QED BY <2>1, <1>2, <1>4, <1>6
<1>8. ~ (i < n)
  <2> SUFFICES ASSUME i < n PROVE FALSE OBVIOUS
  <2>1. i \in 1 .. n - 1 /\ i \in 1 .. n /\ i > 0 BY <1>5, <1>7
  <2>2. Char(x[i]) \in C BY <1>4, <1>5, <2>1, FirstPlace
  <2> QED BY <1>2, <1>4, <2>1, <2>2
<1>9. i = n BY <1>5, <1>8
<1>10. x[n] # 0 BY <1>2, <1>4, <1>6 DEF Char
<1> QED BY <1>1, <1>4, <1>5, <1>9, <1>10

(* The last character of pieces after each other.                          *)
LEMMA LastJoined ==
  ASSUME NEW a \in Positions, NEW b \in Positions, Len(b) > 0
  PROVE  Len(a \o b) > 0 /\ (a \o b)[Len(a \o b)] = b[Len(b)]
<1>1. Len(a) \in Nat /\ Len(b) \in Nat BY PositionsSeq
<1>2. Len(b) \in 1 .. Len(b) BY <1>1
<1>3. (a \o b)[Len(a) + Len(b)] = b[Len(b)] /\ Len(a \o b) = Len(a) + Len(b)
  BY <1>2, Joined
<1> QED BY <1>1, <1>3

(* Where the first error is.                                               *)
LEMMA ErrorPlace ==
  ASSUME NEW b \in Items
  PROVE  FirstError(b) \in 0 .. Len(b)
<1> DEFINE E == {i \in 1 .. Len(b) : b[i].type = "error"}
<1>1. Len(b) \in Nat BY ItemsSeq
<1>2. CASE E = {}
  <2>1. FirstError(b) = 0 BY <1>2 DEF FirstError, SelectInSeq
  <2> QED BY <2>1, <1>1
<1>3. CASE E # {}
  <2>1. \E u \in E : \A v \in E : u <= v
    <3>1. E \in SUBSET Nat BY <1>1
    <3> HIDE DEF E
    <3> QED BY <3>1, <1>3, LeastExists
  <2>2. FirstError(b) = CHOOSE x \in E : \A y \in E : x <= y
    BY <1>3 DEF FirstError, SelectInSeq, Min
  <2>3. FirstError(b) \in E
    <3> HIDE DEF E
    <3> QED BY <2>1, <2>2
  <2> QED BY <2>3, <1>1
<1> QED BY <1>2, <1>3

(* The prompt that the loop over a piece starts from.                      *)
LEMMA FreshPrompt ==
  Fresh \in Promptly /\ Fresh \in Simply /\ ~ Fresh.done /\ ~ Fresh.aborted
<1>1. <<>> \in Positions /\ Len(<<>>) = 0 BY EmptySeq DEF Positions
<1> QED BY <1>1 DEF Fresh, Promptly, Prompts, Simply

(* A prompt that takes on is where it would be if all had come at once.    *)
LEMMA TakesOn ==
  ASSUME NEW v \in Positions, NEW at \in Positions, Keys(Fresh, v).n = Len(v)
  PROVE  LET k == Keys(Keys(Fresh, v).prompt, at)
             x == SubSeq(at, 1, k.n)
         IN /\ x \in Positions /\ v \o x \in Positions /\ Len(x) = k.n
            /\ Keys(Fresh, v \o x).n = Len(v \o x)
            /\ Keys(Fresh, v \o x).prompt = k.prompt
<1> DEFINE p == Keys(Fresh, v).prompt
           k == Keys(p, at)
           x == SubSeq(at, 1, k.n)
<1>1. p \in Promptly BY KeysTypes, FreshPrompt
<1>2. /\ x \in Positions /\ Len(x) = k.n
      /\ Keys(p, x).n = Len(x) /\ Keys(p, x).prompt = k.prompt
  <2> HIDE DEF p
  <2> QED BY <1>1, KeysOfPrefix
<1> HIDE DEF x
<1>3. v \o x \in Positions /\ Len(v \o x) = Len(v) + Len(x) BY <1>2, Joined
<1>4. Keys(Fresh, v \o x) = Shifted(Keys(p, x), Len(v))
  BY <1>2, FreshPrompt, KeysCompose
<1>5. Keys(Fresh, v \o x).n = Len(v) + Len(x) /\ Keys(Fresh, v \o x).prompt = k.prompt
  <2> HIDE DEF p, k
  <2> QED BY <1>2, <1>4 DEF Shifted
<1> QED BY <1>2, <1>3, <1>5 DEF x

----------------------------------------------------------------------------
(* The state of the loop that hands on the lines and prompts.              *)

Text(cs, es, b, u, l, lp) ==
  [calls |-> cs, entries |-> es, buffer |-> b, used |-> u, lost |-> l, loop |-> lp]
TextRecords ==
  [calls : Seq(CallRecord), entries : Seq(Nat), buffer : Items, used : Positions,
   lost : SUBSET (0 .. Length), loop : {"on", "over", "spins"}]

TextStates(w, N) ==
  {s \in TextRecords : /\ Holds(s.calls, s.entries, s.buffer, s.used, s.lost, w)
                       /\ s.entries # <<>> => Goes(s.calls[s.entries[1]])
                       /\ Len(s.entries) <= N}

(* One with other fields ...                                               *)
SetText(s, cs, es, b, u, l, lp) ==
  /\ \A x : [s EXCEPT !.loop = x]
         = Text(cs, es, b, u, l, x)
  /\ \A x, y : [s EXCEPT !.calls = x, !.entries = y]
         = Text(x, y, b, u, l, lp)
  /\ \A x, y, z : [s EXCEPT !.loop = x, !.buffer = y, !.lost = z]
         = Text(cs, es, y, u, z, x)
  /\ \A x, y, z, t : [s EXCEPT !.calls = x, !.entries = y, !.buffer = z, !.used = t]
         = Text(x, y, z, t, l, lp)
  /\ \A x, y, z, t : [s EXCEPT !.calls = x, !.buffer = y, !.used = z, !.loop = t]
         = Text(x, es, y, z, l, t)

(* The records of the loop with some fields changed.                       *)
LEMMA TextSet ==
  ASSUME NEW cs, NEW es, NEW b, NEW u, NEW l, NEW lp, NEW s, s = Text(cs, es, b, u, l, lp)
  PROVE  SetText(s, cs, es, b, u, l, lp)
<1>1. ASSUME NEW x
      PROVE  [s EXCEPT !.loop = x]
             = Text(cs, es, b, u, l, x)
  BY DEF Text
<1>2. ASSUME NEW x, NEW y
      PROVE  [s EXCEPT !.calls = x, !.entries = y]
             = Text(x, y, b, u, l, lp)
  <2> DEFINE e1 == [s EXCEPT !.calls = x]
  <2>1. e1 = Text(x, es, b, u, l, lp) BY DEF Text
  <2> HIDE DEF e1
  <2>2. [e1 EXCEPT !.entries = y] = Text(x, y, b, u, l, lp) BY <2>1 DEF Text
  <2> QED BY <2>2 DEF e1
<1>3. ASSUME NEW x, NEW y, NEW z
      PROVE  [s EXCEPT !.loop = x, !.buffer = y, !.lost = z]
             = Text(cs, es, y, u, z, x)
  <2> DEFINE e1 == [s EXCEPT !.loop = x]
  <2>1. e1 = Text(cs, es, b, u, l, x) BY DEF Text
  <2> HIDE DEF e1
  <2> DEFINE e2 == [e1 EXCEPT !.buffer = y]
  <2>2. e2 = Text(cs, es, y, u, l, x) BY <2>1 DEF Text
  <2> HIDE DEF e2
  <2>3. [e2 EXCEPT !.lost = z] = Text(cs, es, y, u, z, x) BY <2>2 DEF Text
  <2> QED BY <2>3 DEF e1, e2
<1>4. ASSUME NEW x, NEW y, NEW z, NEW t
      PROVE  [s EXCEPT !.calls = x, !.entries = y, !.buffer = z, !.used = t]
             = Text(x, y, z, t, l, lp)
  <2> DEFINE e1 == [s EXCEPT !.calls = x]
  <2>1. e1 = Text(x, es, b, u, l, lp) BY DEF Text
  <2> HIDE DEF e1
  <2> DEFINE e2 == [e1 EXCEPT !.entries = y]
  <2>2. e2 = Text(x, y, b, u, l, lp) BY <2>1 DEF Text
  <2> HIDE DEF e2
  <2> DEFINE e3 == [e2 EXCEPT !.buffer = z]
  <2>3. e3 = Text(x, y, z, u, l, lp) BY <2>2 DEF Text
  <2> HIDE DEF e3
  <2>4. [e3 EXCEPT !.used = t] = Text(x, y, z, t, l, lp) BY <2>3 DEF Text
  <2> QED BY <2>4 DEF e1, e2, e3
<1>5. ASSUME NEW x, NEW y, NEW z, NEW t
      PROVE  [s EXCEPT !.calls = x, !.buffer = y, !.used = z, !.loop = t]
             = Text(x, es, y, z, l, t)
  <2> DEFINE e1 == [s EXCEPT !.calls = x]
  <2>1. e1 = Text(x, es, b, u, l, lp) BY DEF Text
  <2> HIDE DEF e1
  <2> DEFINE e2 == [e1 EXCEPT !.buffer = y]
  <2>2. e2 = Text(x, es, y, u, l, lp) BY <2>1 DEF Text
  <2> HIDE DEF e2
  <2> DEFINE e3 == [e2 EXCEPT !.used = z]
  <2>3. e3 = Text(x, es, y, z, l, lp) BY <2>2 DEF Text
  <2> HIDE DEF e3
  <2>4. [e3 EXCEPT !.loop = t] = Text(x, es, y, z, l, t) BY <2>3 DEF Text
  <2> QED BY <2>4 DEF e1, e2, e3
<1> QED BY <1>1, <1>2, <1>3, <1>4, <1>5 DEF SetText

(* ... and what it is made of.                                            *)
LEMMA TextFields ==
  ASSUME NEW s \in TextRecords
  PROVE  /\ s = Text(s.calls, s.entries, s.buffer, s.used, s.lost, s.loop)
         /\ s.loop \in {"on", "over", "spins"} /\ s.calls \in Seq(CallRecord)
         /\ s.entries \in Seq(Nat) /\ s.buffer \in Items /\ s.used \in Positions
         /\ \A x : [s EXCEPT !.loop = x]
             = Text(s.calls, s.entries, s.buffer, s.used, s.lost, x)
         /\ \A x, y : [s EXCEPT !.calls = x, !.entries = y]
             = Text(x, y, s.buffer, s.used, s.lost, s.loop)
         /\ \A x, y, z : [s EXCEPT !.loop = x, !.buffer = y, !.lost = z]
             = Text(s.calls, s.entries, y, s.used, z, x)
         /\ \A x, y, z, t : [s EXCEPT !.calls = x, !.entries = y, !.buffer = z, !.used = t]
             = Text(x, y, z, t, s.lost, s.loop)
         /\ \A x, y, z, t : [s EXCEPT !.calls = x, !.buffer = y, !.used = z, !.loop = t]
             = Text(x, s.entries, y, z, s.lost, t)
<1>1. s = Text(s.calls, s.entries, s.buffer, s.used, s.lost, s.loop)
  BY DEF TextRecords, Text
<1>2. /\ s.loop \in {"on", "over", "spins"} /\ s.calls \in Seq(CallRecord)
      /\ s.entries \in Seq(Nat) /\ s.buffer \in Items /\ s.used \in Positions
  BY DEF TextRecords
<1> DEFINE cs == s.calls
           es == s.entries
           b == s.buffer
           u == s.used
           l == s.lost
           lp == s.loop
<1>3. s = Text(cs, es, b, u, l, lp) BY <1>1
<1> HIDE DEF cs, es, b, u, l, lp
<1>4. SetText(s, cs, es, b, u, l, lp) BY <1>3, TextSet
<1> QED BY <1>1, <1>2, <1>4 DEF SetText, cs, es, b, u, l, lp

(* A state of the loop is a record of its fields.                          *)
LEMMA TextState ==
  ASSUME NEW cs, NEW es, NEW b, NEW u, NEW l, NEW w, Holds(cs, es, b, u, l, w),
         NEW lp \in {"on", "over", "spins"}
  PROVE  LET s == Text(cs, es, b, u, l, lp)
         IN /\ s \in TextRecords
            /\ s.calls = cs /\ s.entries = es /\ s.buffer = b /\ s.used = u
            /\ s.lost = l /\ s.loop = lp
BY DEF Holds, CallsFrom, WaitsFor, Text, TextRecords

(* The loop stops, also when the pieces are for a subscriber.              *)
LEMMA StopKeeps ==
  ASSUME NEW w, NEW N \in Nat, NEW s \in TextStates(w, N), taken \in Nat
  PROVE  /\ [s EXCEPT !.loop = "over"] \in TextStates(w, N)
         /\ s.entries = <<>> =>
               [s EXCEPT !.loop = "over", !.buffer = <<>>, !.lost = @ \cup TextOf(s.buffer)]
                  \in TextStates(w, N)
<1>1. /\ s \in TextRecords /\ Holds(s.calls, s.entries, s.buffer, s.used, s.lost, w)
      /\ s.entries # <<>> => Goes(s.calls[s.entries[1]])
      /\ Len(s.entries) <= N
  BY DEF TextStates
<1>2. [s EXCEPT !.loop = "over"] \in TextStates(w, N)
  <2>1. [s EXCEPT !.loop = "over"] = Text(s.calls, s.entries, s.buffer, s.used, s.lost, "over")
    BY <1>1, TextFields
  <2> QED BY <1>1, <2>1, TextState DEF TextStates
<1>3. ASSUME s.entries = <<>>
      PROVE  [s EXCEPT !.loop = "over", !.buffer = <<>>, !.lost = @ \cup TextOf(s.buffer)]
                \in TextStates(w, N)
  <2> DEFINE b == s.buffer
             l == s.lost \cup (Texts(b) \ {0})
  <2>1. First(s.entries, s.calls) = <<>> BY <1>3 DEF First
  <2>2. b \in Items /\ Len(b) \in 0 .. Len(b)
    <3>1. b \in Items BY <1>1, TextFields
    <3>2. Len(b) \in Nat BY <3>1, ItemsSeq
    <3>3. \A n \in Nat : n \in 0 .. n OBVIOUS
    <3> QED BY <3>1, <3>2, <3>3
  <2>3. Parts(b, Len(b), <<>>, b)
    <3>1. <<>> \in Items /\ Len(<<>>) = 0 BY EmptySeq DEF Items
    <3>2. Len(b) \in Nat BY <2>2, ItemsSeq
    <3> HIDE DEF b
    <3>3. Len(<<>>) = Len(b) - Len(b) /\ \A j \in 1 .. Len(<<>>) : FALSE
      BY <3>1, <3>2
    <3> QED BY <2>2, <3>1, <3>3 DEF Parts
  <2>4. Holds(s.calls, s.entries, <<>>, s.used, l, w)
    BY <1>1, <2>1, <2>2, <2>3, DropKeeps
  <2>5. [s EXCEPT !.loop = "over", !.buffer = <<>>, !.lost = @ \cup TextOf(s.buffer)]
        = Text(s.calls, s.entries, <<>>, s.used, l, "over")
    <3>1. TextOf(s.buffer) = Texts(b) \ {0} BY DEF TextOf, Texts
    <3> DEFINE k == s.lost \cup TextOf(s.buffer)
    <3>4. k = l BY <3>1
    <3>5. [s EXCEPT !.loop = "over", !.buffer = <<>>, !.lost = @ \cup TextOf(s.buffer)]
          = [s EXCEPT !.loop = "over", !.buffer = <<>>, !.lost = k]
      OBVIOUS
    <3> HIDE DEF k
    <3>2. [s EXCEPT !.loop = "over", !.buffer = <<>>, !.lost = @ \cup TextOf(s.buffer)]
          = [s EXCEPT !.loop = "over", !.buffer = <<>>, !.lost = l]
      BY <3>4, <3>5, Zenon
    <3> HIDE DEF l, b
    <3>3. \A x, y, z : [s EXCEPT !.loop = x, !.buffer = y, !.lost = z]
                       = Text(s.calls, s.entries, y, s.used, z, x)
      BY <1>1, TextFields
    <3> QED BY <3>2, <3>3, Zenon
  <2> HIDE DEF l, b
  <2> DEFINE t == Text(s.calls, s.entries, <<>>, s.used, l, "over")
  <2>6. /\ t \in TextRecords /\ t.calls = s.calls /\ t.entries = s.entries /\ t.buffer = <<>>
        /\ t.used = s.used /\ t.lost = l
    BY <2>4, TextState
  <2> HIDE DEF t
  <2>7. t \in TextStates(w, N) BY <1>1, <2>4, <2>6 DEF TextStates
  <2> QED BY <2>5, <2>7 DEF t
<1> QED BY <1>2, <1>3

(* The first call is answered.                                             *)
LEMMA DoneKeeps ==
  ASSUME NEW w, NEW N \in Nat, NEW s \in TextRecords, taken \in Nat,
         Holds(s.calls, s.entries, s.buffer, s.used, s.lost, w), Len(s.entries) <= N,
         s.entries # <<>>, NEW a \in {"value", "failed"},
         LET r == s.calls[s.entries[1]]
         IN a = "value" =>
              /\ r.at # <<>> /\ r.at[Len(r.at)] # 0
              /\ \/ r.kind = "line" /\ FirstOf(r.at, {"newline"}) = Len(r.at)
                 \/ r.kind = "prompt" /\ r.prompt.typed = Keys(Fresh, r.at).prompt.typed
  PROVE  /\ Done(s, a) \in TextStates(w, N)
         /\ Holds(Answer(s.calls, s.entries[1], a), Tail(s.entries), s.buffer, s.used, s.lost, w)
         /\ First(Tail(s.entries), Answer(s.calls, s.entries[1], a)) = <<>>
         /\ Done(s, a) = Text(Answer(s.calls, s.entries[1], a), Tail(s.entries), s.buffer,
                              s.used, s.lost, s.loop)
<1> DEFINE cs == s.calls
           es == s.entries
           c == es[1]
           r == cs[c]
           z == IF r.answer = "none" THEN a ELSE r.answer
           ds == Answer(cs, c, a)
<1>1. cs \in Seq(CallRecord) /\ WaitsFor(es, cs, TextKind)
  BY TextFields DEF Holds
<1>2. /\ c \in DOMAIN cs /\ r.kind \in TextKind /\ r.answer # "value" /\ Head(es) = c
      /\ First(es, cs) = r.at
  BY <1>1, WaitingFirst
<1>3. Changed(cs, c, r.kind, r.at, r.prompt, z, ds)
  <2> HIDE DEF cs, c
  <2> QED BY <1>1, <1>2, AnswerChanges
<1>4. r.at \in Positions /\ r.answer \in {"none", "value", "failed", "nothing"}
  BY <1>1, <1>2, CallsSeq
<1>5. z = "value" => a = "value" BY <1>2
<1>6. Fits(ds[c])
  <2>1. /\ ds[c].kind = r.kind /\ ds[c].at = r.at /\ ds[c].prompt = r.prompt
        /\ ds[c].answer = z
    BY <1>3 DEF Changed
  <2> HIDE DEF ds, z
  <2>2. a = "value" =>
              /\ r.at # <<>>
              /\ \/ r.kind = "line" /\ FirstOf(r.at, {"newline"}) = Len(r.at)
                 \/ r.kind = "prompt" /\ r.prompt.typed = Keys(Fresh, r.at).prompt.typed
    OBVIOUS
  <2> HIDE DEF r
  <2> QED BY <1>5, <2>1, <2>2 DEF Fits
<1>7. w.late = {} /\ z = "value" => 0 \notin ToSet(r.at)
  <2> SUFFICES ASSUME w.late = {}, z = "value" PROVE 0 \notin ToSet(r.at)
    OBVIOUS
  <2>1. Row(r.at, Heard) BY <1>2 DEF Holds, Stream, Flow, Sorted, TakenFirst
  <2>2. r.at[Len(r.at)] # 0 BY <1>5
  <2> HIDE DEF r, z
  <2> QED BY <1>4, <2>1, <2>2, NoMessageBefore
<1>8. /\ Holds(ds, Tail(es), s.buffer, s.used, s.lost, w) /\ First(Tail(es), ds) = <<>>
      /\ Len(Tail(es)) = Len(es) - 1
      /\ Tail(es) # <<>> => Goes(ds[Tail(es)[1]])
  <2>1. Holds(cs, es, s.buffer, s.used, s.lost, w) /\ es # <<>> OBVIOUS
  <2>2. Changed(cs, es[1], cs[es[1]].kind, cs[es[1]].at, r.prompt, z, ds) /\ Fits(ds[es[1]])
        /\ (w.late = {} /\ z = "value" => 0 \notin ToSet(cs[es[1]].at))
    BY <1>3, <1>6, <1>7
  <2> HIDE DEF cs, es, ds, z, r
  <2> QED BY <2>1, <2>2, AnswerKeeps
<1>9. Done(s, a) = Text(ds, Tail(es), s.buffer, s.used, s.lost, s.loop)
  <2>1. Done(s, a) = [s EXCEPT !.calls = ds, !.entries = Tail(es)]
    BY <1>2 DEF Done
  <2> HIDE DEF ds, es
  <2>2. \A x, y : [s EXCEPT !.calls = x, !.entries = y]
                  = Text(x, y, s.buffer, s.used, s.lost, s.loop)
    BY TextFields
  <2> QED BY <2>1, <2>2, Zenon
<1>10. Len(es) \in Nat BY <1>1, WaitingFirst
<1> HIDE DEF ds, es
<1>11. Len(Tail(es)) <= N BY <1>8, <1>10 DEF es
<1>12. Done(s, a) \in TextStates(w, N)
  <2>1. s.loop \in {"on", "over", "spins"} BY TextFields
  <2> DEFINE t == Done(s, a)
             fs == Tail(es)
             v == s.used
             l == s.lost
             e == s.buffer
             lp == s.loop
  <2>4. t = Text(ds, fs, e, v, l, lp) /\ Holds(ds, fs, e, v, l, w) BY <1>8, <1>9
  <2> HIDE DEF t, fs, v, l, e, lp
  <2>5. lp \in {"on", "over", "spins"} BY <2>1 DEF lp
  <2>6. /\ t \in TextRecords /\ t.calls = ds /\ t.entries = fs /\ t.buffer = e
        /\ t.used = v /\ t.lost = l
    BY <2>4, <2>5, TextState
  <2>2. /\ t \in TextRecords /\ t.calls = ds /\ t.entries = Tail(es) /\ t.buffer = s.buffer
        /\ t.used = s.used /\ t.lost = s.lost
    BY <2>6 DEF fs, v, l, e
  <2>3. t \in TextStates(w, N) BY <1>8, <1>11, <2>2 DEF TextStates
  <2> QED BY <2>3 DEF t
<1> QED BY <1>8, <1>9, <1>12 DEF ds, es

(* Nothing before a piece.                                                 *)
LEMMA AfterNothing ==
  ASSUME NEW x \in Positions
  PROVE  <<>> \o x = x
BY ConcatEmptySeq DEF Positions

(* What a message says ends no line.                                       *)
LEMMA NoLineInMessage ==
  ASSUME NEW h, h.at = << 0 >>
  PROVE  FirstOf(h.at, {"newline"}) = 0
<1> DEFINE at == h.at
<1>1. at \in Positions /\ Len(at) = 1 /\ at[1] = 0
  BY InputAssumption DEF Positions
<1> HIDE DEF at
<1>2. /\ FirstOf(at, {"newline"}) \in 0 .. 1
      /\ FirstOf(at, {"newline"}) > 0 => Char(at[FirstOf(at, {"newline"})]) \in {"newline"}
  BY <1>1, FirstPlace
<1>3. Char(0) = "letter" BY DEF Char
<1>4. FirstOf(at, {"newline"}) = 0 BY <1>1, <1>2, <1>3
<1> QED BY <1>4 DEF at

(* A line is handed to the first call.                                     *)
LEMMA LineKeeps ==
  ASSUME NEW w, NEW N \in Nat, NEW s \in TextStates(w, N), taken \in Nat,
         s.entries # <<>>, s.buffer # <<>>, s.calls[s.entries[1]].kind = "line",
         FirstOf(s.buffer[1].at, {"newline"}) # 0
  PROVE  Line(s) \in TextStates(w, N)
<1> DEFINE cs == s.calls
           es == s.entries
           b == s.buffer
           u == s.used
           c == es[1]
           r == cs[c]
           at == b[1].at
           n == FirstOf(at, {"newline"})
           x == SubSeq(at, 1, n)
           rest == SubSeq(at, n + 1, Len(at))
           d == [b EXCEPT ![1].at = rest]
           ds == Take(cs, c, x)
<1>1. /\ s \in TextRecords /\ Holds(cs, es, b, u, s.lost, w)
      /\ Goes(r) /\ Len(es) <= N
  BY DEF TextStates
<1>2. cs \in Seq(CallRecord) /\ WaitsFor(es, cs, TextKind) /\ b \in Items /\ Messages(b)
  BY <1>1, TextFields DEF Holds
<1>3. /\ c \in DOMAIN cs /\ r.kind = "line" /\ r.answer # "value" /\ Head(es) = c
  BY <1>2, WaitingFirst
<1>4. r.at = <<>> BY <1>1, <1>3 DEF Goes
<1>5. at \in Positions /\ 1 \in DOMAIN b /\ Head(b) = b[1]
  <2>1. Len(b) \in Nat \ {0} BY <1>2, EmptySeq DEF Items
  <2> HIDE DEF b
  <2>2. 1 \in 1 .. Len(b) /\ DOMAIN b = 1 .. Len(b) BY <1>2, <2>1, ItemsSeq
  <2>3. b[1].at \in Positions BY <1>2, <2>2, ItemsSeq
  <2>4. Head(b) = b[1] BY <1>2, <2>1 DEF Items
  <2> QED BY <2>2, <2>3, <2>4
<1>6. /\ x \in Positions /\ Len(x) > 0 /\ Len(x) = n
      /\ FirstOf(x, {"newline"}) = Len(x) /\ x[Len(x)] # 0
  <2> HIDE DEF at
  <2>1. at \in Positions /\ FirstOf(at, {"newline"}) # 0 BY <1>5 DEF at
  <2>2. Starts(x, at, FirstOf(at, {"newline"})) BY DEF Starts
  <2> HIDE DEF x
  <2> QED BY <2>1, <2>2, LineOf
<1>7. n \in 0 .. Len(at)
  <2> HIDE DEF at
  <2> QED BY <1>5, FirstPlace
<1>8. b[1].type = "stdIn"
  <2>1. Message(b[1]) BY <1>2, <1>5 DEF Messages
  <2>2. b[1].at # <<0>> BY NoLineInMessage
  <2> QED BY <2>1, <2>2 DEF Message
<1>9. d \in Items /\ Messages(d) /\ Shortened(b, n, d)
  <2> HIDE DEF b, n
  <2> QED BY <1>2, <1>7, <1>8, CutPiece DEF b
<1>10. Changed(cs, c, r.kind, r.at \o x, r.prompt, r.answer, ds)
  <2> HIDE DEF cs, c, x
  <2> QED BY <1>2, <1>3, <1>6, TakeChanges
<1>11. Holds(ds, es, d, u \o x, s.lost, w)
  <2> DEFINE y == r.at \o x
             t == u \o x
  <2>1. Changed(cs, es[1], cs[es[1]].kind, y, r.prompt, cs[es[1]].answer, ds)
    BY <1>10
  <2>2. /\ es # <<>> /\ b # <<>> /\ n \in 0 .. Len(b[1].at) /\ Starts(x, b[1].at, n)
        /\ Joins(y, cs[es[1]].at, x) /\ Joins(t, u, x)
    BY <1>7 DEF Joins, Starts
  <2> HIDE DEF cs, es, b, n, x, ds, d, u, r, y, t
  <2>4. Takes(cs, es, b, u, s.lost, w, n, x, r.prompt, y, t, ds, d)
    BY <1>1, <1>9, <2>1, <2>2 DEF Takes
  <2>3. Holds(ds, es, d, t, s.lost, w) BY <2>4, TakeKeeps
  <2> QED BY <2>3 DEF t
<1>12. r.at \o x = x BY <1>4, <1>6, AfterNothing
<1> DEFINE t == Text(ds, es, d, u \o x, s.lost, s.loop)
<1>13. s.loop \in {"on", "over", "spins"} BY <1>1, TextFields
<1>14. /\ t \in TextRecords /\ t.calls = ds /\ t.entries = es /\ t.buffer = d
       /\ t.used = u \o x /\ t.lost = s.lost /\ t.loop = s.loop
  <2> DEFINE v == u \o x
             l == s.lost
             lp == s.loop
  <2>1. Holds(ds, es, d, v, l, w) /\ lp \in {"on", "over", "spins"}
        /\ t = Text(ds, es, d, v, l, lp)
    BY <1>11, <1>13
  <2> HIDE DEF ds, es, d, u, x, v, l, lp, t
  <2>2. /\ t \in TextRecords /\ t.calls = ds /\ t.entries = es /\ t.buffer = d
        /\ t.used = v /\ t.lost = l /\ t.loop = lp
    BY <2>1, TextState
  <2> QED BY <2>2 DEF v, l, lp
<1>15. ds[c].kind = "line" /\ ds[c].at = x
  <2> HIDE DEF ds, x, r
  <2> QED BY <1>3, <1>10, <1>12 DEF Changed
<1>16. Done(t, "value") \in TextStates(w, N)
       /\ Done(t, "value") = Text(Answer(ds, c, "value"), Tail(es), d, u \o x, s.lost, s.loop)
  <2>1. es # <<>> /\ es[1] = c OBVIOUS
  <2>2. x # <<>> BY <1>6, EmptySeq
  <2> HIDE DEF t, ds, es, d, u, x, c
  <2>3. t.calls[t.entries[1]].at # <<>> /\ t.calls[t.entries[1]].kind = "line"
        /\ t.calls[t.entries[1]].at[Len(t.calls[t.entries[1]].at)] # 0
        /\ FirstOf(t.calls[t.entries[1]].at, {"newline"}) = Len(t.calls[t.entries[1]].at)
    BY <1>6, <1>14, <1>15, <2>1, <2>2
  <2>4. Holds(t.calls, t.entries, t.buffer, t.used, t.lost, w) /\ Len(t.entries) <= N
        /\ t.entries # <<>>
    BY <1>1, <1>11, <1>14, <2>1 DEF es, u
  <2>5. /\ Done(t, "value") \in TextStates(w, N)
        /\ Done(t, "value") = Text(Answer(t.calls, t.entries[1], "value"), Tail(t.entries),
                                   t.buffer, t.used, t.lost, t.loop)
    BY <1>14, <2>3, <2>4, DoneKeeps
  <2> QED BY <1>14, <2>1, <2>5
<1>17. Line(s) = Text(Answer(ds, c, "value"), Tail(es), d, u \o x, s.lost, s.loop)
  <2> DEFINE e == Answer(ds, c, "value")
             fs == Tail(es)
             v == u \o x
  <2>1. Line(s) = [s EXCEPT !.calls = e, !.entries = fs, !.buffer = d, !.used = v]
    BY <1>3, <1>5 DEF Line
  <2> HIDE DEF e, fs, v, d
  <2>2. \A x1, y, z, t1 : [s EXCEPT !.calls = x1, !.entries = y, !.buffer = z, !.used = t1]
                          = Text(x1, y, z, t1, s.lost, s.loop)
    BY <1>1, TextFields
  <2>3. Line(s) = Text(e, fs, d, v, s.lost, s.loop) BY <2>1, <2>2, Zenon
  <2> QED BY <2>3 DEF e, fs, v
<1> QED BY <1>16, <1>17

(* The first call, of a prompt, after the keys of the first piece.         *)
Prompted(s, t, read, w) ==
  /\ t \in TextRecords /\ Holds(t.calls, t.entries, t.buffer, t.used, t.lost, w)
  /\ t.entries = s.entries /\ t.lost = s.lost
  /\ t.loop = IF read.spins THEN "spins" ELSE s.loop
  /\ LET r == t.calls[s.entries[1]]
     IN /\ r.kind = "prompt" /\ r.prompt = read.prompt /\ Follows(r) /\ r.at \in Positions
        /\ read.prompt.done => r.at # <<>> /\ r.at[Len(r.at)] # 0

(* The rest of the first piece.                                            *)
Rest(b, n) ==
  IF n = Len(b[1].at) THEN Tail(b)
  ELSE [b EXCEPT ![1].at = SubSeq(b[1].at, n + 1, Len(b[1].at))]

(* It is a sequence of pieces that lacks what was taken.                   *)
LEMMA RestOfPieces ==
  ASSUME NEW b \in Items, b # <<>>, NEW n \in 0 .. Len(b[1].at), Messages(b)
  PROVE  Rest(b, n) \in Items /\ Messages(Rest(b, n)) /\ Shortened(b, n, Rest(b, n))
<1>1. CASE n = Len(b[1].at)
  <2>1. Rest(b, n) = Tail(b) BY <1>1 DEF Rest
  <2> QED BY <1>1, <2>1, CutAll
<1>2. CASE n # Len(b[1].at)
  <2>1. Rest(b, n) = [b EXCEPT ![1].at = SubSeq(b[1].at, n + 1, Len(b[1].at))]
    BY <1>2 DEF Rest
  <2>2. b[1].type = "stdIn" \/ n = 0
    <3>1. Message(b[1])
      <4>1. Len(b) \in Nat \ {0} BY EmptySeq DEF Items
      <4>2. 1 \in DOMAIN b BY <4>1, ItemsSeq
      <4> QED BY <4>2 DEF Messages
    <3>2. CASE b[1].at = <<0>>
      <4>1. Len(b[1].at) = 1 BY <3>2
      <4> QED BY <1>2, <4>1
    <3>3. CASE b[1].type = "stdIn" BY <3>3
    <3> QED BY <3>1, <3>2, <3>3 DEF Message
  <2> QED BY <2>1, <2>2, CutPiece
<1> QED BY <1>1, <1>2

Moved(s, x, y, z, t) == [s EXCEPT !.calls = x, !.buffer = y, !.used = z, !.loop = t]

(* The prompt takes the keys, and the state of the loop is one.            *)
LEMMA PromptTakes ==
  ASSUME NEW w, NEW N \in Nat, NEW s \in TextStates(w, N), taken \in Nat,
         s.entries # <<>>, s.buffer # <<>>, s.calls[s.entries[1]].kind = "prompt"
  PROVE  LET read == Keys(s.calls[s.entries[1]].prompt, s.buffer[1].at)
         IN Prompted(s, Prompt(s, read), read, w) /\ (read.spins => ~ read.prompt.done)
<1> DEFINE cs == s.calls
           es == s.entries
           b == s.buffer
           u == s.used
           c == es[1]
           r == cs[c]
           at == b[1].at
           read == Keys(r.prompt, at)
           n == read.n
           x == SubSeq(at, 1, n)
           d == Rest(b, n)
           ds == [Take(cs, c, x) EXCEPT ![c].prompt = read.prompt]
           y == r.at \o x
           z == u \o x
           lp == IF read.spins THEN "spins" ELSE s.loop
           t == Text(cs, es, b, u, s.lost, lp)
<1>1. /\ s \in TextRecords /\ Holds(cs, es, b, u, s.lost, w)
      /\ Goes(r) /\ Len(es) <= N /\ s.loop \in {"on", "over", "spins"}
  BY TextFields DEF TextStates
<1>2. cs \in Seq(CallRecord) /\ WaitsFor(es, cs, TextKind) /\ b \in Items /\ Messages(b)
  BY <1>1, TextFields DEF Holds
<1>3. /\ c \in DOMAIN cs /\ r.kind = "prompt" /\ r.answer # "value" /\ Head(es) = c
  BY <1>2, WaitingFirst
<1>4. Follows(r) /\ ~ r.prompt.done BY <1>1, <1>3 DEF Goes
<1>5. r.at \in Positions /\ r.prompt \in Promptly BY <1>2, <1>3, CallsSeq
<1>6. at \in Positions /\ 1 \in DOMAIN b /\ Head(b) = b[1]
  <2>1. Len(b) \in Nat \ {0} BY <1>2, EmptySeq DEF Items
  <2> HIDE DEF b
  <2>2. 1 \in 1 .. Len(b) /\ DOMAIN b = 1 .. Len(b) BY <1>2, <2>1, ItemsSeq
  <2>3. b[1].at \in Positions BY <1>2, <2>2, ItemsSeq
  <2>4. Head(b) = b[1] BY <1>2, <2>1 DEF Items
  <2> QED BY <2>2, <2>3, <2>4
<1>7. n \in 0 .. Len(at) /\ read.prompt \in Promptly /\ read.spins \in BOOLEAN
  <2> HIDE DEF at, r
  <2> QED BY <1>5, <1>6, KeysTypes
<1>8. /\ x \in Positions /\ y \in Positions /\ Len(x) = n
      /\ Keys(Fresh, y).n = Len(y) /\ Keys(Fresh, y).prompt = read.prompt
  <2> DEFINE v == r.at
  <2>1. v \in Positions /\ Keys(Fresh, v).n = Len(v) /\ Keys(Fresh, v).prompt = r.prompt
    BY <1>4, <1>5 DEF Follows
  <2> HIDE DEF v, at
  <2>2. LET k == Keys(Keys(Fresh, v).prompt, at)
            xx == SubSeq(at, 1, k.n)
        IN /\ xx \in Positions /\ v \o xx \in Positions /\ Len(xx) = k.n
           /\ Keys(Fresh, v \o xx).n = Len(v \o xx)
           /\ Keys(Fresh, v \o xx).prompt = k.prompt
    BY <1>6, <2>1, TakesOn
  <2> QED BY <2>1, <2>2 DEF v
<1>9. read.prompt.done => y # <<>> /\ y[Len(y)] # 0
  <2> SUFFICES ASSUME read.prompt.done PROVE y # <<>> /\ y[Len(y)] # 0 OBVIOUS
  <2>1. n \in 1 .. Len(at) /\ Char(at[n]) = "newline"
    <3> DEFINE p == r.prompt
    <3>1. p \in Promptly /\ ~ p.done /\ Keys(p, at).prompt.done BY <1>4, <1>5
    <3> HIDE DEF p, at
    <3>2. Keys(p, at).n \in 1 .. Len(at) /\ Char(at[Keys(p, at).n]) = "newline"
      BY <1>6, <3>1, LineEnds
    <3> QED BY <3>2 DEF p
  <2>2. x[n] = at[n]
    <3> HIDE DEF at, n, read
    <3>1. Len(at) \in Nat BY <1>6, PositionsSeq
    <3>2. \A l \in Nat : \A k \in 1 .. l :
             1 \in 1 .. l + 1 /\ k \in 1 - 1 .. l /\ k \in 1 .. k - 1 + 1 /\ 1 + k - 1 = k
      OBVIOUS
    <3>3. 1 \in 1 .. Len(at) + 1 /\ n \in 1 - 1 .. Len(at) /\ n \in 1 .. n - 1 + 1
          /\ 1 + n - 1 = n
      BY <2>1, <3>1, <3>2
    <3>4. \A k \in 1 .. n - 1 + 1 : SubSeq(at, 1, n)[k] = at[1 + k - 1]
      BY <1>6, <3>3, PartOfPiece
    <3> QED BY <3>3, <3>4
  <2>3. x[Len(x)] # 0 /\ Len(x) > 0
    <3>1. at[n] # 0 BY <2>1 DEF Char
    <3>2. x[Len(x)] # 0 BY <1>8, <2>2, <3>1
    <3> HIDE DEF x, at, n
    <3>3. Len(at) \in Nat BY <1>6, PositionsSeq
    <3>4. n > 0 BY <2>1, <3>3
    <3> QED BY <1>8, <3>2, <3>4
  <2> DEFINE v == r.at
  <2>4. Len(v \o x) > 0 /\ (v \o x)[Len(v \o x)] = x[Len(x)]
    <3>1. v \in Positions BY <1>5
    <3> HIDE DEF v, x
    <3> QED BY <1>8, <2>3, <3>1, LastJoined
  <2>5. Len(y) > 0 /\ y[Len(y)] # 0 BY <2>3, <2>4
  <2> HIDE DEF y
  <2> QED BY <1>8, <2>5, EmptySeq
<1>10. read.spins => ~ read.prompt.done
  <2> HIDE DEF at, r
  <2> QED BY <1>5, <1>6, SpinsBeforeEnd
<1>11. Changed(cs, c, r.kind, y, read.prompt, r.answer, ds)
  <2> DEFINE p == read.prompt
  <2>1. Changed(cs, c, cs[c].kind, cs[c].at \o x, p, cs[c].answer,
                [Take(cs, c, x) EXCEPT ![c].prompt = p])
    <3>1. p \in Promptly BY <1>7
    <3> HIDE DEF cs, c, x, p
    <3> QED BY <1>2, <1>3, <1>8, <3>1, PromptChanges
  <2> QED BY <2>1
<1>12. d \in Items /\ Messages(d) /\ Shortened(b, n, d)
  <2> HIDE DEF b, n
  <2> QED BY <1>2, <1>7, RestOfPieces DEF b
<1>13. Holds(ds, es, d, z, s.lost, w)
  <2> DEFINE l == s.lost
             p == read.prompt
  <2>1. Takes(cs, es, b, u, l, w, n, x, p, y, z, ds, d)
    <3>1. Starts(x, b[1].at, n) /\ Joins(y, cs[es[1]].at, x) /\ Joins(z, u, x)
      BY DEF Starts, Joins
    <3>2. Changed(cs, es[1], cs[es[1]].kind, y, p, cs[es[1]].answer, ds)
      BY <1>11
    <3>3. es # <<>> /\ b # <<>> /\ n \in 0 .. Len(b[1].at) /\ Holds(cs, es, b, u, l, w)
      BY <1>1, <1>7
    <3> HIDE DEF cs, es, b, u, l, n, x, p, y, z, ds, d
    <3> QED BY <1>12, <3>1, <3>2, <3>3 DEF Takes
  <2> HIDE DEF cs, es, b, u, l, n, x, p, y, z, ds, d
  <2>2. Holds(ds, es, d, z, l, w) BY <2>1, TakeKeeps
  <2> QED BY <2>2 DEF l
<1>14. Prompt(s, read) = Text(ds, es, d, z, s.lost, lp)
  <2>1. Prompt(s, read) = Moved(s, ds, d, z, lp)
    BY <1>3, <1>6 DEF Prompt, Rest, Moved
  <2>2. \A x1, y1, z1, t1 : Moved(s, x1, y1, z1, t1) = Text(x1, s.entries, y1, z1, s.lost, t1)
    BY <1>1, TextFields DEF Moved
  <2> HIDE DEF ds, d, z, lp, read
  <2>3. Moved(s, ds, d, z, lp) = Text(ds, s.entries, d, z, s.lost, lp) BY <2>2
  <2> QED BY <2>1, <2>3
<1>15. ds[c].kind = "prompt" /\ ds[c].at = y /\ ds[c].prompt = read.prompt
  <2> HIDE DEF ds, y, r
  <2> QED BY <1>3, <1>11 DEF Changed
<1>16. Prompted(s, Prompt(s, read), read, w)
  <2> DEFINE tt == Prompt(s, read)
             l == s.lost
  <2>1. Holds(ds, es, d, z, l, w) /\ lp \in {"on", "over", "spins"}
        /\ tt = Text(ds, es, d, z, l, lp)
    BY <1>1, <1>13, <1>14
  <2>2. es = s.entries /\ es[1] = c /\ l = s.lost OBVIOUS
  <2>3. lp = IF read.spins THEN "spins" ELSE s.loop OBVIOUS
  <2> HIDE DEF ds, es, d, z, l, lp, tt, c, y, read
  <2>4. /\ tt \in TextRecords /\ tt.calls = ds /\ tt.entries = es /\ tt.buffer = d
        /\ tt.used = z /\ tt.lost = l /\ tt.loop = lp
    BY <2>1, TextState
  <2>5. Follows(ds[c]) BY <1>8, <1>15 DEF Follows
  <2>6. Prompted(s, tt, read, w)
    BY <1>8, <1>9, <1>15, <2>1, <2>2, <2>3, <2>4, <2>5 DEF Prompted
  <2> QED BY <2>6 DEF tt
<1> QED BY <1>10, <1>16

(* Nothing that a prompt has taken of the next pieces is thrown away with  *)
(* an error behind them.                                                   *)
Cut(s, e) ==
  [s EXCEPT !.loop = "over", !.buffer = SubSeq(@, e + 1, Len(@)),
            !.lost = @ \cup TextOf(SubSeq(s.buffer, 1, e))]

(* What is thrown away is nobody's.                                        *)
LEMMA CutKeeps ==
  ASSUME NEW w, NEW N \in Nat, NEW s \in TextStates(w, N), taken \in Nat,
         First(s.entries, s.calls) = <<>>, NEW e \in 0 .. Len(s.buffer)
  PROVE  Cut(s, e) \in TextStates(w, N)
<1> DEFINE b == s.buffer
           c == SubSeq(b, e + 1, Len(b))
           d == SubSeq(b, 1, e)
           l == s.lost \cup (Texts(d) \ {0})
           k == s.lost \cup TextOf(d)
           t == Text(s.calls, s.entries, c, s.used, l, "over")
<1>1. /\ s \in TextRecords /\ Holds(s.calls, s.entries, b, s.used, s.lost, w)
      /\ s.entries # <<>> => Goes(s.calls[s.entries[1]])
      /\ Len(s.entries) <= N /\ b \in Items
  BY TextFields DEF TextStates
<1>2. Parts(b, e, c, d)
  <2>1. e \in 0 .. Len(b) OBVIOUS
  <2> HIDE DEF b
  <2> QED BY <1>1, <2>1, PartsOfItems
<1>3. Holds(s.calls, s.entries, c, s.used, l, w)
  <2>1. e \in 0 .. Len(b) OBVIOUS
  <2> HIDE DEF b, c, d
  <2> QED BY <1>1, <1>2, <2>1, DropKeeps
<1>4. k = l BY DEF TextOf, Texts
<1>5. Cut(s, e) = t
  <2>1. Cut(s, e) = [s EXCEPT !.loop = "over", !.buffer = c, !.lost = k]
    BY DEF Cut
  <2> HIDE DEF c, k, l
  <2>2. [s EXCEPT !.loop = "over", !.buffer = c, !.lost = k]
        = [s EXCEPT !.loop = "over", !.buffer = c, !.lost = l]
    BY <1>4, Zenon
  <2>3. \A x, y, z : [s EXCEPT !.loop = x, !.buffer = y, !.lost = z]
                     = Text(s.calls, s.entries, y, s.used, z, x)
    BY <1>1, TextFields
  <2> QED BY <2>1, <2>2, <2>3, Zenon
<1>6. /\ t \in TextRecords /\ t.calls = s.calls /\ t.entries = s.entries /\ t.buffer = c
      /\ t.used = s.used /\ t.lost = l
  <2> HIDE DEF c, l
  <2> QED BY <1>3, TextState
<1> HIDE DEF t, c, l
<1>7. t \in TextStates(w, N) BY <1>1, <1>3, <1>6 DEF TextStates
<1> QED BY <1>5, <1>7

(* The loop stops.                                                         *)
Over(s) == [s EXCEPT !.loop = "over"]

(* Then the state of the loop is what it was.                              *)
LEMMA OverKeeps ==
  ASSUME NEW w, NEW N \in Nat, NEW s \in TextStates(w, N), taken \in Nat
  PROVE  Over(s) \in TextStates(w, N)
<1>1. [s EXCEPT !.loop = "over"] \in TextStates(w, N) BY StopKeeps
<1> QED BY <1>1 DEF Over

(* One pass of the loop.                                                   *)
LEMMA TextPassKeeps ==
  ASSUME NEW w, NEW N \in Nat, NEW s \in TextStates(w, N), taken \in Nat
  PROVE  TextPass(s) \in TextStates(w, N)
<1> DEFINE c == s.entries[1]
           r == s.calls[c]
           h == s.buffer[1]
<1>1. /\ s \in TextRecords /\ Holds(s.calls, s.entries, s.buffer, s.used, s.lost, w)
      /\ s.entries # <<>> => Goes(r)
      /\ Len(s.entries) <= N /\ s.buffer \in Items
  BY TextFields DEF TextStates
<1>2. CASE s.loop # "on" BY <1>2 DEF TextPass
<1>3. CASE s.loop = "on" /\ s.entries = <<>> BY <1>3, StopKeeps DEF TextPass
<1>4. CASE s.loop = "on" /\ s.entries # <<>> /\ s.buffer = <<>>
  BY <1>4, StopKeeps DEF TextPass
<1>5. ASSUME s.loop = "on", s.entries # <<>>, s.buffer # <<>>
      PROVE  TextPass(s) \in TextStates(w, N)
  <2>1. Head(s.entries) = c /\ r.kind \in TextKind
    <3>1. WaitsFor(s.entries, s.calls, TextKind) BY <1>1 DEF Holds
    <3> DEFINE es == s.entries
               cs == s.calls
    <3>2. WaitsFor(es, cs, TextKind) /\ es # <<>> BY <1>5, <3>1
    <3> HIDE DEF es, cs
    <3>3. Head(es) = es[1] /\ cs[es[1]].kind \in TextKind BY <3>2, WaitingFirst
    <3> QED BY <3>3 DEF es, cs
  <2>2. Head(s.buffer) = h BY <1>1, <1>5 DEF Items
  <2>3. CASE h.type = "error"
    <3>1. TextPass(s) = Done(s, "failed") BY <1>5, <2>2, <2>3 DEF TextPass
    <3>2. Done(s, "failed") \in TextStates(w, N) BY <1>1, <1>5, DoneKeeps
    <3> QED BY <3>1, <3>2
  <2>4. CASE h.type # "error" /\ r.kind = "line"
    <3>1. CASE FirstOf(h.at, {"newline"}) = 0
      <4>1. TextPass(s) = Over(s)
        BY <1>5, <2>1, <2>2, <2>4, <3>1 DEF TextPass, Over
      <4> QED BY <4>1, OverKeeps
    <3>2. CASE FirstOf(h.at, {"newline"}) # 0
      <4>1. TextPass(s) = Line(s) BY <1>5, <2>1, <2>2, <2>4, <3>2 DEF TextPass
      <4> QED BY <1>5, <2>4, <3>2, <4>1, LineKeeps
    <3> QED BY <3>1, <3>2
  <2>5. CASE h.type # "error" /\ r.kind = "prompt"
    <3> DEFINE read == Keys(r.prompt, h.at)
               t == Prompt(s, read)
               e == FirstError(t.buffer)
    <3>1. Prompted(s, t, read, w) /\ (read.spins => ~ read.prompt.done)
      BY <1>5, <2>5, PromptTakes
    <3>2. TextPass(s) =
            IF read.spins THEN t
            ELSE IF read.prompt.done THEN Done(t, "value")
            ELSE IF read.prompt.aborted THEN Done(t, "failed")
            ELSE IF e > 0 THEN [Done(t, "failed") EXCEPT
                     !.loop = "over",
                     !.buffer = SubSeq(@, e + 1, Len(@)),
                     !.lost = @ \cup TextOf(SubSeq(t.buffer, 1, e))]
            ELSE [t EXCEPT !.loop = "over"]
      BY <1>5, <2>1, <2>2, <2>5 DEF TextPass
    <3> HIDE DEF read, t
    <3>3. /\ t \in TextRecords /\ Holds(t.calls, t.entries, t.buffer, t.used, t.lost, w)
          /\ Len(t.entries) <= N /\ t.entries # <<>> /\ t.entries[1] = c
      BY <1>1, <1>5, <3>1 DEF Prompted
    <3>4. LET q == t.calls[c]
          IN /\ q.kind = "prompt" /\ q.prompt = read.prompt /\ Follows(q)
             /\ read.prompt.done => q.at # <<>> /\ q.at[Len(q.at)] # 0
      BY <3>1 DEF Prompted
    <3>5. ~ read.prompt.done => t \in TextStates(w, N)
      BY <3>3, <3>4 DEF TextStates, Goes
    <3>6. CASE read.spins BY <3>1, <3>2, <3>5, <3>6
    <3>7. ASSUME ~ read.spins, read.prompt.done PROVE TextPass(s) \in TextStates(w, N)
      <4>1. LET q == t.calls[t.entries[1]]
            IN /\ q.at # <<>> /\ q.at[Len(q.at)] # 0
               /\ q.kind = "prompt" /\ q.prompt.typed = Keys(Fresh, q.at).prompt.typed
        BY <3>3, <3>4, <3>7 DEF Follows
      <4>2. Done(t, "value") \in TextStates(w, N) BY <3>3, <4>1, DoneKeeps
      <4> QED BY <3>2, <3>7, <4>2
    <3>8. /\ Done(t, "failed") \in TextStates(w, N)
          /\ Done(t, "failed").buffer = t.buffer
          /\ First(Done(t, "failed").entries, Done(t, "failed").calls) = <<>>
      <4> DEFINE ds == Answer(t.calls, t.entries[1], "failed")
                 es == Tail(t.entries)
                 f == Done(t, "failed")
      <4>1. /\ f \in TextStates(w, N) /\ First(es, ds) = <<>>
            /\ f = Text(ds, es, t.buffer, t.used, t.lost, t.loop)
        BY <3>3, DoneKeeps
      <4> HIDE DEF ds, es, f
      <4>2. f.buffer = t.buffer /\ f.entries = es /\ f.calls = ds
        BY <4>1 DEF Text
      <4>3. f \in TextStates(w, N) /\ f.buffer = t.buffer /\ First(f.entries, f.calls) = <<>>
        BY <4>1, <4>2
      <4> QED BY <4>3 DEF f
    <3>9. ASSUME ~ read.spins, ~ read.prompt.done, read.prompt.aborted
          PROVE  TextPass(s) \in TextStates(w, N)
      BY <3>2, <3>8, <3>9
    <3>10. ASSUME ~ read.spins, ~ read.prompt.done, ~ read.prompt.aborted, e > 0
           PROVE  TextPass(s) \in TextStates(w, N)
      <4> DEFINE f == Done(t, "failed")
      <4>1. e \in 0 .. Len(t.buffer)
        <5>1. t.buffer \in Items BY <3>3, TextFields
        <5> QED BY <5>1, ErrorPlace
      <4>2. TextPass(s) = [f EXCEPT !.loop = "over",
                                    !.buffer = SubSeq(f.buffer, e + 1, Len(f.buffer)),
                                    !.lost = f.lost \cup TextOf(SubSeq(t.buffer, 1, e))]
        BY <3>2, <3>10
      <4> HIDE DEF e, f
      <4>3. f \in TextStates(w, N) /\ f.buffer = t.buffer /\ First(f.entries, f.calls) = <<>>
        BY <3>8 DEF f
      <4>4. TextPass(s) = Cut(f, e) BY <4>2, <4>3 DEF Cut
      <4> QED BY <4>1, <4>3, <4>4, CutKeeps
    <3>11. ASSUME ~ read.spins, ~ read.prompt.done, ~ read.prompt.aborted, ~ (e > 0)
           PROVE  TextPass(s) \in TextStates(w, N)
      <4>1. TextPass(s) = Over(t) BY <3>2, <3>11 DEF Over
      <4> QED BY <3>5, <3>11, <4>1, OverKeeps
    <3> QED BY <3>6, <3>7, <3>9, <3>10, <3>11
  <2> QED BY <2>1, <2>3, <2>4, <2>5 DEF TextKind
<1> QED BY <1>2, <1>3, <1>4, <1>5

(* f_HandleBufferedStdIn.                                                  *)
LEMMA TextLoopKeeps ==
  ASSUME NEW w, NEW N \in Nat, NEW s \in TextStates(w, N), taken \in Nat
  PROVE  HandleBufferedStdIn(s) \in TextStates(w, N)
<1> DEFINE T == TextStates(w, N)
           n == Len(s.entries) + 1
           step == [j \in 1 .. n |-> [t \in T |-> TextPass(t)]]
           Is(f) == f = [j \in 0 .. n |-> IF j = 0 THEN s ELSE TextPass(f[j - 1])]
           run == CHOOSE f : Is(f)
<1>1. n \in Nat
  <2>1. s.entries \in Seq(Nat) BY TextFields DEF TextStates
  <2>2. Len(s.entries) \in Nat BY <2>1, LenProperties
  <2> QED BY <2>2
<1>2. s \in T OBVIOUS
<1>3. \A t \in T : TextPass(t) \in T BY TextPassKeeps
<1>4. HandleBufferedStdIn(s) = run[n] BY DEF HandleBufferedStdIn
<1> HIDE DEF T, n
<1>5. step \in [1 .. n -> [T -> T]] BY <1>3
<1>6. PICK g : Repeats(g, T, step, s, n)
  <2> HIDE DEF step
  <2> QED BY <1>1, <1>2, <1>5, Repeated
<1>7. ASSUME NEW j \in 0 .. n
      PROVE  g[j] = IF j = 0 THEN s ELSE TextPass(g[j - 1])
  <2>1. CASE j = 0 BY <2>1, <1>6 DEF Repeats
  <2>2. CASE j # 0
    <3>1. j \in 1 .. n /\ j - 1 \in 0 .. n BY <2>2, <1>1
    <3>2. g[j - 1] \in T BY <3>1, <1>6 DEF Repeats
    <3> QED BY <3>1, <3>2, <1>6, <2>2 DEF Repeats
  <2> QED BY <2>1, <2>2
<1>8. Is(g) BY <1>6, <1>7 DEF Repeats
<1>9. Is(run)
  <2> HIDE DEF Is
  <2> QED BY <1>8
<1>10. run = [j \in 0 .. n |-> IF j = 0 THEN s ELSE TextPass(run[j - 1])]
  <2> HIDE DEF run
  <2> QED BY <1>9
<1> HIDE DEF run, Is
<1>11. run[0] = s /\ \A j \in 1 .. n : run[j] = TextPass(run[j - 1])
  BY <1>1, <1>10
<1> DEFINE P == {j \in 0 .. n : run[j] \in T}
<1>12. P \in SUBSET (0 .. n) /\ 0 \in P BY <1>1, <1>2, <1>11
<1>13. ASSUME NEW j \in 1 .. n, j - 1 \in P PROVE j \in P BY <1>3, <1>11, <1>13
<1>14. \A j \in 0 .. n : j \in P
  <2> HIDE DEF P
  <2> QED BY <1>1, <1>12, <1>13, UpTo
<1>15. run[n] \in T BY <1>1, <1>14
<1> QED BY <1>4, <1>15 DEF T

----------------------------------------------------------------------------
(* The state of the loop that hands on binary input.                       *)

Pieces(cs, es, b) == [calls |-> cs, entries |-> es, buffer |-> b]
BinaryRecords == [calls : Seq(CallRecord), entries : Seq(Nat), buffer : Items]
BinaryStates(w, N) ==
  {s \in BinaryRecords : HoldsAll(s.calls, s.entries, s.buffer, w) /\ Len(s.entries) <= N}

(* A state of the loop over binary input is a record of its fields.        *)
LEMMA BinaryState ==
  ASSUME NEW cs, NEW es, NEW b, NEW w, HoldsAll(cs, es, b, w), NEW N \in Nat, Len(es) <= N
  PROVE  Pieces(cs, es, b) \in BinaryStates(w, N)
<1> DEFINE s == Pieces(cs, es, b)
<1>1. s \in BinaryRecords /\ s.calls = cs /\ s.entries = es /\ s.buffer = b
  BY DEF HoldsAll, CallsFrom, WaitsFor, Pieces, BinaryRecords
<1> HIDE DEF s
<1>2. s \in BinaryStates(w, N) BY <1>1 DEF BinaryStates
<1> QED BY <1>2 DEF s

(* With other fields.                                                      *)
Answered(s, x, y) == [s EXCEPT !.calls = x, !.entries = y]
Given(s, x, y) == [s EXCEPT !.calls = x, !.buffer = y]

(* The records of this loop with some fields changed.                      *)
LEMMA BinaryFields ==
  ASSUME NEW s \in BinaryRecords
  PROVE  /\ s.calls \in Seq(CallRecord) /\ s.entries \in Seq(Nat) /\ s.buffer \in Items
         /\ \A x, y : Answered(s, x, y) = Pieces(x, y, s.buffer)
         /\ \A x, y : Given(s, x, y) = Pieces(x, s.entries, y)
<1>1. s.calls \in Seq(CallRecord) /\ s.entries \in Seq(Nat) /\ s.buffer \in Items
  BY DEF BinaryRecords
<1> DEFINE cs == s.calls
           es == s.entries
           b == s.buffer
<1>2. s = Pieces(cs, es, b) BY DEF BinaryRecords, Pieces
<1> HIDE DEF cs, es, b
<1>3. ASSUME NEW x, NEW y PROVE Answered(s, x, y) = Pieces(x, y, b)
  <2> DEFINE t == [s EXCEPT !.calls = x]
  <2>1. t = Pieces(x, es, b) BY <1>2 DEF Pieces
  <2> HIDE DEF t
  <2>2. [t EXCEPT !.entries = y] = Pieces(x, y, b) BY <2>1 DEF Pieces
  <2> QED BY <2>2 DEF t, Answered
<1>4. ASSUME NEW x, NEW y PROVE Given(s, x, y) = Pieces(x, es, y)
  <2> DEFINE t == [s EXCEPT !.calls = x]
  <2>1. t = Pieces(x, es, b) BY <1>2 DEF Pieces
  <2> HIDE DEF t
  <2>2. [t EXCEPT !.buffer = y] = Pieces(x, es, y) BY <2>1 DEF Pieces
  <2> QED BY <2>2 DEF t, Given
<1> QED BY <1>1, <1>3, <1>4 DEF es, b

(* The first call is answered, with all input up to the end or not.        *)
LEMMA BinaryAnswerKeeps ==
  ASSUME NEW cs, NEW es, NEW b, NEW w, HoldsAll(cs, es, b, w), taken \in Nat,
         es # <<>>, NEW a \in {"value", "failed"},
         a = "value" => b # <<>> /\ b[1].type = "endOfFile"
  PROVE  /\ HoldsAll(Answer(cs, es[1], a), Tail(es), b, w) /\ Len(Tail(es)) = Len(es) - 1
         /\ Head(es) = es[1] /\ Len(es) \in Nat
<1> DEFINE c == es[1]
           r == cs[c]
           z == IF r.answer = "none" THEN a ELSE r.answer
           ds == Answer(cs, c, a)
<1>1. /\ cs \in Seq(CallRecord) /\ WaitsFor(es, cs, {"binary"}) /\ b \in Items
      /\ CallsFrom(cs, w.calls, {"binary"}) /\ Messages(b)
  BY DEF HoldsAll, CallsFrom
<1>2. /\ c \in DOMAIN cs /\ r.kind = "binary" /\ r.answer # "value" /\ Head(es) = c
      /\ First(es, cs) = r.at /\ Len(es) \in Nat
  BY <1>1, WaitingFirst
<1>3. Changed(cs, c, r.kind, r.at, r.prompt, z, ds) BY <1>1, <1>2, AnswerChanges
<1>4. r.at \in Positions BY <1>1, <1>2, CallsSeq
<1>5. z = "value" => a = "value" BY <1>2
<1> HIDE DEF ds, z, r, c
<1>6. CallsFrom(ds, w.calls, {"binary"}) BY <1>1, <1>2, <1>3, CallsStay DEF r
<1>7. NextWaits(es, cs, ds, {"binary"})
  <2>1. Changed(cs, es[1], cs[es[1]].kind, r.at, r.prompt, z, ds)
    BY <1>3 DEF r, c
  <2> QED BY <1>1, <2>1, WaitingNext
<1>8. /\ DOMAIN ds = DOMAIN cs /\ \A d \in DOMAIN cs : d # c => ds[d] = cs[d]
      /\ ds[c].answer = z /\ ds[c].at = r.at /\ ds[c].kind = "binary"
  BY <1>2, <1>3 DEF Changed
<1>9. \A d \in DOMAIN ds : Fits(ds[d]) BY <1>8 DEF HoldsAll, Fits
<1>10. ASSUME w.late = {}
       PROVE  /\ \A d \in DOMAIN ds : Pure(ds[d], ends)
              /\ Stream("binary", First(Tail(es), ds), b, w.mail, w.now)
  <2>1. Stream("binary", r.at, b, w.mail, w.now) /\ EndKnown(b, w.mail, w.now)
    BY <1>2, <1>10 DEF HoldsAll
  <2>2. Flow(taken, r.at, b, w.mail, w.now) BY <2>1 DEF Stream
  <2>3. a = "value" => Gapless(r.at) /\ (r.at # <<>> => Last(r.at) \in ends)
    <3> SUFFICES ASSUME a = "value"
                 PROVE  Gapless(r.at) /\ (r.at # <<>> => Last(r.at) \in ends)
      OBVIOUS
    <3>1. 1 \in DOMAIN b
      <4>1. Len(b) \in Nat \ {0} BY <1>1, EmptySeq DEF Items
      <4> QED BY <1>1, <4>1, ItemsSeq
    <3>2. b[1].at = <<0>> /\ b # <<>> BY <1>1, <3>1 DEF Messages, Message
    <3>3. taken \in ends BY <2>1, <3>1 DEF EndKnown
    <3> DEFINE at == r.at
    <3>4. at \in Positions /\ Flow(taken, at, b, w.mail, w.now) BY <1>4, <2>2
    <3> HIDE DEF at
    <3>5. 0 \notin ToSet(at) /\ (at # <<>> => Last(at) = taken)
      BY <1>1, <3>2, <3>4, FlowEnds
    <3>6. Gapless(at) BY <3>4, <3>5, FlowGapless
    <3> QED BY <3>3, <3>5, <3>6 DEF at
  <2>4. Pure(ds[c], ends) BY <1>5, <1>8, <2>3 DEF Pure
  <2>5. \A d \in DOMAIN ds : Pure(ds[d], ends) BY <1>8, <1>10, <2>4 DEF HoldsAll
  <2>6. Parts(b, 0, b, <<>>) /\ 0 \in 0 .. Len(b)
    <3>1. Len(b) \in Nat BY <1>1, ItemsSeq
    <3>2. <<>> \in Items /\ Len(<<>>) = 0 BY EmptySeq DEF Items
    <3> QED BY <1>1, <3>1, <3>2 DEF Parts
  <2>7. /\ Flow(taken, <<>>, b, w.mail, w.now)
        /\ All(<<>>, b, w.mail, w.now) \subseteq All(r.at, b, w.mail, w.now)
    BY <1>1, <1>4, <2>2, <2>6, FlowDrop
  <2>8. Stream("binary", <<>>, b, w.mail, w.now) BY <2>1, <2>7 DEF Stream
  <2> QED BY <1>7, <2>5, <2>8 DEF NextWaits
<1>11. HoldsAll(ds, Tail(es), b, w)
  BY <1>1, <1>6, <1>7, <1>9, <1>10 DEF HoldsAll, NextWaits
<1> QED BY <1>2, <1>7, <1>11 DEF NextWaits, ds, c

(* The first call takes the first piece.                                   *)
LEMMA BinaryTakeKeeps ==
  ASSUME NEW cs, NEW es, NEW b, NEW w, HoldsAll(cs, es, b, w), taken \in Nat,
         es # <<>>, b # <<>>
  PROVE  HoldsAll(Take(cs, es[1], b[1].at), es, Tail(b), w) /\ Head(es) = es[1]
<1> DEFINE c == es[1]
           r == cs[c]
           x == b[1].at
           y == r.at \o x
           ds == Take(cs, c, x)
           d == Tail(b)
<1>1. /\ cs \in Seq(CallRecord) /\ WaitsFor(es, cs, {"binary"}) /\ b \in Items
      /\ CallsFrom(cs, w.calls, {"binary"}) /\ Messages(b)
  BY DEF HoldsAll, CallsFrom
<1>2. /\ c \in DOMAIN cs /\ r.kind = "binary" /\ r.answer # "value" /\ Head(es) = c
      /\ First(es, cs) = r.at
  BY <1>1, WaitingFirst
<1>3. x \in Positions /\ SubSeq(x, 1, Len(x)) = x /\ Len(x) \in 0 .. Len(x)
  <2>1. Len(b) \in Nat \ {0} BY <1>1, EmptySeq DEF Items
  <2>2. 1 \in 1 .. Len(b) BY <2>1
  <2>3. x \in Positions BY <1>1, <2>2, ItemsSeq
  <2> HIDE DEF x
  <2>4. SubSeq(x, 1, Len(x)) = x BY <2>3, SubSeqFull DEF Positions
  <2>5. Len(x) \in Nat BY <2>3, PositionsSeq
  <2>6. \A n \in Nat : n \in 0 .. n OBVIOUS
  <2> QED BY <2>3, <2>4, <2>5, <2>6
<1>4. Changed(cs, c, r.kind, y, r.prompt, r.answer, ds)
  <2> HIDE DEF c, x
  <2> QED BY <1>1, <1>2, <1>3, TakeChanges
<1>5. d \in Items /\ Messages(d) /\ Shortened(b, Len(x), d) BY <1>1, CutAll
<1>6. r.at \in Positions BY <1>1, <1>2, CallsSeq
<1>7. WaitsFor(es, ds, {"binary"}) /\ First(es, ds) = y
  <2> DEFINE p == r.prompt
  <2>1. Changed(cs, es[1], cs[es[1]].kind, y, p, cs[es[1]].answer, ds) BY <1>4
  <2> HIDE DEF ds, y, p
  <2> QED BY ZenonT(60), <1>1, <2>1, WaitingOn
<1>8. CallsFrom(ds, w.calls, {"binary"})
  <2>1. c \in DOMAIN cs /\ cs[c].kind \in {"binary"}
        /\ Changed(cs, c, cs[c].kind, y, r.prompt, r.answer, ds)
    BY <1>2, <1>4
  <2> HIDE DEF ds, y, c
  <2> QED BY <1>1, <2>1, CallsStay
<1>9. /\ DOMAIN ds = DOMAIN cs /\ \A e \in DOMAIN cs : e # c => ds[e] = cs[e]
      /\ ds[c].answer # "value"
  <2> HIDE DEF ds, y, r
  <2> QED BY <1>2, <1>4 DEF Changed
<1>10. \A e \in DOMAIN ds : Fits(ds[e])
  <2> HIDE DEF ds
  <2> QED BY <1>9 DEF HoldsAll, Fits
<1>11. ASSUME w.late = {}
       PROVE  /\ \A e \in DOMAIN ds : Pure(ds[e], ends)
              /\ Stream("binary", First(es, ds), d, w.mail, w.now)
              /\ EndKnown(d, w.mail, w.now)
  <2>1. \A e \in DOMAIN ds : Pure(ds[e], ends)
    <3> HIDE DEF ds
    <3> QED BY <1>9, <1>11 DEF HoldsAll, Pure
  <2> DEFINE v == r.at
  <2>2. Stream("binary", v, b, w.mail, w.now) /\ EndKnown(b, w.mail, w.now) /\ v \in Positions
    BY <1>2, <1>6, <1>11 DEF HoldsAll
  <2>3. Sorted(v, b, w.mail, w.now, Heard) BY <2>2 DEF Stream, Flow
  <2>4. /\ Sorted(y, d, w.mail, w.now, Heard)
        /\ All(y, d, w.mail, w.now) = All(v, b, w.mail, w.now)
    <3>1. y = v \o SubSeq(b[1].at, 1, Len(x)) /\ Len(x) \in 0 .. Len(b[1].at)
      BY <1>3
    <3> DEFINE n == Len(x)
               t == v \o SubSeq(b[1].at, 1, n)
    <3>2. Sorted(t, d, w.mail, w.now, Heard)
          /\ All(t, d, w.mail, w.now) = All(v, b, w.mail, w.now)
      <4>1. n \in 0 .. Len(b[1].at) /\ Shortened(b, n, d) BY <1>5, <3>1
      <4> HIDE DEF n, v, d
      <4> QED BY <1>1, <1>5, <2>2, <2>3, <4>1, SortedMove
    <3>3. y = t BY <3>1
    <3> HIDE DEF t, y, v, d
    <3> QED BY <3>2, <3>3
  <2>5. ~ (("binary" \notin readers) \/ life[imp] = "waiting")
    BY <2>2 DEF Stream
  <2>6. Stream("binary", y, d, w.mail, w.now)
    <3> HIDE DEF v, y, d
    <3> QED BY <2>2, <2>4, <2>5 DEF Stream, Flow
  <2>7. EndKnown(d, w.mail, w.now)
    <3>1. Len(b) \in Nat \ {0} /\ DOMAIN b = 1 .. Len(b)
      BY <1>1, EmptySeq, ItemsSeq DEF Items
    <3>2. Len(d) = Len(b) - 1 /\ \A j \in 1 .. Len(d) : d[j] = b[j + 1]
      <4> DEFINE I == [type : {"stdIn", "endOfFile", "error"}, at : Positions]
      <4>1. b \in Seq(I) BY <1>1 DEF Items
      <4> HIDE DEF I
      <4> QED BY <4>1, HeadTailProperties
    <3> HIDE DEF d
    <3>3. DOMAIN d = 1 .. Len(d) BY <1>5, ItemsSeq
    <3>4. \A j \in DOMAIN d : j + 1 \in DOMAIN b /\ d[j] = b[j + 1]
      BY <3>1, <3>2, <3>3
    <3> QED BY <2>2, <3>4 DEF EndKnown
  <2> QED BY <1>7, <2>1, <2>6, <2>7
<1>12. HoldsAll(ds, es, d, w)
  <2> HIDE DEF ds, d
  <2> QED BY <1>5, <1>7, <1>8, <1>10, <1>11 DEF HoldsAll
<1> QED BY <1>2, <1>12

(* One pass of the loop.                                                   *)
LEMMA BinaryPassKeeps ==
  ASSUME NEW w, NEW N \in Nat, NEW s \in BinaryStates(w, N), taken \in Nat
  PROVE  BinaryPass(s) \in BinaryStates(w, N)
<1> DEFINE cs == s.calls
           es == s.entries
           b == s.buffer
           h == b[1]
<1>1. s \in BinaryRecords /\ HoldsAll(cs, es, b, w) /\ Len(es) <= N
  BY DEF BinaryStates
<1>2. CASE es = <<>> \/ b = <<>> BY <1>2 DEF BinaryPass
<1>3. ASSUME es # <<>>, b # <<>> PROVE BinaryPass(s) \in BinaryStates(w, N)
  <2>1. b \in Items /\ Messages(b) BY <1>1 DEF HoldsAll
  <2>2. Head(b) = h /\ h.type \in {"stdIn", "endOfFile", "error"}
    <3>1. Len(b) \in Nat \ {0} BY <1>3, <2>1, EmptySeq DEF Items
    <3>2. 1 \in 1 .. Len(b) BY <3>1
    <3>3. h.type \in {"stdIn", "endOfFile", "error"} BY <2>1, <3>2, ItemsSeq
    <3>4. Head(b) = h BY <2>1, <3>1 DEF Items
    <3> QED BY <3>3, <3>4
  <2>3. ASSUME NEW a \in {"value", "failed"}, a = "value" => h.type = "endOfFile"
        PROVE  Done(s, a) \in BinaryStates(w, N)
    <3> DEFINE ds == Answer(cs, es[1], a)
               fs == Tail(es)
    <3>1. HoldsAll(ds, fs, b, w) /\ Len(fs) = Len(es) - 1 /\ Head(es) = es[1] /\ Len(es) \in Nat
      <4>1. HoldsAll(cs, es, b, w) /\ es # <<>>
            /\ (a = "value" => b # <<>> /\ b[1].type = "endOfFile")
        BY <1>1, <1>3, <2>3
      <4> HIDE DEF cs, es, b
      <4> QED BY <4>1, BinaryAnswerKeeps
    <3>2. Done(s, a) = Answered(s, ds, fs) BY <3>1 DEF Done, Answered
    <3> HIDE DEF ds, fs
    <3>3. Len(fs) <= N BY <1>1, <3>1
    <3>4. Answered(s, ds, fs) = Pieces(ds, fs, b) BY <1>1, BinaryFields
    <3> QED BY <3>1, <3>2, <3>3, <3>4, BinaryState
  <2>4. CASE h.type = "error"
    <3>1. BinaryPass(s) = Done(s, "failed") BY <1>3, <2>2, <2>4 DEF BinaryPass
    <3> QED BY <2>3, <3>1
  <2>5. CASE h.type = "endOfFile"
    <3>1. BinaryPass(s) = Done(s, "value") BY <1>3, <2>2, <2>5 DEF BinaryPass
    <3> QED BY <2>3, <2>5, <3>1
  <2>6. CASE h.type = "stdIn"
    <3> DEFINE ds == Take(cs, es[1], h.at)
               d == Tail(b)
    <3>1. HoldsAll(ds, es, d, w) /\ Head(es) = es[1]
      <4>1. HoldsAll(cs, es, b, w) /\ es # <<>> /\ b # <<>> BY <1>1, <1>3
      <4> HIDE DEF cs, es, b
      <4> QED BY <4>1, BinaryTakeKeeps
    <3>2. BinaryPass(s) = Given(s, ds, d)
      BY <1>3, <2>2, <2>6, <3>1 DEF BinaryPass, Given
    <3> HIDE DEF ds, d
    <3>3. Given(s, ds, d) = Pieces(ds, es, d) BY <1>1, BinaryFields
    <3> QED BY <1>1, <3>1, <3>2, <3>3, BinaryState
  <2> QED BY <2>2, <2>4, <2>5, <2>6
<1> QED BY <1>2, <1>3

(* f_HandleBufferedStdInBinary.                                            *)
LEMMA BinaryLoopKeeps ==
  ASSUME NEW w, NEW N \in Nat, NEW s \in BinaryStates(w, N), taken \in Nat
  PROVE  HandleBufferedStdInBinary(s) \in BinaryStates(w, N)
<1> DEFINE T == BinaryStates(w, N)
           n == Len(s.entries) + Len(s.buffer)
           step == [j \in 1 .. n |-> [t \in T |-> BinaryPass(t)]]
           Is(f) == f = [j \in 0 .. n |-> IF j = 0 THEN s ELSE BinaryPass(f[j - 1])]
           run == CHOOSE f : Is(f)
<1>1. n \in Nat
  <2>1. s.entries \in Seq(Nat) /\ s.buffer \in Items
    BY DEF BinaryStates, BinaryRecords
  <2>2. Len(s.entries) \in Nat /\ Len(s.buffer) \in Nat
    BY <2>1, LenProperties, ItemsSeq
  <2>3. \A i, j \in Nat : i + j \in Nat OBVIOUS
  <2> QED BY <2>2, <2>3
<1>2. s \in T OBVIOUS
<1>3. \A t \in T : BinaryPass(t) \in T BY BinaryPassKeeps
<1>4. HandleBufferedStdInBinary(s) = run[n] BY DEF HandleBufferedStdInBinary
<1> HIDE DEF T, n
<1>5. step \in [1 .. n -> [T -> T]] BY <1>3
<1>6. PICK g : Repeats(g, T, step, s, n)
  <2> HIDE DEF step
  <2> QED BY <1>1, <1>2, <1>5, Repeated
<1>7. ASSUME NEW j \in 0 .. n
      PROVE  g[j] = IF j = 0 THEN s ELSE BinaryPass(g[j - 1])
  <2>1. CASE j = 0 BY <2>1, <1>6 DEF Repeats
  <2>2. CASE j # 0
    <3>1. j \in 1 .. n /\ j - 1 \in 0 .. n BY <2>2, <1>1
    <3>2. g[j - 1] \in T BY <3>1, <1>6 DEF Repeats
    <3> QED BY <3>1, <3>2, <1>6, <2>2 DEF Repeats
  <2> QED BY <2>1, <2>2
<1>8. Is(g) BY <1>6, <1>7 DEF Repeats
<1>9. Is(run)
  <2> HIDE DEF Is
  <2> QED BY <1>8
<1>10. run = [j \in 0 .. n |-> IF j = 0 THEN s ELSE BinaryPass(run[j - 1])]
  <2> HIDE DEF run
  <2> QED BY <1>9
<1> HIDE DEF run, Is
<1>11. run[0] = s /\ \A j \in 1 .. n : run[j] = BinaryPass(run[j - 1])
  BY <1>1, <1>10
<1> DEFINE P == {j \in 0 .. n : run[j] \in T}
<1>12. P \in SUBSET (0 .. n) /\ 0 \in P BY <1>1, <1>2, <1>11
<1>13. ASSUME NEW j \in 1 .. n, j - 1 \in P PROVE j \in P BY <1>3, <1>11, <1>13
<1>14. \A j \in 0 .. n : j \in P
  <2> HIDE DEF P
  <2> QED BY <1>1, <1>12, <1>13, UpTo
<1>15. run[n] \in T BY <1>1, <1>14
<1> QED BY <1>4, <1>15 DEF T

----------------------------------------------------------------------------
(* The readers' steps.                                                     *)

(* Opening a reader reads nothing and opens no other.                      *)
LEMMA OpenIsQuiet ==
  ASSUME Inv, LoopInv, NEW q \in Readers, Open(q)
  PROVE  Quiet(q) /\ q \in readers'
<1>1. Inv' BY OpenKeeps
<1>2. /\ readers' = readers \cup {q} /\ taken' = taken /\ place' = place
      /\ finished' = finished /\ closing' = closing
  BY DEF Open, inputVars
<1>3. CASE imp # 0
  <2>1. imp' = imp /\ life' = life /\ armed' = armed /\ pending' = pending
    BY <1>3 DEF Open
  <2>2. LoopInv' BY <1>2, <2>1 DEF LoopInv
  <2> QED BY <1>1, <1>2, <2>1, <2>2 DEF Quiet, Carried
<1>4. CASE imp = 0
  <2>1. /\ made < MaxImps /\ made' = made + 1 /\ imp' = made'
        /\ \/ /\ closing > 0 /\ pending' = TRUE /\ armed' = armed
              /\ life' = [life EXCEPT ![imp'] = "waiting"]
           \/ /\ ~ (closing > 0) /\ armed' = armed \cup {imp'}
              /\ life' = [life EXCEPT ![imp'] = "registered"]
    BY <1>4 DEF Open, Register
  <2>2. imp' \in Imps /\ life[imp'] = "unused"
    BY <2>1, InputAssumption DEF Inv, TypeOK, LifeInv, Imps
  <2>3. life \in [Imps -> {"unused", "waiting", "registered", "taken", "leaving",
                           "cleared", "over"}]
    BY DEF Inv, TypeOK
  <2>4. readers = {} BY <1>4 DEF Inv, LifeInv
  <2>5. LoopInv'
    <3>1. \A i \in Imps : i # imp' => life'[i] = life[i] /\ (i \in armed' <=> i \in armed)
      BY <2>1, <2>3
    <3>2. life'[imp'] \in {"waiting", "registered"}
          /\ (life'[imp'] = "waiting" => imp' \notin armed')
      BY <2>1, <2>2, <2>3 DEF LoopInv
    <3> QED BY <1>2, <2>1, <2>2, <3>1, <3>2 DEF LoopInv
  <2> QED BY <1>1, <1>2, <2>4, <2>5 DEF Quiet, Carried
<1> QED BY <1>2, <1>3, <1>4

(* Closing one reads nothing and closes no other.                          *)
LEMMA CloseIsQuiet ==
  ASSUME Inv, LoopInv, NEW q \in Readers, Close(q)
  PROVE  Quiet(q) /\ q \notin readers'
<1>1. Inv' BY CloseKeeps
<1>2. /\ readers' = readers \ {q} /\ taken' = taken /\ place' = place
      /\ finished' = finished /\ armed' = armed /\ q \in readers
  BY DEF Close, inputVars, loopVars
<1>3. CASE readers' # {}
  <2>1. imp' = imp /\ life' = life /\ closing' = closing /\ pending' = pending
    BY <1>3 DEF Close
  <2>2. LoopInv' BY <1>2, <2>1 DEF LoopInv
  <2> QED BY <1>1, <1>2, <2>1, <2>2 DEF Quiet, Carried
<1>4. CASE readers' = {}
  <2>1. /\ imp' = 0
        /\ life' = [life EXCEPT ![imp] = IF @ = "registered" THEN "taken" ELSE "leaving"]
    BY <1>4 DEF Close
  <2>2. life \in [Imps -> {"unused", "waiting", "registered", "taken", "leaving",
                           "cleared", "over"}]
    BY DEF Inv, TypeOK
  <2>3. imp \in Imps /\ life[imp] \in {"waiting", "registered"}
    <3>1. imp # 0 BY <1>2 DEF Inv, LifeInv
    <3>2. imp \in Imps BY <3>1, InputAssumption DEF Inv, TypeOK, Imps
    <3> QED BY <3>2 DEF Inv, LifeInv
  <2>4. LoopInv'
    <3>1. \A i \in Imps : i # imp => life'[i] = life[i] BY <2>1, <2>2
    <3>2. \/ life'[imp] = "taken"
          \/ life'[imp] = "leaving" /\ imp \notin armed
      BY <2>1, <2>2, <2>3 DEF LoopInv
    <3> QED BY <1>2, <2>1, <2>3, <3>1, <3>2 DEF LoopInv
  <2> QED BY <1>1, <1>2, <1>4, <2>4 DEF Quiet, Carried
<1> QED BY <1>2, <1>3, <1>4

(* Nor does the removal of a registration touch a reader.                  *)
LEMMA RemovalIsQuiet ==
  ASSUME Inv, LoopInv, NEW i \in Imps, Deregister(i) \/ Clear(i) \/ OnClosed(i), NEW q
  PROVE  Quiet(q) /\ readers' = readers
<1>1. life \in [Imps -> {"unused", "waiting", "registered", "taken", "leaving",
                         "cleared", "over"}] /\ closing \in Nat
  BY DEF Inv, TypeOK
<1>2. \A r \in readers : imp \in Imps /\ life[imp] \in {"waiting", "registered"}
  <2> SUFFICES ASSUME NEW r \in readers
               PROVE  imp \in Imps /\ life[imp] \in {"waiting", "registered"}
    OBVIOUS
  <2>1. imp # 0 BY DEF Inv, LifeInv
  <2>2. imp \in Imps BY <2>1, InputAssumption DEF Inv, TypeOK, Imps
  <2> QED BY <2>2 DEF Inv, LifeInv
<1>3. CASE Deregister(i)
  <2>1. Inv' BY <1>3, DeregisterKeeps
  <2>2. /\ readers' = readers /\ imp' = imp /\ taken' = taken /\ finished' = finished
        /\ life[i] = "taken" /\ life' = [life EXCEPT ![i] = "leaving"]
        /\ armed' = armed \ {i} /\ place' = place /\ closing' = closing /\ pending' = pending
    BY <1>3 DEF Deregister, readerVars, inputVars, closeVars
  <2>3. LoopInv' BY <1>1, <2>2 DEF LoopInv
  <2>4. \A r : Carried(r) BY <1>1, <1>2, <2>2 DEF Carried
  <2> QED BY <2>1, <2>2, <2>3, <2>4 DEF Quiet
<1>4. CASE Clear(i)
  <2>1. Inv' BY <1>4, ClearKeeps
  <2>2. /\ readers' = readers /\ imp' = imp /\ taken' = taken /\ finished' = finished
        /\ life[i] = "leaving" /\ life' = [life EXCEPT ![i] = "cleared"] /\ place[i] = "idle"
        /\ armed' = armed /\ place' = place /\ closing' = closing /\ pending' = pending
    BY <1>4 DEF Clear, readerVars, inputVars, closeVars, loopVars
  <2>3. LoopInv' BY <1>1, <2>2 DEF LoopInv
  <2>4. \A r : Carried(r) BY <1>1, <1>2, <2>2 DEF Carried
  <2> QED BY <2>1, <2>2, <2>3, <2>4 DEF Quiet
<1>5. CASE OnClosed(i)
  <2>1. Inv' BY <1>5, OnClosedKeeps
  <2>2. /\ readers' = readers /\ imp' = imp /\ taken' = taken /\ finished' = finished
        /\ life[i] = "cleared" /\ place' = place /\ closing' = closing - 1
    BY <1>5 DEF OnClosed, readerVars, inputVars
  <2>3. CASE closing' = 0 /\ pending
    <3>1. /\ armed' = armed \cup {imp}
          /\ life' = [life EXCEPT ![i] = "over", ![imp] = "registered"]
      BY <1>5, <2>3 DEF OnClosed, Register
    <3>2. imp # 0 /\ life[imp] = "waiting" BY <2>3 DEF Inv, LifeInv
    <3>3. imp \in Imps /\ imp # i
      BY <2>2, <3>2, InputAssumption DEF Inv, TypeOK, Imps
    <3>4. /\ life'[i] = "over" /\ life'[imp] = "registered"
          /\ \A j \in Imps : j # i /\ j # imp => life'[j] = life[j]
      BY <1>1, <3>1, <3>3
    <3>5. LoopInv'
      <4>1. place[i] = "idle" /\ i \notin armed BY <2>2 DEF LoopInv
      <4>2. /\ \A j \in Imps : life'[j] \in {"unused", "waiting", "cleared", "over"} =>
                  place'[j] = "idle" /\ j \notin armed'
            /\ \A j \in Imps : life'[j] = "leaving" => j \notin armed'
        BY <2>2, <3>1, <3>3, <3>4, <4>1 DEF LoopInv
      <4>3. \A j \in finished' : place'[j] # "reading" BY <2>2 DEF LoopInv
      <4>4. ~ (closing' > 0) BY <2>3
      <4> QED BY <4>2, <4>3, <4>4 DEF LoopInv
    <3>6. \A r : Carried(r) BY <3>2 DEF Carried
    <3> QED BY <2>1, <2>2, <3>5, <3>6 DEF Quiet
  <2>4. CASE ~ (closing' = 0 /\ pending)
    <3>1. armed' = armed /\ life' = [life EXCEPT ![i] = "over"] /\ pending' = pending
      BY <1>5, <2>4 DEF OnClosed
    <3>2. LoopInv'
      <4>1. /\ life'[i] = "over" /\ place[i] = "idle" /\ i \notin armed
            /\ \A j \in Imps : j # i => life'[j] = life[j]
        BY <1>1, <2>2, <3>1 DEF LoopInv
      <4>2. imp # 0 /\ closing' > 0 => pending BY <1>1, <2>2 DEF LoopInv
      <4> QED BY <2>2, <3>1, <4>1, <4>2 DEF LoopInv
    <3>3. \A r : Carried(r) BY <1>1, <1>2, <2>2, <3>1 DEF Carried
    <3> QED BY <2>1, <2>2, <3>2, <3>3 DEF Quiet
  <2> QED BY <2>3, <2>4
<1>6. readers' = readers BY DEF Deregister, Clear, OnClosed, readerVars
<1> QED BY <1>3, <1>4, <1>5, <1>6

(* What the loops do but for reading, and the other end of the input.      *)
LEMMA WaitingIsQuiet ==
  ASSUME Inv, LoopInv, NEW q,
         \/ Write \/ EndInput
         \/ \E i \in Imps : CallBack(i) \/ OnReadable(i) \/ ReadNothing(i) \/ CallbacksDone(i)
  PROVE  Quiet(q) /\ readers' = readers
<1>1. ReadStep BY DEF ReadStep
<1>2. Inv' BY <1>1, ReadKeeps
<1>3. /\ readers' = readers /\ imp' = imp /\ life' = life /\ closing' = closing
      /\ pending' = pending
  BY <1>1, ReadLeaves DEF regVars, readerVars, closeVars
<1>4. taken' = taken /\ finished' = finished
  BY DEF Write, EndInput, CallBack, OnReadable, ReadNothing, CallbacksDone, inputVars,
         loopVars
<1>5. \A r : Carried(r) BY <1>3, <1>4 DEF Carried
<1>6. /\ place \in [Imps -> {"idle", "called", "reading", "calling"}] /\ finished \subseteq Imps
      /\ \A i \in Imps : life[i] \in {"unused", "waiting", "registered", "taken", "leaving",
                                      "cleared", "over"}
  BY DEF Inv, TypeOK
<1>7. ASSUME Write \/ EndInput PROVE LoopInv'
  <2>1. place' = place /\ armed' = armed BY <1>7 DEF Write, EndInput, loopVars
  <2> QED BY <1>3, <1>4, <2>1 DEF LoopInv
<1>8. ASSUME NEW i \in Imps, CallBack(i) PROVE LoopInv'
  <2>1. armed' = armed \ {i} /\ place' = [place EXCEPT ![i] = "called"] /\ i \in armed
    BY <1>8 DEF CallBack
  <2> QED BY <1>3, <1>4, <1>6, <2>1 DEF LoopInv
<1>9. ASSUME NEW i \in Imps, OnReadable(i) PROVE LoopInv'
  <2>1. CASE i \in finished \/ life[i] # "registered"
    <3>1. armed' = armed /\ place' = [place EXCEPT ![i] = "idle"]
      BY <1>9, <2>1 DEF OnReadable
    <3> QED BY <1>3, <1>4, <1>6, <3>1 DEF LoopInv
  <2>2. CASE i \notin finished /\ life[i] = "registered"
    <3>1. armed' \subseteq armed \cup {i} /\ place' = [place EXCEPT ![i] = "reading"]
      BY <1>9, <2>2 DEF OnReadable
    <3> QED BY <1>3, <1>4, <1>6, <2>2, <3>1 DEF LoopInv
  <2> QED BY <2>1, <2>2
<1>10. ASSUME NEW i \in Imps, ReadNothing(i) PROVE LoopInv'
  <2>1. /\ place' = [place EXCEPT ![i] = "idle"]
        /\ armed' = IF life[i] = "registered" THEN armed \cup {i} ELSE armed
    BY <1>10 DEF ReadNothing
  <2> QED BY <1>3, <1>4, <1>6, <2>1 DEF LoopInv
<1>11. ASSUME NEW i \in Imps, CallbacksDone(i) PROVE LoopInv'
  <2>1. /\ place' = [place EXCEPT ![i] = IF i \in finished \/ paced THEN "idle" ELSE "reading"]
        /\ armed' = armed /\ place[i] = "calling"
    BY <1>11 DEF CallbacksDone
  <2> QED BY <1>3, <1>4, <1>6, <2>1 DEF LoopInv
<1>12. LoopInv' BY <1>7, <1>8, <1>9, <1>10, <1>11
<1> QED BY <1>2, <1>3, <1>4, <1>5, <1>12 DEF Quiet

(* A read, for the reader that is heard or for none at all.                *)
LEMMA ReadsForOne ==
  ASSUME Inv, LoopInv, NEW i \in Imps, ReadChunk(i) \/ ReadEnd(i) \/ ReadFails(i)
  PROVE  /\ Inv' /\ LoopInv' /\ readers' = readers /\ imp' = imp /\ life' = life
         /\ finished' \in {finished, finished \cup {i}} /\ i \notin finished
         /\ i = imp => life[imp] = "registered"
         /\ i # imp => readers = {} \/ life[imp] = "waiting"
<1>1. ReadStep BY DEF ReadStep
<1>2. Inv' BY <1>1, ReadKeeps
<1>3. /\ readers' = readers /\ imp' = imp /\ life' = life /\ closing' = closing
      /\ pending' = pending
  BY <1>1, ReadLeaves DEF regVars, readerVars, closeVars
<1>4. /\ place' = [place EXCEPT ![i] = "calling"] /\ place[i] = "reading" /\ armed' = armed
      /\ finished' \in {finished, finished \cup {i}}
  BY DEF ReadChunk, ReadEnd, ReadFails, SendToReaders
<1>5. /\ place \in [Imps -> {"idle", "called", "reading", "calling"}] /\ finished \subseteq Imps
      /\ life[i] \in {"unused", "waiting", "registered", "taken", "leaving",
                      "cleared", "over"}
  BY DEF Inv, TypeOK
<1>6. LoopInv' BY <1>3, <1>4, <1>5 DEF LoopInv
<1>7. life[i] \in {"registered", "taken", "leaving"} /\ i \notin finished
  BY <1>4, <1>5 DEF LoopInv
<1>8. i = imp => life[imp] = "registered" BY <1>7 DEF Inv, LifeInv
<1>9. ASSUME i # imp, readers # {} PROVE life[imp] = "waiting"
  <2>1. imp # 0 BY <1>9 DEF Inv, LifeInv
  <2>2. i \in Removing BY <1>7, <1>9 DEF Removing, Inv, LifeInv
  <2>3. closing > 0 BY <2>2, SomeLeft DEF Inv, CountInv
  <2> QED BY <2>1, <2>3 DEF LoopInv, Inv, LifeInv
<1> QED BY <1>2, <1>3, <1>4, <1>6, <1>7, <1>8, <1>9

----------------------------------------------------------------------------
(* What the readers' steps leave to the clients.                           *)

(* A reader that is closed, or waits for its registration, has heard       *)
(* nothing, however much is read.                                          *)
LEMMA NothingHeard ==
  \A t, m : Flow(t, <<>>, <<>>, m, {}) /\ All(<<>>, <<>>, m, {}) = {}
<1>1. <<>> \in Items /\ <<>> \in Positions /\ Len(<<>>) = 0
  BY EmptySeq DEF Items, Positions
<1>2. DOMAIN <<>> = {} BY <1>1, PositionsSeq
<1>3. \A m : All(<<>>, <<>>, m, {}) = {}
  BY <1>2, NothingTaken DEF All, Texts, MailTexts
<1>4. \A m : Sorted(<<>>, <<>>, m, {}, Heard)
  BY <1>2, NothingTaken DEF Sorted, InARow
<1> QED BY <1>3, <1>4 DEF Flow

(* A reader that hears the input on has heard what it had heard.           *)
LEMMA Carries ==
  ASSUME NEW r, NEW u, NEW b, NEW m, NEW K, Stream(r, u, b, m, K), Carried(r)
  PROVE  StreamThen(r, u, b, m, K)
<1>1. CASE r \in readers /\ life[imp] # "waiting"
  BY <1>1 DEF Carried, Stream, StreamThen
<1>2. CASE ~ (r \in readers /\ life[imp] # "waiting")
  <2>1. u = <<>> /\ b = <<>> /\ K = {} BY <1>2 DEF Stream
  <2> QED BY <2>1, NothingHeard DEF StreamThen
<1> QED BY <1>1, <1>2

----------------------------------------------------------------------------
(* The input stays what it is, and so does what is done with it.           *)
FirstIs(at, C, n) ==
  /\ n \in 0 .. Len(at)
  /\ n = 0 => \A k \in 1 .. Len(at) : Char(at[k]) \notin C
  /\ n > 0 => Char(at[n]) \in C /\ \A k \in 1 .. n - 1 : Char(at[k]) \notin C

FirstFacts == \A at \in Positions : \A C : FirstIs(at, C, FirstOf(at, C))

(* The first place of a character in this state ...                        *)
LEMMA FirstNow == FirstFacts
BY FirstPlace DEF FirstIs, FirstFacts

(* ... and in the next.                                                    *)
LEMMA FirstThen == FirstFacts'
BY FirstNow, PTL

(* It is the same place while the input is the same.                       *)
LEMMA SameFirst ==
  ASSUME config' = config, NEW at \in Positions, NEW C
  PROVE  FirstOf(at, C)' = FirstOf(at, C)
<1>n. PICK n : n = FirstOf(at, C) OBVIOUS
<1>m. PICK m : m = FirstOf(at, C)' OBVIOUS
<1>1. FirstIs(at, C, n) /\ FirstIs(at, C, m)'
  BY <1>n, <1>m, FirstNow, FirstThen DEF FirstFacts
<1>2. \A x : Char(x)' = Char(x) BY DEF Char
<1>3. Len(at) \in Nat BY PositionsSeq
<1>4. FirstIs(at, C, m) BY <1>1, <1>2 DEF FirstIs
<1>5. n \in 0 .. Len(at) /\ m \in 0 .. Len(at) BY <1>1, <1>4 DEF FirstIs
<1>6. \A l \in Nat : \A i, j \in 0 .. l :
         \/ i = j
         \/ i = 0 /\ j \in 1 .. l /\ j > 0
         \/ j = 0 /\ i \in 1 .. l /\ i > 0
         \/ i > 0 /\ j > 0 /\ i \in 1 .. j - 1
         \/ j > 0 /\ i > 0 /\ j \in 1 .. i - 1
  OBVIOUS
<1>7. \/ n = m
      \/ n = 0 /\ m \in 1 .. Len(at) /\ m > 0
      \/ m = 0 /\ n \in 1 .. Len(at) /\ n > 0
      \/ n > 0 /\ m > 0 /\ n \in 1 .. m - 1
      \/ m > 0 /\ n > 0 /\ m \in 1 .. n - 1
  BY <1>3, <1>5, <1>6
<1>8. n = m BY <1>1, <1>4, <1>7 DEF FirstIs
<1> QED BY <1>8, <1>n, <1>m

(* So is a pass over a piece.                                              *)
LEMMA SameKeyPass ==
  ASSUME config' = config, NEW at \in Positions, NEW k \in Passes, k.n <= Len(at)
  PROVE  KeyPass(at, k)' = KeyPass(at, k)
<1>1. \A x : Char(x)' = Char(x) BY DEF Char
<1>2. \A p, x : Key(p, x)' = Key(p, x) BY <1>1 DEF Key
<1> DEFINE n == k.n + 1
           rest == SubSeq(at, n, Len(at))
<1>3. ~ (k.n = Len(at)) => FirstOf(rest, {"bell"})' = FirstOf(rest, {"bell"})
  <2> SUFFICES ASSUME k.n # Len(at)
               PROVE  FirstOf(rest, {"bell"})' = FirstOf(rest, {"bell"})
    OBVIOUS
  <2>1. k.n \in Nat /\ Len(at) \in Nat BY PassFields, PositionsSeq
  <2>2. n \in 1 .. Len(at) + 1 /\ Len(at) \in n - 1 .. Len(at) BY <2>1
  <2> HIDE DEF n
  <2>3. rest \in Positions BY <2>2, PartOfPiece
  <2> HIDE DEF rest
  <2> QED BY <2>3, SameFirst
<1> QED BY <1>1, <1>2, <1>3 DEF KeyPass, After

(* The keys of a piece in the next state, ...                              *)
KeysFacts ==
  \A p \in Promptly : \A at \in Positions : \E f : Run(p, at, f) /\ f[Len(at)] = Keys(p, at)

(* In this state they are, ...                                             *)
LEMMA KeysNow == KeysFacts
BY KeysRun DEF KeysFacts

(* ... and so they are in the next.                                        *)
LEMMA KeysThen == KeysFacts'
BY KeysNow, PTL

(* ... which has the same input, are the same.                             *)
LEMMA SameKeys ==
  ASSUME config' = config, NEW p \in Promptly, NEW at \in Positions
  PROVE  Keys(p, at)' = Keys(p, at)
<1>1. PICK f : Run(p, at, f) /\ f[Len(at)] = Keys(p, at)
  BY KeysNow DEF KeysFacts
<1>2. PICK g : Run(p, at, g)' /\ g[Len(at)] = Keys(p, at)'
  BY KeysThen DEF KeysFacts
<1>3. Len(at) \in Nat BY PositionsSeq
<1>4. /\ f[0] = g[0] /\ \A j \in 0 .. Len(at) : f[j] \in PassesOver(at)
      /\ \A j \in 1 .. Len(at) : f[j] = KeyPass(at, f[j - 1]) /\ g[j] = KeyPass(at, g[j - 1])'
  BY <1>1, <1>2 DEF Run
<1> DEFINE P == {j \in 0 .. Len(at) : f[j] = g[j]}
<1>5. P \in SUBSET (0 .. Len(at)) /\ 0 \in P BY <1>3, <1>4
<1>6. ASSUME NEW j \in 1 .. Len(at), j - 1 \in P PROVE j \in P
  <2>1. j - 1 \in 0 .. Len(at) /\ j \in 0 .. Len(at) /\ f[j - 1] = g[j - 1]
    BY <1>3, <1>6
  <2>2. f[j - 1] \in Passes /\ f[j - 1].n <= Len(at)
    BY <1>4, <2>1 DEF PassesOver
  <2>n. PICK k : k = f[j - 1] OBVIOUS
  <2>3. KeyPass(at, k)' = KeyPass(at, k) BY <2>n, <2>2, SameKeyPass
  <2>4. f[j] = KeyPass(at, k) /\ g[j] = KeyPass(at, k)'
    <3>1. f[j] = KeyPass(at, f[j - 1]) /\ g[j] = KeyPass(at, g[j - 1])' BY <1>4
    <3>2. g[j - 1] = k BY <2>n, <2>1
    <3> QED BY <2>n, <3>1, <3>2
  <2> QED BY <2>1, <2>3, <2>4
<1>7. \A j \in 0 .. Len(at) : j \in P
  <2> HIDE DEF P
  <2> QED BY <1>3, <1>5, <1>6, UpTo
<1> QED BY <1>1, <1>2, <1>3, <1>7

(* So are those of a blocking prompt.                                      *)
SimpleFacts ==
  \A p \in Simply : \A at \in Positions :
     \E f : SimpleRun(p, at, f) /\ f[Len(at)] = SimpleKeys(p, at)

(* In this state they are those of a run, ...                              *)
LEMMA SimpleNow == SimpleFacts
BY SimpleKeysRun DEF SimpleFacts

(* ... in the next as well, ...                                            *)
LEMMA SimpleThen == SimpleFacts'
BY SimpleNow, PTL

(* ... and these are the same.                                             *)
LEMMA SameSimpleKeys ==
  ASSUME config' = config, NEW p \in Simply, NEW at \in Positions
  PROVE  SimpleKeys(p, at)' = SimpleKeys(p, at)
<1>1. PICK f : SimpleRun(p, at, f) /\ f[Len(at)] = SimpleKeys(p, at)
  BY SimpleNow DEF SimpleFacts
<1>2. PICK g : SimpleRun(p, at, g)' /\ g[Len(at)] = SimpleKeys(p, at)'
  BY SimpleThen DEF SimpleFacts
<1>3. Len(at) \in Nat BY PositionsSeq
<1>4. /\ f[0] = g[0]
      /\ \A j \in 1 .. Len(at) : f[j] = SimpleKey(f[j - 1], at[j])
      /\ \A j \in 1 .. Len(at) : g[j] = SimpleKey(g[j - 1], at[j])'
  BY <1>1, <1>2 DEF SimpleRun
<1>5. \A x : Char(x)' = Char(x) BY DEF Char
<1>6. \A q, x : SimpleKey(q, x)' = SimpleKey(q, x) BY <1>5 DEF SimpleKey
<1> DEFINE P == {j \in 0 .. Len(at) : f[j] = g[j]}
<1>7. P \in SUBSET (0 .. Len(at)) /\ 0 \in P BY <1>3, <1>4
<1>8. ASSUME NEW j \in 1 .. Len(at), j - 1 \in P PROVE j \in P
  <2>1. j \in 0 .. Len(at) /\ f[j - 1] = g[j - 1] BY <1>3, <1>8
  <2>n. PICK q, x : q = f[j - 1] /\ x = at[j] OBVIOUS
  <2>2. f[j] = SimpleKey(q, x) /\ g[j] = SimpleKey(q, x)'
    <3>1. f[j] = SimpleKey(f[j - 1], at[j]) /\ g[j] = SimpleKey(g[j - 1], at[j])'
      BY <1>4
    <3>2. g[j - 1] = q BY <2>n, <2>1
    <3> QED BY <2>n, <3>1, <3>2
  <2> QED BY <1>6, <2>1, <2>2
<1>9. \A j \in 0 .. Len(at) : j \in P
  <2> HIDE DEF P
  <2> QED BY <1>3, <1>7, <1>8, UpTo
<1> QED BY <1>1, <1>2, <1>3, <1>9

----------------------------------------------------------------------------
(* A call is what it was.                                                  *)
LEMMA SameCall ==
  ASSUME config' = config, NEW r \in CallRecord
  PROVE  /\ Goes(r)' <=> Goes(r)
         /\ Fits(r)' <=> Fits(r)
         /\ WaitsHere(r)' <=> WaitsHere(r)
<1> DEFINE at == r.at
<1>1. at \in Positions /\ Fresh \in Promptly /\ Fresh \in Simply
  BY FreshPrompt DEF CallRecord
<1>2. Keys(Fresh, at)' = Keys(Fresh, at)
  <2>1. PICK p : p = Fresh OBVIOUS
  <2> HIDE DEF at
  <2>2. Keys(p, at)' = Keys(p, at) BY <1>1, <2>1, SameKeys
  <2> QED BY <2>1, <2>2
<1>3. SimpleKeys(Fresh, at)' = SimpleKeys(Fresh, at)
  <2>1. PICK p : p = Fresh OBVIOUS
  <2> HIDE DEF at
  <2>2. SimpleKeys(p, at)' = SimpleKeys(p, at) BY <1>1, <2>1, SameSimpleKeys
  <2> QED BY <2>1, <2>2
<1>4. FirstOf(at, {"newline"})' = FirstOf(at, {"newline"})
  <2> HIDE DEF at
  <2> QED BY <1>1, SameFirst
<1>5. Goes(r)' <=> Goes(r) BY <1>2 DEF Goes, Follows
<1>6. Fits(r)' <=> Fits(r) BY <1>2, <1>3, <1>4 DEF Fits
<1>7. WaitsHere(r)' <=> WaitsHere(r) BY <1>3 DEF WaitsHere
<1> QED BY <1>5, <1>6, <1>7

(* A step that leaves the calls and the owner leaves the blocking reader   *)
(* as it is.                                                               *)
LEMMA BlockingStays ==
  ASSUME CallsInv, config' = config, BlockingInv, Carried("blocking"),
         "blocking" \in readers' <=> "blocking" \in readers,
         calls' = calls, blocking' = blocking
  PROVE  BlockingInv'
<1> DEFINE at == Got \o blocking.buffer
<1>1. BlockingCall' <=> BlockingCall BY DEF BlockingCall
<1>2. at' = at BY DEF Got, BlockingCall
<1>3. "blocking" \in readers => StreamThen("blocking", at, <<>>, <<>>, {})
  <2>1. "blocking" \in readers => Stream("blocking", at, <<>>, <<>>, {})
    BY DEF BlockingInv
  <2> HIDE DEF at
  <2> QED BY <2>1, Carries
<1>4. "blocking" \in readers' => Stream("blocking", at, <<>>, <<>>, {})'
  <2> HIDE DEF at
  <2> QED BY <1>2, <1>3 DEF StreamThen, Stream
<1>5. "blocking" \in readers' => 0 \notin ToSet(at') BY <1>2 DEF BlockingInv
<1>6. BlockingCall' => /\ blocking'.call \in DOMAIN calls'
                       /\ WaitsHere(calls[blocking.call])'
  <2> DEFINE r == calls[blocking.call]
  <2> SUFFICES ASSUME BlockingCall PROVE blocking.call \in DOMAIN calls /\ WaitsHere(r)'
    BY <1>1
  <2>1. blocking.call \in DOMAIN calls /\ WaitsHere(r) /\ r \in CallRecord
    <3>1. blocking.call \in DOMAIN calls /\ WaitsHere(r) BY DEF BlockingInv
    <3> QED BY <3>1, CallsSeq, ElementOfSeq DEF CallsInv, CallsAre
  <2>2. PICK c : c = r OBVIOUS
  <2>3. WaitsHere(c)' BY <2>1, <2>2, SameCall
  <2>4. r' = c BY <2>2
  <2> QED BY <2>1, <2>3, <2>4 DEF WaitsHere
<1>7. /\ "blocking" \in readers' <=> BlockingCall' \/ blocking'.place = "idle"
      /\ blocking'.place = "none" => blocking'.buffer = <<>>
  BY <1>1 DEF BlockingInv
<1> QED BY <1>4, <1>5, <1>6, <1>7 DEF BlockingInv

(* The calls of the next state are right when they are in this one.        *)
LEMMA CallsThen ==
  ASSUME config' = config, NEW cs, NEW es, NEW bs, NEW l, NEW e, CallsAre(cs, es, bs, l, e),
         calls' = cs, entries' = es, binary' = bs, late' = l, ends' = e
  PROVE  CallsInv'
<1>1. \A c \in DOMAIN cs : cs[c] \in CallRecord
  BY CallsSeq, ElementOfSeq DEF CallsAre
<1>2. \A r \in CallRecord : (Goes(r)' <=> Goes(r)) /\ (Fits(r)' <=> Fits(r))
  BY SameCall
<1>3. es # <<>> => Goes(cs[es[1]])'
  <2> SUFFICES ASSUME es # <<>> PROVE Goes(cs[es[1]])' OBVIOUS
  <2>1. cs[es[1]] \in CallRecord /\ Goes(cs[es[1]])
    <3>1. es[1] \in DOMAIN cs BY WaitingFirst DEF CallsAre
    <3> QED BY <1>1, <3>1 DEF CallsAre
  <2> QED BY <1>2, <2>1
<1>4. \A c \in DOMAIN cs : Fits(cs[c])' BY <1>1, <1>2 DEF CallsAre
<1>5. CallsAre(cs, es, bs, l, e)' BY <1>3, <1>4 DEF CallsAre
<1> QED BY <1>5 DEF CallsInv, CallsAre, Goes, Fits, Follows

----------------------------------------------------------------------------
(* The clients see nothing of a step that reads nothing and opens or       *)
(* closes none of the actor's readers of input.                            *)
Owner == [place : {"none", "idle", "checking", "waiting", "closed"}, call : Nat,
          buffer : Positions, errors : BOOLEAN, event : BOOLEAN]
actorAndMail == <<config, actorVars, mail, historyOfReads>>

(* Such a step keeps the invariant when the owner's part of it holds.      *)
LEMMA Unbothered ==
  ASSUME ClientsInv, NEW q, Quiet(q), q \notin {"text", "binary"},
         doing = "gone" => q # "subscription", UNCHANGED actorAndMail,
         blocking' \in Owner, BlockingInv'
  PROVE  ClientsInv'
<1>1. /\ config' = config /\ calls' = calls /\ doing' = doing /\ dying' = dying
      /\ entries' = entries /\ binary' = binary /\ buffer' = buffer
      /\ binaryBuffer' = binaryBuffer /\ mail' = mail /\ used' = used /\ lost' = lost
      /\ given' = given /\ late' = late /\ aborts' = aborts /\ ends' = ends
  BY DEF actorAndMail, actorVars, historyOfReads
<1>2. /\ Inv' /\ LoopInv' /\ taken' = taken /\ Carried("text") /\ Carried("binary")
      /\ \A r : r # q => (r \in readers' <=> r \in readers)
  BY DEF Quiet
<1>3. FieldsInv'
  <2>1. mail' \in Seq(Letter') /\ Messages(buffer') /\ Messages(binaryBuffer') /\ Messages(mail')
    BY <1>1 DEF ClientsInv, FieldsInv, Letter
  <2> QED BY <1>1, <1>2, <2>1 DEF ClientsInv, FieldsInv, Owner
<1>4. CallsInv'
  <2>1. CallsAre(calls, entries, binary, late, ends) BY DEF ClientsInv, CallsInv
  <2> QED BY <1>1, <2>1, CallsThen
<1>5. DoingInv' BY <1>1, <1>2 DEF ClientsInv, DoingInv
<1>6. KeptInv' BY <1>1 DEF ClientsInv, KeptInv, TextWay
<1>7. StreamsInv'
  <2> SUFFICES ASSUME late = {} PROVE StreamsInv' BY <1>1 DEF StreamsInv
  <2> DEFINE u == First(entries, calls)
             v == First(binary, calls)
             K == MailNow(mail, "text")
             L == MailNow(mail, "binary")
  <2>1. /\ doing # "binary" => Stream("text", u, buffer, mail, K)
        /\ Stream("binary", v, binaryBuffer, mail, L) /\ EndKnown(binaryBuffer, mail, L)
    BY DEF ClientsInv, StreamsInv
  <2>2. u' = u /\ v' = v /\ K' = K /\ L' = L BY <1>1 DEF MailNow
  <2> HIDE DEF u, v, K, L
  <2>3. doing # "binary" => StreamThen("text", u, buffer, mail, K)
    BY <1>2, <2>1, Carries
  <2>4. StreamThen("binary", v, binaryBuffer, mail, L) BY <1>2, <2>1, Carries
  <2>5. /\ doing' # "binary" => Stream("text", u, buffer, mail, K)'
        /\ Stream("binary", v, binaryBuffer, mail, L)'
    BY <1>1, <2>2, <2>3, <2>4 DEF StreamThen, Stream
  <2>6. EndKnown(binaryBuffer, mail, L)' BY <1>1, <1>2, <2>1, <2>2 DEF EndKnown
  <2> QED BY <2>5, <2>6 DEF StreamsInv, u, v, K, L
<1> QED BY <1>2, <1>3, <1>4, <1>5, <1>6, <1>7 DEF ClientsInv

(* So do the others, and the blocking reader's owner.                      *)
LEMMA ReaderStepKeeps ==
  ASSUME ClientsInv, ReaderStep
  PROVE  ClientsInv'
<1>1. Inv /\ LoopInv /\ CallsInv /\ BlockingInv /\ UNCHANGED clientVars
  BY DEF ClientsInv, ReaderStep
<1>2. /\ UNCHANGED actorAndMail /\ calls' = calls /\ blocking' = blocking
      /\ config' = config
  BY <1>1 DEF clientVars, actorVars, actorAndMail
<1>3. ASSUME NEW q, Quiet(q), q \notin Own PROVE ClientsInv'
  <2>1. q # "text" /\ q # "binary" /\ q # "subscription" /\ q # "blocking"
    BY <1>3 DEF Own
  <2>2. Carried("blocking") /\ ("blocking" \in readers' <=> "blocking" \in readers)
    BY <1>3, <2>1 DEF Quiet
  <2>3. BlockingInv' BY <1>1, <1>2, <2>2, BlockingStays
  <2>4. blocking' \in Owner BY <1>2 DEF ClientsInv, FieldsInv, Owner
  <2> QED BY <1>2, <1>3, <2>1, <2>3, <2>4, Unbothered
<1>5. PICK q : q \notin Own BY NoSetContainsEverything
<1>6. CASE \/ Write \/ EndInput
           \/ \E i \in Imps : CallBack(i) \/ OnReadable(i) \/ ReadNothing(i) \/ CallbacksDone(i)
  BY <1>1, <1>3, <1>5, <1>6, WaitingIsQuiet
<1>7. CASE \E i \in Imps : Deregister(i) \/ Clear(i) \/ OnClosed(i)
  BY <1>1, <1>3, <1>5, <1>7, RemovalIsQuiet
<1>8. ASSUME NEW r \in config.others, Open(r) \/ Close(r) PROVE ClientsInv'
  <2>1. config \in Configs BY DEF ClientsInv, FieldsInv
  <2>2. r \in Readers /\ r \notin Own BY <2>1, ClientsAssumption
  <2> QED BY <1>1, <1>3, <1>8, <2>2, OpenIsQuiet, CloseIsQuiet
<1> QED BY <1>6, <1>7, <1>8 DEF ReaderStep

(* A subscriber opens or closes a reader of its own.                       *)
LEMMA SubscribeKeeps ==
  ASSUME ClientsInv, Subscribe
  PROVE  ClientsInv'
<1>1. Inv /\ LoopInv /\ CallsInv /\ BlockingInv /\ UNCHANGED clientVars
  BY DEF ClientsInv, Subscribe
<1>2. /\ UNCHANGED actorAndMail /\ calls' = calls /\ blocking' = blocking
      /\ config' = config /\ doing # "gone"
  BY <1>1 DEF clientVars, actorVars, actorAndMail, Subscribe
<1> DEFINE q == "subscription"
<1>3. q \in Readers /\ q \notin {"text", "binary", "blocking"}
  BY ClientsAssumption DEF Own
<1>4. Open(q) \/ Close(q) BY DEF Subscribe, OpenOwn
<1> HIDE DEF q
<1>5. Quiet(q) BY <1>1, <1>3, <1>4, OpenIsQuiet, CloseIsQuiet
<1>6. Carried("blocking") /\ ("blocking" \in readers' <=> "blocking" \in readers)
  BY <1>3, <1>5 DEF Quiet
<1>7. BlockingInv' BY <1>1, <1>2, <1>6, BlockingStays
<1>8. blocking' \in Owner BY <1>2 DEF ClientsInv, FieldsInv, Owner
<1> QED BY <1>2, <1>3, <1>5, <1>7, <1>8, Unbothered

(* The owner of the blocking reader opens it, closes it, and wakes up.     *)
LEMMA OwnerKeeps ==
  ASSUME ClientsInv, OpenBlocking \/ CloseBlocking \/ Wake
  PROVE  ClientsInv'
<1>1. /\ Inv /\ LoopInv /\ CallsInv /\ BlockingInv /\ UNCHANGED actorAndMail
      /\ config' = config /\ calls' = calls /\ blocking \in Owner
  BY DEF ClientsInv, OpenBlocking, CloseBlocking, Wake, actorAndMail, actorVars,
         FieldsInv, Owner
<1> DEFINE q == "blocking"
<1>2. q \in Readers /\ q \notin {"text", "binary", "subscription"}
  BY ClientsAssumption DEF Own
<1>3. CASE OpenBlocking
  <2>1. Open(q) /\ blocking.place = "none" /\ blocking' = [blocking EXCEPT !.place = "idle"]
    BY <1>3 DEF OpenBlocking, OpenOwn
  <2>2. Quiet(q) /\ q \in readers' BY <1>1, <1>2, <2>1, OpenIsQuiet
  <2>3. blocking' \in Owner /\ blocking'.place = "idle" /\ blocking'.buffer = <<>>
    BY <1>1, <2>1 DEF BlockingInv, Owner
  <2>4. ~ BlockingCall' /\ Got' = <<>> BY <2>3 DEF BlockingCall, Got
  <2>5. Got' \o blocking'.buffer = <<>> BY <2>3, <2>4
  <2>6. StreamThen(q, <<>>, <<>>, <<>>, {}) BY NothingHeard DEF StreamThen
  <2>7. /\ Stream(q, Got \o blocking.buffer, <<>>, <<>>, {})'
        /\ 0 \notin ToSet(Got' \o blocking'.buffer)
    BY <2>5, <2>6, NothingTaken DEF StreamThen, Stream
  <2>8. BlockingInv' BY <2>2, <2>3, <2>4, <2>7 DEF BlockingInv
  <2> QED BY <1>1, <1>2, <2>2, <2>3, <2>8, Unbothered
<1>4. CASE CloseBlocking
  <2>1. Close(q) /\ blocking' = [blocking EXCEPT !.place = "closed"]
    BY <1>4 DEF CloseBlocking
  <2>2. Quiet(q) /\ q \notin readers' BY <1>1, <1>2, <2>1, CloseIsQuiet
  <2>3. blocking' \in Owner /\ blocking'.place = "closed"
    BY <1>1, <2>1 DEF Owner
  <2>4. BlockingInv' BY <2>2, <2>3 DEF BlockingInv, BlockingCall
  <2> QED BY <1>1, <1>2, <2>2, <2>3, <2>4, Unbothered
<1>5. CASE Wake
  <2>1. /\ blocking.place = "waiting" /\ UNCHANGED stdinVars
        /\ blocking' = [blocking EXCEPT !.place = "checking", !.event = FALSE]
    BY <1>5 DEF Wake
  <2>2. /\ readers' = readers /\ imp' = imp /\ life' = life /\ taken' = taken
        /\ finished' = finished
    BY <2>1 DEF stdinVars, inputVars, readerVars, loopVars
  <2>3. Quiet(q) /\ Carried(q)
    <3>1. Inv' BY <1>1, <2>1, Stutters
    <3>2. LoopInv'
      BY <1>1, <2>1 DEF LoopInv, stdinVars, readerVars, loopVars, closeVars
    <3> QED BY <2>2, <3>1, <3>2 DEF Quiet, Carried
  <2>4. /\ blocking' \in Owner /\ blocking'.place = "checking" /\ blocking'.call = blocking.call
        /\ blocking'.buffer = blocking.buffer
    BY <1>1, <2>1 DEF Owner
  <2>5. BlockingInv'
    <3>1. BlockingCall /\ BlockingCall' BY <2>1, <2>4 DEF BlockingCall
    <3> DEFINE at == Got \o blocking.buffer
    <3>2. at' = at BY <1>1, <2>4, <3>1 DEF Got
    <3>3. q \in readers /\ q \in readers' /\ Stream(q, at, <<>>, <<>>, {}) /\ 0 \notin ToSet(at)
      BY <1>1, <2>2, <3>1 DEF BlockingInv
    <3> HIDE DEF at
    <3>4. StreamThen(q, at, <<>>, <<>>, {}) BY <2>3, <3>3, Carries
    <3>5. Stream(q, at, <<>>, <<>>, {})' /\ 0 \notin ToSet(at')
      BY <3>2, <3>3, <3>4 DEF StreamThen, Stream
    <3>6. blocking.call \in DOMAIN calls /\ WaitsHere(calls[blocking.call])
      BY <1>1, <3>1 DEF BlockingInv
    <3>7. WaitsHere(calls[blocking.call])'
      <4>1. PICK r : r = calls[blocking.call] OBVIOUS
      <4>2. r \in CallRecord
        BY <1>1, <3>6, <4>1, ElementOfSeq, CallsSeq DEF CallsInv, CallsAre
      <4>3. WaitsHere(r)' BY <1>1, <3>6, <4>1, <4>2, SameCall
      <4>4. calls[blocking.call]' = r BY <1>1, <2>4, <4>1
      <4> QED BY <4>3, <4>4 DEF WaitsHere
    <3>8. blocking'.call \in DOMAIN calls' BY <1>1, <2>4, <3>6
    <3> QED BY <2>4, <3>1, <3>3, <3>5, <3>7, <3>8 DEF BlockingInv, at
  <2> QED BY <1>1, <1>2, <2>3, <2>4, <2>5, Unbothered
<1> QED BY <1>3, <1>4, <1>5

----------------------------------------------------------------------------
(* What is read is dispatched.                                             *)

(* A letter that is put behind the mail comes after all.                   *)
LEMMA SortedAdds ==
  ASSUME NEW u, NEW b, NEW m, NEW n, NEW K, NEW L, NEW x, NEW R, Adds(m, n, K, L, x),
         Sorted(u, b, m, K, R), Row(x, R), Before(All(u, b, m, K), ToSet(x), R)
  PROVE  Sorted(u, b, n, L, R) /\ All(u, b, n, L) = All(u, b, m, K) \cup ToSet(x)
<1>1. PICK l \in Nat : K \in SUBSET (1 .. l - 1) /\ L = K \cup {l} /\ n[l].at = x
  BY DEF Adds
<1>2. Sorted(u, b, n, K, R) /\ All(u, b, n, K) = All(u, b, m, K)
  BY SortedSame DEF Adds, Same
<1>3. Row(n[l].at, R) /\ Before(All(u, b, n, K), ToSet(n[l].at), R)
  BY <1>1, <1>2
<1>4. /\ Sorted(u, b, n, K \cup {l}, R)
      /\ All(u, b, n, K \cup {l}) = All(u, b, n, K) \cup ToSet(n[l].at)
  BY <1>1, <1>2, <1>3, SortedAppend
<1> QED BY <1>1, <1>2, <1>4

(* The callbacks of a reader post these letters.                           *)
LEMMA LettersPosted ==
  ASSUME mail \in Seq(Letter), aborts \in Nat, NEW i, NEW x \in Positions,
         NEW type \in {"stdIn", "endOfFile", "error"}
  PROVE  Posted(i, type, x, mail \o MailOf(i, type, x))
<1> DEFINE t == MailOf(i, type, x)
           n == mail \o t
           y == Written("text", type, x)
           z == Written("binary", type, x)
           l == Len(mail)
<1>1. y \in Letter /\ z \in Letter BY DEF Written, Letter
<1>2. /\ y.to = "text" /\ y.type = type /\ y.at = x /\ y.age = aborts
      /\ z.to = "binary" /\ z.type = type /\ z.at = x /\ z.age = aborts
  BY DEF Written
<1>3. t = (IF Hears(i, "text") THEN <<y>> ELSE <<>>) \o (IF Hears(i, "binary") THEN <<z>> ELSE <<>>)
  BY DEF MailOf, Hears, Written
<1>4. l \in Nat /\ DOMAIN mail = 1 .. l BY LenProperties
<1> HIDE DEF t, y, z, l
<1>5. ASSUME t \in Seq(Letter)
      PROVE  /\ n \in Seq(Letter) /\ Len(n) = l + Len(t) /\ Len(t) \in Nat
             /\ DOMAIN n = 1 .. l + Len(t)
             /\ \A k \in 1 .. l : n[k] = mail[k]
             /\ \A k \in 1 .. Len(t) : n[l + k] = t[k]
  <2>1. /\ n \in Seq(Letter) /\ Len(n) = Len(mail) + Len(t)
        /\ \A k \in 1 .. Len(n) : n[k] = IF k <= Len(mail) THEN mail[k] ELSE t[k - Len(mail)]
    BY <1>5, ConcatProperties
  <2>2. Len(t) \in Nat BY <1>5, LenProperties
  <2> HIDE DEF n
  <2>3. DOMAIN n = 1 .. Len(n) BY <2>1, LenProperties
  <2>4. \A a, b \in Nat : /\ \A k \in 1 .. a : k \in 1 .. a + b /\ k <= a
                          /\ \A k \in 1 .. b : a + k \in 1 .. a + b /\ ~ (a + k <= a)
                                               /\ a + k - a = k
    OBVIOUS
  <2> QED BY <1>4, <2>1, <2>2, <2>3, <2>4 DEF l
<1> HIDE DEF n
<1>6. CASE ~ Hears(i, "text") /\ ~ Hears(i, "binary")
  <2>1. t = <<>> /\ t \in Seq(Letter) /\ Len(t) = 0
    <3>1. t = <<>> \o <<>> BY <1>3, <1>6
    <3> QED BY <3>1, EmptySeq, ConcatEmptySeq
  <2>2. n = mail BY <2>1, ConcatEmptySeq DEF n
  <2> QED BY <1>6, <2>2 DEF Posted, Same, n, t
(* One letter, or two. *)
<1>7. ASSUME NEW v \in Letter, NEW d \in {"text", "binary"}, v.to = d, v.type = type,
             v.at = x, v.age = aborts,
             t = <<v>>, Hears(i, d), \A to \in {"text", "binary"} : Hears(i, to) => to = d
      PROVE  Posted(i, type, x, n)
  <2>1. t \in Seq(Letter) /\ Len(t) = 1 /\ t[1] = v BY <1>7
  <2>2. /\ n \in Seq(Letter) /\ DOMAIN n = 1 .. l + 1
        /\ \A k \in 1 .. l : n[k] = mail[k]
        /\ n[l + 1] = v
    BY <1>5, <2>1
  <2>3. 1 .. l + 1 = (1 .. l) \cup {l + 1} /\ l + 1 \in Nat /\ l + 1 - 1 = l
    BY <1>4
  <2>4. PICK a : a = l + 1 OBVIOUS
  <2>5. /\ MailTo(n, d) = MailTo(mail, d) \cup {a} /\ MailNow(n, d) = MailNow(mail, d) \cup {a}
        /\ MailTo(mail, d) \subseteq 1 .. l /\ MailNow(mail, d) \subseteq 1 .. l
    BY <1>4, <1>7, <2>2, <2>3, <2>4 DEF MailTo, MailNow
  <2>6. \A to \in {"text", "binary"} : to # d => /\ MailTo(n, to) = MailTo(mail, to)
                                              /\ MailNow(n, to) = MailNow(mail, to)
    BY <1>4, <1>7, <2>2, <2>3 DEF MailTo, MailNow
  <2>7. \A to : Same(mail, n, MailTo(mail, to)) /\ Same(mail, n, MailNow(mail, to))
    BY <1>4, <2>2 DEF Same, MailTo, MailNow
  <2>8. a \in Nat /\ 1 .. a - 1 = 1 .. l /\ n[a].at = x
    <3>1. a \in Nat /\ a - 1 = l BY <1>4, <2>4
    <3>2. n[a].at = x BY <1>7, <2>2, <2>4
    <3> QED BY <3>1, <3>2
  <2>9. /\ Adds(mail, n, MailTo(mail, d), MailTo(n, d), x)
        /\ Adds(mail, n, MailNow(mail, d), MailNow(n, d), x)
    <3>1. MailTo(mail, d) \in SUBSET (1 .. a - 1) /\ MailNow(mail, d) \in SUBSET (1 .. a - 1)
      BY <2>5, <2>8
    <3> QED BY <2>5, <2>7, <2>8, <3>1 DEF Adds
  <2>10. \A k \in DOMAIN n : \/ k \in DOMAIN mail /\ n[k] = mail[k]
                             \/ n[k].type = type /\ n[k].at = x
    BY <1>4, <1>7, <2>2, <2>3
  <2>11. ASSUME NEW to \in {"text", "binary"}
         PROVE  IF Hears(i, to)
                THEN /\ Adds(mail, n, MailTo(mail, to), MailTo(n, to), x)
                     /\ Adds(mail, n, MailNow(mail, to), MailNow(n, to), x)
                ELSE /\ Same(mail, n, MailTo(mail, to)) /\ MailTo(n, to) = MailTo(mail, to)
                     /\ MailNow(n, to) = MailNow(mail, to)
    <3>1. CASE to = d BY <1>7, <2>9, <3>1
    <3>2. CASE to # d BY <1>7, <2>6, <2>7, <3>2
    <3> QED BY <3>1, <3>2
  <2>12. Hears(i, "text") \/ Hears(i, "binary") BY <1>7
  <2> QED BY <2>2, <2>10, <2>11, <2>12 DEF Posted
<1>8. CASE Hears(i, "text") /\ ~ Hears(i, "binary")
  <2>1. t = <<y>>
    <3>1. t = <<y>> \o <<>> /\ <<y>> \in Seq(Letter) BY <1>1, <1>3, <1>8
    <3> QED BY <3>1, ConcatEmptySeq
  <2>2. Posted(i, type, x, n) BY <1>1, <1>2, <1>7, <1>8, <2>1
  <2> QED BY <2>2 DEF n, t
<1>9. CASE ~ Hears(i, "text") /\ Hears(i, "binary")
  <2>1. t = <<z>>
    <3>1. t = <<>> \o <<z>> /\ <<z>> \in Seq(Letter) BY <1>1, <1>3, <1>9
    <3> QED BY <3>1, ConcatEmptySeq
  <2>2. Posted(i, type, x, n) BY <1>1, <1>2, <1>7, <1>9, <2>1
  <2> QED BY <2>2 DEF n, t
<1>10. CASE Hears(i, "text") /\ Hears(i, "binary")
  <2>1. t \in Seq(Letter) /\ Len(t) = 2 /\ t[1] = y /\ t[2] = z
    <3>1. t = <<y>> \o <<z>> BY <1>3, <1>10
    <3>2. <<y>> \in Seq(Letter) /\ Len(<<y>>) = 1 /\ <<y>>[1] = y
          /\ <<z>> \in Seq(Letter) /\ Len(<<z>>) = 1 /\ <<z>>[1] = z
      BY <1>1
    <3> DEFINE p == <<y>>
               q == <<z>>
    <3>3. /\ p \in Seq(Letter) /\ Len(p) = 1 /\ p[1] = y /\ t = p \o q
          /\ q \in Seq(Letter) /\ Len(q) = 1 /\ q[1] = z
      BY <3>1, <3>2
    <3> HIDE DEF p, q
    <3>4. /\ t \in Seq(Letter) /\ Len(t) = 2
          /\ \A k \in 1 .. 2 : t[k] = IF k <= 1 THEN p[k] ELSE q[k - 1]
      <4>1. /\ t \in Seq(Letter) /\ Len(t) = Len(p) + Len(q)
            /\ \A k \in 1 .. Len(t) : t[k] = IF k <= Len(p) THEN p[k] ELSE q[k - Len(p)]
        BY <3>3, ConcatProperties
      <4> QED BY <3>3, <4>1
    <3>5. t[1] = p[1] /\ t[2] = q[1] BY <3>4
    <3> QED BY <3>3, <3>4, <3>5
  <2>2. /\ n \in Seq(Letter) /\ DOMAIN n = 1 .. l + 2
        /\ \A k \in 1 .. l : n[k] = mail[k]
        /\ n[l + 1] = y /\ n[l + 2] = z
    BY <1>5, <2>1
  <2>3. /\ 1 .. l + 2 = (1 .. l) \cup {l + 1, l + 2} /\ l + 1 \in Nat /\ l + 1 - 1 = l
        /\ l + 2 \in Nat /\ 1 .. l \subseteq 1 .. l + 2 - 1
    BY <1>4
  <2>4. PICK a, c : a = l + 1 /\ c = l + 2 OBVIOUS
  <2>5. /\ MailTo(n, "text") = MailTo(mail, "text") \cup {a}
        /\ MailNow(n, "text") = MailNow(mail, "text") \cup {a}
        /\ MailTo(mail, "text") \subseteq 1 .. l /\ MailNow(mail, "text") \subseteq 1 .. l
    BY <1>2, <1>4, <2>2, <2>3, <2>4 DEF MailTo, MailNow
  <2>6. /\ MailTo(n, "binary") = MailTo(mail, "binary") \cup {c}
        /\ MailNow(n, "binary") = MailNow(mail, "binary") \cup {c}
        /\ MailTo(mail, "binary") \subseteq 1 .. l /\ MailNow(mail, "binary") \subseteq 1 .. l
    BY <1>2, <1>4, <2>2, <2>3, <2>4 DEF MailTo, MailNow
  <2>7. \A to : Same(mail, n, MailTo(mail, to)) /\ Same(mail, n, MailNow(mail, to))
    BY <1>4, <2>2 DEF Same, MailTo, MailNow
  <2>8. /\ a \in Nat /\ 1 .. a - 1 = 1 .. l /\ n[a].at = x
        /\ c \in Nat /\ 1 .. l \subseteq 1 .. c - 1 /\ n[c].at = x
    <3>1. a \in Nat /\ a - 1 = l /\ c \in Nat /\ c - 1 = l + 1 BY <1>4, <2>4
    <3>2. n[a].at = x /\ n[c].at = x BY <1>2, <2>2, <2>4
    <3>3. \A j \in Nat : 1 .. j \subseteq 1 .. j + 1 OBVIOUS
    <3>4. 1 .. l \subseteq 1 .. c - 1 BY <1>4, <3>1, <3>3
    <3> QED BY <3>1, <3>2, <3>4
  <2>9. /\ Adds(mail, n, MailTo(mail, "text"), MailTo(n, "text"), x)
        /\ Adds(mail, n, MailNow(mail, "text"), MailNow(n, "text"), x)
        /\ Adds(mail, n, MailTo(mail, "binary"), MailTo(n, "binary"), x)
        /\ Adds(mail, n, MailNow(mail, "binary"), MailNow(n, "binary"), x)
    <3>1. /\ MailTo(mail, "text") \in SUBSET (1 .. a - 1)
          /\ MailNow(mail, "text") \in SUBSET (1 .. a - 1)
          /\ MailTo(mail, "binary") \in SUBSET (1 .. c - 1)
          /\ MailNow(mail, "binary") \in SUBSET (1 .. c - 1)
      BY <2>5, <2>6, <2>8
    <3>2. /\ Adds(mail, n, MailTo(mail, "text"), MailTo(n, "text"), x)
          /\ Adds(mail, n, MailNow(mail, "text"), MailNow(n, "text"), x)
      BY <2>5, <2>7, <2>8, <3>1 DEF Adds
    <3>3. /\ Adds(mail, n, MailTo(mail, "binary"), MailTo(n, "binary"), x)
          /\ Adds(mail, n, MailNow(mail, "binary"), MailNow(n, "binary"), x)
      BY <2>6, <2>7, <2>8, <3>1 DEF Adds
    <3> QED BY <3>2, <3>3
  <2>10. \A k \in DOMAIN n : \/ k \in DOMAIN mail /\ n[k] = mail[k]
                             \/ n[k].type = type /\ n[k].at = x
    BY <1>2, <1>4, <2>2, <2>3
  <2>11. \A to \in {"text", "binary"} :
            /\ Hears(i, to)
            /\ Adds(mail, n, MailTo(mail, to), MailTo(n, to), x)
            /\ Adds(mail, n, MailNow(mail, to), MailNow(n, to), x)
    BY <1>10, <2>9
  <2>12. Posted(i, type, x, n) BY <2>2, <2>10, <2>11 DEF Posted
  <2> QED BY <2>12 DEF n, t
<1> QED BY <1>6, <1>8, <1>9, <1>10

----------------------------------------------------------------------------
(* A chunk is a piece of the input, ...                                    *)
LEMMA ChunkComes ==
  ASSUME Inv, NEW i, ReadChunk(i), ends' = ends
  PROVE  Comes(i, "stdIn", [k \in 1 .. taken' - taken |-> taken + k])
<1> DEFINE x == [k \in 1 .. taken' - taken |-> taken + k]
<1>1. /\ taken \in Nat /\ taken' \in Nat /\ taken < taken' /\ taken' <= Length
      /\ finished' = finished /\ Length \in Nat
  <2>1. taken' \in (taken + 1) .. written /\ finished' = finished
    BY DEF ReadChunk
  <2>2. taken \in 0 .. written /\ written \in 0 .. Length BY DEF Inv, TypeOK
  <2> QED BY <2>1, <2>2, InputAssumption
<1>a. \A s, t \in Nat : s < t =>
         \E l \in Nat : /\ l = t - s /\ l # 0 /\ \A k \in 1 .. l : s + k \in s + 1 .. t
                      /\ \A p \in s + 1 .. t : p - s \in 1 .. l /\ s + (p - s) = p
  OBVIOUS
<1>b. \A s, t, l \in Nat : t <= l => \A p \in s + 1 .. t : p \in 0 .. l /\ p # 0
  OBVIOUS
<1>2. PICK l \in Nat : /\ l = taken' - taken /\ l # 0
                      /\ \A k \in 1 .. l : taken + k \in taken + 1 .. taken'
                      /\ \A p \in taken + 1 .. taken' : p - taken \in 1 .. l
                                                       /\ taken + (p - taken) = p
  BY <1>1, <1>a
<1>3. \A k \in 1 .. l : taken + k \in 0 .. Length /\ taken + k # 0
                        /\ taken + k \in taken + 1 .. taken'
  BY <1>1, <1>2, <1>b
<1>4. DOMAIN x = 1 .. l /\ \A k \in 1 .. l : x[k] = taken + k BY <1>2
<1>5. x \in [1 .. l -> 0 .. Length] BY <1>2, <1>3
<1>c. x \in Seq(0 .. Length)
  <2> DEFINE S == 0 .. Length
  <2>1. \A k \in 1 .. l : taken + k \in S BY <1>3
  <2>2. x = [k \in 1 .. l |-> taken + k] BY <1>2
  <2> HIDE DEF S, x
  <2>3. [k \in 1 .. l |-> taken + k] \in Seq(S) BY <2>1
  <2> QED BY <2>2, <2>3 DEF S
<1> HIDE DEF x
<1>6. x \in Positions /\ Len(x) = l
  <2>1. x \in Seq(0 .. Length) BY <1>c
  <2> QED BY <1>4, <2>1, LenProperties DEF Positions
<1>7. x # <<>> BY <1>2, <1>6, EmptySeq
<1>8. ToSet(x) = taken + 1 .. taken'
  <2>2. \A p \in taken + 1 .. taken' : \E k \in 1 .. l : x[k] = p BY <1>2, <1>4
  <2> QED BY <1>3, <1>4, <2>2 DEF ToSet
<1>9. Row(x, Heard) /\ Row(x, InText)
  <2> SUFFICES ASSUME NEW j \in 1 .. l, NEW k \in 1 .. l, j < k
               PROVE  <<x[j], x[k]>> \in Heard /\ <<x[j], x[k]>> \in InText
    BY <1>4 DEF Row
  <2>1. taken + j < taken + k BY <1>1
  <2> QED BY <1>3, <1>4, <2>1 DEF Heard, InText
<1>10. 0 \notin ToSet(x) BY <1>1, <1>8
<1> QED BY <1>1, <1>6, <1>7, <1>8, <1>9, <1>10 DEF Comes, Message, x

(* ... and the end of the input or an error a message.                     *)
LEMMA EndComes ==
  ASSUME Inv, NEW i,
         NEW type \in {"endOfFile", "error"},
         \/ type = "endOfFile" /\ ReadEnd(i) /\ ends' = ends \cup {taken}
         \/ type = "error" /\ ReadFails(i) /\ ends' = ends
  PROVE  Comes(i, type, <<0>>)
<1>1. taken' = taken /\ finished' = finished \cup {i}
  BY DEF ReadEnd, ReadFails, inputVars
<1> DEFINE x == <<0>>
<1>2. 0 \in 0 .. Length BY InputAssumption
<1>3. x \in Positions /\ Len(x) = 1 /\ x[1] = 0 /\ x # <<>>
  BY <1>2 DEF Positions
<1>4. x = <<0>> OBVIOUS
<1> HIDE DEF x
<1>5. DOMAIN x = 1 .. 1 BY <1>3, PositionsSeq
<1>6. ToSet(x) = {0} BY <1>3, <1>5 DEF ToSet
<1>7. Row(x, Heard) /\ Row(x, InText) BY <1>5 DEF Row
<1>8. Comes(i, type, x) BY <1>1, <1>3, <1>4, <1>6, <1>7 DEF Comes, Message
<1> QED BY <1>8 DEF x

(* It is the reader's who is heard: it comes after all that it has heard.  *)
LEMMA StreamComes ==
  ASSUME Inv, LoopInv, NEW i \in Imps, ReadChunk(i) \/ ReadEnd(i) \/ ReadFails(i),
         NEW type, NEW x, Comes(i, type, x),
         NEW r, NEW u \in Positions, NEW b, NEW m, NEW K, Stream(r, u, b, m, K), NEW n, NEW L,
         IF r \in ReadersOf(i) THEN Adds(m, n, K, L, x) ELSE Same(m, n, K) /\ L = K
  PROVE  StreamThen(r, u, b, n, L)
<1>1. /\ readers' = readers /\ imp' = imp /\ life' = life
      /\ i \notin finished /\ (i = imp => life[imp] = "registered")
      /\ (i # imp => readers = {} \/ life[imp] = "waiting")
  BY ReadsForOne
<1>2. CASE r \in ReadersOf(i)
  <2> DEFINE A == All(u, b, m, K)
             B == All(u, b, n, L)
  <2>1. i = imp /\ r \in readers /\ life[imp] = "registered"
    BY <1>1, <1>2 DEF ReadersOf
  <2>2. /\ Sorted(u, b, m, K, Heard) /\ 0 \notin A /\ A \subseteq 0 .. taken
        /\ \A p \in A : p # 0 /\ p < taken => p + 1 \in A
    BY <1>1, <2>1 DEF Stream, Flow
  <2>3. taken \in Nat /\ taken' \in Nat /\ taken' <= Length /\ Length \in Nat
    <3>1. taken \in 0 .. written /\ written \in 0 .. Length BY DEF Inv, TypeOK
    <3>2. Inv' BY ReadsForOne
    <3>3. taken' \in 0 .. written' /\ written' \in 0 .. Length
      BY <3>2 DEF Inv, TypeOK
    <3> QED BY <3>1, <3>3, InputAssumption
  <2>4. Before(A, ToSet(x), Heard)
    <3> SUFFICES ASSUME NEW p \in A, NEW y \in ToSet(x) PROVE <<p, y>> \in Heard
      BY DEF Before
    <3>1. p \in 0 .. taken /\ p # 0 BY <2>2
    <3>2. y = 0 \/ y \in taken + 1 .. taken' BY DEF Comes
    <3>3. p \in 0 .. Length /\ y \in 0 .. Length /\ (y = 0 \/ p < y)
      <4>1. taken <= taken' BY <2>3 DEF Comes
      <4> HIDE DEF A
      <4> QED BY <2>3, <3>1, <3>2, <4>1
    <3> QED BY <3>1, <3>3 DEF Heard
  <2>5. Sorted(u, b, n, L, Heard) /\ B = A \cup ToSet(x)
    BY <1>2, <2>2, <2>4, SortedAdds DEF Comes
  <2> HIDE DEF A, B
  <2>6. CASE type = "stdIn"
    <3>1. /\ taken < taken' /\ ToSet(x) = taken + 1 .. taken' /\ finished' = finished
      BY <2>6 DEF Comes
    <3>2. B \subseteq 0 .. taken' /\ 0 \notin B BY <2>2, <2>3, <2>5, <3>1
    <3>3. ASSUME NEW p \in B, p # 0, p < taken' PROVE p + 1 \in B
      <4>1. CASE p \in A /\ p < taken BY <2>2, <2>5, <3>3, <4>1
      <4>2. CASE p \notin A \/ ~ (p < taken)
        <5>1. p \in taken .. taken' BY <2>2, <2>3, <2>5, <3>1, <4>2
        <5>2. p + 1 \in taken + 1 .. taken' BY <2>3, <3>3, <5>1
        <5> QED BY <2>5, <3>1, <5>2
      <4> QED BY <4>1, <4>2
    <3>4. Flow(taken', u, b, n, L) BY <2>5, <3>2, <3>3 DEF Flow, B
    <3> QED BY <1>1, <2>1, <3>2, <3>4 DEF StreamThen, B
  <2>7. CASE type # "stdIn"
    <3>1. taken' = taken /\ ToSet(x) = {0} /\ finished' = finished \cup {i}
      BY <2>7 DEF Comes
    <3>2. B \subseteq 0 .. taken' BY <2>2, <2>3, <2>5, <3>1
    <3>3. ASSUME NEW p \in B, p # 0, p < taken' PROVE p + 1 \in B
      BY <2>2, <2>5, <3>1, <3>3
    <3>4. Flow(taken', u, b, n, L) BY <2>5, <3>2, <3>3 DEF Flow, B
    <3> QED BY <1>1, <2>1, <3>1, <3>4 DEF StreamThen
  <2> QED BY <2>6, <2>7
<1>3. CASE r \notin ReadersOf(i)
  <2>1. r \notin readers \/ life[imp] = "waiting" BY <1>1, <1>3 DEF ReadersOf
  <2>2. u = <<>> /\ b = <<>> /\ K = {} /\ L = {} BY <1>3, <2>1 DEF Stream
  <2> QED BY <2>2, NothingHeard DEF StreamThen
<1> QED BY <1>2, <1>3

(* The blocking reader is given it.                                        *)
LEMMA BlockingComes ==
  ASSUME ClientsInv, NEW i \in Imps, ReadChunk(i) \/ ReadEnd(i) \/ ReadFails(i),
         NEW type, NEW x, Comes(i, type, x), Deliver(i, type, x)
  PROVE  blocking' \in Owner /\ BlockingInv'
<1> DEFINE q == "blocking"
           at == Got \o blocking.buffer
<1>1. /\ Inv /\ LoopInv /\ CallsInv /\ BlockingInv /\ blocking \in Owner
      /\ config' = config /\ calls' = calls
  BY DEF ClientsInv, Deliver, actorVars, FieldsInv, Owner
<1>2. /\ readers' = readers /\ imp' = imp /\ life' = life
      /\ (i = imp => life[imp] = "registered") /\ i \notin finished
      /\ (i # imp => readers = {} \/ life[imp] = "waiting")
  BY <1>1, ReadsForOne
<1>3. /\ x \in Positions /\ (type = "stdIn" => 0 \notin ToSet(x))
      /\ type \in {"stdIn", "endOfFile", "error"}
  BY DEF Comes, Message
<1>4. /\ blocking.buffer \in Positions /\ (blocking.place # "none" \/ blocking.buffer = <<>>)
      /\ Got \in Positions
  <2>1. BlockingCall => Got \in Positions
    BY <1>1, CallsSeq DEF Got, BlockingInv, CallsInv, CallsAre
  <2>2. <<>> \in Positions BY EmptySeq DEF Positions
  <2> QED BY <1>1, <2>1, <2>2 DEF Got, Owner, BlockingInv
<1>b. blocking.buffer \in Positions BY <1>1 DEF Owner
<1>5. ASSUME NEW b2 \in Owner, blocking' = b2, b2.place = blocking.place, b2.call = blocking.call,
             b2.buffer = <<>> \/ blocking.place # "none",
             q \in readers => /\ StreamThen(q, Got \o b2.buffer, <<>>, <<>>, {})
                              /\ 0 \notin ToSet(Got \o b2.buffer)
      PROVE  blocking' \in Owner /\ BlockingInv'
  <2>1. (BlockingCall' <=> BlockingCall) /\ Got' = Got
    BY <1>1, <1>5 DEF BlockingCall, Got
  <2>2. BlockingCall => WaitsHere(calls[blocking.call])' /\ blocking.call \in DOMAIN calls
    <3> SUFFICES ASSUME BlockingCall
                 PROVE  WaitsHere(calls[blocking.call])' /\ blocking.call \in DOMAIN calls
      OBVIOUS
    <3>1. blocking.call \in DOMAIN calls /\ WaitsHere(calls[blocking.call])
      BY <1>1 DEF BlockingInv
    <3>2. PICK r : r = calls[blocking.call] OBVIOUS
    <3>3. r \in CallRecord
      BY <1>1, <3>1, <3>2, ElementOfSeq, CallsSeq DEF CallsInv, CallsAre
    <3>4. WaitsHere(r)' BY <1>1, <3>1, <3>2, <3>3, SameCall
    <3>5. calls[blocking.call]' = r BY <1>1, <1>5, <3>2
    <3> QED BY <3>1, <3>4, <3>5 DEF WaitsHere
  <2>3. q \in readers' => /\ Stream(q, Got \o blocking.buffer, <<>>, <<>>, {})'
                          /\ 0 \notin ToSet(Got' \o blocking'.buffer)
    BY <1>2, <1>5, <2>1 DEF StreamThen, Stream
  <2>4. q \in readers' <=> BlockingCall' \/ blocking'.place = "idle"
    BY <1>1, <1>2, <1>5, <2>1 DEF BlockingInv
  <2>5. BlockingCall' => blocking'.call \in DOMAIN calls' /\ WaitsHere(calls[blocking.call])'
    BY <1>1, <1>5, <2>1, <2>2
  <2> QED BY <1>5, <2>3, <2>4, <2>5 DEF BlockingInv
<1>6. CASE q \in ReadersOf(i)
  <2>1. q \in readers /\ i = imp /\ life[imp] = "registered"
    BY <1>2, <1>6 DEF ReadersOf
  <2>2. blocking.place \in {"checking", "waiting", "idle"}
    BY <1>1, <2>1 DEF BlockingInv, BlockingCall
  <2>3. Stream(q, at, <<>>, <<>>, {}) /\ 0 \notin ToSet(at)
    BY <1>1, <2>1 DEF BlockingInv
  <2>4. at \in Positions BY <1>4, <1>b, Joined
  <2>5. blocking' = Receive(blocking, type, x) BY <1>6 DEF Deliver
  <2>6. CASE type = "stdIn"
    <3> DEFINE bx == blocking.buffer \o x
    <3>1. bx \in Positions BY <1>b, <1>3, Joined
    <3>2. blocking' \in Owner /\ blocking'.place = blocking.place /\ blocking'.call = blocking.call
          /\ blocking'.buffer = bx
      <4> HIDE DEF bx
      <4>1. PICK e \in BOOLEAN : e = (blocking.errors \/ type # "stdIn") OBVIOUS
      <4>2. blocking' = [blocking EXCEPT !.buffer = bx, !.errors = e, !.event = TRUE]
        BY <2>5, <2>6, <4>1 DEF Receive, bx
      <4> QED BY <1>1, <3>1, <4>2 DEF Owner
    <3>3. Got \o bx = at \o x
      <4>1. \A p, r, t \in Seq(0 .. Length) : (p \o r) \o t = p \o (r \o t)
        BY ConcatAssociative
      <4>2. Got \in Seq(0 .. Length) /\ blocking.buffer \in Seq(0 .. Length)
            /\ x \in Seq(0 .. Length)
        BY <1>3, <1>4, <1>b DEF Positions
      <4> QED BY <4>1, <4>2
    <3>4. ToSet(at \o x) = ToSet(at) \cup ToSet(x) BY <1>3, <2>4, JoinedRow
    <3>5. 0 \notin ToSet(at \o x) BY <1>3, <2>3, <2>6, <3>4
    <3>6. StreamThen(q, at \o x, <<>>, <<>>, {})
      <4>1. /\ taken < taken' /\ ToSet(x) = taken + 1 .. taken' /\ finished' = finished
            /\ Row(x, Heard)
        BY <2>6 DEF Comes
      <4>2. /\ Row(at, Heard) /\ ToSet(at) \subseteq 0 .. taken
            /\ \A p \in ToSet(at) : p # 0 /\ p < taken => p + 1 \in ToSet(at)
        <5>1. All(at, <<>>, <<>>, {}) = ToSet(at)
          <6>1. All(<<>>, <<>>, <<>>, {}) = {} BY NothingHeard
          <6> HIDE DEF at
          <6> QED BY <6>1, NothingTaken DEF All
        <5> HIDE DEF at
        <5> QED BY <2>3, <5>1 DEF Stream, Flow, Sorted, TakenFirst
      <4>3. taken \in Nat /\ taken' \in Nat /\ taken' <= Length /\ Length \in Nat
        <5>1. taken \in 0 .. written /\ written \in 0 .. Length
          BY <1>1 DEF Inv, TypeOK
        <5>2. Inv' BY <1>1, ReadsForOne
        <5>3. taken' \in 0 .. written' /\ written' \in 0 .. Length
          BY <5>2 DEF Inv, TypeOK
        <5> QED BY <5>1, <5>3, InputAssumption
      <4> HIDE DEF at
      <4>4. Before(ToSet(at), ToSet(x), Heard)
        <5> SUFFICES ASSUME NEW p \in ToSet(at), NEW y \in ToSet(x) PROVE <<p, y>> \in Heard
          BY DEF Before
        <5>1. p \in 0 .. taken /\ p # 0 /\ y \in taken + 1 .. taken'
          BY <2>3, <4>1, <4>2 DEF at
        <5>2. p \in 0 .. Length /\ y \in 0 .. Length /\ p < y
          BY <4>1, <4>3, <5>1
        <5> QED BY <5>1, <5>2 DEF Heard
      <4>5. Row(at \o x, Heard) BY <1>3, <2>4, <4>1, <4>2, <4>4, JoinedRow
      <4> DEFINE z == at \o x
                 Z == ToSet(z)
      <4>6. Z = ToSet(at) \cup ToSet(x) BY <3>4
      <4>7. Z \subseteq 0 .. taken' BY <4>1, <4>2, <4>3, <4>6
      <4>8. ASSUME NEW p \in Z, p # 0, p < taken' PROVE p + 1 \in Z
        <5> HIDE DEF z, Z
        <5>1. CASE p \in ToSet(at) /\ p < taken BY <4>2, <4>6, <4>8, <5>1
        <5>2. CASE p \notin ToSet(at) \/ ~ (p < taken)
          <6>1. p \in taken .. taken' BY <4>1, <4>2, <4>3, <4>6, <4>8, <5>2
          <6>2. p + 1 \in taken + 1 .. taken' BY <4>3, <4>8, <6>1
          <6> QED BY <4>1, <4>6, <6>2
        <5> QED BY <5>1, <5>2
      <4>9. All(z, <<>>, <<>>, {}) = Z /\ Sorted(z, <<>>, <<>>, {}, Heard)
        <5>1. /\ Flow(0, <<>>, <<>>, <<>>, {}) /\ All(<<>>, <<>>, <<>>, {}) = {}
          BY NothingHeard
        <5>2. DOMAIN <<>> = {} BY EmptySeq, LenProperties
        <5>3. Row(z, Heard) BY <4>5
        <5> HIDE DEF z
        <5> QED BY <5>1, <5>2, <5>3, NothingTaken
               DEF All, Flow, Sorted, TakenFirst, InARow, Z
      <4>10. Flow(taken', z, <<>>, <<>>, {})
        <5> HIDE DEF z, Z
        <5> QED BY <4>7, <4>8, <4>9 DEF Flow
      <4>11. 0 \notin Z BY <3>5
      <4>12. StreamThen(q, z, <<>>, <<>>, {})
        <5> HIDE DEF z, Z
        <5> QED BY <1>2, <2>1, <4>9, <4>10, <4>11 DEF StreamThen
      <4> QED BY <4>12
    <3>7. PICK b3 : b3 = blocking' OBVIOUS
    <3>8. /\ b3 \in Owner /\ blocking' = b3 /\ b3.place = blocking.place
          /\ b3.call = blocking.call /\ b3.buffer = bx
      BY <3>2, <3>7
    <3>9. /\ StreamThen(q, Got \o b3.buffer, <<>>, <<>>, {})
          /\ 0 \notin ToSet(Got \o b3.buffer)
      <4>1. Got \o b3.buffer = at \o x BY <3>3, <3>8
      <4> HIDE DEF at
      <4> QED BY <3>5, <3>6, <4>1
    <3> HIDE DEF bx
    <3> QED BY <1>5, <2>2, <3>8, <3>9
  <2>7. CASE type # "stdIn"
    <3>1. PICK b3 : b3 = blocking' OBVIOUS
    <3>2. /\ b3 \in Owner /\ blocking' = b3 /\ b3.place = blocking.place
          /\ b3.call = blocking.call /\ b3.buffer = blocking.buffer
      <4>1. b3 = [blocking EXCEPT !.buffer = @, !.errors = TRUE, !.event = TRUE]
        BY <2>5, <2>7, <3>1 DEF Receive
      <4> QED BY <1>1, <3>1, <4>1 DEF Owner
    <3>3. StreamThen(q, at, <<>>, <<>>, {})
      <4>1. taken' = taken /\ finished' = finished \cup {i} BY <2>7 DEF Comes
      <4>2. Carried(q) BY <1>2, <2>1, <4>1 DEF Carried
      <4> HIDE DEF at
      <4> QED BY <2>3, <4>2, Carries
    <3> QED BY <1>5, <2>2, <2>3, <3>2, <3>3
  <2> QED BY <2>6, <2>7
<1>7. CASE q \notin ReadersOf(i)
  <2>1. blocking' = blocking BY <1>7 DEF Deliver
  <2>2. q \in readers => at = <<>>
    <3>1. q \in readers => life[imp] = "waiting" BY <1>2, <1>7 DEF ReadersOf
    <3>2. q \in readers => Stream(q, at, <<>>, <<>>, {}) BY <1>1 DEF BlockingInv
    <3> HIDE DEF at
    <3> QED BY <3>1, <3>2 DEF Stream
  <2>3. q \in readers => StreamThen(q, at, <<>>, <<>>, {}) /\ 0 \notin ToSet(at)
    <3> HIDE DEF at
    <3> QED BY <2>2, NothingHeard, NothingTaken DEF StreamThen
  <2>4. blocking.place # "none" \/ blocking.buffer = <<>>
    BY <1>1 DEF BlockingInv
  <2> QED BY <1>1, <1>5, <2>1, <2>3, <2>4
<1> QED BY <1>6, <1>7

(* An end that a reader has been told of is one of the input.              *)
LEMMA MessageHeard ==
  ASSUME NEW u, NEW b, NEW m, NEW K, Messages(b), \A k \in K : Message(m[k]),
         \/ \E j \in DOMAIN b : b[j].type = "endOfFile"
         \/ \E k \in K : m[k].type = "endOfFile"
  PROVE  0 \in All(u, b, m, K) /\ (b # <<>> \/ K # {})
<1>1. 0 \in ToSet(<<0>>)
  <2>1. <<0>>[1] = 0 /\ 1 \in DOMAIN <<0>> OBVIOUS
  <2> QED BY <2>1 DEF ToSet
<1>2. CASE \E j \in DOMAIN b : b[j].type = "endOfFile"
  <2>1. PICK j \in DOMAIN b : b[j].type = "endOfFile" BY <1>2
  <2>2. b[j].at = <<0>> BY <2>1 DEF Messages, Message
  <2>3. b # <<>> BY <2>1
  <2> QED BY <1>1, <2>2, <2>3 DEF All, Texts
<1>3. CASE \E k \in K : m[k].type = "endOfFile"
  <2>1. PICK k \in K : m[k].type = "endOfFile" BY <1>3
  <2>2. m[k].at = <<0>> BY <2>1 DEF Message
  <2> QED BY <1>1, <2>2 DEF All, MailTexts
<1> QED BY <1>2, <1>3

(* What is read is given to the actor and to the blocking reader.          *)
LEMMA DeliverFields ==
  ASSUME ClientsInv, NEW i \in Imps, ReadChunk(i) \/ ReadEnd(i) \/ ReadFails(i),
         NEW type, NEW x, Comes(i, type, x), Deliver(i, type, x)
  PROVE  FieldsInv' /\ Posted(i, type, x, mail') /\ taken \in Nat
<1>1. /\ FieldsInv /\ config' = config /\ calls' = calls /\ doing' = doing /\ dying' = dying
      /\ entries' = entries /\ binary' = binary /\ buffer' = buffer
      /\ binaryBuffer' = binaryBuffer /\ used' = used /\ lost' = lost
      /\ late' = late /\ aborts' = aborts /\ mail' = mail \o MailOf(i, type, x)
  BY DEF ClientsInv, Deliver, actorVars
<1>2. /\ x \in Positions /\ type \in {"stdIn", "endOfFile", "error"} /\ x # <<>>
      /\ Message([type |-> type, at |-> x])
  BY DEF Comes
<1>3. Posted(i, type, x, mail') BY <1>1, <1>2, LettersPosted DEF FieldsInv
<1>4. mail' \in Seq(Letter') BY <1>1, <1>3 DEF Posted, Letter
<1>5. Messages(mail') /\ \A k \in DOMAIN mail' : mail'[k].at # <<>>
  <2> SUFFICES ASSUME NEW k \in DOMAIN mail'
               PROVE  Message(mail'[k]) /\ mail'[k].at # <<>>
    BY DEF Messages
  <2>1. CASE k \in DOMAIN mail /\ mail'[k] = mail[k]
    BY <1>1, <2>1 DEF FieldsInv, Messages
  <2>2. CASE mail'[k].type = type /\ mail'[k].at = x BY <1>2, <2>2 DEF Message
  <2> QED BY <1>3, <2>1, <2>2 DEF Posted
<1>6. taken \in Nat /\ taken' \in Nat /\ taken <= taken' /\ taken <= Length
  <2>1. taken \in 0 .. written /\ written \in 0 .. Length
    BY DEF ClientsInv, Inv, TypeOK
  <2>2. Inv' BY ReadsForOne DEF ClientsInv
  <2>3. taken' \in 0 .. written' /\ written' \in 0 .. Length
    BY <2>2 DEF Inv, TypeOK
  <2>4. taken < taken' \/ taken' = taken BY DEF Comes
  <2> QED BY <2>1, <2>3, <2>4, InputAssumption
<1>7. ToSet(x) \ {0} \subseteq 1 .. taken'
  <2>1. CASE type = "stdIn"
    <3>1. ToSet(x) = taken + 1 .. taken' BY <2>1 DEF Comes
    <3>2. taken + 1 .. taken' \subseteq 1 .. taken' BY <1>6
    <3> QED BY <3>1, <3>2
  <2>2. CASE type # "stdIn" BY <2>2 DEF Comes
  <2> QED BY <2>1, <2>2
<1>8. given' \subseteq 1 .. taken'
  <2>1. given \subseteq 1 .. taken BY <1>1 DEF FieldsInv
  <2>2. 1 .. taken \subseteq 1 .. taken' BY <1>6
  <2>3. given' = given \/ given' = given \cup (ToSet(x) \ {0}) BY DEF Deliver
  <2> QED BY <1>7, <2>1, <2>2, <2>3
<1>9. ends' \subseteq 0 .. Length
  <2>1. taken \in 0 .. Length BY <1>6, InputAssumption
  <2> QED BY <1>1, <2>1 DEF Comes, FieldsInv
<1>10. blocking' \in Owner BY BlockingComes
<1>11. Messages(buffer') /\ Messages(binaryBuffer') BY <1>1 DEF FieldsInv
<1> QED BY <1>1, <1>3, <1>4, <1>5, <1>6, <1>8, <1>9, <1>10, <1>11 DEF FieldsInv, Owner

(* What is given to the reader of lines is on its way once.                *)
LEMMA DeliverKeepsText ==
  ASSUME ClientsInv, NEW i \in Imps, ReadChunk(i) \/ ReadEnd(i) \/ ReadFails(i),
         NEW type, NEW x, Comes(i, type, x), Deliver(i, type, x)
  PROVE  KeptInv'
<1> DEFINE K == MailTo(mail, "text")
<1>1. /\ FieldsInv /\ KeptInv /\ doing' = doing /\ buffer' = buffer /\ used' = used
      /\ lost' = lost
  BY DEF ClientsInv, Deliver, actorVars
<1>2. Posted(i, type, x, mail') /\ taken \in Nat BY DeliverFields
<1>3. PICK n : n = mail' OBVIOUS
<1> DEFINE L == MailTo(n, "text")
<1>4. MailTo(mail, "text")' = L BY <1>3 DEF MailTo
<1>5. /\ Sorted(used, buffer, mail, K, InText)
      /\ (All(used, buffer, mail, K) \ {0}) \cup lost = given
      /\ doing # "gone" => (All(used, buffer, mail, K) \ {0}) \cap lost = {}
  BY <1>1 DEF KeptInv, TextWay
<1>6. KeptInv' <=>
         /\ Sorted(used, buffer, n, L, InText)
         /\ (All(used, buffer, n, L) \ {0}) \cup lost = given'
         /\ doing # "gone" => (All(used, buffer, n, L) \ {0}) \cap lost = {}
  BY <1>1, <1>3, <1>4 DEF KeptInv, TextWay
<1>7. CASE Hears(i, "text")
  <2>1. Adds(mail, n, K, L, x) /\ given' = given \cup (ToSet(x) \ {0})
    BY <1>2, <1>3, <1>7 DEF Posted, Hears, Deliver
  <2> HIDE DEF K, L
  <2> DEFINE A == All(used, buffer, mail, K)
  <2>2. \A p \in ToSet(x) : p = 0 \/ (p \in 1 .. Length /\ p > taken /\ p \notin given)
    <3>1. /\ ToSet(x) \subseteq 0 .. Length
          /\ ToSet(x) = {0} \/ \A p \in ToSet(x) : p \in taken + 1 .. taken'
      BY SetOfPiece DEF Comes
    <3>2. \A p \in ToSet(x) : p = 0 \/ (p \in 1 .. Length /\ p > taken)
      BY <1>2, <3>1, InputAssumption
    <3>3. \A p \in given : p \in 1 .. taken BY <1>1 DEF FieldsInv
    <3> QED BY <1>2, <3>2, <3>3
  <2>3. \A p \in A : p = 0 \/ p \in 1 .. taken BY <1>1, <1>5 DEF FieldsInv
  <2>4. taken <= Length /\ Length \in Nat
    BY InputAssumption DEF ClientsInv, Inv, TypeOK
  <2>5. Before(A, ToSet(x), InText)
    <3> SUFFICES ASSUME NEW p \in A, NEW y \in ToSet(x) PROVE <<p, y>> \in InText
      BY DEF Before
    <3>1. (p = 0 \/ p \in 1 .. taken) /\ (y = 0 \/ (y \in 1 .. Length /\ y > taken))
      BY <2>2, <2>3
    <3>2. p \in 0 .. Length /\ y \in 0 .. Length /\ (p # 0 /\ y # 0 => p < y)
      BY <1>2, <2>4, <3>1
    <3> QED BY <3>2 DEF InText
  <2>6. Sorted(used, buffer, n, L, InText) /\ All(used, buffer, n, L) = A \cup ToSet(x)
    BY <1>5, <2>1, <2>5, SortedAdds DEF Comes
  <2>7. lost \subseteq given BY <1>5
  <2> HIDE DEF A
  <2>8. (All(used, buffer, n, L) \ {0}) \cup lost = given'
    BY <1>5, <2>1, <2>6 DEF A
  <2>9. doing # "gone" => (All(used, buffer, n, L) \ {0}) \cap lost = {}
    BY <1>5, <2>2, <2>6, <2>7 DEF A
  <2> QED BY <1>6, <2>6, <2>8, <2>9
<1>8. CASE ~ Hears(i, "text")
  <2>1. Same(mail, n, K) /\ L = K /\ given' = given
    BY <1>2, <1>3, <1>8 DEF Posted, Hears, Deliver
  <2> HIDE DEF K, L
  <2>2. Sorted(used, buffer, n, K, InText) /\ All(used, buffer, n, K) = All(used, buffer, mail, K)
    BY <1>5, <2>1, SortedSame DEF Same
  <2> QED BY <1>5, <1>6, <2>1, <2>2
<1> QED BY <1>7, <1>8

(* Nobody who is told of an end has been told of one before.               *)
LEMMA DeliverKeepsStreams ==
  ASSUME ClientsInv, NEW i \in Imps, ReadChunk(i) \/ ReadEnd(i) \/ ReadFails(i),
         NEW type, NEW x, Comes(i, type, x), Deliver(i, type, x)
  PROVE  StreamsInv'
<1> DEFINE u == First(entries, calls)
           v == First(binary, calls)
<1>1. /\ Inv /\ LoopInv /\ FieldsInv /\ CallsInv /\ DoingInv /\ StreamsInv /\ doing' = doing
      /\ buffer' = buffer /\ binaryBuffer' = binaryBuffer /\ late' = late
      /\ calls' = calls /\ entries' = entries /\ binary' = binary /\ aborts' = aborts
  BY DEF ClientsInv, Deliver, actorVars
<1>2. Posted(i, type, x, mail') /\ taken \in Nat BY DeliverFields
<1>3. PICK n : n = mail' OBVIOUS
<1>4. Posted(i, type, x, n) BY <1>2, <1>3
<1> SUFFICES ASSUME late = {} PROVE StreamsInv' BY <1>1 DEF StreamsInv
<1>5. /\ doing # "binary" => Stream("text", u, buffer, mail, MailNow(mail, "text"))
      /\ Stream("binary", v, binaryBuffer, mail, MailNow(mail, "binary"))
      /\ EndKnown(binaryBuffer, mail, MailNow(mail, "binary"))
  BY <1>1 DEF StreamsInv
<1>6. /\ u' = u /\ v' = v /\ MailNow(mail, "text")' = MailNow(n, "text")
      /\ MailNow(mail, "binary")' = MailNow(n, "binary")
  BY <1>1, <1>3 DEF MailNow, First
<1>7. u \in Positions /\ v \in Positions
  <2>1. calls \in Seq(CallRecord) /\ WaitsFor(entries, calls, TextKind)
        /\ WaitsFor(binary, calls, {"binary"})
    BY <1>1 DEF CallsInv, CallsAre
  <2>2. <<>> \in Positions BY EmptySeq DEF Positions
  <2>3. \A c \in DOMAIN calls : calls[c].at \in Positions BY <2>1, CallsSeq
  <2>4. entries # <<>> => entries[1] \in DOMAIN calls BY <2>1, WaitingFirst
  <2>5. binary # <<>> => binary[1] \in DOMAIN calls BY <2>1, WaitingFirst
  <2> QED BY <2>2, <2>3, <2>4, <2>5 DEF First
<1> HIDE DEF u, v
<1>8. \A to \in {"text", "binary"} : Hears(i, to) <=> to \in ReadersOf(i)
  BY <1>1 DEF Hears, ReadersOf, DoingInv
<1>9. \A to \in {"text", "binary"} :
         IF to \in ReadersOf(i) THEN Adds(mail, n, MailNow(mail, to), MailNow(n, to), x)
         ELSE Same(mail, n, MailNow(mail, to)) /\ MailNow(n, to) = MailNow(mail, to)
  <2>1. \A to : MailNow(mail, to) \subseteq MailTo(mail, to)
    BY DEF MailNow, MailTo
  <2>2. \A to : Same(mail, n, MailTo(mail, to)) => Same(mail, n, MailNow(mail, to))
    BY <2>1 DEF Same
  <2> QED BY <1>4, <1>8, <2>2 DEF Posted
<1>10. doing # "binary" => StreamThen("text", u, buffer, n, MailNow(n, "text"))
  BY <1>1, <1>5, <1>7, <1>9, StreamComes
<1>11. StreamThen("binary", v, binaryBuffer, n, MailNow(n, "binary"))
  BY <1>1, <1>5, <1>7, <1>9, StreamComes
<1>12. EndKnown(binaryBuffer, n, MailNow(n, "binary"))'
  <2> DEFINE K == MailNow(mail, "binary")
             L == MailNow(n, "binary")
  <2>1. ~ (\/ \E j \in DOMAIN binaryBuffer : binaryBuffer[j].type = "endOfFile"
           \/ \E k \in K : mail[k].type = "endOfFile")
    <3> SUFFICES ASSUME \/ \E j \in DOMAIN binaryBuffer : binaryBuffer[j].type = "endOfFile"
                        \/ \E k \in K : mail[k].type = "endOfFile"
                 PROVE FALSE
      OBVIOUS
    <3>1. Messages(binaryBuffer) /\ \A k \in K : Message(mail[k])
      BY <1>1 DEF FieldsInv, Messages, MailNow
    <3> HIDE DEF K
    <3>2. 0 \in All(v, binaryBuffer, mail, K) /\ (binaryBuffer # <<>> \/ K # {})
      BY <3>1, MessageHeard
    <3>3. imp \in finished /\ "binary" \in readers /\ life[imp] # "waiting"
      BY <1>5, <3>2 DEF Stream, K
    <3> QED BY <1>1, <3>3, ReadsForOne
  <2>2. SUFFICES ASSUME \/ \E j \in DOMAIN binaryBuffer' : binaryBuffer'[j].type = "endOfFile"
                        \/ \E k \in MailNow(n, "binary")' : n[k].type = "endOfFile"
                 PROVE  taken' \in ends'
    BY DEF EndKnown
  <2>3. MailNow(n, "binary")' = L BY <1>1 DEF MailNow
  <2>4. PICK k \in L : n[k].type = "endOfFile" BY <1>1, <2>1, <2>2, <2>3
  <2>5. k \in DOMAIN n /\ n[k].to = "binary" /\ n[k].age = aborts BY DEF MailNow
  <2>6. ~ (k \in DOMAIN mail /\ n[k] = mail[k]) BY <2>1, <2>4, <2>5 DEF MailNow
  <2>7. type = "endOfFile" BY <1>4, <2>4, <2>5, <2>6 DEF Posted
  <2> QED BY <2>7 DEF Comes
<1>13. EndKnown(binaryBuffer, mail, MailNow(mail, "binary"))'
  BY <1>1, <1>3, <1>6, <1>12 DEF EndKnown, MailNow
<1>14. /\ doing' # "binary" => Stream("text", u, buffer, mail, MailNow(mail, "text"))'
       /\ Stream("binary", v, binaryBuffer, mail, MailNow(mail, "binary"))'
  BY <1>1, <1>3, <1>6, <1>10, <1>11 DEF StreamThen, Stream
<1> QED BY <1>13, <1>14 DEF StreamsInv, u, v

(* Whatever is read keeps the invariant, ...                               *)
LEMMA DeliverKeeps ==
  ASSUME ClientsInv, NEW i \in Imps, ReadChunk(i) \/ ReadEnd(i) \/ ReadFails(i),
         NEW type, NEW x, Comes(i, type, x), Deliver(i, type, x)
  PROVE  ClientsInv'
<1>1. /\ Inv /\ LoopInv /\ CallsInv /\ DoingInv /\ doing' = doing /\ config' = config
      /\ late' = late /\ dying' = dying
      /\ calls' = calls /\ entries' = entries /\ binary' = binary
  BY DEF ClientsInv, Deliver, actorVars
<1>2. Inv' /\ LoopInv' /\ readers' = readers BY <1>1, ReadsForOne
<1>3. FieldsInv' /\ Posted(i, type, x, mail') BY DeliverFields
<1>4. BlockingInv' BY BlockingComes
<1>5. CallsInv'
  <2>1. PICK e : e = ends' OBVIOUS
  <2>2. ends \subseteq e BY <2>1 DEF Comes
  <2>3. CallsAre(calls, entries, binary, late, e)
    BY <1>1, <2>2 DEF CallsInv, CallsAre, Pure
  <2> QED BY <1>1, <2>1, <2>3, CallsThen
<1>6. DoingInv'
  <2>1. doing = "gone" => mail' = mail BY <1>3 DEF Posted, Hears
  <2> QED BY <1>1, <1>2, <2>1 DEF DoingInv
<1> QED BY <1>2, <1>3, <1>4, <1>5, <1>6, DeliverKeepsText, DeliverKeepsStreams DEF ClientsInv

(* ... a chunk, the end of the input or an error.                          *)
LEMMA ReadingKeeps ==
  ASSUME ClientsInv, NEW i \in Imps, DeliverChunk(i) \/ DeliverEnd(i)
  PROVE  ClientsInv'
<1>1. Inv BY DEF ClientsInv
<1>2. CASE DeliverChunk(i)
  <2> DEFINE x == [k \in 1 .. taken' - taken |-> taken + k]
  <2>1. ReadChunk(i) /\ ends' = ends /\ Deliver(i, "stdIn", x)
    BY <1>2 DEF DeliverChunk
  <2>2. Comes(i, "stdIn", x) BY <1>1, <2>1, ChunkComes
  <2> HIDE DEF x
  <2> QED BY <2>1, <2>2, DeliverKeeps
<1>3. CASE DeliverEnd(i)
  <2>1. PICK type \in {"endOfFile", "error"} :
           /\ Deliver(i, type, <<0>>)
           /\ \/ type = "endOfFile" /\ ReadEnd(i) /\ ends' = ends \cup {taken}
              \/ type = "error" /\ ReadFails(i) /\ ends' = ends
    BY <1>3 DEF DeliverEnd
  <2>2. Comes(i, type, <<0>>) BY <1>1, <2>1, EndComes
  <2> QED BY <2>1, <2>2, DeliverKeeps
<1> QED BY <1>2, <1>3

----------------------------------------------------------------------------
(* The actor's steps.                                                      *)

(* It does before the actor does something, ...                            *)
LEMMA ActorBefore ==
  ASSUME ClientsInv, doing # "binary", doing # "gone"
  PROVE  Actor(calls, entries, binary, buffer, binaryBuffer, mail, late, used, lost)
<1>1. Kept(used, buffer, mail, lost) BY DEF ClientsInv, KeptInv, TextWay, Kept
<1> QED BY <1>1 DEF ClientsInv, FieldsInv, CallsInv, StreamsInv, Actor, Hearings

(* ... and when it does afterwards, the invariant holds.                   *)
LEMMA HearingsThen ==
  ASSUME NEW cs, NEW es, NEW bs, NEW b, NEW bb, NEW m, Hearings(cs, es, bs, b, bb, m),
         Carried("text"), Carried("binary"), taken' = taken, ends' = ends, aborts' = aborts,
         calls' = cs, entries' = es, binary' = bs, buffer' = b, binaryBuffer' = bb, mail' = m
  PROVE  StreamsInv'
<1> DEFINE u == First(es, cs)
           v == First(bs, cs)
           K == MailNow(m, "text")
           L == MailNow(m, "binary")
<1>1. Stream("text", u, b, m, K) /\ Stream("binary", v, bb, m, L) /\ EndKnown(bb, m, L)
  BY DEF Hearings
<1>2. /\ First(entries, calls)' = u /\ First(binary, calls)' = v
      /\ MailNow(mail, "text")' = K /\ MailNow(mail, "binary")' = L
  BY DEF First, MailNow
<1> HIDE DEF u, v, K, L
<1>3. StreamThen("text", u, b, m, K) /\ StreamThen("binary", v, bb, m, L)
  BY <1>1, Carries
<1>4. /\ Stream("text", First(entries, calls), buffer, mail, MailNow(mail, "text"))'
      /\ Stream("binary", First(binary, calls), binaryBuffer, mail, MailNow(mail, "binary"))'
  BY <1>2, <1>3 DEF StreamThen, Stream
<1>5. EndKnown(binaryBuffer, mail, MailNow(mail, "binary"))'
  BY <1>1, <1>2 DEF EndKnown
<1> QED BY <1>4, <1>5 DEF StreamsInv

(* The actor's step keeps the invariant when it leaves all this true.      *)
LEMMA ActorAfter ==
  ASSUME ClientsInv, NEW q, Quiet(q), Carried("text"), Carried("binary"),
         config' = config, dying' \in BOOLEAN, given' = given, aborts' = aborts, ends' = ends,
         doing # "gone", doing' \in {"nothing", "text", "subscription", "spinning"},
         DoingInv', BlockingInv', blocking' \in Owner,
         NEW cs, NEW es, NEW bs, NEW b, NEW bb, NEW m, NEW l, NEW u, NEW x,
         Actor(cs, es, bs, b, bb, m, l, u, x),
         calls' = cs, entries' = es, binary' = bs, buffer' = b, binaryBuffer' = bb, mail' = m,
         late' = l, used' = u, lost' = x
  PROVE  ClientsInv'
<1>1. Inv' /\ LoopInv' /\ taken' = taken BY DEF Quiet
<1>2. FieldsInv'
  <2>1. mail' \in Seq(Letter') /\ Messages(buffer') /\ Messages(binaryBuffer') /\ Messages(mail')
    BY DEF Actor, Letter
  <2>2. /\ config' \in Configs /\ Len(calls') <= config'.calls /\ dying' \in BOOLEAN
        /\ given' \subseteq 1 .. taken' /\ aborts' \in Nat /\ ends' \subseteq 0 .. Length
    BY <1>1 DEF ClientsInv, FieldsInv, Actor
  <2>3. /\ buffer' \in Items /\ binaryBuffer' \in Items /\ used' \in Positions
        /\ lost' \subseteq 0 .. Length /\ late' \subseteq 0 .. Length
        /\ \A k \in DOMAIN mail' : mail'[k].at # <<>>
    BY DEF Actor
  <2> QED BY <2>1, <2>2, <2>3 DEF FieldsInv, Owner
<1>3. CallsInv'
  <2>1. CallsAre(cs, es, bs, l, ends) BY DEF Actor
  <2> QED BY <2>1, CallsThen
<1>4. KeptInv'
  <2>1. Kept(u, b, m, x) BY DEF Actor
  <2>2. MailTo(mail, "text")' = MailTo(m, "text") BY DEF MailTo
  <2> QED BY <2>1, <2>2 DEF KeptInv, TextWay, Kept
<1>5. StreamsInv'
  <2>1. CASE l = {}
    <3>1. Hearings(cs, es, bs, b, bb, m) BY <2>1 DEF Actor
    <3> QED BY <1>1, <3>1, HearingsThen
  <2>2. CASE l # {} BY <2>2 DEF StreamsInv
  <2> QED BY <2>1, <2>2
<1> QED BY <1>1, <1>2, <1>3, <1>4, <1>5 DEF ClientsInv

(* Nothing happens to the readers.                                         *)
LEMMA StillIsQuiet ==
  ASSUME Inv, LoopInv, UNCHANGED stdinVars, NEW q
  PROVE  Quiet(q) /\ Carried(q) /\ readers' = readers
<1>1. /\ readers' = readers /\ imp' = imp /\ life' = life /\ taken' = taken
      /\ finished' = finished
  BY DEF stdinVars, inputVars, readerVars, loopVars
<1>2. Inv' BY Stutters
<1>3. LoopInv' BY DEF LoopInv, stdinVars, readerVars, loopVars, closeVars
<1> QED BY <1>1, <1>2, <1>3 DEF Quiet, Carried

(* The blocking reader's owner sees nothing of the other calls.            *)
LEMMA BlockingGoesOn ==
  ASSUME CallsInv, config' = config, BlockingInv, Carried("blocking"),
         "blocking" \in readers' <=> "blocking" \in readers, blocking' = blocking,
         NEW cs, calls' = cs,
         \A c \in DOMAIN calls : calls[c].kind \in BlockingKind =>
             c \in DOMAIN cs /\ cs[c] = calls[c]
  PROVE  BlockingInv'
<1> DEFINE at == Got \o blocking.buffer
           c == blocking.call
<1>1. BlockingCall' <=> BlockingCall BY DEF BlockingCall
<1>2. BlockingCall => c \in DOMAIN calls /\ WaitsHere(calls[c]) /\ c \in DOMAIN cs
                      /\ cs[c] = calls[c]
  BY DEF BlockingInv, WaitsHere
<1>3. at' = at BY <1>1, <1>2 DEF Got
<1>4. "blocking" \in readers => StreamThen("blocking", at, <<>>, <<>>, {})
  <2>1. "blocking" \in readers => Stream("blocking", at, <<>>, <<>>, {})
    BY DEF BlockingInv
  <2> HIDE DEF at
  <2> QED BY <2>1, Carries
<1>5. "blocking" \in readers' => Stream("blocking", at, <<>>, <<>>, {})'
  <2> HIDE DEF at
  <2> QED BY <1>3, <1>4 DEF StreamThen, Stream
<1>6. "blocking" \in readers' => 0 \notin ToSet(at') BY <1>3 DEF BlockingInv
<1>7. BlockingCall' => blocking'.call \in DOMAIN calls' /\ WaitsHere(calls[blocking.call])'
  <2> SUFFICES ASSUME BlockingCall
               PROVE  blocking'.call \in DOMAIN calls' /\ WaitsHere(calls[blocking.call])'
    BY <1>1
  <2>1. PICK r : r = calls[c] OBVIOUS
  <2>2. r \in CallRecord
    BY <1>2, <2>1, CallsSeq, ElementOfSeq DEF CallsInv, CallsAre
  <2>3. WaitsHere(r)' BY <1>2, <2>1, <2>2, SameCall
  <2>4. calls[blocking.call]' = r BY <1>2, <2>1
  <2> QED BY <1>2, <2>3, <2>4 DEF WaitsHere
<1>8. /\ "blocking" \in readers' <=> BlockingCall' \/ blocking'.place = "idle"
      /\ blocking'.place = "none" => blocking'.buffer = <<>>
  BY <1>1 DEF BlockingInv
<1> QED BY <1>5, <1>6, <1>7, <1>8 DEF BlockingInv

(* Those that wait for something else do not notice.                       *)
LEMMA OthersWait ==
  ASSUME NEW cs \in Seq(CallRecord), NEW ds, NEW kinds, CallsFrom(ds, cs, kinds),
         NEW es, NEW others, WaitsFor(es, cs, others), others \cap kinds = {}
  PROVE  /\ WaitsFor(es, ds, others) /\ First(es, ds) = First(es, cs)
         /\ es # <<>> => es[1] \in DOMAIN cs /\ ds[es[1]] = cs[es[1]]
<1>1. DOMAIN ds = DOMAIN cs
  <2>1. DOMAIN ds = 1 .. Len(ds) /\ Len(ds) = Len(cs) BY CallsSeq DEF CallsFrom
  <2> QED BY <2>1, CallsSeq
<1>2. \A k \in DOMAIN es : es[k] \in DOMAIN cs /\ cs[es[k]].kind \in others
  BY DEF WaitsFor
<1>3. \A k \in DOMAIN es : es[k] \in DOMAIN ds /\ ds[es[k]] = cs[es[k]]
  BY <1>1, <1>2 DEF CallsFrom
<1>4. WaitsFor(es, ds, others) BY <1>3 DEF WaitsFor
<1>5. es # <<>> => 1 \in DOMAIN es BY WaitingFirst
<1> QED BY <1>2, <1>3, <1>4, <1>5 DEF First

(* It may wait, and is no answer.                                          *)
LEMMA NewGoes ==
  ASSUME NEW r, New(r)
  PROVE  Goes(r) /\ Fits(r) /\ \A e : Pure(r, e)
<1>1. Keys(Fresh, <<>>) = After(Fresh, 0) /\ Len(<<>>) = 0
  <2>1. <<>> \in Positions /\ Len(<<>>) = 0 BY EmptySeq DEF Positions
  <2> QED BY <2>1, FreshPrompt, KeysRun DEF Run
<1>2. Keys(Fresh, <<>>).n = 0 /\ Keys(Fresh, <<>>).prompt = Fresh
  BY <1>1, FreshPrompt, AfterFields
<1> QED BY <1>1, <1>2, FreshPrompt DEF New, Goes, Follows, Fits, Pure

(* A call is made this way, also when it fails at once.                    *)
LEMMA CallIsNew ==
  ASSUME NEW kind \in ActorKind \cup BlockingKind, NEW a \in {"none", "failed"}
  PROVE  New(Call(kind, a)) /\ Call(kind, a).kind = kind /\ Call(kind, a).answer = a
         /\ Call(kind, a).prompt = Fresh
<1>1. <<>> \in Positions BY EmptySeq DEF Positions
<1> QED BY <1>1, FreshPrompt DEF New, Call, CallRecord

(* Appending a call does so.                                               *)
LEMMA AppendGrows ==
  ASSUME NEW cs \in Seq(CallRecord), NEW r \in CallRecord
  PROVE  Grows(cs, r, Append(cs, r))
<1> DEFINE ds == Append(cs, r)
<1>1. /\ ds \in Seq(CallRecord) /\ Len(ds) = Len(cs) + 1
      /\ \A i \in 1 .. Len(cs) : ds[i] = cs[i]
      /\ ds[Len(cs) + 1] = r
  BY AppendProperties
<1>2. Len(cs) \in Nat /\ DOMAIN cs = 1 .. Len(cs) BY CallsSeq
<1> HIDE DEF ds
<1>3. DOMAIN ds = 1 .. Len(ds) BY <1>1, CallsSeq
<1> QED BY <1>1, <1>2, <1>3 DEF ds, Grows

(* Those that wait do not notice it, and it may wait behind them.          *)
LEMMA GrowsWaits ==
  ASSUME NEW cs \in Seq(CallRecord), NEW r, New(r), NEW ds, Grows(cs, r, ds), NEW es, NEW kinds,
         WaitsFor(es, cs, kinds)
  PROVE  /\ WaitsFor(es, ds, kinds) /\ First(es, ds) = First(es, cs)
         /\ es # <<>> => ds[es[1]] = cs[es[1]]
         /\ r.kind \in kinds =>
              LET fs == Append(es, Len(cs) + 1)
              IN /\ WaitsFor(fs, ds, kinds) /\ First(fs, ds) = First(es, cs)
                 /\ fs # <<>> /\ ds[fs[1]] = IF es = <<>> THEN r ELSE cs[es[1]]
<1>1. \A k \in DOMAIN es : es[k] \in DOMAIN cs /\ es[k] \in DOMAIN ds /\ ds[es[k]] = cs[es[k]]
  BY DEF WaitsFor, Grows
<1>2. WaitsFor(es, ds, kinds) BY <1>1 DEF WaitsFor
<1>3. es # <<>> => 1 \in DOMAIN es BY WaitingFirst
<1>4. First(es, ds) = First(es, cs) /\ (es # <<>> => ds[es[1]] = cs[es[1]])
  BY <1>1, <1>3 DEF First
<1>5. ASSUME r.kind \in kinds
      PROVE  LET fs == Append(es, Len(cs) + 1)
             IN /\ WaitsFor(fs, ds, kinds) /\ First(fs, ds) = First(es, cs)
                /\ fs # <<>> /\ ds[fs[1]] = IF es = <<>> THEN r ELSE cs[es[1]]
  <2> DEFINE fs == Append(es, Len(cs) + 1)
  <2>1. es \in Seq(Nat) /\ Len(cs) \in Nat /\ DOMAIN cs = 1 .. Len(cs) /\ Len(ds) = Len(cs) + 1
    BY CallsSeq DEF WaitsFor, Grows
  <2>2. /\ fs \in Seq(Nat) /\ Len(fs) = Len(es) + 1
        /\ \A i \in 1 .. Len(es) : fs[i] = es[i]
        /\ fs[Len(es) + 1] = Len(ds)
    BY <2>1, AppendProperties
  <2> HIDE DEF fs
  <2>3. Len(es) \in Nat /\ DOMAIN es = 1 .. Len(es) /\ DOMAIN fs = 1 .. Len(fs)
    BY <2>1, <2>2, LenProperties
  <2>4. \A k \in DOMAIN fs : \/ k \in DOMAIN es /\ fs[k] = es[k]
                             \/ k = Len(es) + 1 /\ fs[k] = Len(ds)
    BY <2>2, <2>3
  <2>5. \A k \in DOMAIN fs : fs[k] \in DOMAIN ds BY <1>1, <2>4 DEF Grows
  <2>6. \A j, k \in DOMAIN fs : j < k => fs[j] < fs[k]
    <3> SUFFICES ASSUME NEW j \in DOMAIN fs, NEW k \in DOMAIN fs, j < k PROVE fs[j] < fs[k]
      OBVIOUS
    <3>1. j \in DOMAIN es /\ fs[j] = es[j] BY <2>2, <2>3
    <3>2. CASE k \in DOMAIN es /\ fs[k] = es[k] BY <3>1, <3>2 DEF WaitsFor
    <3>3. CASE fs[k] = Len(ds)
      <4>1. es[j] \in 1 .. Len(cs) BY <1>1, <2>1, <3>1
      <4> QED BY <2>1, <3>1, <3>3, <4>1
    <3> QED BY <2>4, <3>2, <3>3
  <2>7. \A k \in DOMAIN fs : ds[fs[k]].kind \in kinds /\ ds[fs[k]].answer # "value"
    BY <1>1, <1>5, <2>4 DEF WaitsFor, New, Grows
  <2>8. \A k \in DOMAIN fs : k > 1 => ds[fs[k]].at = <<>> /\ ds[fs[k]].prompt = Fresh
    BY <1>1, <2>4 DEF WaitsFor, New, Grows
  <2>9. WaitsFor(fs, ds, kinds) BY <2>2, <2>5, <2>6, <2>7, <2>8 DEF WaitsFor
  <2>10. fs # <<>> BY <2>2, <2>3, EmptySeq
  <2>11. ds[fs[1]] = IF es = <<>> THEN r ELSE cs[es[1]]
    <3>1. CASE es = <<>>
      <4>1. Len(es) = 0 BY <3>1, EmptySeq
      <4>2. fs[1] = Len(ds) BY <2>2, <4>1
      <4> QED BY <3>1, <4>2 DEF Grows
    <3>2. CASE es # <<>>
      <4>1. 1 \in 1 .. Len(es) BY <1>3, <2>3, <3>2
      <4> QED BY <1>1, <2>2, <2>3, <3>2, <4>1
    <3> QED BY <3>1, <3>2
  <2>12. First(fs, ds) = First(es, cs) BY <2>10, <2>11 DEF First, New
  <2> QED BY <2>9, <2>10, <2>11, <2>12 DEF fs
<1> QED BY <1>2, <1>4, <1>5

(* The actor is called.                                                    *)
LEMMA ActorCalled ==
  ASSUME NEW cs, NEW es, NEW bs, NEW b, NEW bb, NEW m, NEW l, NEW u, NEW x,
         Actor(cs, es, bs, b, bb, m, l, u, x), config \in Configs, Len(cs) < config.calls,
         NEW r, New(r), NEW ds, Grows(cs, r, ds)
  PROVE  /\ Actor(ds, es, bs, b, bb, m, l, u, x)
         /\ r.kind \in TextKind =>
               Actor(ds, Append(es, Len(cs) + 1), bs, b, bb, m, l, u, x)
         /\ r.kind \in {"binary"} =>
               Actor(ds, es, Append(bs, Len(cs) + 1), b, bb, m, l, u, x)
<1>1. /\ cs \in Seq(CallRecord) /\ WaitsFor(es, cs, TextKind) /\ WaitsFor(bs, cs, {"binary"})
      /\ es # <<>> => Goes(cs[es[1]])
      /\ \A c \in DOMAIN cs : Fits(cs[c])
      /\ l = {} => \A c \in DOMAIN cs : Pure(cs[c], ends)
  BY DEF Actor, CallsAre
<1>2. Len(ds) <= config.calls
  <2>1. config.calls \in Int BY ClientsAssumption
  <2> QED BY <2>1 DEF Grows
<1>3. Goes(r) /\ Fits(r) /\ Pure(r, ends) BY NewGoes
<1>4. /\ \A c \in DOMAIN ds : Fits(ds[c])
      /\ l = {} => \A c \in DOMAIN ds : Pure(ds[c], ends)
      /\ ds \in Seq(CallRecord)
  BY <1>1, <1>3 DEF Grows
<1> DEFINE fs == Append(es, Len(cs) + 1)
           gs == Append(bs, Len(cs) + 1)
<1>5. /\ WaitsFor(es, ds, TextKind) /\ First(es, ds) = First(es, cs)
      /\ es # <<>> => Goes(ds[es[1]])
  BY <1>1, GrowsWaits
<1>6. WaitsFor(bs, ds, {"binary"}) /\ First(bs, ds) = First(bs, cs)
  BY <1>1, GrowsWaits
<1>7. ASSUME NEW e, NEW f, WaitsFor(e, ds, TextKind), e # <<>> => Goes(ds[e[1]]),
             WaitsFor(f, ds, {"binary"}), First(e, ds) = First(es, cs),
             First(f, ds) = First(bs, cs)
      PROVE  Actor(ds, e, f, b, bb, m, l, u, x)
  <2>1. CallsAre(ds, e, f, l, ends) BY <1>4, <1>7 DEF CallsAre
  <2>2. l = {} => Hearings(ds, e, f, b, bb, m) BY <1>7 DEF Actor, Hearings
  <2> QED BY <1>2, <2>1, <2>2 DEF Actor
<1>8. ASSUME r.kind \in TextKind
      PROVE  WaitsFor(fs, ds, TextKind) /\ First(fs, ds) = First(es, cs) /\ Goes(ds[fs[1]])
  <2>1. /\ WaitsFor(fs, ds, TextKind) /\ First(fs, ds) = First(es, cs)
        /\ ds[fs[1]] = IF es = <<>> THEN r ELSE cs[es[1]]
    BY <1>1, <1>8, GrowsWaits
  <2> HIDE DEF fs
  <2> QED BY <1>1, <1>3, <2>1
<1>9. ASSUME r.kind \in {"binary"}
      PROVE  WaitsFor(gs, ds, {"binary"}) /\ First(gs, ds) = First(bs, cs)
  BY <1>1, <1>9, GrowsWaits
<1> HIDE DEF fs, gs
<1>10. Actor(ds, es, bs, b, bb, m, l, u, x) BY <1>5, <1>6, <1>7
<1>11. r.kind \in TextKind => Actor(ds, fs, bs, b, bb, m, l, u, x)
  BY <1>6, <1>7, <1>8
<1>12. r.kind \in {"binary"} => Actor(ds, es, gs, b, bb, m, l, u, x)
  BY <1>5, <1>7, <1>9
<1> QED BY <1>10, <1>11, <1>12 DEF fs, gs

(* It hands on what has come for its lines and prompts.                    *)
LEMMA ActorRunsText ==
  ASSUME NEW cs, NEW es, NEW bs, NEW b, NEW bb, NEW m, NEW l, NEW u, NEW x,
         Actor(cs, es, bs, b, bb, m, l, u, x), taken \in Nat,
         NEW t, t = HandleBufferedStdIn(Text(cs, es, b, u, x, "on"))
  PROVE  /\ Actor(t.calls, t.entries, bs, t.buffer, bb, m, l, t.used, t.lost)
         /\ CallsFrom(t.calls, cs, TextKind)
         /\ t.entries # <<>> => es # <<>>
<1> DEFINE w == [calls |-> cs, mail |-> m, now |-> MailNow(m, "text"), late |-> l]
           s == Text(cs, es, b, u, x, "on")
<1>1. /\ cs \in Seq(CallRecord) /\ WaitsFor(es, cs, TextKind) /\ WaitsFor(bs, cs, {"binary"})
      /\ es # <<>> => Goes(cs[es[1]])
      /\ \A c \in DOMAIN cs : Fits(cs[c])
      /\ l = {} => \A c \in DOMAIN cs : Pure(cs[c], ends)
      /\ Len(es) \in Nat
  BY LenProperties DEF Actor, CallsAre, WaitsFor
<1>2. w.calls = cs /\ w.mail = m /\ w.now = MailNow(m, "text") /\ w.late = l
  OBVIOUS
<1> HIDE DEF w
<1>3. Holds(cs, es, b, u, x, w)
  <2>1. CallsFrom(cs, w.calls, TextKind) BY <1>1, <1>2 DEF CallsFrom
  <2>2. w.late = {} => Stream("text", First(es, cs), b, w.mail, w.now)
    BY <1>2 DEF Actor, Hearings
  <2>3. Kept(u, b, w.mail, x) BY <1>2 DEF Actor
  <2> QED BY <1>1, <1>2, <2>1, <2>2, <2>3 DEF Holds, Actor
<1>4. s \in TextStates(w, Len(es))
  <2>1. /\ s \in TextRecords /\ s.calls = cs /\ s.entries = es /\ s.buffer = b /\ s.used = u
        /\ s.lost = x
    BY <1>3, TextState
  <2> HIDE DEF s
  <2> QED BY <1>1, <1>3, <2>1 DEF TextStates
<1>5. t \in TextStates(w, Len(es))
  <2> HIDE DEF s
  <2>1. HandleBufferedStdIn(s) \in TextStates(w, Len(es))
    BY <1>1, <1>4, TextLoopKeeps
  <2> QED BY <2>1 DEF s
<1>6. /\ Holds(t.calls, t.entries, t.buffer, t.used, t.lost, w)
      /\ t.entries # <<>> => Goes(t.calls[t.entries[1]])
      /\ Len(t.entries) <= Len(es) /\ t.entries \in Seq(Nat)
  BY <1>5, TextFields DEF TextStates
<1>7. CallsFrom(t.calls, cs, TextKind) /\ t.calls \in Seq(CallRecord) /\ Len(t.calls) = Len(cs)
  BY <1>2, <1>6 DEF Holds, CallsFrom
<1>8. WaitsFor(bs, t.calls, {"binary"}) /\ First(bs, t.calls) = First(bs, cs)
  BY <1>1, <1>7, OthersWait DEF TextKind
<1>9. CallsAre(t.calls, t.entries, bs, l, ends)
  BY <1>2, <1>6, <1>7, <1>8 DEF CallsAre, Holds
<1>10. l = {} => Hearings(t.calls, t.entries, bs, t.buffer, bb, m)
  BY <1>2, <1>6, <1>8 DEF Hearings, Holds, Actor
<1>11. Actor(t.calls, t.entries, bs, t.buffer, bb, m, l, t.used, t.lost)
  BY <1>2, <1>6, <1>7, <1>9, <1>10 DEF Actor, Holds
<1>12. t.entries # <<>> => es # <<>>
  <2>1. es = <<>> => Len(es) = 0 BY EmptySeq
  <2>2. Len(t.entries) \in Nat /\ (Len(t.entries) = 0 => t.entries = <<>>)
    BY <1>6, EmptySeq, LenProperties
  <2> QED BY <1>6, <2>1, <2>2
<1> QED BY <1>7, <1>11, <1>12

(* It hands on what has come for its binary reads.                         *)
LEMMA ActorRunsBinary ==
  ASSUME NEW cs, NEW es, NEW bs, NEW b, NEW bb, NEW m, NEW l, NEW u, NEW x,
         Actor(cs, es, bs, b, bb, m, l, u, x), taken \in Nat,
         NEW t, t = HandleBufferedStdInBinary(Pieces(cs, bs, bb))
  PROVE  /\ Actor(t.calls, es, t.entries, b, t.buffer, m, l, u, x)
         /\ CallsFrom(t.calls, cs, {"binary"})
         /\ t.entries # <<>> => bs # <<>>
<1> DEFINE w == [calls |-> cs, mail |-> m, now |-> MailNow(m, "binary"), late |-> l]
           s == Pieces(cs, bs, bb)
<1>1. /\ cs \in Seq(CallRecord) /\ WaitsFor(es, cs, TextKind) /\ WaitsFor(bs, cs, {"binary"})
      /\ es # <<>> => Goes(cs[es[1]])
      /\ \A c \in DOMAIN cs : Fits(cs[c])
      /\ l = {} => \A c \in DOMAIN cs : Pure(cs[c], ends)
      /\ Len(bs) \in Nat
  BY LenProperties DEF Actor, CallsAre, WaitsFor
<1>2. w.calls = cs /\ w.mail = m /\ w.now = MailNow(m, "binary") /\ w.late = l
  OBVIOUS
<1> HIDE DEF w
<1>3. HoldsAll(cs, bs, bb, w)
  <2>1. CallsFrom(cs, w.calls, {"binary"}) BY <1>1, <1>2 DEF CallsFrom
  <2>2. w.late = {} => /\ Stream("binary", First(bs, cs), bb, w.mail, w.now)
                       /\ EndKnown(bb, w.mail, w.now)
    BY <1>2 DEF Actor, Hearings
  <2> QED BY <1>1, <1>2, <2>1, <2>2 DEF HoldsAll, Actor
<1>4. s \in BinaryStates(w, Len(bs)) BY <1>1, <1>3, BinaryState
<1>5. t \in BinaryStates(w, Len(bs))
  <2> HIDE DEF s
  <2>1. HandleBufferedStdInBinary(s) \in BinaryStates(w, Len(bs))
    BY <1>1, <1>4, BinaryLoopKeeps
  <2> QED BY <2>1 DEF s
<1>6. /\ HoldsAll(t.calls, t.entries, t.buffer, w)
      /\ Len(t.entries) <= Len(bs) /\ t.entries \in Seq(Nat)
  BY <1>5, BinaryFields DEF BinaryStates
<1>7. /\ CallsFrom(t.calls, cs, {"binary"}) /\ t.calls \in Seq(CallRecord)
      /\ Len(t.calls) = Len(cs)
  BY <1>2, <1>6 DEF HoldsAll, CallsFrom
<1>8. /\ WaitsFor(es, t.calls, TextKind) /\ First(es, t.calls) = First(es, cs)
      /\ es # <<>> => Goes(t.calls[es[1]])
  BY <1>1, <1>7, OthersWait DEF TextKind
<1>9. CallsAre(t.calls, es, t.entries, l, ends)
  BY <1>2, <1>6, <1>7, <1>8 DEF CallsAre, HoldsAll
<1>10. l = {} => Hearings(t.calls, es, t.entries, b, t.buffer, m)
  BY <1>2, <1>6, <1>8 DEF Hearings, HoldsAll, Actor
<1>11. Actor(t.calls, es, t.entries, b, t.buffer, m, l, u, x)
  BY <1>2, <1>6, <1>7, <1>9, <1>10 DEF Actor, HoldsAll
<1>12. t.entries # <<>> => bs # <<>>
  <2>1. bs = <<>> => Len(bs) = 0 BY EmptySeq
  <2>2. Len(t.entries) \in Nat /\ (Len(t.entries) = 0 => t.entries = <<>>)
    BY <1>6, EmptySeq, LenProperties
  <2> QED BY <1>6, <2>1, <2>2
<1> QED BY <1>7, <1>11, <1>12

(* The actor's readers when it has opened one, or none.                    *)
LEMMA ReadersAfter ==
  ASSUME ClientsInv, NEW r \in {"text", "binary"},
         UNCHANGED stdinVars \/ (r \notin readers /\ OpenOwn(r))
  PROVE  /\ Quiet(r) /\ Carried("text") /\ Carried("binary") /\ Carried("blocking")
         /\ "blocking" \in readers' <=> "blocking" \in readers
<1>1. Inv /\ LoopInv /\ r \in Readers /\ r # "blocking"
  BY ClientsAssumption DEF ClientsInv, Own
<1>2. CASE UNCHANGED stdinVars BY <1>1, <1>2, StillIsQuiet
<1>3. CASE r \notin readers /\ OpenOwn(r)
  <2>1. Quiet(r) BY <1>1, <1>3, OpenIsQuiet DEF OpenOwn
  <2>2. Carried(r) BY <1>3 DEF Carried
  <2> QED BY <1>1, <2>1, <2>2 DEF Quiet
<1> QED BY <1>2, <1>3

(* The calls of the blocking reader are among those that stay.             *)
LEMMA GrowsFrom ==
  ASSUME NEW cs \in Seq(CallRecord), NEW r, NEW ds, Grows(cs, r, ds), NEW kinds,
         kinds \cap BlockingKind = {}, NEW fs, CallsFrom(fs, ds, kinds)
  PROVE  \A c \in DOMAIN cs : cs[c].kind \in BlockingKind =>
            c \in DOMAIN fs /\ fs[c] = cs[c]
<1>1. /\ \A c \in DOMAIN cs : c \in DOMAIN ds /\ ds[c] = cs[c]
      /\ ds \in Seq(CallRecord)
  BY DEF Grows
<1>2. DOMAIN fs = DOMAIN ds
  <2>1. DOMAIN fs = 1 .. Len(fs) /\ Len(fs) = Len(ds) BY CallsSeq DEF CallsFrom
  <2> QED BY <1>1, <2>1, CallsSeq
<1>3. \A c \in DOMAIN cs : cs[c].kind \in BlockingKind => ds[c].kind \notin kinds
  BY <1>1
<1> QED BY <1>1, <1>2, <1>3 DEF CallsFrom

(* The state of the loop when the actor begins it, ...                     *)
LEMMA StateIs ==
  /\ State = Text(calls, entries, buffer, used, lost, "on")
  /\ State.calls = calls /\ State.entries = entries /\ State.buffer = buffer
BY DEF State, Text

(* ... with one call more.                                                 *)
LEMMA StateWithCalls ==
  \A x, y : [State EXCEPT !.calls = x, !.entries = y] = Text(x, y, buffer, used, lost, "on")
<1>1. PICK s : s = State OBVIOUS
<1>2. SetText(s, calls, entries, buffer, used, lost, "on")
  BY <1>1, StateIs, TextSet
<1> QED BY <1>1, <1>2 DEF SetText

(* A line or a prompt is asked for.                                        *)
LEMMA ReadTextKeeps ==
  ASSUME ClientsInv, NEW kind \in ActorKind, ReadText(kind)
  PROVE  ClientsInv'
<1>1. /\ kind \in TextKind /\ doing = "nothing" /\ Len(calls) < config.calls
      /\ config' = config /\ dying' = dying /\ mail' = mail /\ binary' = binary
      /\ binaryBuffer' = binaryBuffer /\ blocking' = blocking /\ given' = given
      /\ late' = late /\ aborts' = aborts /\ ends' = ends
  BY DEF ReadText, MayCall, TextKind
<1>2. /\ FieldsInv /\ CallsInv /\ BlockingInv /\ DoingInv /\ calls \in Seq(CallRecord)
      /\ config \in Configs /\ dying \in BOOLEAN /\ blocking \in Owner
  BY DEF ClientsInv, CallsInv, CallsAre, FieldsInv, Owner
<1>3. Actor(calls, entries, binary, buffer, binaryBuffer, mail, late, used, lost)
  BY <1>1, ActorBefore
<1>4. taken \in Nat
  <2>1. taken \in 0 .. written /\ written \in 0 .. Length
    BY DEF ClientsInv, Inv, TypeOK
  <2> QED BY <2>1
<1>5. UNCHANGED stdinVars \/ ("text" \notin readers /\ OpenOwn("text"))
  BY DEF ReadText
<1>6. /\ Quiet("text") /\ Carried("text") /\ Carried("binary") /\ Carried("blocking")
      /\ "blocking" \in readers' <=> "blocking" \in readers
  BY <1>5, ReadersAfter
<1> DEFINE fs == Append(entries, Len(calls) + 1)
<1>7. ASSUME NEW a \in {"none", "failed"}, NEW r, r = Call(kind, a), NEW ds,
             ds = Append(calls, r)
      PROVE  /\ Actor(ds, fs, binary, buffer, binaryBuffer, mail, late, used, lost)
             /\ Grows(calls, r, ds) /\ ds \in Seq(CallRecord)
  <2>1. New(r) /\ r.kind \in TextKind
    BY <1>1, <1>7, CallIsNew DEF TextKind, ActorKind
  <2>2. Grows(calls, r, ds) BY <1>2, <1>7, <2>1, AppendGrows DEF New
  <2>3. Actor(ds, fs, binary, buffer, binaryBuffer, mail, late, used, lost)
    <3> HIDE DEF fs
    <3>1. r.kind \in TextKind =>
             Actor(ds, Append(entries, Len(calls) + 1), binary, buffer, binaryBuffer, mail,
                   late, used, lost)
      BY <1>1, <1>2, <1>3, <2>1, <2>2, ActorCalled
    <3> QED BY <2>1, <3>1 DEF fs
  <2> QED BY <2>2, <2>3 DEF Grows
<1>8. CASE RunText([State EXCEPT !.calls = Append(@, Call(kind, "none")),
                                 !.entries = Append(@, Len(calls) + 1)])
  <2>1. PICK r, ds : r = Call(kind, "none") /\ ds = Append(calls, r) OBVIOUS
  <2>2. PICK t : t = HandleBufferedStdIn(Text(ds, fs, buffer, used, lost, "on"))
    OBVIOUS
  <2>3. /\ calls' = t.calls /\ entries' = t.entries /\ buffer' = t.buffer
        /\ used' = t.used /\ lost' = t.lost /\ doing' \in {"nothing", "spinning"}
    <3> DEFINE s == [State EXCEPT !.calls = Append(@, Call(kind, "none")),
                                  !.entries = Append(@, Len(calls) + 1)]
    <3>1. s = [State EXCEPT !.calls = ds, !.entries = fs] BY <2>1, StateIs
    <3>2. s = Text(ds, fs, buffer, used, lost, "on") BY <3>1, StateWithCalls
    <3>3. RunText(s) BY <1>8
    <3> HIDE DEF s, fs
    <3> QED BY <1>1, <2>2, <3>2, <3>3 DEF RunText
  <2> HIDE DEF fs
  <2>4. /\ Actor(ds, fs, binary, buffer, binaryBuffer, mail, late, used, lost)
        /\ Grows(calls, r, ds)
    BY <1>7, <2>1
  <2>5. /\ Actor(t.calls, t.entries, binary, t.buffer, binaryBuffer, mail, late, t.used, t.lost)
        /\ CallsFrom(t.calls, ds, TextKind)
    BY <1>4, <2>2, <2>4, ActorRunsText
  <2>6. \A c \in DOMAIN calls : calls[c].kind \in BlockingKind =>
            c \in DOMAIN t.calls /\ t.calls[c] = calls[c]
    BY <1>2, <2>4, <2>5, GrowsFrom DEF TextKind, BlockingKind
  <2>7. BlockingInv' BY <1>1, <1>2, <1>6, <2>3, <2>6, BlockingGoesOn
  <2>8. DoingInv' BY <2>3 DEF DoingInv
  <2> QED BY <1>1, <1>2, <1>6, <2>3, <2>5, <2>7, <2>8, ActorAfter
<1>9. CASE /\ calls' = Append(calls, Call(kind, "failed")) /\ entries' = fs
           /\ UNCHANGED <<stdinVars, doing, buffer, used, lost>>
  <2>1. PICK r, ds : r = Call(kind, "failed") /\ ds = Append(calls, r) OBVIOUS
  <2> HIDE DEF fs
  <2>2. /\ Actor(ds, fs, binary, buffer, binaryBuffer, mail, late, used, lost)
        /\ Grows(calls, r, ds) /\ calls' = ds
    BY <1>7, <1>9, <2>1
  <2>3. \A c \in DOMAIN calls : calls[c].kind \in BlockingKind =>
            c \in DOMAIN ds /\ ds[c] = calls[c]
    BY <2>2 DEF Grows
  <2>4. BlockingInv' BY <1>1, <1>2, <1>6, <2>2, <2>3, BlockingGoesOn
  <2>5. DoingInv' /\ doing' = "nothing" BY <1>1, <1>9 DEF DoingInv
  <2> QED BY <1>1, <1>2, <1>6, <1>9, <2>2, <2>4, <2>5, ActorAfter
<1> QED BY <1>8, <1>9 DEF ReadText

(* Binary input is asked for.                                              *)
LEMMA ReadBinaryKeeps ==
  ASSUME ClientsInv, ReadBinary
  PROVE  ClientsInv'
<1>1. /\ doing = "nothing" /\ doing' = doing /\ Len(calls) < config.calls
      /\ config' = config /\ dying' = dying /\ mail' = mail /\ entries' = entries
      /\ buffer' = buffer /\ blocking' = blocking /\ given' = given /\ used' = used
      /\ lost' = lost /\ late' = late /\ aborts' = aborts /\ ends' = ends
  BY DEF ReadBinary, MayCall, historyOfReads
<1>2. /\ FieldsInv /\ CallsInv /\ BlockingInv /\ DoingInv /\ calls \in Seq(CallRecord)
      /\ config \in Configs /\ dying \in BOOLEAN /\ blocking \in Owner
  BY DEF ClientsInv, CallsInv, CallsAre, FieldsInv, Owner
<1>3. Actor(calls, entries, binary, buffer, binaryBuffer, mail, late, used, lost)
  BY <1>1, ActorBefore
<1>4. taken \in Nat
  <2>1. taken \in 0 .. written /\ written \in 0 .. Length
    BY DEF ClientsInv, Inv, TypeOK
  <2> QED BY <2>1
<1>5. UNCHANGED stdinVars \/ ("binary" \notin readers /\ OpenOwn("binary"))
  BY DEF ReadBinary
<1>6. /\ Quiet("binary") /\ Carried("text") /\ Carried("binary") /\ Carried("blocking")
      /\ "blocking" \in readers' <=> "blocking" \in readers
  BY <1>5, ReadersAfter
<1> DEFINE fs == Append(binary, Len(calls) + 1)
<1>7. ASSUME NEW a \in {"none", "failed"}, NEW r, r = Call("binary", a), NEW ds,
             ds = Append(calls, r)
      PROVE  /\ Actor(ds, entries, fs, buffer, binaryBuffer, mail, late, used, lost)
             /\ Grows(calls, r, ds) /\ ds \in Seq(CallRecord)
  <2>1. New(r) /\ r.kind \in {"binary"} BY <1>1, <1>7, CallIsNew DEF ActorKind
  <2>2. Grows(calls, r, ds) BY <1>2, <1>7, <2>1, AppendGrows DEF New
  <2>3. Actor(ds, entries, fs, buffer, binaryBuffer, mail, late, used, lost)
    <3> HIDE DEF fs
    <3>1. r.kind \in {"binary"} =>
             Actor(ds, entries, Append(binary, Len(calls) + 1), buffer, binaryBuffer, mail,
                   late, used, lost)
      BY <1>1, <1>2, <1>3, <2>1, <2>2, ActorCalled
    <3> QED BY <2>1, <3>1 DEF fs
  <2> QED BY <2>2, <2>3 DEF Grows
<1>8. DoingInv' BY <1>1 DEF DoingInv
<1>9. CASE RunBinary(Append(calls, Call("binary", "none")), fs, binaryBuffer)
  <2>1. PICK r, ds : r = Call("binary", "none") /\ ds = Append(calls, r) OBVIOUS
  <2>2. PICK t : t = HandleBufferedStdInBinary(Pieces(ds, fs, binaryBuffer))
    OBVIOUS
  <2>3. calls' = t.calls /\ binary' = t.entries /\ binaryBuffer' = t.buffer
    <3>1. RunBinary(ds, fs, binaryBuffer) BY <1>9, <2>1
    <3> HIDE DEF fs
    <3> QED BY <2>2, <3>1 DEF RunBinary, Pieces
  <2> HIDE DEF fs
  <2>4. /\ Actor(ds, entries, fs, buffer, binaryBuffer, mail, late, used, lost)
        /\ Grows(calls, r, ds)
    BY <1>7, <2>1
  <2>5. /\ Actor(t.calls, entries, t.entries, buffer, t.buffer, mail, late, used, lost)
        /\ CallsFrom(t.calls, ds, {"binary"})
    BY <1>4, <2>2, <2>4, ActorRunsBinary
  <2>6. \A c \in DOMAIN calls : calls[c].kind \in BlockingKind =>
            c \in DOMAIN t.calls /\ t.calls[c] = calls[c]
    BY <1>2, <2>4, <2>5, GrowsFrom DEF BlockingKind
  <2>7. BlockingInv' BY <1>1, <1>2, <1>6, <2>3, <2>6, BlockingGoesOn
  <2> QED BY <1>1, <1>2, <1>6, <1>8, <2>3, <2>5, <2>7, ActorAfter
<1>10. CASE /\ calls' = Append(calls, Call("binary", "failed")) /\ binary' = fs
            /\ UNCHANGED <<stdinVars, binaryBuffer>>
  <2>1. PICK r, ds : r = Call("binary", "failed") /\ ds = Append(calls, r)
    OBVIOUS
  <2> HIDE DEF fs
  <2>2. /\ Actor(ds, entries, fs, buffer, binaryBuffer, mail, late, used, lost)
        /\ Grows(calls, r, ds) /\ calls' = ds
    BY <1>7, <1>10, <2>1
  <2>3. \A c \in DOMAIN calls : calls[c].kind \in BlockingKind =>
            c \in DOMAIN ds /\ ds[c] = calls[c]
    BY <2>2 DEF Grows
  <2>4. BlockingInv' BY <1>1, <1>2, <1>6, <2>2, <2>3, BlockingGoesOn
  <2> QED BY <1>1, <1>2, <1>6, <1>8, <1>10, <2>2, <2>4, ActorAfter
<1> QED BY <1>9, <1>10 DEF ReadBinary

(* The first letter is read: its piece is put behind the others ...        *)
LEMMA LetterRead ==
  ASSUME NEW u \in Positions, NEW b \in Items, NEW m \in Letters, m # <<>>,
         NEW K \in SUBSET (1 .. Len(m)), 1 \in K, NEW R, Sorted(u, b, m, K, R),
         NEW type, NEW x, x = m[1].at, NEW c \in Items,
         Longer(b, type, x, c) \/ Fuller(b, x, c) \/ Again(b, x, c)
  PROVE  /\ Sorted(u, c, Tail(m), Nearer(m, K), R)
         /\ All(u, c, Tail(m), Nearer(m, K)) = All(u, b, m, K)
<1> DEFINE L == K \ {1}
<1>1. /\ Len(m) \in Nat /\ x \in Positions
  <2>1. Len(m) \in Nat \ {0} BY EmptySeq, LenProperties DEF Letters
  <2>2. 1 \in 1 .. Len(m) BY <2>1
  <2> QED BY <2>1, <2>2, LettersSeq
<1>2. L \in SUBSET (2 .. Len(m)) /\ L \in SUBSET K /\ \A k \in L : 1 < k BY <1>1
<1>3. Sorted(u, b, m, L, R)
  <2> HIDE DEF L
  <2> QED BY <1>2, SortedFewer
<1>4. Row(x, R) /\ \A k \in L : Before(ToSet(x), ToSet(m[k].at), R)
  BY <1>2 DEF Sorted, InARow
<1>5. Before(ToSet(u) \cup Texts(b), ToSet(x), R)
  <2>1. Before(ToSet(u), ToSet(x), R) BY DEF Sorted, TakenFirst
  <2>2. \A j \in DOMAIN b : Before(ToSet(b[j].at), ToSet(x), R)
    BY DEF Sorted, InARow
  <2> QED BY <2>1, <2>2 DEF Before, Texts
<1>6. Sorted(u, c, m, L, R) /\ All(u, c, m, L) = All(u, b, m, L) \cup ToSet(x)
  <2> HIDE DEF L
  <2> QED BY <1>1, <1>3, <1>4, <1>5, SortedInsert
<1>7. /\ Sorted(u, c, Tail(m), Nearer(m, L), R)
      /\ All(u, c, Tail(m), Nearer(m, L)) = All(u, c, m, L)
  <2> HIDE DEF L
  <2> QED BY <1>2, <1>6, SortedShift
<1>8. Nearer(m, L) = Nearer(m, K)
  <2>1. \A k \in 1 .. Len(m) - 1 : k + 1 # 1 BY <1>1
  <2> QED BY <2>1 DEF Nearer
<1>9. All(u, b, m, K) = All(u, b, m, L) \cup ToSet(x)
  <2>1. K = L \cup {1} OBVIOUS
  <2> HIDE DEF L
  <2>2. MailTexts(m, K) = MailTexts(m, L) \cup ToSet(x) BY <2>1 DEF MailTexts
  <2> QED BY <2>2 DEF All
<1> HIDE DEF L
<1> QED BY <1>6, <1>7, <1>8, <1>9

(* ... or is for another reader.                                           *)
LEMMA LetterPassed ==
  ASSUME NEW u \in Positions, NEW b \in Items, NEW m \in Letters, m # <<>>,
         NEW K \in SUBSET (1 .. Len(m)), 1 \notin K, NEW R, Sorted(u, b, m, K, R)
  PROVE  /\ Sorted(u, b, Tail(m), Nearer(m, K), R)
         /\ All(u, b, Tail(m), Nearer(m, K)) = All(u, b, m, K)
<1>1. Len(m) \in Nat BY LettersSeq
<1>2. K \in SUBSET (2 .. Len(m)) BY <1>1
<1> QED BY <1>2, SortedShift

(* The mail without its first letter.                                      *)
LEMMA MailRest ==
  ASSUME NEW m \in Seq(Letter), m # <<>>, aborts \in Nat
  PROVE  /\ m \in Letters /\ Tail(m) \in Seq(Letter) /\ 1 \in DOMAIN m /\ Head(m) = m[1]
         /\ m[1] \in Letter /\ DOMAIN m = 1 .. Len(m)
         /\ \A to : MailTo(Tail(m), to) = Nearer(m, MailTo(m, to))
         /\ \A to : MailNow(Tail(m), to) = Nearer(m, MailNow(m, to))
         /\ \A k \in DOMAIN Tail(m) : k + 1 \in DOMAIN m /\ Tail(m)[k] = m[k + 1]
<1>1. m \in Letters
  <2> DEFINE T == [to : {"text", "binary"}, type : {"stdIn", "endOfFile", "error"},
                   at : Positions, age : Nat]
  <2>1. Letter \subseteq T BY DEF Letter
  <2> HIDE DEF T
  <2>2. m \in Seq(T) BY <2>1
  <2> QED BY <2>2 DEF Letters, T
<1>2. Len(m) \in Nat \ {0} /\ DOMAIN m = 1 .. Len(m) BY EmptySeq, LenProperties
<1> DEFINE t == Tail(m)
<1>3. t \in Seq(Letter) /\ Len(t) = Len(m) - 1 /\ \A i \in 1 .. Len(t) : t[i] = m[i + 1]
  BY HeadTailProperties
<1> HIDE DEF t
<1>4. DOMAIN t = 1 .. Len(m) - 1 BY <1>3, LenProperties
<1>5. \A k \in DOMAIN t : k + 1 \in DOMAIN m /\ t[k] = m[k + 1]
  BY <1>2, <1>3, <1>4
<1>6. \A to : MailTo(t, to) = Nearer(m, MailTo(m, to))
  BY <1>4, <1>5 DEF MailTo, Nearer
<1>7. \A to : MailNow(t, to) = Nearer(m, MailNow(m, to))
  BY <1>4, <1>5 DEF MailNow, Nearer
<1>8. 1 \in DOMAIN m /\ Head(m) = m[1] /\ m[1] \in Letter BY <1>2, ElementOfSeq
<1> QED BY <1>1, <1>2, <1>3, <1>5, <1>6, <1>7, <1>8 DEF t

(* What the first call has got is a piece of input.                        *)
LEMMA FirstSeq ==
  ASSUME NEW cs \in Seq(CallRecord), NEW es, NEW kinds, WaitsFor(es, cs, kinds)
  PROVE  First(es, cs) \in Positions
<1>1. <<>> \in Positions BY EmptySeq DEF Positions
<1>2. es # <<>> => es[1] \in DOMAIN cs BY WaitingFirst
<1>3. \A c \in DOMAIN cs : cs[c].at \in Positions BY CallsSeq
<1> QED BY <1>1, <1>2, <1>3 DEF First

(* Who hears the letter goes on where it was, ...                          *)
LEMMA StreamRead ==
  ASSUME NEW r, NEW v \in Positions, NEW b \in Items, NEW m \in Letters, m # <<>>,
         NEW K \in SUBSET (1 .. Len(m)), 1 \in K, Stream(r, v, b, m, K),
         NEW type, NEW x, x = m[1].at, NEW c \in Items,
         Longer(b, type, x, c) \/ Fuller(b, x, c) \/ Again(b, x, c)
  PROVE  Stream(r, v, c, Tail(m), Nearer(m, K))
<1> DEFINE t == Tail(m)
           L == Nearer(m, K)
<1>1. Sorted(v, b, m, K, Heard) BY DEF Stream, Flow
<1>2. Sorted(v, c, t, L, Heard) /\ All(v, c, t, L) = All(v, b, m, K)
  BY <1>1, LetterRead
<1> HIDE DEF t, L
<1>3. Flow(taken, v, c, t, L) BY <1>2 DEF Stream, Flow
<1>4. ~ (r \notin readers \/ life[imp] = "waiting") BY DEF Stream
<1>5. Stream(r, v, c, t, L) BY <1>2, <1>3, <1>4 DEF Stream
<1> QED BY <1>5 DEF t, L

(* ... and so does who does not hear it.                                   *)
LEMMA StreamPassed ==
  ASSUME NEW r, NEW v \in Positions, NEW b \in Items, NEW m \in Letters, m # <<>>,
         NEW K \in SUBSET (1 .. Len(m)), 1 \notin K, Stream(r, v, b, m, K)
  PROVE  Stream(r, v, b, Tail(m), Nearer(m, K))
<1> DEFINE t == Tail(m)
           L == Nearer(m, K)
<1>1. Sorted(v, b, m, K, Heard) BY DEF Stream, Flow
<1>2. Sorted(v, b, t, L, Heard) /\ All(v, b, t, L) = All(v, b, m, K)
  BY <1>1, LetterPassed
<1>3. K = {} => L = {} BY DEF Nearer
<1> HIDE DEF t, L
<1>4. Flow(taken, v, b, t, L) BY <1>2 DEF Stream, Flow
<1>5. Stream(r, v, b, t, L) BY <1>2, <1>3, <1>4 DEF Stream
<1> QED BY <1>5 DEF t, L

(* What is known of the ends goes with the letter.                         *)
LEMMA EndPassed ==
  ASSUME NEW b, NEW m \in Seq(Letter), m # <<>>, aborts \in Nat,
         EndKnown(b, m, MailNow(m, "binary"))
  PROVE  EndKnown(b, Tail(m), MailNow(Tail(m), "binary"))
<1> DEFINE K == MailNow(m, "binary")
           t == Tail(m)
           L == MailNow(t, "binary")
<1>1. \A k \in DOMAIN t : k + 1 \in DOMAIN m /\ t[k] = m[k + 1] BY MailRest
<1> HIDE DEF t
<1>2. \A k \in L : k + 1 \in K /\ t[k] = m[k + 1] BY <1>1 DEF MailNow
<1>3. (\E k \in L : t[k].type = "endOfFile") => (\E k \in K : m[k].type = "endOfFile")
  <2> HIDE DEF K, L
  <2> QED BY <1>2
<1>4. EndKnown(b, t, L) BY <1>3 DEF EndKnown
<1> QED BY <1>4 DEF t

(* An end of input that is read was known.                                 *)
LEMMA EndRead ==
  ASSUME NEW b \in Items, NEW m \in Seq(Letter), m # <<>>, aborts \in Nat,
         EndKnown(b, m, MailNow(m, "binary")), 1 \in MailNow(m, "binary"),
         NEW x, NEW c \in Items,
         Longer(b, m[1].type, x, c) \/ Fuller(b, x, c) \/ Again(b, x, c)
  PROVE  EndKnown(c, Tail(m), MailNow(Tail(m), "binary"))
<1> DEFINE K == MailNow(m, "binary")
<1>1. EndKnown(b, Tail(m), MailNow(Tail(m), "binary")) BY EndPassed
<1>2. DOMAIN b = 1 .. Len(b) /\ DOMAIN c = 1 .. Len(c) /\ Len(b) \in Nat
  BY ItemsSeq
<1>3. \A j \in DOMAIN c : \/ j \in DOMAIN b /\ c[j] = b[j]
                          \/ c[j].type = m[1].type \/ c[j].type = "stdIn"
  <2>1. CASE Longer(b, m[1].type, x, c) BY <1>2, <2>1 DEF Longer
  <2>2. CASE Fuller(b, x, c) BY <1>2, <2>2 DEF Fuller
  <2>3. CASE Again(b, x, c) BY <2>3 DEF Again
  <2> QED BY <2>1, <2>2, <2>3
<1>4. (\E j \in DOMAIN c : c[j].type = "endOfFile") => taken \in ends
  <2>1. \A j \in DOMAIN b : b[j].type = "endOfFile" => taken \in ends
    BY DEF EndKnown
  <2>2. m[1].type = "endOfFile" => taken \in ends BY DEF EndKnown
  <2> QED BY <1>3, <2>1, <2>2
<1> QED BY <1>1, <1>4 DEF EndKnown

(* The actor reads a letter.                                               *)
LEMMA ActorHears ==
  ASSUME NEW cs, NEW es, NEW bs, NEW b, NEW bb, NEW m, NEW l, NEW u, NEW x,
         Actor(cs, es, bs, b, bb, m, l, u, x), m # <<>>, aborts \in Nat,
         NEW k, k \in SUBSET (0 .. Length), k = {} => l = {} /\ m[1].age = aborts
  PROVE  /\ m[1].to = "text" =>
               Actor(cs, es, bs, Insert(b, m[1].type, m[1].at), bb, Tail(m), k, u, x)
         /\ m[1].to = "binary" =>
               Actor(cs, es, bs, b, Insert(bb, m[1].type, m[1].at), Tail(m), k, u, x)
<1> DEFINE t == Tail(m)
           y == m[1].at
           type == m[1].type
           c == Insert(b, type, y)
           d == Insert(bb, type, y)
           v == First(es, cs)
           z == First(bs, cs)
<1>1. /\ cs \in Seq(CallRecord) /\ WaitsFor(es, cs, TextKind) /\ WaitsFor(bs, cs, {"binary"})
      /\ b \in Items /\ bb \in Items /\ m \in Seq(Letter) /\ u \in Positions
      /\ Messages(b) /\ Messages(bb) /\ Messages(m) /\ Kept(u, b, m, x)
  BY DEF Actor, CallsAre
<1>2. /\ m \in Letters /\ t \in Seq(Letter) /\ 1 \in DOMAIN m
      /\ m[1] \in Letter /\ DOMAIN m = 1 .. Len(m)
      /\ \A to : MailTo(t, to) = Nearer(m, MailTo(m, to))
      /\ \A to : MailNow(t, to) = Nearer(m, MailNow(m, to))
      /\ \A j \in DOMAIN t : j + 1 \in DOMAIN m /\ t[j] = m[j + 1]
  BY <1>1, MailRest
<1>3. /\ y \in Positions /\ type \in {"stdIn", "endOfFile", "error"}
      /\ Message([type |-> type, at |-> y]) /\ v \in Positions /\ z \in Positions
  <2>1. y \in Positions /\ type \in {"stdIn", "endOfFile", "error"}
    BY <1>2 DEF Letter
  <2>2. Message(m[1]) BY <1>1, <1>2 DEF Messages
  <2>3. v \in Positions /\ z \in Positions BY <1>1, FirstSeq
  <2> QED BY <2>1, <2>2, <2>3 DEF Message
<1>4. Messages(t) /\ \A j \in DOMAIN t : t[j].at # <<>>
  BY <1>1, <1>2 DEF Messages, Actor
<1>5. /\ c \in Items /\ Messages(c)
      /\ Longer(b, type, y, c) \/ Fuller(b, y, c) \/ Again(b, y, c)
  BY <1>1, <1>3, InsertCases, InsertMessages
<1>6. /\ d \in Items /\ Messages(d)
      /\ Longer(bb, type, y, d) \/ Fuller(bb, y, d) \/ Again(bb, y, d)
  BY <1>1, <1>3, InsertCases, InsertMessages
<1>7. \A to : MailNow(m, to) \in SUBSET (1 .. Len(m)) /\ MailTo(m, to) \in SUBSET (1 .. Len(m))
  BY <1>2 DEF MailNow, MailTo
<1>8. CallsAre(cs, es, bs, k, ends) BY DEF Actor, CallsAre
<1>9. k = {} => /\ Stream("text", v, b, m, MailNow(m, "text"))
                /\ Stream("binary", z, bb, m, MailNow(m, "binary"))
                /\ EndKnown(bb, m, MailNow(m, "binary"))
  BY DEF Actor, Hearings
<1>10. ASSUME m[1].to = "text" PROVE Actor(cs, es, bs, c, bb, t, k, u, x)
  <2> DEFINE K == MailTo(m, "text")
             L == MailNow(m, "text")
             J == MailNow(m, "binary")
  <2>1. 1 \in K /\ 1 \notin J /\ (k = {} => 1 \in L)
    BY <1>2, <1>10 DEF MailTo, MailNow
  <2>2. K \in SUBSET (1 .. Len(m)) /\ L \in SUBSET (1 .. Len(m)) /\ J \in SUBSET (1 .. Len(m))
    BY <1>7
  <2>3. /\ MailTo(t, "text") = Nearer(m, K) /\ MailNow(t, "text") = Nearer(m, L)
        /\ MailNow(t, "binary") = Nearer(m, J)
    BY <1>2
  <2>4. /\ Sorted(u, b, m, K, InText) /\ (All(u, b, m, K) \ {0}) \cap x = {}
        /\ (All(u, b, m, K) \ {0}) \cup x = given
    BY <1>1 DEF Kept
  <2>5. k = {} => Stream("text", v, b, m, L) /\ Stream("binary", z, bb, m, J)
    BY <1>9
  <2> HIDE DEF K, L, J, t, c, v, z
  <2>6. Sorted(u, c, t, Nearer(m, K), InText) /\ All(u, c, t, Nearer(m, K)) = All(u, b, m, K)
    <3>1. /\ u \in Positions /\ b \in Items /\ m \in Letters /\ c \in Items /\ 1 \in K
          /\ K \in SUBSET (1 .. Len(m)) /\ Sorted(u, b, m, K, InText)
      BY <1>1, <1>2, <1>5, <2>1, <2>2, <2>4
    <3>2. PICK R : R = InText OBVIOUS
    <3>3. Sorted(u, b, m, K, R) BY <3>1, <3>2
    <3>4. PICK p, q : p = type /\ q = y OBVIOUS
    <3>5. q = m[1].at /\ (Longer(b, p, q, c) \/ Fuller(b, q, c) \/ Again(b, q, c))
      BY <1>5, <3>4
    <3>6. Sorted(u, c, Tail(m), Nearer(m, K), R)
      BY ONLY <3>1, <3>3, <3>5, m # <<>>, LetterRead
    <3>7. All(u, c, Tail(m), Nearer(m, K)) = All(u, b, m, K)
      BY ONLY <3>1, <3>3, <3>5, m # <<>>, LetterRead
    <3>8. Sorted(u, c, t, Nearer(m, K), R) /\ All(u, c, t, Nearer(m, K)) = All(u, b, m, K)
      BY <3>6, <3>7 DEF t
    <3> QED BY <3>2, <3>8
  <2>7. Kept(u, c, t, x) BY <2>3, <2>4, <2>6 DEF Kept
  <2>8. k = {} => Stream("text", v, c, t, Nearer(m, L))
    BY <1>1, <1>2, <1>3, <1>5, <2>1, <2>2, <2>5, StreamRead DEF t
  <2>9. k = {} => Stream("binary", z, bb, t, Nearer(m, J))
    BY <1>1, <1>2, <1>3, <2>1, <2>2, <2>5, StreamPassed DEF t
  <2>10. k = {} => EndKnown(bb, t, MailNow(t, "binary"))
    BY <1>1, <1>9, EndPassed DEF t
  <2>11. k = {} => Hearings(cs, es, bs, c, bb, t)
    BY <2>3, <2>8, <2>9, <2>10 DEF Hearings, v, z
  <2> QED BY <1>1, <1>2, <1>4, <1>5, <1>8, <2>7, <2>11 DEF Actor
<1>11. ASSUME m[1].to = "binary" PROVE Actor(cs, es, bs, b, d, t, k, u, x)
  <2> DEFINE K == MailTo(m, "text")
             L == MailNow(m, "text")
             J == MailNow(m, "binary")
  <2>1. 1 \notin K /\ 1 \notin L /\ (k = {} => 1 \in J)
    BY <1>2, <1>11 DEF MailTo, MailNow
  <2>2. K \in SUBSET (1 .. Len(m)) /\ L \in SUBSET (1 .. Len(m)) /\ J \in SUBSET (1 .. Len(m))
    BY <1>7
  <2>3. /\ MailTo(t, "text") = Nearer(m, K) /\ MailNow(t, "text") = Nearer(m, L)
        /\ MailNow(t, "binary") = Nearer(m, J)
    BY <1>2
  <2>4. /\ Sorted(u, b, m, K, InText) /\ (All(u, b, m, K) \ {0}) \cap x = {}
        /\ (All(u, b, m, K) \ {0}) \cup x = given
    BY <1>1 DEF Kept
  <2>5. k = {} => Stream("text", v, b, m, L) /\ Stream("binary", z, bb, m, J)
    BY <1>9
  <2>a. k = {} => EndKnown(bb, m, J) BY <1>9
  <2> HIDE DEF K, L, J, t, d, v, z
  <2>6. Sorted(u, b, t, Nearer(m, K), InText) /\ All(u, b, t, Nearer(m, K)) = All(u, b, m, K)
    BY <1>1, <1>2, <2>1, <2>2, <2>4, LetterPassed DEF t
  <2>7. Kept(u, b, t, x) BY <2>3, <2>4, <2>6 DEF Kept
  <2>8. k = {} => Stream("text", v, b, t, Nearer(m, L))
    BY <1>1, <1>2, <1>3, <2>1, <2>2, <2>5, StreamPassed DEF t
  <2>9. k = {} => Stream("binary", z, d, t, Nearer(m, J))
    BY <1>1, <1>2, <1>3, <1>6, <2>1, <2>2, <2>5, StreamRead DEF t
  <2>10. k = {} => EndKnown(d, t, MailNow(t, "binary"))
    BY <1>1, <1>6, <2>1, <2>a, EndRead DEF t, J
  <2>11. k = {} => Hearings(cs, es, bs, b, d, t)
    BY <2>3, <2>8, <2>9, <2>10 DEF Hearings, v, z
  <2> QED BY <1>1, <1>2, <1>4, <1>6, <1>8, <2>7, <2>11 DEF Actor
<1> QED BY <1>10, <1>11

(* The state of the loop with what has arrived.                            *)
LEMMA StateWithBuffer ==
  \A x : [State EXCEPT !.buffer = x] = Text(calls, entries, x, used, lost, "on")
BY DEF State, Text

(* The calls of the blocking reader are left alone.                        *)
LEMMA OthersStay ==
  ASSUME NEW cs \in Seq(CallRecord), NEW kinds, kinds \cap BlockingKind = {}, NEW fs,
         CallsFrom(fs, cs, kinds)
  PROVE  \A c \in DOMAIN cs : cs[c].kind \in BlockingKind =>
            c \in DOMAIN fs /\ fs[c] = cs[c]
<1>1. DOMAIN fs = DOMAIN cs
  <2>1. DOMAIN fs = 1 .. Len(fs) /\ Len(fs) = Len(cs) BY CallsSeq DEF CallsFrom
  <2> QED BY <2>1, CallsSeq
<1> QED BY <1>1 DEF CallsFrom

(* What was dispatched to the actor arrives.                               *)
LEMMA HandleMailKeeps ==
  ASSUME ClientsInv, HandleMail
  PROVE  ClientsInv'
<1> DEFINE item == mail[1]
<1>1. /\ doing \in {"nothing", "subscription"} /\ mail # <<>> /\ mail' = Tail(mail)
      /\ config' = config /\ dying' = dying /\ blocking' = blocking /\ given' = given
      /\ aborts' = aborts /\ ends' = ends /\ UNCHANGED stdinVars
  BY DEF HandleMail, TakeMail
<1>2. /\ Inv /\ LoopInv /\ FieldsInv /\ CallsInv /\ BlockingInv /\ DoingInv
      /\ calls \in Seq(CallRecord) /\ aborts \in Nat /\ mail \in Seq(Letter)
      /\ config \in Configs /\ dying \in BOOLEAN /\ blocking \in Owner
  BY DEF ClientsInv, CallsInv, CallsAre, FieldsInv, Owner
<1>3. Actor(calls, entries, binary, buffer, binaryBuffer, mail, late, used, lost)
  BY <1>1, ActorBefore
<1>4. taken \in Nat
  <2>1. taken \in 0 .. written /\ written \in 0 .. Length
    BY DEF ClientsInv, Inv, TypeOK
  <2> QED BY <2>1
<1>5. /\ Quiet("text") /\ Carried("text") /\ Carried("binary") /\ Carried("blocking")
      /\ readers' = readers
  BY <1>1, <1>2, StillIsQuiet
<1>6. 1 \in DOMAIN mail /\ Head(mail) = item /\ item \in Letter
  BY <1>1, <1>2, MailRest
<1>7. PICK k : k = late' OBVIOUS
<1>8. k \in SUBSET (0 .. Length) /\ (k = {} => late = {} /\ item.age = aborts)
  <2>1. item.at \in Positions /\ item.at # <<>>
    BY <1>2, <1>6 DEF Letter, FieldsInv
  <2>2. ToSet(item.at) \subseteq 0 .. Length /\ ToSet(item.at) # {}
    <3>1. Len(item.at) \in Nat \ {0}
      BY <2>1, EmptySeq, LenProperties DEF Positions
    <3>2. 1 \in 1 .. Len(item.at) BY <3>1
    <3>3. item.at[1] \in ToSet(item.at) BY <2>1, <3>2, SetOfPiece
    <3> QED BY <2>1, <3>3, SetOfPiece
  <2>3. late' = IF item.age = aborts THEN late ELSE late \cup ToSet(item.at)
    BY <1>6 DEF HandleMail
  <2>4. late \subseteq 0 .. Length BY <1>2 DEF FieldsInv
  <2> HIDE DEF item
  <2> QED BY <1>7, <2>2, <2>3, <2>4
<1>9. CASE item.to = "text"
  <2> DEFINE c == Insert(buffer, item.type, item.at)
  <2>1. Actor(calls, entries, binary, c, binaryBuffer, Tail(mail), k, used, lost)
    BY <1>1, <1>2, <1>3, <1>8, <1>9, ActorHears
  <2>2. PICK t : t = HandleBufferedStdIn(Text(calls, entries, c, used, lost, "on"))
    OBVIOUS
  <2>3. /\ calls' = t.calls /\ entries' = t.entries /\ buffer' = t.buffer
        /\ used' = t.used /\ lost' = t.lost /\ doing' \in {doing, "spinning"}
        /\ binary' = binary /\ binaryBuffer' = binaryBuffer
    <3> DEFINE s == [State EXCEPT !.buffer = Insert(@, item.type, item.at)]
    <3>1. RunText(s) /\ binary' = binary /\ binaryBuffer' = binaryBuffer
      BY <1>6, <1>9 DEF HandleMail
    <3>2. s = [State EXCEPT !.buffer = c] BY StateIs
    <3> HIDE DEF c
    <3>3. s = Text(calls, entries, c, used, lost, "on") BY <3>2, StateWithBuffer
    <3> HIDE DEF s
    <3> QED BY <2>2, <3>1, <3>3 DEF RunText
  <2> HIDE DEF c
  <2>4. /\ Actor(t.calls, t.entries, binary, t.buffer, binaryBuffer, Tail(mail), k, t.used, t.lost)
        /\ CallsFrom(t.calls, calls, TextKind)
        /\ t.entries # <<>> => entries # <<>>
    BY <1>4, <2>1, <2>2, ActorRunsText
  <2>5. \A p \in DOMAIN calls : calls[p].kind \in BlockingKind =>
            p \in DOMAIN t.calls /\ t.calls[p] = calls[p]
    <3>1. TextKind \cap BlockingKind = {} BY DEF TextKind, BlockingKind
    <3> QED BY <1>2, <2>4, <3>1, OthersStay
  <2>6. BlockingInv' BY <1>1, <1>2, <1>5, <2>3, <2>5, BlockingGoesOn
  <2>7. DoingInv' BY <1>1, <1>2, <1>5, <2>3, <2>4 DEF DoingInv
  <2> QED BY <1>1, <1>2, <1>5, <1>7, <2>3, <2>4, <2>6, <2>7, ActorAfter
<1>10. CASE item.to = "binary"
  <2> DEFINE c == Insert(binaryBuffer, item.type, item.at)
  <2>1. Actor(calls, entries, binary, buffer, c, Tail(mail), k, used, lost)
    BY <1>1, <1>2, <1>3, <1>8, <1>10, ActorHears
  <2>2. PICK t : t = HandleBufferedStdInBinary(Pieces(calls, binary, c)) OBVIOUS
  <2>3. /\ calls' = t.calls /\ binary' = t.entries /\ binaryBuffer' = t.buffer
        /\ entries' = entries /\ buffer' = buffer /\ doing' = doing /\ used' = used
        /\ lost' = lost
    <3>1. RunBinary(calls, binary, c) BY <1>6, <1>10 DEF HandleMail
    <3>2. /\ entries' = entries /\ buffer' = buffer /\ doing' = doing /\ used' = used
          /\ lost' = lost
      BY <1>6, <1>10 DEF HandleMail
    <3> HIDE DEF c
    <3> QED BY <2>2, <3>1, <3>2 DEF RunBinary, Pieces
  <2> HIDE DEF c
  <2>4. /\ Actor(t.calls, entries, t.entries, buffer, t.buffer, Tail(mail), k, used, lost)
        /\ CallsFrom(t.calls, calls, {"binary"})
        /\ t.entries # <<>> => binary # <<>>
    BY <1>4, <2>1, <2>2, ActorRunsBinary
  <2>5. \A p \in DOMAIN calls : calls[p].kind \in BlockingKind =>
            p \in DOMAIN t.calls /\ t.calls[p] = calls[p]
    <3>1. {"binary"} \cap BlockingKind = {} BY DEF BlockingKind
    <3> QED BY <1>2, <2>4, <3>1, OthersStay
  <2>6. BlockingInv' BY <1>1, <1>2, <1>5, <2>3, <2>5, BlockingGoesOn
  <2>7. DoingInv' BY <1>1, <1>2, <1>5, <2>3, <2>4 DEF DoingInv
  <2> QED BY <1>1, <1>2, <1>5, <1>7, <2>3, <2>4, <2>6, <2>7, ActorAfter
<1> QED BY <1>6, <1>9, <1>10 DEF Letter

(* What the first call has got is forgotten with it.                       *)
LEMMA StreamDrop ==
  ASSUME taken \in Nat, NEW r, NEW v \in Positions, NEW b \in Items, NEW m, NEW K,
         Stream(r, v, b, m, K)
  PROVE  Stream(r, <<>>, b, m, K)
<1>1. Flow(taken, v, b, m, K) BY DEF Stream
<1>2. Parts(b, 0, b, <<>>) /\ 0 \in 0 .. Len(b)
  <2>1. Len(b) \in Nat BY ItemsSeq
  <2>2. <<>> \in Items /\ Len(<<>>) = 0 BY EmptySeq DEF Items
  <2> QED BY <2>1, <2>2 DEF Parts
<1>3. Flow(taken, <<>>, b, m, K) /\ All(<<>>, b, m, K) \subseteq All(v, b, m, K)
  BY <1>1, <1>2, FlowDrop
<1> QED BY <1>3 DEF Stream

(* Nobody waits any more.                                                  *)
LEMMA NobodyWaits ==
  ASSUME NEW cs, NEW kinds
  PROVE  WaitsFor(<<>>, cs, kinds) /\ First(<<>>, cs) = <<>>
BY EmptySeq DEF WaitsFor, First

(* Nothing else of them changes, and the blocking reader's stay.           *)
LEMMA FailedIs ==
  ASSUME NEW r \in CallRecord
  PROVE  /\ Failed(r) \in CallRecord /\ (r.kind \in BlockingKind => Failed(r) = r)
         /\ Failed(r).answer = "value" => Failed(r) = r
<1>1. r.kind \in BlockingKind => r.kind \notin ActorKind
  BY DEF ActorKind, BlockingKind
<1> QED BY <1>1 DEF Failed, CallRecord

(* f_AbortReads answers all calls of the actor.                            *)
LEMMA AbortKeeps ==
  ASSUME ClientsInv, Abort
  PROVE  ClientsInv'
<1>1. /\ doing = "nothing" /\ doing' = "text" /\ UNCHANGED stdinVars
      /\ config' = config /\ mail' = mail /\ buffer' = buffer
      /\ binaryBuffer' = binaryBuffer /\ blocking' = blocking /\ given' = given /\ used' = used
      /\ lost' = lost /\ late' = late /\ aborts' = aborts /\ ends' = ends
      /\ entries' = <<>> /\ binary' = <<>>
  BY DEF Abort, historyOfReads
<1>2. /\ Inv /\ LoopInv /\ FieldsInv /\ CallsInv /\ BlockingInv /\ DoingInv
      /\ calls \in Seq(CallRecord) /\ dying' \in BOOLEAN /\ blocking \in Owner
  BY DEF ClientsInv, CallsInv, CallsAre, FieldsInv, Owner, Abort
<1>3. Actor(calls, entries, binary, buffer, binaryBuffer, mail, late, used, lost)
  BY <1>1, ActorBefore
<1>4. taken \in Nat
  <2>1. taken \in 0 .. written /\ written \in 0 .. Length
    BY DEF ClientsInv, Inv, TypeOK
  <2> QED BY <2>1
<1>5. /\ Quiet("text") /\ Carried("text") /\ Carried("binary") /\ Carried("blocking")
      /\ readers' = readers
  BY <1>1, <1>2, StillIsQuiet
<1>6. PICK ds : ds = [c \in DOMAIN calls |-> Failed(calls[c])] OBVIOUS
<1>7. calls' = ds
  <2>1. calls' = [c \in DOMAIN calls |->
                    IF calls[c].answer = "none" /\ calls[c].kind \in ActorKind
                    THEN [calls[c] EXCEPT !.answer = "failed"] ELSE calls[c]]
    BY DEF Abort
  <2> QED BY <1>6, <2>1 DEF Failed
<1>8. Len(calls) \in Nat /\ DOMAIN calls = 1 .. Len(calls) BY <1>2, CallsSeq
<1>9. \A c \in DOMAIN calls : calls[c] \in CallRecord
  BY <1>2, <1>8, ElementOfSeq
<1>10. /\ ds \in Seq(CallRecord) /\ Len(ds) = Len(calls) /\ DOMAIN ds = DOMAIN calls
       /\ \A c \in DOMAIN calls : ds[c] = Failed(calls[c])
  <2>1. \A c \in DOMAIN calls : Failed(calls[c]) \in CallRecord
    BY <1>9, FailedIs
  <2>2. PICK n \in Nat : n = Len(calls) /\ DOMAIN calls = 1 .. n BY <1>8
  <2>3. ds = [c \in 1 .. n |-> Failed(calls[c])]
        /\ \A c \in 1 .. n : Failed(calls[c]) \in CallRecord
    BY <1>6, <2>1, <2>2
  <2>4. ds \in [1 .. n -> CallRecord] BY <2>3
  <2>5. ds \in Seq(CallRecord) /\ Len(ds) = n
    <3>1. [c \in 1 .. n |-> Failed(calls[c])] \in Seq(CallRecord)
      <4> HIDE DEF CallRecord
      <4> QED BY <2>3
    <3>2. DOMAIN ds = 1 .. n BY <2>4
    <3> QED BY <2>3, <3>1, <3>2, LenProperties
  <2> QED BY <1>6, <2>2, <2>5
<1>11. /\ \A c \in DOMAIN ds : Fits(ds[c])
       /\ late = {} => \A c \in DOMAIN ds : Pure(ds[c], ends)
  <2>1. \A c \in DOMAIN ds : ds[c].answer = "value" => ds[c] = calls[c]
    BY <1>9, <1>10, FailedIs
  <2>2. /\ \A c \in DOMAIN calls : Fits(calls[c])
        /\ late = {} => \A c \in DOMAIN calls : Pure(calls[c], ends)
    BY <1>2 DEF CallsInv, CallsAre
  <2>3. \A c \in DOMAIN ds : Fits(ds[c]) BY <1>10, <2>1, <2>2 DEF Fits
  <2>4. late = {} => \A c \in DOMAIN ds : Pure(ds[c], ends)
    BY <1>10, <2>1, <2>2 DEF Pure
  <2> QED BY <2>3, <2>4
<1>12. CallsAre(ds, <<>>, <<>>, late, ends)
  BY <1>10, <1>11, NobodyWaits DEF CallsAre
<1>13. late = {} => Hearings(ds, <<>>, <<>>, buffer, binaryBuffer, mail)
  <2> DEFINE v == First(entries, calls)
             z == First(binary, calls)
             K == MailNow(mail, "text")
             L == MailNow(mail, "binary")
  <2> SUFFICES ASSUME late = {} PROVE Hearings(ds, <<>>, <<>>, buffer, binaryBuffer, mail)
    OBVIOUS
  <2>1. /\ Stream("text", v, buffer, mail, K) /\ Stream("binary", z, binaryBuffer, mail, L)
        /\ EndKnown(binaryBuffer, mail, L)
    BY <1>3 DEF Actor, Hearings
  <2>2. v \in Positions /\ z \in Positions
    BY <1>2, FirstSeq DEF CallsInv, CallsAre
  <2>3. buffer \in Items /\ binaryBuffer \in Items BY <1>2 DEF FieldsInv
  <2> HIDE DEF v, z, K, L
  <2>4. Stream("text", <<>>, buffer, mail, K) /\ Stream("binary", <<>>, binaryBuffer, mail, L)
    BY <1>4, <2>1, <2>2, <2>3, StreamDrop
  <2> QED BY <2>1, <2>4, NobodyWaits DEF Hearings, K, L
<1>14. Actor(ds, <<>>, <<>>, buffer, binaryBuffer, mail, late, used, lost)
  BY <1>3, <1>10, <1>12, <1>13 DEF Actor
<1>15. \A c \in DOMAIN calls : calls[c].kind \in BlockingKind =>
            c \in DOMAIN ds /\ ds[c] = calls[c]
  BY <1>9, <1>10, FailedIs
<1>16. BlockingInv' BY <1>1, <1>2, <1>5, <1>7, <1>15, BlockingGoesOn
<1>17. DoingInv' BY <1>1 DEF DoingInv
<1> QED BY <1>1, <1>2, <1>5, <1>7, <1>14, <1>16, <1>17, ActorAfter

(* The readers are closed, one after the other.                            *)
LEMMA ReadersClosed ==
  ASSUME Inv, LoopInv, NEW r \in Own, r # "blocking", CloseOwn(r)
  PROVE  /\ Quiet(r) /\ r \notin readers' /\ Carried("blocking")
         /\ "blocking" \in readers' <=> "blocking" \in readers
<1>1. r \in Readers BY ClientsAssumption
<1>2. CASE r \in readers
  <2>1. Close(r) BY <1>2 DEF CloseOwn
  <2>2. Quiet(r) /\ r \notin readers' BY <1>1, <2>1, CloseIsQuiet
  <2> QED BY <2>2 DEF Quiet
<1>3. CASE r \notin readers
  <2>1. UNCHANGED stdinVars BY <1>3 DEF CloseOwn
  <2>2. Quiet(r) /\ readers' = readers BY <2>1, StillIsQuiet
  <2> QED BY <1>3, <2>2 DEF Quiet
<1> QED BY <1>2, <1>3

(* First the reader of lines and prompts, whose mail may still come, ...   *)
LEMMA CloseTextKeeps ==
  ASSUME ClientsInv, CloseText
  PROVE  ClientsInv'
<1>1. /\ doing = "text" /\ doing' = "binary" /\ CloseOwn("text")
      /\ config' = config /\ calls' = calls /\ dying' = dying
      /\ entries' = entries /\ binary' = binary /\ buffer' = buffer
      /\ binaryBuffer' = binaryBuffer /\ mail' = mail /\ used' = used /\ lost' = lost
      /\ given' = given /\ late' = late /\ aborts' = aborts /\ ends' = ends
      /\ blocking' = blocking
  BY DEF CloseText, historyOfReads
<1>2. /\ Inv /\ LoopInv /\ FieldsInv /\ CallsInv /\ BlockingInv /\ DoingInv /\ KeptInv
      /\ StreamsInv
  BY DEF ClientsInv
<1>3. /\ Quiet("text") /\ "text" \notin readers' /\ Carried("blocking")
      /\ "blocking" \in readers' <=> "blocking" \in readers
  BY <1>1, <1>2, ReadersClosed DEF Own
<1>4. Inv' /\ LoopInv' /\ taken' = taken /\ Carried("binary") BY <1>3 DEF Quiet
<1>5. FieldsInv'
  <2>1. mail' \in Seq(Letter') /\ Messages(buffer') /\ Messages(binaryBuffer') /\ Messages(mail')
    BY <1>1, <1>2 DEF FieldsInv, Letter
  <2> QED BY <1>1, <1>2, <1>4, <2>1 DEF FieldsInv
<1>6. CallsInv' BY <1>1, <1>2, CallsThen DEF CallsInv
<1>7. BlockingInv' BY <1>1, <1>2, <1>3, BlockingStays
<1>8. DoingInv' BY <1>1, <1>2, <1>3 DEF DoingInv
<1>9. KeptInv' BY <1>1, <1>2 DEF KeptInv, TextWay
<1>10. StreamsInv'
  <2> SUFFICES ASSUME late = {} PROVE StreamsInv' BY <1>1 DEF StreamsInv
  <2> DEFINE v == First(binary, calls)
             L == MailNow(mail, "binary")
  <2>1. Stream("binary", v, binaryBuffer, mail, L) /\ EndKnown(binaryBuffer, mail, L)
    BY <1>2 DEF StreamsInv
  <2>2. v' = v /\ L' = L BY <1>1 DEF MailNow
  <2> HIDE DEF v, L
  <2>3. StreamThen("binary", v, binaryBuffer, mail, L) BY <1>4, <2>1, Carries
  <2>4. Stream("binary", v, binaryBuffer, mail, L)'
    BY <1>1, <2>2, <2>3 DEF StreamThen, Stream
  <2>5. EndKnown(binaryBuffer, mail, L)' BY <1>1, <1>4, <2>1, <2>2 DEF EndKnown
  <2> QED BY <1>1, <2>4, <2>5 DEF StreamsInv, v, L
<1> QED BY <1>4, <1>5, <1>6, <1>7, <1>8, <1>9, <1>10 DEF ClientsInv

(* Of what is on its way the pieces are thrown away.                       *)
LEMMA KeptDrop ==
  ASSUME ClientsInv, Kept(used, buffer, mail, lost)
  PROVE  Kept(used, <<>>, mail, lost \cup TextOf(buffer))
<1> DEFINE w == [calls |-> calls, mail |-> mail, now |-> {}, late |-> {0}]
           l == lost \cup (Texts(buffer) \ {0})
<1>1. w.calls = calls /\ w.mail = mail /\ w.late # {} OBVIOUS
<1>2. /\ calls \in Seq(CallRecord) /\ \A c \in DOMAIN calls : Fits(calls[c])
      /\ buffer \in Items /\ Messages(buffer) /\ used \in Positions /\ lost \subseteq 0 .. Length
  BY DEF ClientsInv, CallsInv, CallsAre, FieldsInv
<1>3. taken \in Nat
  <2>1. taken \in 0 .. written /\ written \in 0 .. Length
    BY DEF ClientsInv, Inv, TypeOK
  <2> QED BY <2>1
<1> HIDE DEF w
<1>4. Holds(calls, <<>>, buffer, used, lost, w)
  <2>1. CallsFrom(calls, w.calls, TextKind) BY <1>1, <1>2 DEF CallsFrom
  <2> QED BY <1>1, <1>2, <2>1, NobodyWaits DEF Holds
<1>5. Parts(buffer, Len(buffer), <<>>, buffer) /\ Len(buffer) \in 0 .. Len(buffer)
  <2>1. Len(buffer) \in Nat BY <1>2, ItemsSeq
  <2>2. <<>> \in Items /\ Len(<<>>) = 0 BY EmptySeq DEF Items
  <2> QED BY <1>2, <2>1, <2>2 DEF Parts
<1>6. Holds(calls, <<>>, <<>>, used, l, w)
  BY <1>3, <1>4, <1>5, NobodyWaits, DropKeeps
<1>7. l = lost \cup TextOf(buffer) BY DEF TextOf, Texts
<1> HIDE DEF l
<1> QED BY <1>1, <1>6, <1>7 DEF Holds

(* ... then that of binary input, and the buffers are cleared.             *)
LEMMA CloseBinaryKeeps ==
  ASSUME ClientsInv, CloseBinary
  PROVE  ClientsInv'
<1>1. /\ doing = "binary" /\ CloseOwn("binary")
      /\ doing' = IF dying THEN "subscription" ELSE "nothing"
      /\ config' = config /\ calls' = calls /\ dying' = dying
      /\ entries' = entries /\ binary' = binary /\ buffer' = <<>>
      /\ binaryBuffer' = <<>> /\ mail' = mail /\ used' = used
      /\ given' = given /\ late' = late /\ aborts' = aborts + 1 /\ ends' = ends
      /\ blocking' = blocking
  BY DEF CloseBinary
<1>2. /\ Inv /\ LoopInv /\ FieldsInv /\ CallsInv /\ BlockingInv /\ DoingInv /\ KeptInv
      /\ StreamsInv
  BY DEF ClientsInv
<1>3. /\ Quiet("binary") /\ "binary" \notin readers' /\ Carried("blocking")
      /\ "blocking" \in readers' <=> "blocking" \in readers
  BY <1>1, <1>2, ReadersClosed DEF Own
<1>4. /\ Inv' /\ LoopInv' /\ taken' = taken
      /\ "text" \in readers' <=> "text" \in readers
  BY <1>3 DEF Quiet
<1>5. entries = <<>> /\ binary = <<>> /\ "text" \notin readers
  BY <1>1, <1>2 DEF DoingInv
<1>6. PICK l : l = lost' OBVIOUS
<1>7. l = lost \cup TextOf(buffer) BY <1>6 DEF CloseBinary
<1>8. Kept(used, <<>>, mail, l)
  <2>1. Kept(used, buffer, mail, lost) BY <1>1, <1>2 DEF KeptInv, TextWay, Kept
  <2> QED BY <1>7, <2>1, KeptDrop
<1>9. aborts \in Nat BY <1>2 DEF FieldsInv
<1>10. FieldsInv'
  <2>1. mail' \in Seq(Letter') /\ Messages(mail')
    <3>1. Letter \subseteq Letter' BY <1>1, <1>9 DEF Letter
    <3>2. PICK S : S = Letter' OBVIOUS
    <3>3. mail \in Seq(Letter) /\ Letter \subseteq S
      BY <1>2, <3>1, <3>2 DEF FieldsInv
    <3>4. mail \in Seq(S)
      <4>1. \A T : Letter \subseteq T => Seq(Letter) \subseteq Seq(T) OBVIOUS
      <4> QED BY <3>3, <4>1
    <3> QED BY <1>1, <1>2, <3>2, <3>4 DEF FieldsInv
  <2>2. <<>> \in Items /\ Messages(<<>>)
    BY EmptySeq, LenProperties DEF Items, Messages
  <2>3. TextOf(buffer) \subseteq 0 .. Length
    <3>1. \A j \in DOMAIN buffer : buffer[j].at \in Positions
      BY <1>2, ItemsSeq DEF FieldsInv
    <3> QED BY <3>1, SetOfPiece DEF TextOf
  <2>4. l \subseteq 0 .. Length BY <1>2, <1>7, <2>3 DEF FieldsInv
  <2>5. doing' \in {"nothing", "subscription"} /\ aborts' \in Nat BY <1>1, <1>9
  <2> QED BY <1>1, <1>2, <1>4, <1>6, <2>1, <2>2, <2>4, <2>5 DEF FieldsInv
<1>11. CallsInv' BY <1>1, <1>2, CallsThen DEF CallsInv
<1>12. BlockingInv' BY <1>1, <1>2, <1>3, BlockingStays
<1>13. DoingInv' BY <1>1, <1>2, <1>3, <1>4, <1>5 DEF DoingInv, FieldsInv
<1>14. KeptInv'
  <2>1. MailTo(mail, "text")' = MailTo(mail, "text") BY <1>1
  <2> QED BY <1>1, <1>6, <1>8, <2>1 DEF KeptInv, TextWay, Kept
<1>15. StreamsInv'
  <2>1. \A to : MailNow(mail, to)' = {}
    <3>1. \A k \in DOMAIN mail : mail[k] \in Letter
      BY <1>2, ElementOfSeq, LenProperties DEF FieldsInv
    <3>2. \A k \in DOMAIN mail : mail[k].age # aborts + 1
      BY <1>9, <3>1 DEF Letter
    <3> QED BY <1>1, <3>2 DEF MailNow
  <2>2. First(entries, calls)' = <<>> /\ First(binary, calls)' = <<>>
    BY <1>1, <1>5 DEF First
  <2>3. \A r : StreamThen(r, <<>>, <<>>, mail, {})
    BY NothingHeard DEF StreamThen
  <2>4. /\ Stream("text", First(entries, calls), buffer, mail, MailNow(mail, "text"))'
        /\ Stream("binary", First(binary, calls), binaryBuffer, mail, MailNow(mail, "binary"))'
    BY <1>1, <2>1, <2>2, <2>3 DEF StreamThen, Stream
  <2>5. EndKnown(binaryBuffer, mail, MailNow(mail, "binary"))'
    <3>1. DOMAIN <<>> = {} BY EmptySeq, LenProperties
    <3> QED BY <1>1, <2>1, <3>1 DEF EndKnown
  <2> QED BY <2>4, <2>5 DEF StreamsInv
<1> QED BY <1>4, <1>10, <1>11, <1>12, <1>13, <1>14, <1>15 DEF ClientsInv

(* The actor goes.                                                         *)
LEMMA DeleteKeeps ==
  ASSUME ClientsInv, Delete
  PROVE  ClientsInv'
<1>1. /\ doing = "subscription" /\ CloseOwn("subscription") /\ doing' = "gone"
      /\ config' = config /\ calls' = calls /\ dying' = dying
      /\ entries' = entries /\ binary' = binary /\ buffer' = buffer
      /\ binaryBuffer' = binaryBuffer /\ mail' = <<>> /\ used' = used
      /\ lost' = lost \cup given
      /\ given' = given /\ late' = late /\ aborts' = aborts /\ ends' = ends
      /\ blocking' = blocking
  BY DEF Delete
<1>2. /\ Inv /\ LoopInv /\ FieldsInv /\ CallsInv /\ BlockingInv /\ DoingInv /\ KeptInv
      /\ StreamsInv
  BY DEF ClientsInv
<1>3. /\ Quiet("subscription") /\ "subscription" \notin readers' /\ Carried("blocking")
      /\ "blocking" \in readers' <=> "blocking" \in readers
  BY <1>1, <1>2, ReadersClosed DEF Own
<1>4. /\ Inv' /\ LoopInv' /\ taken' = taken
      /\ "text" \in readers' <=> "text" \in readers
      /\ "binary" \in readers' <=> "binary" \in readers
  BY <1>3 DEF Quiet
<1>5. /\ entries = <<>> /\ binary = <<>> /\ "text" \notin readers /\ "binary" \notin readers
      /\ dying
  BY <1>1, <1>2 DEF DoingInv
<1>6. DOMAIN <<>> = {} BY EmptySeq, LenProperties
<1>7. KeptInv'
  <2> DEFINE K == MailTo(mail, "text")
  <2>1. /\ Sorted(used, buffer, mail, K, InText)
        /\ (All(used, buffer, mail, K) \ {0}) \cup lost = given
    BY <1>2 DEF KeptInv, TextWay
  <2>2. {} \in SUBSET K OBVIOUS
  <2> HIDE DEF K
  <2>3. Sorted(used, buffer, mail, {}, InText) BY <2>1, <2>2, SortedFewer
  <2>4. Sorted(used, buffer, <<>>, {}, InText) BY <2>3, SortedSame
  <2>5. All(used, buffer, <<>>, {}) \subseteq All(used, buffer, mail, K)
    BY DEF All, MailTexts
  <2>6. MailTo(mail, "text")' = {} BY <1>1, <1>6 DEF MailTo
  <2>7. PICK A : A = All(used, buffer, <<>>, {}) OBVIOUS
  <2>8. (A \ {0}) \cup (lost \cup given) = given BY <2>1, <2>5, <2>7
  <2> QED BY <1>1, <2>4, <2>6, <2>7, <2>8 DEF KeptInv, TextWay
<1>8. FieldsInv'
  <2>1. mail' \in Seq(Letter') /\ Messages(mail') /\ \A k \in DOMAIN mail' : mail'[k].at # <<>>
    BY <1>1, <1>6, EmptySeq DEF Messages
  <2>2. Messages(buffer') /\ Messages(binaryBuffer') BY <1>1, <1>2 DEF FieldsInv
  <2>3. lost' \subseteq 0 .. Length
    <3>1. lost' = given
      <4>1. lost \subseteq given BY <1>2 DEF KeptInv
      <4> QED BY <1>1, <4>1
    <3>2. taken \in 0 .. written /\ written \in 0 .. Length
      BY <1>2 DEF Inv, TypeOK
    <3>3. 1 .. taken \subseteq 0 .. Length BY <3>2, InputAssumption
    <3> QED BY <1>2, <3>1, <3>3 DEF FieldsInv
  <2> QED BY <1>1, <1>2, <1>4, <2>1, <2>2, <2>3 DEF FieldsInv
<1>9. CallsInv' BY <1>1, <1>2, CallsThen DEF CallsInv
<1>10. BlockingInv' BY <1>1, <1>2, <1>3, BlockingStays
<1>11. DoingInv' BY <1>1, <1>3, <1>4, <1>5 DEF DoingInv
<1>12. StreamsInv'
  <2> SUFFICES ASSUME late = {} PROVE StreamsInv' BY <1>1 DEF StreamsInv
  <2>1. buffer = <<>> /\ binaryBuffer = <<>>
    BY <1>1, <1>2, <1>5 DEF StreamsInv, Stream
  <2>2. \A to : MailNow(mail, to)' = {} BY <1>1, <1>6 DEF MailNow
  <2>3. First(entries, calls)' = <<>> /\ First(binary, calls)' = <<>>
    BY <1>1, <1>5 DEF First
  <2>4. \A r : StreamThen(r, <<>>, <<>>, <<>>, {})
    BY NothingHeard DEF StreamThen
  <2>5. /\ Stream("text", First(entries, calls), buffer, mail, MailNow(mail, "text"))'
        /\ Stream("binary", First(binary, calls), binaryBuffer, mail, MailNow(mail, "binary"))'
    BY <1>1, <2>1, <2>2, <2>3, <2>4 DEF StreamThen, Stream
  <2>6. EndKnown(binaryBuffer, mail, MailNow(mail, "binary"))'
    BY <1>1, <1>6, <2>1, <2>2 DEF EndKnown
  <2> QED BY <2>5, <2>6 DEF StreamsInv
<1> QED BY <1>4, <1>7, <1>8, <1>9, <1>10, <1>11, <1>12 DEF ClientsInv

(* What the blocking reader's owner does to the calls.                     *)
LEMMA OwnerCalls ==
  ASSUME ClientsInv, UNCHANGED stdinVars, blocking' \in Owner, BlockingInv',
         UNCHANGED <<config, doing, dying, entries, binary, buffer, binaryBuffer, mail,
                     historyOfReads>>,
         NEW ds, calls' = ds, Len(ds) <= config.calls, CallsAre(ds, entries, binary, late, ends),
         First(entries, ds) = First(entries, calls), First(binary, ds) = First(binary, calls)
  PROVE  ClientsInv'
<1>1. /\ config' = config /\ doing' = doing /\ dying' = dying
      /\ entries' = entries /\ binary' = binary /\ buffer' = buffer
      /\ binaryBuffer' = binaryBuffer /\ mail' = mail /\ used' = used /\ lost' = lost
      /\ given' = given /\ late' = late /\ aborts' = aborts /\ ends' = ends
  BY DEF historyOfReads
<1>2. /\ Inv /\ LoopInv /\ FieldsInv /\ DoingInv /\ KeptInv /\ StreamsInv
  BY DEF ClientsInv
<1>3. /\ Quiet("text") /\ Carried("text") /\ Carried("binary") /\ readers' = readers
  BY <1>2, StillIsQuiet
<1>4. Inv' /\ LoopInv' /\ taken' = taken BY <1>3 DEF Quiet
<1>5. FieldsInv'
  <2>1. mail' \in Seq(Letter') /\ Messages(buffer') /\ Messages(binaryBuffer') /\ Messages(mail')
    BY <1>1, <1>2 DEF FieldsInv, Letter
  <2> QED BY <1>1, <1>2, <1>4, <2>1 DEF FieldsInv, Owner
<1>6. CallsInv' BY <1>1, CallsThen
<1>7. DoingInv' BY <1>1, <1>2, <1>3 DEF DoingInv
<1>8. KeptInv' BY <1>1, <1>2 DEF KeptInv, TextWay
<1>9. StreamsInv'
  <2> SUFFICES ASSUME late = {} PROVE StreamsInv' BY <1>1 DEF StreamsInv
  <2> DEFINE u == First(entries, calls)
             v == First(binary, calls)
             K == MailNow(mail, "text")
             L == MailNow(mail, "binary")
  <2>1. /\ doing # "binary" => Stream("text", u, buffer, mail, K)
        /\ Stream("binary", v, binaryBuffer, mail, L) /\ EndKnown(binaryBuffer, mail, L)
    BY <1>2 DEF StreamsInv
  <2>2. u' = First(entries, ds) /\ v' = First(binary, ds) /\ K' = K /\ L' = L
    BY <1>1 DEF MailNow, First
  <2>3. u' = u /\ v' = v BY <2>2
  <2> HIDE DEF u, v, K, L
  <2>4. doing # "binary" => StreamThen("text", u, buffer, mail, K)
    BY <1>3, <2>1, Carries
  <2>5. StreamThen("binary", v, binaryBuffer, mail, L) BY <1>3, <2>1, Carries
  <2>6. /\ doing' # "binary" => Stream("text", u, buffer, mail, K)'
        /\ Stream("binary", v, binaryBuffer, mail, L)'
    BY <1>1, <2>2, <2>3, <2>4, <2>5 DEF StreamThen, Stream
  <2>7. EndKnown(binaryBuffer, mail, L)' BY <1>1, <1>4, <2>1, <2>2 DEF EndKnown
  <2> QED BY <2>6, <2>7 DEF StreamsInv, u, v, K, L
<1> QED BY <1>4, <1>5, <1>6, <1>7, <1>8, <1>9 DEF ClientsInv

(* A blocking prompt that is given nothing stays as it is.                 *)
LEMMA SimpleNothing ==
  ASSUME NEW p \in Simply
  PROVE  SimpleKeys(p, <<>>) = p
<1>1. <<>> \in Positions /\ Len(<<>>) = 0 BY EmptySeq DEF Positions
<1>2. PICK f : SimpleRun(p, <<>>, f) /\ f[Len(<<>>)] = SimpleKeys(p, <<>>)
  BY <1>1, SimpleKeysRun
<1> QED BY <1>1, <1>2 DEF SimpleRun

(* A step of the owner's leaves the reader where it is.                    *)
LEMMA BlockingThen ==
  ASSUME Inv, LoopInv, UNCHANGED stdinVars, config' = config, BlockingInv, "blocking" \in readers,
         NEW o \in Owner, blocking' = o, NEW ds \in Seq(CallRecord), calls' = ds,
         o.place \in {"checking", "waiting"} =>
             o.call \in DOMAIN ds /\ WaitsHere(ds[o.call]),
         o.place \in {"checking", "waiting", "idle"},
         NEW at, at = (IF o.place \in {"checking", "waiting"} THEN ds[o.call].at ELSE <<>>)
                        \o o.buffer,
         Stream("blocking", at, <<>>, <<>>, {}), 0 \notin ToSet(at)
  PROVE  BlockingInv'
<1>1. Carried("blocking") /\ readers' = readers BY StillIsQuiet
<1>2. BlockingCall' <=> o.place \in {"checking", "waiting"} BY DEF BlockingCall
<1>3. Got' \o blocking'.buffer = at BY <1>2 DEF Got
<1>4. StreamThen("blocking", at, <<>>, <<>>, {}) BY <1>1, Carries
<1>5. Stream("blocking", Got \o blocking.buffer, <<>>, <<>>, {})'
  BY <1>3, <1>4 DEF StreamThen, Stream
<1>6. 0 \notin ToSet(Got' \o blocking'.buffer) BY <1>3
<1>7. BlockingCall' => blocking'.call \in DOMAIN calls' /\ WaitsHere(calls[blocking.call])'
  <2> SUFFICES ASSUME BlockingCall'
               PROVE  blocking'.call \in DOMAIN calls' /\ WaitsHere(calls[blocking.call])'
    OBVIOUS
  <2>1. o.call \in DOMAIN ds /\ WaitsHere(ds[o.call]) BY <1>2
  <2>2. PICK r : r = ds[o.call] OBVIOUS
  <2>3. r \in CallRecord BY <2>1, <2>2, CallsSeq, ElementOfSeq
  <2>4. WaitsHere(r)' BY <2>1, <2>2, <2>3, SameCall
  <2>5. calls[blocking.call]' = r BY <2>2
  <2> QED BY <2>1, <2>4, <2>5 DEF WaitsHere
<1> QED BY <1>1, <1>2, <1>5, <1>6, <1>7 DEF BlockingInv

(* The owner asks for a line or a prompt, and looks at what has come.      *)
LEMMA CallBlockingKeeps ==
  ASSUME ClientsInv, NEW kind \in BlockingKind, CallBlocking(kind)
  PROVE  ClientsInv'
<1>1. /\ blocking.place = "idle" /\ Len(calls) < config.calls
      /\ calls' = Append(calls, Call(kind, "none"))
      /\ blocking' = [blocking EXCEPT !.place = "checking", !.call = Len(calls) + 1]
      /\ UNCHANGED stdinVars /\ config' = config
      /\ UNCHANGED <<config, doing, dying, entries, binary, buffer, binaryBuffer, mail,
                     historyOfReads>>
  BY DEF CallBlocking
<1>2. Inv /\ LoopInv /\ FieldsInv /\ CallsInv /\ BlockingInv BY DEF ClientsInv
<1>3. PICK r : r = Call(kind, "none") OBVIOUS
<1>4. New(r) /\ r.kind = kind /\ r.answer = "none" /\ r.prompt = Fresh /\ r.at = <<>>
  BY <1>3, CallIsNew DEF New
<1>5. PICK ds : ds = Append(calls, r) OBVIOUS
<1>6. calls \in Seq(CallRecord) /\ r \in CallRecord
  BY <1>2, <1>4 DEF CallsInv, CallsAre, New
<1>7. Grows(calls, r, ds) BY <1>5, <1>6, AppendGrows
<1>8. CallsAre(ds, entries, binary, late, ends)
      /\ First(entries, ds) = First(entries, calls) /\ First(binary, ds) = First(binary, calls)
  <2>1. CallsAre(calls, entries, binary, late, ends) BY <1>2 DEF CallsInv
  <2>2. WaitsFor(entries, calls, TextKind) /\ WaitsFor(binary, calls, {"binary"})
    BY <2>1 DEF CallsAre
  <2>3. /\ WaitsFor(entries, ds, TextKind) /\ First(entries, ds) = First(entries, calls)
        /\ entries # <<>> => ds[entries[1]] = calls[entries[1]]
    BY ONLY <1>4, <1>6, <1>7, <2>2, GrowsWaits
  <2>4. WaitsFor(binary, ds, {"binary"}) /\ First(binary, ds) = First(binary, calls)
    BY ONLY <1>4, <1>6, <1>7, <2>2, GrowsWaits
  <2>5. entries # <<>> => Goes(ds[entries[1]]) BY <2>1, <2>3 DEF CallsAre
  <2>6. Fits(r) /\ \A e : Pure(r, e) BY <1>4, NewGoes
  <2>7. \A c \in DOMAIN ds : (c \in DOMAIN calls /\ ds[c] = calls[c]) \/ ds[c] = r
    BY <1>7 DEF Grows
  <2>8. \A c \in DOMAIN ds : Fits(ds[c]) BY <2>1, <2>6, <2>7 DEF CallsAre
  <2>9. late = {} => \A c \in DOMAIN ds : Pure(ds[c], ends)
    BY <2>1, <2>6, <2>7 DEF CallsAre
  <2>10. ds \in Seq(CallRecord) BY <1>7 DEF Grows
  <2> QED BY <2>3, <2>4, <2>5, <2>8, <2>9, <2>10 DEF CallsAre
<1>9. Len(ds) <= config.calls
  <2>1. config \in Configs BY <1>2 DEF FieldsInv
  <2>2. config.calls \in Int BY <2>1, ClientsAssumption
  <2>3. Len(calls) \in Nat /\ Len(ds) = Len(calls) + 1 BY <1>7 DEF Grows
  <2> QED BY <1>1, <2>2, <2>3
<1>10. PICK o : o = [blocking EXCEPT !.place = "checking", !.call = Len(calls) + 1]
  OBVIOUS
<1>11. /\ o \in Owner /\ o.place = "checking" /\ o.call = Len(ds) /\ o.buffer = blocking.buffer
  <2>1. blocking \in Owner BY <1>2 DEF FieldsInv, Owner
  <2>2. Len(calls) + 1 \in Nat /\ Len(ds) = Len(calls) + 1 BY <1>7 DEF Grows
  <2> QED BY <1>10, <2>1, <2>2 DEF Owner
<1>12. o.call \in DOMAIN ds /\ ds[o.call] = r BY <1>7, <1>11 DEF Grows
<1>13. WaitsHere(r) BY <1>4, FreshPrompt, SimpleNothing DEF WaitsHere
<1>14. ~ BlockingCall /\ "blocking" \in readers
  BY <1>1, <1>2 DEF BlockingCall, BlockingInv
<1>15. PICK at : at = Got \o blocking.buffer OBVIOUS
<1>16. at = <<>> \o blocking.buffer BY <1>14, <1>15 DEF Got
<1>17. Stream("blocking", at, <<>>, <<>>, {}) /\ 0 \notin ToSet(at)
  BY <1>2, <1>14, <1>15 DEF BlockingInv
<1>18. at = (IF o.place \in {"checking", "waiting"} THEN ds[o.call].at ELSE <<>>) \o o.buffer
  BY <1>4, <1>11, <1>12, <1>16
<1>19. ds \in Seq(CallRecord) /\ calls' = ds /\ blocking' = o
  BY <1>1, <1>3, <1>5, <1>7, <1>10 DEF Grows
<1>20. BlockingInv'
  <2>1. o.place \in {"checking", "waiting", "idle"} BY <1>11
  <2>2. o.place \in {"checking", "waiting"} => o.call \in DOMAIN ds /\ WaitsHere(ds[o.call])
    BY <1>12, <1>13
  <2> QED BY ONLY <1>1, <1>2, <1>11, <1>14, <1>17, <1>18, <1>19, <2>1, <2>2, BlockingThen
<1> QED BY ONLY ClientsInv, <1>1, <1>8, <1>9, <1>11, <1>19, <1>20, OwnerCalls

(* What a reader has heard without the first of it.                        *)
LEMMA StreamRest ==
  ASSUME NEW r, NEW a \in Positions, NEW b \in Positions,
         Stream(r, a \o b, <<>>, <<>>, {}), taken \in Nat
  PROVE  Stream(r, b, <<>>, <<>>, {})
<1>1. /\ \A u, m : All(u, <<>>, m, {}) = ToSet(u)
      /\ \A u, m : Sorted(u, <<>>, m, {}, Heard) <=> Row(u, Heard)
  <2>1. DOMAIN <<>> = {} BY EmptySeq, LenProperties
  <2> QED BY <2>1 DEF All, Texts, MailTexts, Sorted, TakenFirst, InARow
<1>2. PICK c : c = a \o b OBVIOUS
<1>3. /\ c \in Positions /\ Len(c) = Len(a) + Len(b)
      /\ \A i \in 1 .. Len(a) : c[i] = a[i]
      /\ \A i \in 1 .. Len(b) : c[Len(a) + i] = b[i]
  BY <1>2, Joined
<1>4. /\ Len(a) \in Nat /\ DOMAIN a = 1 .. Len(a) /\ Len(b) \in Nat /\ DOMAIN b = 1 .. Len(b)
      /\ DOMAIN c = 1 .. Len(c)
      /\ \A i \in 1 .. Len(a) : a[i] \in 0 .. Length
      /\ \A i \in 1 .. Len(b) : b[i] \in 0 .. Length
  BY <1>3, PositionsSeq
<1>5. ToSet(c) = ToSet(a) \cup ToSet(b) BY <1>2, JoinedRow
<1>6. Flow(taken, c, <<>>, <<>>, {}) /\ (0 \in ToSet(c) => imp \in finished)
      /\ (r \notin readers \/ life[imp] = "waiting" => c = <<>>)
  BY <1>1, <1>2 DEF Stream
<1>7. Row(c, Heard) /\ (\A p \in ToSet(c) : p # 0 /\ p < taken => p + 1 \in ToSet(c))
      /\ ToSet(c) \subseteq 0 .. taken
  BY <1>1, <1>6 DEF Flow
<1>8. \A n, k \in Nat : \A i \in 1 .. n, j \in 1 .. k :
         i \in 1 .. n + k /\ n + j \in 1 .. n + k /\ i < n + j
  OBVIOUS
<1>9. \A i \in DOMAIN a, j \in DOMAIN b : <<a[i], b[j]>> \in Heard
  BY <1>3, <1>4, <1>7, <1>8 DEF Row
<1>10. Row(b, Heard)
  <2> SUFFICES ASSUME NEW i \in DOMAIN b, NEW j \in DOMAIN b, i < j
               PROVE  <<b[i], b[j]>> \in Heard
    BY DEF Row
  <2>2. PICK n \in Nat : n = Len(a) BY <1>4
  <2>3. PICK k \in Nat : k = Len(b) BY <1>4
  <2>4. n + i \in DOMAIN c /\ n + j \in DOMAIN c /\ n + i < n + j
    BY <1>3, <1>4, <2>2, <2>3
  <2>5. c[n + i] = b[i] /\ c[n + j] = b[j] BY <1>3, <1>4, <2>2
  <2>6. <<c[n + i], c[n + j]>> \in Heard BY <1>7, <2>4 DEF Row
  <2> QED BY <2>5, <2>6
<1>11. \A p \in ToSet(b) : p # 0 /\ p < taken => p + 1 \in ToSet(b)
  <2> SUFFICES ASSUME NEW p \in ToSet(b), p # 0, p < taken, p + 1 \notin ToSet(b) PROVE FALSE
    OBVIOUS
  <2>1. p + 1 \in ToSet(a) /\ p \in Nat BY <1>5, <1>7
  <2>2. PICK i \in DOMAIN a : a[i] = p + 1 BY <2>1 DEF ToSet
  <2>3. PICK j \in DOMAIN b : b[j] = p BY DEF ToSet
  <2>4. <<p + 1, p>> \in Heard BY <1>9, <2>2, <2>3
  <2>5. p + 1 < p BY <2>4 DEF Heard
  <2> QED BY <2>1, <2>5
<1>12. Flow(taken, b, <<>>, <<>>, {}) BY <1>1, <1>5, <1>7, <1>10, <1>11 DEF Flow
<1>13. c = <<>> => b = <<>>
  <2>1. c = <<>> => Len(c) = 0 BY EmptySeq
  <2>2. c = <<>> => Len(b) = 0 BY <1>3, <1>4, <2>1
  <2> QED BY <2>2, EmptySeq DEF Positions
<1> QED BY <1>1, <1>5, <1>6, <1>12, <1>13 DEF Stream

(* The first of a piece without gaps has none.                             *)
LEMMA PrefixGapless ==
  ASSUME NEW a \in Positions, NEW b \in Positions, Gapless(a \o b)
  PROVE  Gapless(a)
<1>1. PICK c : c = a \o b OBVIOUS
<1>2. /\ Len(c) = Len(a) + Len(b) /\ \A i \in 1 .. Len(a) : c[i] = a[i]
  BY <1>1, Joined
<1>3. Len(a) \in Nat /\ Len(b) \in Nat BY PositionsSeq
<1>4. ToSet(a) \subseteq ToSet(c) BY <1>1, JoinedRow
<1>5. \A n, k \in Nat : \A i \in 2 .. n : i \in 1 .. n /\ i - 1 \in 1 .. n /\ i \in 2 .. n + k
  OBVIOUS
<1>6. ASSUME NEW k \in 2 .. Len(a) PROVE a[k] = a[k - 1] + 1
  <2>1. k \in 1 .. Len(a) /\ k - 1 \in 1 .. Len(a) /\ k \in 2 .. Len(c)
    BY <1>2, <1>3, <1>5
  <2>2. c[k] = c[k - 1] + 1 BY <1>1, <2>1 DEF Gapless
  <2> QED BY <1>2, <2>1, <2>2
<1> QED BY <1>1, <1>4, <1>6 DEF Gapless

(* The first of a piece and its rest.                                      *)
LEMMA PartsJoin ==
  ASSUME NEW at \in Positions, NEW n \in 0 .. Len(at)
  PROVE  at = SubSeq(at, 1, n) \o SubSeq(at, n + 1, Len(at))
<1> DEFINE p == SubSeq(at, 1, n)
           q == SubSeq(at, n + 1, Len(at))
<1>1. Len(at) \in Nat /\ n \in Nat /\ n <= Len(at) BY PositionsSeq
<1>2. /\ p \in Positions /\ Len(p) = n /\ \A k \in 1 .. n : p[k] = at[k]
  <2>1. \A m \in Nat : \A i \in 0 .. m : 1 \in 1 .. m + 1 /\ i \in 1 - 1 .. m /\ i - 1 + 1 = i
    OBVIOUS
  <2>2. \A k \in 1 .. n : 1 + k - 1 = k BY <1>1
  <2> QED BY <1>1, <2>1, <2>2, PartOfPiece
<1>3. /\ q \in Positions /\ Len(q) = Len(at) - n
      /\ \A k \in 1 .. Len(at) - n : q[k] = at[n + k]
  <2>1. n + 1 \in 1 .. Len(at) + 1 /\ Len(at) \in n + 1 - 1 .. Len(at) BY <1>1
  <2>2. Len(at) - (n + 1) + 1 = Len(at) - n /\ \A k \in 1 .. Len(at) - n : n + 1 + k - 1 = n + k
    BY <1>1
  <2>3. /\ q \in Positions /\ Len(q) = Len(at) - (n + 1) + 1
        /\ \A k \in 1 .. Len(at) - (n + 1) + 1 : q[k] = at[n + 1 + k - 1]
    BY <2>1, PartOfPiece
  <2> HIDE DEF q
  <2>4. PICK l : l = Len(at) - n OBVIOUS
  <2>5. Len(q) = l /\ \A k \in 1 .. l : q[k] = at[n + 1 + k - 1]
    BY <2>2, <2>3, <2>4
  <2>6. \A k \in 1 .. l : q[k] = at[n + k] BY <2>2, <2>4, <2>5
  <2> QED BY <2>3, <2>4, <2>5, <2>6
<1> HIDE DEF p, q
<1>4. /\ p \o q \in Positions /\ Len(p \o q) = Len(p) + Len(q)
      /\ \A i \in 1 .. Len(p) : (p \o q)[i] = p[i]
      /\ \A i \in 1 .. Len(q) : (p \o q)[Len(p) + i] = q[i]
  BY <1>2, <1>3, Joined
<1>5. PICK c : c = p \o q OBVIOUS
<1>6. c \in Positions /\ Len(c) = Len(at) BY <1>1, <1>2, <1>3, <1>4, <1>5
<1>7. \A i \in 1 .. Len(at) : c[i] = at[i]
  <2> SUFFICES ASSUME NEW i \in 1 .. Len(at) PROVE c[i] = at[i] OBVIOUS
  <2>1. CASE i <= n BY <1>1, <1>2, <1>4, <1>5, <2>1
  <2>2. CASE ~ i <= n
    <3>1. i - n \in 1 .. Len(at) - n /\ n + (i - n) = i BY <1>1, <2>2
    <3> QED BY <1>2, <1>3, <1>4, <1>5, <3>1
  <2> QED BY <2>1, <2>2
<1>8. c = at BY <1>6, <1>7, SeqEqual DEF Positions
<1> QED BY <1>5, <1>8 DEF p, q

(* It is no more than there is.                                            *)
LEMMA MuchOf ==
  ASSUME NEW kind, NEW at \in Positions
  PROVE  Much(kind, at) \in 0 .. Len(at)
<1>1. Len(at) \in 0 .. Len(at) BY PositionsSeq
<1> QED BY <1>1, FirstPlace DEF Much, UpToEnd

(* What it has taken is a whole answer, or it waits for more.              *)
LEMMA CheckedCall ==
  ASSUME NEW r \in CallRecord, WaitsHere(r), NEW b \in Positions, NEW x, NEW p, NEW a,
         NEW n, n = Much(r.kind, b), x = SubSeq(b, 1, n), p = SimpleKeys(r.prompt, x),
         Decides(r.kind, n, p, a),
         NEW q, q = [kind |-> r.kind, at |-> r.at \o x, prompt |-> p, answer |-> a]
  PROVE  /\ x \in Positions /\ r.at \o x \in Positions /\ p \in Promptly
         /\ Fits(q) /\ (a = "none" => WaitsHere(q))
<1>1. /\ r.at \in Positions /\ r.kind \in BlockingKind /\ r.prompt = SimpleKeys(Fresh, r.at)
      /\ ~ r.prompt.done /\ ~ r.prompt.aborted
      /\ r.kind # "blockingPrompt" => r.at = <<>>
  BY DEF WaitsHere, CallRecord
<1>2. n \in 0 .. Len(b) BY MuchOf
<1>3. x \in Positions /\ Len(x) = n BY <1>2, PartsOfPiece
<1>4. r.at \o x \in Positions BY <1>1, <1>3, Joined
<1>5. r.prompt \in Simply /\ p \in Simply
  BY <1>1, <1>3, FreshPrompt, SimpleKeysTypes
<1>6. p \in Promptly BY <1>5 DEF Simply
<1>7. p = SimpleKeys(Fresh, r.at \o x)
  BY <1>1, <1>3, FreshPrompt, SimpleKeysCompose
<1>8. q.kind = r.kind /\ q.at = r.at \o x /\ q.prompt = p /\ q.answer = a
  OBVIOUS
<1>9. r.kind # "blockingPrompt" => q.at = x /\ n = FirstOf(b, {"newline"})
  BY <1>1, <1>3, <1>8, AfterNothing DEF Much
<1>10. n = 0 => x = <<>> BY <1>3, EmptySeq DEF Positions
<1>11. Fits(q)
  <2> SUFFICES ASSUME a = "value" PROVE Fits(q) BY <1>8 DEF Fits
  <2>1. CASE r.kind = "blockingPrompt" BY <1>7, <1>8, <2>1 DEF Fits
  <2>2. CASE r.kind # "blockingPrompt"
    <3>1. n > 0 /\ n = FirstOf(b, {"newline"}) BY <1>9, <2>2 DEF Decides
    <3>2. n # 0 BY <1>2, <3>1
    <3>3. FirstOf(x, {"newline"}) = Len(x) BY <3>1, <3>2, LineOf DEF Starts
    <3>4. x # <<>> BY <1>3, <3>2, EmptySeq DEF Positions
    <3>5. r.kind \in {"blockingLine", "tryLine"} BY <1>1, <2>2 DEF BlockingKind
    <3> QED BY <1>8, <1>9, <2>2, <3>3, <3>4, <3>5 DEF Fits
  <2> QED BY <2>1, <2>2
<1>12. ASSUME a = "none" PROVE WaitsHere(q)
  <2>1. CASE r.kind = "blockingPrompt"
    <3>1. ~ p.done /\ ~ p.aborted BY <1>12, <2>1 DEF Decides
    <3> QED BY <1>1, <1>7, <1>8, <1>12, <2>1, <3>1 DEF WaitsHere
  <2>2. CASE r.kind # "blockingPrompt"
    <3>1. x = <<>> BY <1>10, <1>12, <2>2 DEF Decides
    <3>2. p = r.prompt BY <1>5, <3>1, SimpleNothing
    <3> QED BY <1>1, <1>7, <1>8, <1>9, <1>12, <2>2, <3>1, <3>2 DEF WaitsHere
  <2> QED BY <2>1, <2>2
<1> QED BY <1>3, <1>4, <1>6, <1>11, <1>12

(* Nobody but the owner notices what becomes of its call.                  *)
LEMMA OwnersCallOnly ==
  ASSUME NEW cs, NEW es, NEW bs, NEW l, NEW e, CallsAre(cs, es, bs, l, e),
         NEW c \in DOMAIN cs, cs[c].kind \in BlockingKind, NEW at, NEW p, NEW a, NEW ds,
         Changed(cs, c, cs[c].kind, at, p, a, ds), Fits(ds[c]), Pure(ds[c], e)
  PROVE  /\ CallsAre(ds, es, bs, l, e) /\ First(es, ds) = First(es, cs)
         /\ First(bs, ds) = First(bs, cs)
<1>1. /\ cs \in Seq(CallRecord) /\ ds \in Seq(CallRecord) /\ DOMAIN ds = DOMAIN cs
      /\ Len(ds) = Len(cs) /\ \A d \in DOMAIN cs : d # c => ds[d] = cs[d]
      /\ ds[c].kind = cs[c].kind
  BY DEF Changed, CallsAre
<1>2. CallsFrom(ds, cs, BlockingKind) BY <1>1 DEF CallsFrom
<1>3. WaitsFor(es, cs, TextKind) /\ WaitsFor(bs, cs, {"binary"}) BY DEF CallsAre
<1>4. TextKind \cap BlockingKind = {} /\ {"binary"} \cap BlockingKind = {}
  BY DEF TextKind, BlockingKind
<1>5. /\ WaitsFor(es, ds, TextKind) /\ First(es, ds) = First(es, cs)
      /\ es # <<>> => es[1] \in DOMAIN cs /\ ds[es[1]] = cs[es[1]]
  BY ONLY <1>1, <1>2, <1>3, <1>4, OthersWait
<1>6. WaitsFor(bs, ds, {"binary"}) /\ First(bs, ds) = First(bs, cs)
  BY ONLY <1>1, <1>2, <1>3, <1>4, OthersWait
<1>7. es # <<>> => Goes(ds[es[1]]) BY <1>5 DEF CallsAre
<1>8. (\A d \in DOMAIN ds : Fits(ds[d])) /\ (l = {} => \A d \in DOMAIN ds : Pure(ds[d], e))
  BY <1>1 DEF CallsAre
<1> QED BY <1>1, <1>5, <1>6, <1>7, <1>8 DEF CallsAre

(* The call takes what there is and is answered, or waits on.              *)
LEMMA TakesAndAnswers ==
  ASSUME NEW cs \in Seq(CallRecord), NEW c \in DOMAIN cs, cs[c].answer = "none",
         NEW x \in Positions, NEW p \in Promptly,
         NEW a \in {"none", "value", "failed", "nothing"},
         NEW ds, ds = Answer([Take(cs, c, x) EXCEPT ![c].prompt = p], c, a)
  PROVE  Changed(cs, c, cs[c].kind, cs[c].at \o x, p, a, ds)
<1>1. PICK es : es = [Take(cs, c, x) EXCEPT ![c].prompt = p] OBVIOUS
<1>2. Changed(cs, c, cs[c].kind, cs[c].at \o x, p, cs[c].answer, es)
  BY <1>1, PromptChanges
<1>3. PICK y : y = cs[c].at \o x OBVIOUS
<1>4. /\ es \in Seq(CallRecord) /\ c \in DOMAIN es /\ DOMAIN es = DOMAIN cs
      /\ Len(es) = Len(cs) /\ \A d \in DOMAIN cs : d # c => es[d] = cs[d]
      /\ es[c].kind = cs[c].kind /\ es[c].at = y /\ es[c].prompt = p /\ es[c].answer = "none"
  BY <1>2, <1>3 DEF Changed
<1>5. ds = Answer(es, c, a) BY <1>1
<1>6. Changed(es, c, es[c].kind, es[c].at, es[c].prompt,
              IF es[c].answer = "none" THEN a ELSE es[c].answer, ds)
  BY ONLY <1>4, <1>5, a \in {"none", "value", "failed", "nothing"}, AnswerChanges
<1>7. Changed(es, c, cs[c].kind, y, p, a, ds) BY <1>4, <1>6
<1> QED BY <1>3, <1>4, <1>7 DEF Changed

(* The owner's place after it has looked.                                  *)
Looked(o, w, b) == [o EXCEPT !.buffer = b, !.place = w]

(* The owner has looked at what has come.                                  *)
LEMMA LookedFields ==
  ASSUME NEW o \in Owner, NEW b \in Positions, NEW w \in {"waiting", "idle"}
  PROVE  /\ Looked(o, w, b) \in Owner /\ Looked(o, w, b).place = w
         /\ Looked(o, w, b).buffer = b /\ Looked(o, w, b).call = o.call
BY DEF Looked, Owner

(* What the owner sees when it looks at what has come.                     *)
Sees(c, r, b) ==
  /\ blocking.place = "checking" /\ c = blocking.call /\ r = calls[c] /\ b = blocking.buffer
  /\ c \in DOMAIN calls /\ r \in CallRecord /\ b \in Positions /\ blocking \in Owner
  /\ WaitsHere(r) /\ "blocking" \in readers
  /\ Stream("blocking", r.at \o b, <<>>, <<>>, {}) /\ 0 \notin ToSet(r.at \o b)

(* There is a call, and what it has got and what has come have no gap.     *)
LEMMA OwnerSees ==
  ASSUME ClientsInv, blocking.place = "checking"
  PROVE  \E c, r, b : Sees(c, r, b)
<1>1. FieldsInv /\ CallsInv /\ BlockingInv BY DEF ClientsInv
<1>2. BlockingCall BY DEF BlockingCall
<1>3. PICK c : c = blocking.call OBVIOUS
<1>4. PICK r : r = calls[c] OBVIOUS
<1>5. PICK b : b = blocking.buffer OBVIOUS
<1>6. c \in DOMAIN calls /\ WaitsHere(r) /\ "blocking" \in readers
  BY <1>1, <1>2, <1>3, <1>4 DEF BlockingInv
<1>7. Got = r.at BY <1>2, <1>3, <1>4 DEF Got
<1>8. Stream("blocking", r.at \o b, <<>>, <<>>, {}) /\ 0 \notin ToSet(r.at \o b)
  BY <1>1, <1>5, <1>6, <1>7 DEF BlockingInv
<1>9. r \in CallRecord
  BY <1>1, <1>4, <1>6, CallsSeq, ElementOfSeq DEF CallsInv, CallsAre
<1>10. blocking \in Owner /\ b \in Positions BY <1>1, <1>5 DEF FieldsInv, Owner
<1> QED BY <1>3, <1>4, <1>5, <1>6, <1>8, <1>9, <1>10 DEF Sees

(* What it does then.                                                      *)
LEMMA LookingKeeps ==
  ASSUME ClientsInv, UNCHANGED stdinVars,
         UNCHANGED <<config, doing, dying, entries, binary, buffer, binaryBuffer, mail,
                     historyOfReads>>,
         NEW c, NEW r, NEW b, Sees(c, r, b),
         NEW v \in Positions, NEW y \in Positions, NEW p, NEW a, NEW ds, calls' = ds,
         Changed(calls, c, r.kind, v, p, a, ds), Fits(ds[c]), a = "none" => WaitsHere(ds[c]),
         v \o y = r.at \o b, a = "value" \/ a = "none" => Gapless(v),
         Stream("blocking", y, <<>>, <<>>, {}), 0 \notin ToSet(y),
         blocking' = Looked(blocking, IF a = "none" THEN "waiting" ELSE "idle", y)
  PROVE  ClientsInv'
<1>1. Inv /\ LoopInv /\ FieldsInv /\ CallsInv /\ BlockingInv BY DEF ClientsInv
<1>2. /\ blocking \in Owner /\ c = blocking.call /\ r = calls[c] /\ c \in DOMAIN calls
      /\ "blocking" \in readers /\ r.kind \in BlockingKind
      /\ Stream("blocking", r.at \o b, <<>>, <<>>, {}) /\ 0 \notin ToSet(r.at \o b)
  BY DEF Sees, WaitsHere
<1>3. PICK o : o = Looked(blocking, IF a = "none" THEN "waiting" ELSE "idle", y)
  OBVIOUS
<1>4. PICK w : w = IF a = "none" THEN "waiting" ELSE "idle" OBVIOUS
<1>5. o \in Owner /\ o.place = w /\ o.buffer = y /\ o.call = c
  <2>1. w \in {"waiting", "idle"} BY <1>4
  <2>2. o = Looked(blocking, w, y) BY <1>3, <1>4
  <2> QED BY SMTT(30), <1>2, <2>1, <2>2, LookedFields
<1>6. ds \in Seq(CallRecord) /\ Len(ds) = Len(calls) /\ c \in DOMAIN ds
      /\ ds[c].at = v /\ ds[c].answer = a /\ ds[c].kind = r.kind
  BY <1>2 DEF Changed
<1>7. /\ CallsAre(ds, entries, binary, late, ends) /\ First(entries, ds) = First(entries, calls)
      /\ First(binary, ds) = First(binary, calls)
  <2>1. CallsAre(calls, entries, binary, late, ends) BY <1>1 DEF CallsInv
  <2>2. r.kind # "binary" BY <1>2 DEF BlockingKind
  <2>3. Pure(ds[c], ends) BY <1>6, <2>2 DEF Pure
  <2>4. Changed(calls, c, calls[c].kind, v, p, a, ds) /\ calls[c].kind \in BlockingKind
    BY <1>2
  <2>5. Fits(ds[c]) OBVIOUS
  <2>6. PICK es : es = entries OBVIOUS
  <2>7. PICK bs : bs = binary OBVIOUS
  <2>8. PICK l : l = late OBVIOUS
  <2>9. PICK e : e = ends OBVIOUS
  <2>10. PICK cs : cs = calls OBVIOUS
  <2>11. CallsAre(cs, es, bs, l, e) /\ c \in DOMAIN cs /\ cs[c].kind \in BlockingKind
    BY ONLY <1>2, <2>1, <2>4, <2>6, <2>7, <2>8, <2>9, <2>10
  <2>12. Changed(cs, c, cs[c].kind, v, p, a, ds) /\ Pure(ds[c], e)
    BY ONLY <2>3, <2>4, <2>9, <2>10
  <2>13. /\ CallsAre(ds, es, bs, l, e) /\ First(es, ds) = First(es, cs)
         /\ First(bs, ds) = First(bs, cs)
    BY ONLY <2>5, <2>11, <2>12, OwnersCallOnly
  <2> QED BY ONLY <2>6, <2>7, <2>8, <2>9, <2>10, <2>13
<1>8. Len(ds) <= config.calls BY <1>1, <1>6 DEF FieldsInv
<1>9. PICK at : at = (IF o.place \in {"checking", "waiting"} THEN ds[o.call].at ELSE <<>>)
                        \o o.buffer
  OBVIOUS
<1>10. at = IF a = "none" THEN r.at \o b ELSE y
  <2>1. <<>> \o y = y BY AfterNothing
  <2> QED BY <1>4, <1>5, <1>6, <1>9, <2>1
<1>11. Stream("blocking", at, <<>>, <<>>, {}) /\ 0 \notin ToSet(at)
  BY <1>2, <1>10
<1>12. o.place \in {"checking", "waiting"} => o.call \in DOMAIN ds /\ WaitsHere(ds[o.call])
  BY <1>4, <1>5, <1>6
<1>13. o.place \in {"checking", "waiting", "idle"} BY <1>4, <1>5
<1>14. UNCHANGED stdinVars /\ config' = config /\ blocking' = o /\ calls' = ds
  BY <1>3
<1>15. BlockingInv'
  BY ONLY <1>1, <1>2, <1>5, <1>6, <1>9, <1>11, <1>12, <1>13, <1>14, BlockingThen
<1>16. blocking' \in Owner BY <1>5, <1>14
<1>17. UNCHANGED <<config, doing, dying, entries, binary, buffer, binaryBuffer, mail,
                   historyOfReads>>
  OBVIOUS
<1> QED BY ONLY ClientsInv, <1>7, <1>8, <1>14, <1>15, <1>16, <1>17, OwnerCalls

(* The owner looks at what has come, takes of it, and goes or waits.       *)
LEMMA CheckKeeps ==
  ASSUME ClientsInv, Check
  PROVE  ClientsInv'
<1>1. blocking.place = "checking" /\ UNCHANGED stdinVars
      /\ UNCHANGED <<config, doing, dying, entries, binary, buffer, binaryBuffer, mail,
                     historyOfReads>>
  BY DEF Check
<1>2. PICK c, r, b : Sees(c, r, b) BY <1>1, OwnerSees
<1>3. /\ c = blocking.call /\ r = calls[c] /\ b = blocking.buffer
      /\ c \in DOMAIN calls /\ r \in CallRecord /\ b \in Positions /\ blocking \in Owner
      /\ WaitsHere(r) /\ Stream("blocking", r.at \o b, <<>>, <<>>, {})
      /\ 0 \notin ToSet(r.at \o b)
  BY <1>2 DEF Sees
<1>4. PICK n : n = Much(r.kind, b) OBVIOUS
<1>5. PICK x : x = SubSeq(b, 1, n) OBVIOUS
<1>6. PICK y : y = SubSeq(b, n + 1, Len(b)) OBVIOUS
<1>7. PICK p : p = SimpleKeys(r.prompt, x) OBVIOUS
<1>8. PICK a : a = IF blocking.errors THEN "failed"
                   ELSE IF r.kind = "blockingPrompt"
                   THEN IF p.done THEN "value" ELSE IF p.aborted THEN "failed" ELSE "none"
                   ELSE IF n > 0 THEN "value"
                        ELSE IF r.kind = "tryLine" THEN "nothing" ELSE "none"
  OBVIOUS
<1>9. /\ calls' = IF blocking.errors THEN Answer(calls, c, a)
                  ELSE Answer([Take(calls, c, x) EXCEPT ![c].prompt = p], c, a)
      /\ blocking' = [blocking EXCEPT !.buffer = IF blocking.errors THEN @ ELSE y,
                                      !.place = IF a = "none" THEN "waiting" ELSE "idle"]
  <2>1. n = IF r.kind = "blockingPrompt" THEN UpToEnd(b) ELSE FirstOf(b, {"newline"})
    BY <1>4 DEF Much
  <2>2. n = IF calls[blocking.call].kind = "blockingPrompt" THEN UpToEnd(blocking.buffer)
            ELSE FirstOf(blocking.buffer, {"newline"})
    BY <1>3, <2>1
  <2>3. x = SubSeq(blocking.buffer, 1, n)
        /\ y = SubSeq(blocking.buffer, n + 1, Len(blocking.buffer))
    BY <1>3, <1>5, <1>6
  <2>4. p = SimpleKeys(calls[blocking.call].prompt, x) BY <1>3, <1>7
  <2>5. a = IF blocking.errors THEN "failed"
            ELSE IF calls[blocking.call].kind = "blockingPrompt"
            THEN IF p.done THEN "value" ELSE IF p.aborted THEN "failed" ELSE "none"
            ELSE IF n > 0 THEN "value"
                 ELSE IF calls[blocking.call].kind = "tryLine" THEN "nothing" ELSE "none"
    BY <1>3, <1>8
  <2>6. /\ calls' = IF blocking.errors THEN Answer(calls, blocking.call, a)
                    ELSE Answer([Take(calls, blocking.call, x) EXCEPT
                                     ![blocking.call].prompt = p], blocking.call, a)
        /\ blocking' = [blocking EXCEPT
               !.buffer = IF blocking.errors THEN @
                          ELSE SubSeq(@, n + 1, Len(@)),
               !.place = IF a = "none" THEN "waiting" ELSE "idle"]
    BY ONLY Check, <2>2, <2>3, <2>4, <2>5 DEF Check
  <2> QED BY <1>3, <2>3, <2>6
<1>10. blocking' = Looked(blocking, IF a = "none" THEN "waiting" ELSE "idle",
                          IF blocking.errors THEN b ELSE y)
  <2>1. CASE blocking.errors BY <1>3, <1>9, <2>1 DEF Looked
  <2>2. CASE ~ blocking.errors BY <1>3, <1>9, <2>2 DEF Looked
  <2> QED BY <2>1, <2>2
<1>11. taken \in Nat BY DEF ClientsInv, Inv, TypeOK
<1>12. r.at \in Positions /\ r.answer = "none" BY <1>3 DEF CallRecord, WaitsHere
<1>13. CASE blocking.errors
  <2>1. a = "failed" BY <1>8, <1>13
  <2>2. PICK ds : ds = Answer(calls, c, "failed") OBVIOUS
  <2>3. calls' = ds BY <1>9, <1>13, <2>1, <2>2
  <2>4. calls \in Seq(CallRecord) BY DEF ClientsInv, CallsInv, CallsAre
  <2>5. Changed(calls, c, r.kind, r.at, r.prompt, "failed", ds)
    <3>1. Changed(calls, c, calls[c].kind, calls[c].at, calls[c].prompt,
                  IF calls[c].answer = "none" THEN "failed" ELSE calls[c].answer, ds)
      BY <1>3, <2>2, <2>4, AnswerChanges
    <3> QED BY <1>3, <1>12, <3>1
  <2>6. ds[c].answer = "failed" BY <2>5 DEF Changed
  <2>7. Fits(ds[c]) /\ (a = "none" => WaitsHere(ds[c])) /\ ~ (a = "value" \/ a = "none")
    BY <2>1, <2>6 DEF Fits
  <2>8. Stream("blocking", b, <<>>, <<>>, {}) BY <1>3, <1>11, <1>12, StreamRest
  <2>9. 0 \notin ToSet(b) BY <1>3, <1>12, JoinedRow
  <2>10. blocking' = Looked(blocking, IF a = "none" THEN "waiting" ELSE "idle", b)
    BY <1>10, <1>13
  <2>11. Changed(calls, c, r.kind, r.at, r.prompt, a, ds) BY <2>1, <2>5
  <2> QED BY ONLY ClientsInv, <1>1, <1>2, <1>3, <1>12, <2>3, <2>7, <2>8, <2>9, <2>10, <2>11,
                  LookingKeeps
<1>14. CASE ~ blocking.errors
  <2>1. Decides(r.kind, n, p, a) /\ a \in {"none", "value", "failed", "nothing"}
    <3>1. n \in Nat /\ (n > 0 \/ n = 0)
      <4>1. n \in 0 .. Len(b) BY <1>3, <1>4, MuchOf
      <4> QED BY <4>1
    <3>2. a = IF r.kind = "blockingPrompt"
              THEN IF p.done THEN "value" ELSE IF p.aborted THEN "failed" ELSE "none"
              ELSE IF n > 0 THEN "value"
                   ELSE IF r.kind = "tryLine" THEN "nothing" ELSE "none"
      BY <1>8, <1>14
    <3>3. CASE r.kind = "blockingPrompt" BY <3>2, <3>3 DEF Decides
    <3>4. CASE r.kind # "blockingPrompt" BY <3>1, <3>2, <3>4 DEF Decides
    <3> QED BY <3>3, <3>4
  <2>2. PICK q : q = [kind |-> r.kind, at |-> r.at \o x, prompt |-> p, answer |-> a]
    OBVIOUS
  <2>3. /\ x \in Positions /\ r.at \o x \in Positions /\ p \in Promptly
        /\ Fits(q) /\ (a = "none" => WaitsHere(q))
    <3>1. r \in CallRecord /\ WaitsHere(r) /\ b \in Positions BY <1>3
    <3> QED BY ONLY <3>1, <1>4, <1>5, <1>7, <2>1, <2>2, CheckedCall
  <2>4. PICK ds : ds = Answer([Take(calls, c, x) EXCEPT ![c].prompt = p], c, a)
    OBVIOUS
  <2>5. calls' = ds BY <1>9, <1>14, <2>4
  <2>6. PICK v : v = r.at \o x OBVIOUS
  <2>7. Changed(calls, c, r.kind, v, p, a, ds)
    <3>1. calls \in Seq(CallRecord) BY DEF ClientsInv, CallsInv, CallsAre
    <3>2. Changed(calls, c, calls[c].kind, calls[c].at \o x, p, a, ds)
      BY <1>3, <1>12, <2>1, <2>3, <2>4, <3>1, TakesAndAnswers
    <3> QED BY <1>3, <2>6, <3>2
  <2>8. ds[c] = q BY <2>2, <2>6, <2>7 DEF Changed
  <2>9. n \in 0 .. Len(b) BY <1>3, <1>4, MuchOf
  <2>10. y \in Positions /\ b = x \o y
    BY <1>3, <1>5, <1>6, <2>9, PartsOfPiece, PartsJoin
  <2>11. v \in Positions /\ v \o y = r.at \o b
    <3>1. \A s, t, u \in Seq(0 .. Length) : (s \o t) \o u = s \o (t \o u)
      BY ConcatAssociative
    <3> QED BY <1>12, <2>3, <2>6, <2>10, <3>1 DEF Positions
  <2>12. Gapless(r.at \o b)
    <3>1. PICK w : w = r.at \o b OBVIOUS
    <3>2. w \in Positions BY <1>3, <1>12, <3>1, Joined
    <3>3. Flow(taken, w, <<>>, <<>>, {}) /\ 0 \notin ToSet(w)
      BY <1>3, <3>1 DEF Stream
    <3>4. Gapless(w) BY <1>11, <3>2, <3>3, FlowGapless
    <3> QED BY <3>1, <3>4
  <2>13. Gapless(v)
    <3>1. Gapless(v \o y) BY <2>11, <2>12
    <3> QED BY <2>10, <2>11, <3>1, PrefixGapless
  <2>14. Stream("blocking", y, <<>>, <<>>, {}) /\ 0 \notin ToSet(y)
    <3>1. Stream("blocking", v \o y, <<>>, <<>>, {}) /\ 0 \notin ToSet(v \o y)
      BY <1>3, <2>11
    <3>2. Stream("blocking", y, <<>>, <<>>, {})
      BY <1>11, <2>10, <2>11, <3>1, StreamRest
    <3>3. 0 \notin ToSet(y) BY <2>10, <2>11, <3>1, JoinedRow
    <3> QED BY <3>2, <3>3
  <2>15. blocking' = Looked(blocking, IF a = "none" THEN "waiting" ELSE "idle", y)
    BY <1>10, <1>14
  <2>16. Fits(ds[c]) /\ (a = "none" => WaitsHere(ds[c])) BY <2>3, <2>8
  <2>17. a = "value" \/ a = "none" => Gapless(v) BY <2>13
  <2> QED BY ONLY ClientsInv, <1>1, <1>2, <2>5, <2>7, <2>10, <2>11, <2>14, <2>15, <2>16, <2>17,
                  LookingKeeps
<1> QED BY <1>13, <1>14

----------------------------------------------------------------------------
(* The invariance of all this.                                             *)

(* It holds initially, ...                                                 *)
LEMMA ClientsInitially == ASSUME ClientsInit PROVE ClientsInv
<1>1. /\ Init /\ config \in Configs
      /\ calls = <<>> /\ doing = "nothing" /\ dying = FALSE
      /\ mail = <<>> /\ entries = <<>> /\ binary = <<>>
      /\ buffer = <<>> /\ binaryBuffer = <<>>
      /\ blocking = [place |-> "none", call |-> 0, buffer |-> <<>>, errors |-> FALSE,
                     event |-> FALSE]
      /\ used = <<>> /\ lost = {} /\ given = {} /\ late = {} /\ aborts = 0 /\ ends = {}
  BY DEF ClientsInit
<1>2. Inv BY <1>1, Initially
<1>3. DOMAIN <<>> = {} /\ Len(<<>>) = 0 /\ <<>> \in Positions /\ \A S : <<>> \in Seq(S)
  BY EmptySeq, LenProperties DEF Positions
<1>4. LoopInv BY <1>1 DEF Init, LoopInv
<1>5. FieldsInv
  <2>1. Len(calls) <= config.calls
    <3>1. config.calls \in 0 .. MaxCalls BY <1>1, ClientsAssumption
    <3> QED BY <1>1, <1>3, <3>1
  <2>2. mail \in Seq(Letter) /\ buffer \in Items /\ binaryBuffer \in Items /\ used \in Positions
    BY <1>1, <1>3 DEF Items
  <2>3. Messages(<<>>) BY <1>3 DEF Messages
  <2>4. blocking \in [place : {"none", "idle", "checking", "waiting", "closed"},
                      call : Nat, buffer : Positions, errors : BOOLEAN, event : BOOLEAN]
    BY <1>1, <1>3
  <2>5. \A k \in DOMAIN mail : mail[k].at # <<>> BY <1>1, <1>3
  <2> QED BY <1>1, <2>1, <2>2, <2>3, <2>4, <2>5 DEF FieldsInv
<1>6. CallsInv
  <2>1. calls \in Seq(CallRecord) /\ DOMAIN calls = {} BY <1>1, <1>3
  <2>2. WaitsFor(entries, calls, TextKind) /\ WaitsFor(binary, calls, {"binary"})
    BY <1>1, NobodyWaits
  <2> QED BY <1>1, <2>1, <2>2 DEF CallsInv, CallsAre
<1>7. BlockingInv
  <2>1. blocking.place = "none" /\ blocking.buffer = <<>> /\ readers = {}
    BY <1>1 DEF Init
  <2> QED BY <2>1 DEF BlockingInv, BlockingCall
<1>8. DoingInv BY <1>1 DEF DoingInv
<1>9. \A to : MailTo(mail, to) = {} /\ MailNow(mail, to) = {}
  BY <1>1, <1>3 DEF MailTo, MailNow
<1>10. KeptInv
  <2>1. All(<<>>, <<>>, <<>>, {}) = {} BY NothingHeard
  <2>2. Sorted(<<>>, <<>>, <<>>, {}, InText)
    BY <1>3, NothingTaken DEF Sorted, InARow
  <2> QED BY <1>1, <1>9, <2>1, <2>2 DEF KeptInv, TextWay
<1>11. StreamsInv
  <2>1. First(entries, calls) = <<>> /\ First(binary, calls) = <<>>
    BY <1>1 DEF First
  <2>2. \A r : Stream(r, <<>>, <<>>, <<>>, {}) BY NothingHeard DEF Stream
  <2>3. EndKnown(<<>>, <<>>, {}) BY <1>3 DEF EndKnown
  <2> QED BY <1>1, <1>9, <2>1, <2>2, <2>3 DEF StreamsInv
<1> QED BY <1>2, <1>4, <1>5, <1>6, <1>7, <1>8, <1>10, <1>11 DEF ClientsInv

(* ... when nothing happens ...                                            *)
LEMMA ClientsStutter == ASSUME ClientsInv, UNCHANGED allVars PROVE ClientsInv'
<1>1. UNCHANGED stdinVars /\ UNCHANGED actorAndMail /\ calls' = calls /\ blocking' = blocking
      /\ config' = config
  BY DEF allVars, clientVars, actorVars, actorAndMail
<1>2. PICK q : q \notin {"text", "binary", "subscription"}
  BY NoSetContainsEverything
<1>3. Inv /\ LoopInv /\ CallsInv /\ BlockingInv BY DEF ClientsInv
<1>4. Quiet(q) /\ Carried("blocking") /\ readers' = readers
  BY <1>1, <1>3, StillIsQuiet
<1>5. BlockingInv' BY <1>1, <1>3, <1>4, BlockingStays
<1>6. blocking' \in Owner BY <1>1 DEF ClientsInv, FieldsInv, Owner
<1> QED BY <1>1, <1>2, <1>4, <1>5, <1>6, Unbothered

(* ... and after every step of whoever takes one.                          *)
LEMMA ClientsStep == ASSUME ClientsInv, ClientsNext PROVE ClientsInv'
<1>1. CASE ReaderStep BY <1>1, ReaderStepKeeps
<1>2. CASE \E i \in Imps : DeliverChunk(i) \/ DeliverEnd(i)
  BY <1>2, ReadingKeeps
<1>3. CASE \E kind \in ActorKind : ReadText(kind) BY <1>3, ReadTextKeeps
<1>4. CASE ReadBinary BY <1>4, ReadBinaryKeeps
<1>5. CASE HandleMail BY <1>5, HandleMailKeeps
<1>6. CASE Subscribe BY <1>6, SubscribeKeeps
<1>7. CASE Abort BY <1>7, AbortKeeps
<1>8. CASE CloseText BY <1>8, CloseTextKeeps
<1>9. CASE CloseBinary BY <1>9, CloseBinaryKeeps
<1>10. CASE Delete BY <1>10, DeleteKeeps
<1>11. CASE \E kind \in BlockingKind : CallBlocking(kind)
  BY <1>11, CallBlockingKeeps
<1>12. CASE OpenBlocking \/ CloseBlocking \/ Wake BY <1>12, OwnerKeeps
<1>13. CASE Check BY <1>13, CheckKeeps
<1> QED BY <1>1, <1>2, <1>3, <1>4, <1>5, <1>6, <1>7, <1>8, <1>9, <1>10, <1>11, <1>12, <1>13
        DEF ClientsNext

(* So it holds always.                                                     *)
LEMMA ClientsInvariance == ClientsSpec => []ClientsInv
<1>1. ClientsInv /\ [ClientsNext]_allVars => ClientsInv'
  BY ClientsStep, ClientsStutter
<1> QED BY <1>1, ClientsInitially, PTL DEF ClientsSpec

(* The readers stay registered as they were however the clients use them.  *)
THEOREM ClientsRegister == ClientsSpec => []RegistrationIsSound
<1>1. ClientsInv => RegistrationIsSound
  BY DEF ClientsInv, Inv, RegistrationIsSound
<1> QED BY <1>1, ClientsInvariance, PTL

(* Every variable of the clients stays in its type: the cursor of a prompt *)
(* is in what was typed, and m_ReadEntries and m_ReadEntriesBinary name    *)
(* calls that were made.                                                   *)
THEOREM ClientsTypeCorrect == ClientsSpec => []ClientsTypeOK
<1>1. ASSUME ClientsInv PROVE ClientsTypeOK
  <2>1. Inv /\ FieldsInv /\ CallsInv BY <1>1 DEF ClientsInv
  <2>2. TypeOK /\ taken \in 0 .. Length
    <3>1. TypeOK BY <2>1 DEF Inv
    <3>2. taken \in 0 .. written /\ written \in 0 .. Length BY <3>1 DEF TypeOK
    <3> QED BY <3>1, <3>2, InputAssumption
  <2>3. calls \in Seq(CallRecord) /\ WaitsFor(entries, calls, TextKind)
        /\ WaitsFor(binary, calls, {"binary"})
    BY <2>1 DEF CallsInv, CallsAre
  <2>4. calls \in Seq([kind : ActorKind \cup BlockingKind, at : Positions, prompt : Prompts,
                       answer : {"none", "value", "failed", "nothing"}])
    <3> DEFINE T == [kind : ActorKind \cup BlockingKind, at : Positions, prompt : Prompts,
                     answer : {"none", "value", "failed", "nothing"}]
    <3>1. CallRecord \subseteq T BY DEF CallRecord, Promptly
    <3> HIDE DEF T
    <3>2. \A i \in 1 .. Len(calls) : calls[i] \in T BY <2>3, <3>1, ElementOfSeq
    <3>3. calls \in Seq(T) BY <2>3, <3>2, CallsSeq, SeqDef
    <3> QED BY <3>3 DEF T
  <2>5. \A c \in DOMAIN calls : calls[c].prompt.pos <= Len(calls[c].prompt.typed)
    BY <2>3, CallsSeq DEF Promptly
  <2>6. \A es, kinds : WaitsFor(es, calls, kinds) => es \in Seq(DOMAIN calls)
    <3> SUFFICES ASSUME NEW es, NEW kinds, WaitsFor(es, calls, kinds)
                 PROVE  es \in Seq(DOMAIN calls)
      OBVIOUS
    <3>1. es \in Seq(Nat) /\ \A k \in DOMAIN es : es[k] \in DOMAIN calls
      BY DEF WaitsFor
    <3>2. DOMAIN es = 1 .. Len(es) BY <3>1, LenProperties
    <3> QED BY <3>1, <3>2, LenProperties
  <2>7. given \subseteq 0 .. Length BY <2>1, <2>2, InputAssumption DEF FieldsInv
  <2>8. mail \in Seq([to : {"text", "binary"}, type : {"stdIn", "endOfFile", "error"},
                      at : Positions, age : 0 .. aborts])
    BY <2>1 DEF FieldsInv, Letter
  <2>9. entries \in Seq(DOMAIN calls) /\ binary \in Seq(DOMAIN calls)
    BY <2>3, <2>6
  <2> QED BY <2>1, <2>2, <2>4, <2>5, <2>7, <2>8, <2>9 DEF ClientsTypeOK, FieldsInv
<1> QED BY <1>1, ClientsInvariance, PTL

(* A call of the actor or of the blocking reader that has a value has got  *)
(* a whole line, what was typed at its prompt, or all input up to an end.  *)
THEOREM ReadsWhole == ClientsSpec => []ReadsAreWhole
<1>1. ASSUME ClientsInv PROVE ReadsAreWhole
  <2>1. calls \in Seq(CallRecord) /\ (\A c \in DOMAIN calls : Fits(calls[c]))
        /\ (late = {} => \A c \in DOMAIN calls : Pure(calls[c], ends))
    BY <1>1 DEF ClientsInv, CallsInv, CallsAre
  <2> SUFFICES ASSUME NEW c \in DOMAIN calls, calls[c].answer = "value"
               PROVE  LET r == calls[c]
                      IN /\ r.kind \in {"line", "blockingLine", "tryLine"} =>
                                r.at # <<>> /\ FirstOf(r.at, {"newline"}) = Len(r.at)
                         /\ r.kind = "prompt" => r.prompt.typed = Keys(Fresh, r.at).prompt.typed
                         /\ r.kind = "blockingPrompt" =>
                                r.prompt.typed = SimpleKeys(Fresh, r.at).typed
                         /\ late = {} =>
                                /\ 0 \notin ToSet(r.at)
                                /\ \A k \in 2 .. Len(r.at) : r.at[k] = r.at[k - 1] + 1
                                /\ r.kind = "binary" /\ r.at # <<>> => Last(r.at) \in ends
    BY DEF ReadsAreWhole
  <2>2. PICK r : r = calls[c] OBVIOUS
  <2>3. Fits(r) /\ (late = {} => Pure(r, ends)) /\ r.answer = "value"
    BY <2>1, <2>2
  <2>4. late = {} => Gapless(r.at) /\ (r.kind = "binary" /\ r.at # <<>> => Last(r.at) \in ends)
    BY <2>3 DEF Pure
  <2> QED BY <2>2, <2>3, <2>4 DEF Fits, Gapless
<1> QED BY <1>1, ClientsInvariance, PTL

(* What is on its way, piece by piece, is what was taken, then the pieces  *)
(* that are buffered, and then those that are dispatched.                  *)
LEMMA WayIs ==
  ASSUME used \in Positions, buffer \in Items, mail \in Letters
  PROVE  LET m == Len(buffer)
             n == Len(mail)
         IN /\ DOMAIN Way = 1 .. 1 + m + n /\ m \in Nat /\ n \in Nat
            /\ DOMAIN buffer = 1 .. m /\ DOMAIN mail = 1 .. n
            /\ Way[1] = used
            /\ \A k \in 1 .. m : Way[1 + k] = buffer[k].at
            /\ \A k \in 1 .. n :
                  Way[1 + m + k] = IF mail[k].to = "text" THEN mail[k].at ELSE <<>>
<1> DEFINE m == Len(buffer)
           n == Len(mail)
           a == <<used>>
           b == [k \in DOMAIN buffer |-> buffer[k].at]
           c == [k \in DOMAIN mail |-> IF mail[k].to = "text" THEN mail[k].at ELSE <<>>]
<1>1. /\ m \in Nat /\ DOMAIN buffer = 1 .. m
      /\ \A k \in 1 .. m : buffer[k].at \in Positions
  BY ItemsSeq
<1>2. /\ n \in Nat /\ DOMAIN mail = 1 .. n
      /\ \A k \in 1 .. n : mail[k].at \in Positions
  BY LettersSeq
<1>3. a \in Seq(Positions) /\ Len(a) = 1 /\ a[1] = used OBVIOUS
<1>4. b \in Seq(Positions) /\ Len(b) = m /\ \A k \in 1 .. m : b[k] = buffer[k].at
  <2>1. b \in [1 .. m -> Positions] BY <1>1
  <2>2. b \in Seq(Positions) BY <1>1, <2>1, SeqDef
  <2> QED BY <1>1, <2>1, <2>2, LenProperties
<1>5. /\ c \in Seq(Positions) /\ Len(c) = n
      /\ \A k \in 1 .. n : c[k] = IF mail[k].to = "text" THEN mail[k].at ELSE <<>>
  <2>1. c \in [1 .. n -> Positions] BY <1>2, EmptySeq DEF Positions
  <2>2. c \in Seq(Positions) BY <1>2, <2>1, SeqDef
  <2> QED BY <1>2, <2>1, <2>2, LenProperties
<1>6. Way = (a \o b) \o c BY DEF Way
<1> HIDE DEF a, b, c, m, n
<1>7. PICK ab : ab = a \o b OBVIOUS
<1>8. /\ ab \in Seq(Positions) /\ Len(ab) = 1 + m
      /\ \A k \in 1 .. 1 + m : ab[k] = IF k <= 1 THEN a[k] ELSE b[k - 1]
  <2>1. /\ ab \in Seq(Positions) /\ Len(ab) = Len(a) + Len(b)
        /\ \A k \in 1 .. Len(a) + Len(b) : ab[k] = IF k <= Len(a) THEN a[k] ELSE b[k - Len(a)]
    BY <1>3, <1>4, <1>7, ConcatProperties
  <2> QED BY <1>3, <1>4, <2>1
<1>9. PICK w : w = ab \o c OBVIOUS
<1>10. /\ w \in Seq(Positions) /\ Len(w) = 1 + m + n
       /\ \A k \in 1 .. 1 + m + n : w[k] = IF k <= 1 + m THEN ab[k] ELSE c[k - (1 + m)]
  <2>1. /\ w \in Seq(Positions) /\ Len(w) = Len(ab) + Len(c)
        /\ \A k \in 1 .. Len(ab) + Len(c) :
              w[k] = IF k <= Len(ab) THEN ab[k] ELSE c[k - Len(ab)]
    BY <1>5, <1>8, <1>9, ConcatProperties
  <2>2. Len(ab) = 1 + m /\ Len(c) = n BY <1>5, <1>8
  <2> QED BY <2>1, <2>2
<1>11. DOMAIN w = 1 .. 1 + m + n BY <1>10, LenProperties
<1>12. w[1] = used
  <2>1. 1 \in 1 .. 1 + m + n /\ 1 \in 1 .. 1 + m /\ 1 <= 1 + m BY <1>1, <1>2
  <2> QED BY <1>3, <1>8, <1>10, <2>1
<1>13. ASSUME NEW k \in 1 .. m PROVE w[1 + k] = buffer[k].at
  <2>1. /\ 1 + k \in 1 .. 1 + m + n /\ 1 + k \in 1 .. 1 + m /\ 1 + k <= 1 + m
        /\ ~ 1 + k <= 1 /\ 1 + k - 1 = k
    BY <1>1, <1>2
  <2> QED BY <1>4, <1>8, <1>10, <2>1
<1>14. ASSUME NEW k \in 1 .. n
       PROVE  w[1 + m + k] = IF mail[k].to = "text" THEN mail[k].at ELSE <<>>
  <2>1. 1 + m + k \in 1 .. 1 + m + n /\ ~ 1 + m + k <= 1 + m /\ 1 + m + k - (1 + m) = k
    BY <1>1, <1>2
  <2>2. PICK i : i = 1 + m + k OBVIOUS
  <2>3. i \in 1 .. 1 + m + n /\ ~ i <= 1 + m /\ i - (1 + m) = k
    BY <1>1, <1>2, <2>1, <2>2
  <2>4. w[i] = c[i - (1 + m)] BY <1>10, <2>3
  <2>5. w[i] = c[k] BY <2>3, <2>4
  <2> QED BY <1>5, <2>2, <2>5
<1>15. Way = w BY <1>6, <1>7, <1>9
<1> QED BY <1>1, <1>2, <1>11, <1>12, <1>13, <1>14, <1>15 DEF m, n

(* The places of the pieces, one of three.                                 *)
LEMMA ThreePlaces ==
  \A m, n \in Nat : \A i \in 1 .. 1 + m + n :
     \/ i = 1
     \/ \E k \in 1 .. m : i = 1 + k
     \/ \E k \in 1 .. n : i = 1 + m + k
<1> SUFFICES ASSUME NEW m \in Nat, NEW n \in Nat, NEW i \in 1 .. 1 + m + n
             PROVE  \/ i = 1
                    \/ \E k \in 1 .. m : i = 1 + k
                    \/ \E k \in 1 .. n : i = 1 + m + k
  OBVIOUS
<1>1. i = 1 \/ (i - 1 \in 1 .. m /\ i = 1 + (i - 1))
      \/ (i - (1 + m) \in 1 .. n /\ i = 1 + m + (i - (1 + m)))
  OBVIOUS
<1> QED BY <1>1

(* The pieces on their way are in order, and there are no others.          *)
LEMMA WayInOrder ==
  ASSUME used \in Positions, buffer \in Items, mail \in Letters,
         Sorted(used, buffer, mail, MailTo(mail, "text"), InText)
  PROVE  /\ \A i \in DOMAIN Way : Way[i] \in Positions /\ Row(Way[i], InText)
         /\ \A i, j \in DOMAIN Way : i < j => Before(ToSet(Way[i]), ToSet(Way[j]), InText)
         /\ UNION {ToSet(Way[k]) : k \in DOMAIN Way} = TextWay
<1>1. PICK m : m = Len(buffer) OBVIOUS
<1>2. PICK n : n = Len(mail) OBVIOUS
<1>3. PICK w : w = Way OBVIOUS
<1>4. PICK K : K = MailTo(mail, "text") OBVIOUS
<1>5. /\ DOMAIN w = 1 .. 1 + m + n /\ m \in Nat /\ n \in Nat
      /\ DOMAIN buffer = 1 .. m /\ DOMAIN mail = 1 .. n
      /\ w[1] = used
      /\ \A k \in 1 .. m : w[1 + k] = buffer[k].at
      /\ \A k \in 1 .. n : w[1 + m + k] = IF mail[k].to = "text" THEN mail[k].at ELSE <<>>
  BY <1>1, <1>2, <1>3, WayIs
<1>6. ToSet(<<>>) = {} /\ <<>> \in Positions /\ Row(<<>>, InText)
  <2>1. <<>> \in Positions /\ DOMAIN <<>> = {}
    BY EmptySeq, LenProperties DEF Positions
  <2> QED BY <2>1, NothingTaken DEF Row
<1>7. K = {k \in 1 .. n : mail[k].to = "text"} BY <1>4, <1>5 DEF MailTo
<1>8. /\ \A k \in 1 .. n : k \in K => w[1 + m + k] = mail[k].at
      /\ \A k \in 1 .. n : k \notin K => w[1 + m + k] = <<>>
  BY <1>5, <1>7
<1>9. Sorted(used, buffer, mail, K, InText) BY <1>4
<1>10. /\ Row(used, InText)
       /\ \A j \in 1 .. m : Before(ToSet(used), ToSet(buffer[j].at), InText)
       /\ \A k \in K : Before(ToSet(used), ToSet(mail[k].at), InText)
       /\ \A j \in 1 .. m : Row(buffer[j].at, InText)
       /\ \A i, j \in 1 .. m : i < j => Before(ToSet(buffer[i].at), ToSet(buffer[j].at), InText)
       /\ \A j \in 1 .. m, k \in K : Before(ToSet(buffer[j].at), ToSet(mail[k].at), InText)
       /\ \A k \in K : Row(mail[k].at, InText)
       /\ \A i, k \in K : i < k => Before(ToSet(mail[i].at), ToSet(mail[k].at), InText)
  BY <1>5, <1>9 DEF Sorted, TakenFirst, InARow
<1>11. \A i \in DOMAIN w : \/ i = 1
                           \/ \E k \in 1 .. m : i = 1 + k
                           \/ \E k \in 1 .. n : i = 1 + m + k
  BY <1>5, ThreePlaces
<1>12. /\ \A k \in 1 .. m : buffer[k].at \in Positions
       /\ \A k \in 1 .. n : mail[k].at \in Positions
  BY <1>1, <1>2, ItemsSeq, LettersSeq
<1>13. ASSUME NEW i \in DOMAIN w PROVE w[i] \in Positions /\ Row(w[i], InText)
  <2>1. CASE i = 1 BY <1>5, <1>10, <2>1
  <2>2. ASSUME NEW k \in 1 .. m, i = 1 + k PROVE w[i] \in Positions /\ Row(w[i], InText)
    BY <1>5, <1>10, <1>12, <2>2
  <2>3. ASSUME NEW k \in 1 .. n, i = 1 + m + k PROVE w[i] \in Positions /\ Row(w[i], InText)
    <3>1. CASE k \in K BY <1>8, <1>10, <1>12, <2>3, <3>1
    <3>2. CASE k \notin K BY <1>6, <1>8, <2>3, <3>2
    <3> QED BY <3>1, <3>2
  <2> QED BY <1>11, <2>1, <2>2, <2>3
<1>14. \A X : Before(X, {}, InText) /\ Before({}, X, InText) BY DEF Before
<1>15. ASSUME NEW i \in DOMAIN w, NEW j \in DOMAIN w, i < j
       PROVE  Before(ToSet(w[i]), ToSet(w[j]), InText)
  <2>1. i \in Nat /\ j \in Nat /\ 1 <= i /\ 1 <= j BY <1>5
  <2>2. CASE i = 1
    <3>1. ~ j = 1 BY <1>15, <2>1, <2>2
    <3>2. ASSUME NEW k \in 1 .. m, j = 1 + k
          PROVE  Before(ToSet(w[i]), ToSet(w[j]), InText)
      BY <1>5, <1>10, <2>2, <3>2
    <3>3. ASSUME NEW k \in 1 .. n, j = 1 + m + k
          PROVE  Before(ToSet(w[i]), ToSet(w[j]), InText)
      <4>1. CASE k \in K BY <1>5, <1>8, <1>10, <2>2, <3>3, <4>1
      <4>2. CASE k \notin K BY <1>6, <1>8, <1>14, <3>3, <4>2
      <4> QED BY <4>1, <4>2
    <3> QED BY <1>11, <3>1, <3>2, <3>3
  <2>3. ASSUME NEW l \in 1 .. m, i = 1 + l
        PROVE  Before(ToSet(w[i]), ToSet(w[j]), InText)
    <3>1. ~ j = 1 BY <1>5, <1>15, <2>1
    <3>2. ASSUME NEW k \in 1 .. m, j = 1 + k
          PROVE  Before(ToSet(w[i]), ToSet(w[j]), InText)
      <4>1. l < k BY <1>5, <1>15, <2>3, <3>2
      <4> QED BY <1>5, <1>10, <2>3, <3>2, <4>1
    <3>3. ASSUME NEW k \in 1 .. n, j = 1 + m + k
          PROVE  Before(ToSet(w[i]), ToSet(w[j]), InText)
      <4>1. CASE k \in K BY <1>5, <1>8, <1>10, <2>3, <3>3, <4>1
      <4>2. CASE k \notin K BY <1>6, <1>8, <1>14, <3>3, <4>2
      <4> QED BY <4>1, <4>2
    <3> QED BY <1>11, <3>1, <3>2, <3>3
  <2>4. ASSUME NEW l \in 1 .. n, i = 1 + m + l
        PROVE  Before(ToSet(w[i]), ToSet(w[j]), InText)
    <3>1. \A x, y \in Nat : \A a \in 1 .. x, b \in 1 .. y :
             ~ 1 + x + b < 1 /\ ~ 1 + x + b < 1 + a
      OBVIOUS
    <3>2. PICK k \in 1 .. n : j = 1 + m + k
      <4>1. ~ j = 1 BY <1>5, <1>15, <2>1
      <4>2. \A k \in 1 .. m : j # 1 + k BY <1>5, <1>15, <2>4, <3>1
      <4> QED BY <1>11, <4>1, <4>2
    <3>3. l < k BY <1>5, <1>15, <2>4, <3>2
    <3>4. CASE k \in K /\ l \in K BY <1>8, <1>10, <2>4, <3>2, <3>3, <3>4
    <3>5. CASE k \notin K BY <1>6, <1>8, <1>14, <3>2, <3>5
    <3>6. CASE l \notin K BY <1>6, <1>8, <1>14, <2>4, <3>6
    <3> QED BY <3>4, <3>5, <3>6
  <2> QED BY <1>11, <2>2, <2>3, <2>4
<1>16. UNION {ToSet(w[k]) : k \in DOMAIN w} = TextWay
  <2>1. TextWay = ToSet(used) \cup Texts(buffer) \cup MailTexts(mail, K)
    BY <1>4 DEF TextWay, All
  <2>2. \A x : x \in Texts(buffer) <=> \E k \in 1 .. m : x \in ToSet(buffer[k].at)
    BY <1>5 DEF Texts
  <2>3. \A x : x \in MailTexts(mail, K) <=> \E k \in K : x \in ToSet(mail[k].at)
    BY DEF MailTexts
  <2>4. \A k \in 1 .. m : 1 + k \in DOMAIN w BY <1>5
  <2>5. \A k \in 1 .. n : 1 + m + k \in DOMAIN w BY <1>5
  <2>6. 1 \in DOMAIN w BY <1>5
  <2>7. ASSUME NEW x \in TextWay PROVE \E k \in DOMAIN w : x \in ToSet(w[k])
    <3>1. CASE x \in ToSet(used) BY <1>5, <2>6, <3>1
    <3>2. CASE x \in Texts(buffer) BY <1>5, <2>2, <2>4, <3>2
    <3>3. CASE x \in MailTexts(mail, K) BY <1>7, <1>8, <2>3, <2>5, <3>3
    <3> QED BY <2>1, <3>1, <3>2, <3>3
  <2>8. ASSUME NEW i \in DOMAIN w, NEW x \in ToSet(w[i]) PROVE x \in TextWay
    <3>1. CASE i = 1 BY <1>5, <2>1, <2>8, <3>1
    <3>2. ASSUME NEW k \in 1 .. m, i = 1 + k PROVE x \in TextWay
      BY <1>5, <2>1, <2>2, <2>8, <3>2
    <3>3. ASSUME NEW k \in 1 .. n, i = 1 + m + k PROVE x \in TextWay
      BY <1>6, <1>8, <2>1, <2>3, <2>8, <3>3
    <3> QED BY <1>11, <3>1, <3>2, <3>3
  <2> QED BY <2>7, <2>8
<1> QED BY <1>3, <1>13, <1>15, <1>16

(* What is read for the lines and prompts of the actor is handed to them   *)
(* once and in order, and but for what an abort or a subscription throws   *)
(* away, the rest of it waits for the next.                                *)
THEOREM TextKept == ClientsSpec => []TextIsKept
<1>1. ASSUME ClientsInv PROVE TextIsKept
  <2>1. /\ used \in Positions /\ buffer \in Items /\ mail \in Seq(Letter) /\ aborts \in Nat
        /\ given \subseteq 1 .. taken
    BY <1>1 DEF ClientsInv, FieldsInv
  <2>2. mail \in Letters
    <3>1. CASE mail = <<>> BY <3>1, EmptySeq DEF Letters
    <3>2. CASE mail # <<>> BY <2>1, <3>2, MailRest
    <3> QED BY <3>1, <3>2
  <2>3. /\ Sorted(used, buffer, mail, MailTo(mail, "text"), InText)
        /\ (TextWay \ {0}) \cup lost = given
        /\ doing # "gone" => (TextWay \ {0}) \cap lost = {}
    BY <1>1 DEF ClientsInv, KeptInv
  <2>4. PICK w : w = Way OBVIOUS
  <2>5. /\ \A i \in DOMAIN w : w[i] \in Positions /\ Row(w[i], InText)
        /\ \A i, j \in DOMAIN w : i < j => Before(ToSet(w[i]), ToSet(w[j]), InText)
        /\ UNION {ToSet(w[k]) : k \in DOMAIN w} = TextWay
    BY <2>1, <2>2, <2>3, <2>4, WayInOrder
  <2>6. OnTheWay = TextWay \ {0} BY <2>4, <2>5 DEF OnTheWay
  <2>7. ASSUME NEW i \in DOMAIN w, NEW j \in DOMAIN w, NEW m \in DOMAIN w[i],
               NEW n \in DOMAIN w[j], i < j \/ (i = j /\ m < n), w[i][m] # 0, w[j][n] # 0
        PROVE  w[i][m] < w[j][n]
    <3>1. <<w[i][m], w[j][n]>> \in InText
      <4>1. CASE i < j
        <5>1. w[i][m] \in ToSet(w[i]) /\ w[j][n] \in ToSet(w[j]) BY DEF ToSet
        <5> QED BY <2>5, <4>1, <5>1 DEF Before
      <4>2. CASE i = j /\ m < n BY <2>5, <4>2 DEF Row
      <4> QED BY <2>7, <4>1, <4>2
    <3> QED BY <2>7, <3>1 DEF InText
  <2>8. OnTheWay \cap lost \subseteq IF doing = "gone" THEN given ELSE {}
    BY <2>3, <2>6
  <2>9. OnTheWay \cup lost = given BY <2>3, <2>6
  <2> QED BY <2>4, <2>7, <2>8, <2>9 DEF TextIsKept
<1> QED BY <1>1, ClientsInvariance, PTL

(* What the clients do is what StdInReader lets anyone do.                 *)
LEMMA ClientsTakeSteps == ASSUME ClientsInv, ClientsNext PROVE [Next]_stdinVars
<1>1. config \in Configs BY DEF ClientsInv, FieldsInv
<1>2. Own \subseteq Readers /\ config.others \subseteq Readers
  BY <1>1, ClientsAssumption
<1>3. ASSUME NEW r \in Readers, Open(r) \/ Close(r) PROVE Next BY <1>3 DEF Next
<1>4. ASSUME NEW i \in Imps, Deregister(i) \/ LoopStep(i) PROVE Next
  BY <1>4 DEF Next, InputNext
<1>5. {"text", "binary", "subscription", "blocking"} \subseteq Readers
  BY <1>2 DEF Own
<1>6. ASSUME NEW i \in Imps, ReadChunk(i) \/ ReadEnd(i) \/ ReadFails(i) \/ CallBack(i)
                             \/ OnReadable(i) \/ ReadNothing(i) \/ CallbacksDone(i)
                             \/ Clear(i) \/ OnClosed(i)
      PROVE  Next
  BY <1>4, <1>6 DEF LoopStep
<1>7. CASE ReaderStep
  <2>1. CASE Write \/ EndInput BY <2>1 DEF Next, InputNext
  <2>2. CASE \E r \in config.others : Open(r) \/ Close(r) BY <1>2, <1>3, <2>2
  <2> QED BY <1>4, <1>6, <1>7, <2>1, <2>2 DEF ReaderStep
<1>8. CASE \E i \in Imps : DeliverChunk(i) \/ DeliverEnd(i)
  BY <1>6, <1>8 DEF DeliverChunk, DeliverEnd
<1>9. CASE \E kind \in ActorKind : ReadText(kind)
  BY <1>3, <1>5, <1>9 DEF ReadText, OpenOwn
<1>10. CASE ReadBinary BY <1>3, <1>5, <1>10 DEF ReadBinary, OpenOwn
<1>11. CASE CloseText \/ CloseBinary \/ Delete
  BY <1>3, <1>5, <1>11 DEF CloseText, CloseBinary, Delete, CloseOwn
<1>12. CASE Subscribe \/ OpenBlocking \/ CloseBlocking
  BY <1>3, <1>5, <1>12 DEF Subscribe, OpenBlocking, CloseBlocking, OpenOwn
<1>13. CASE HandleMail \/ Abort \/ Check \/ Wake
  BY <1>13 DEF HandleMail, Abort, Check, Wake
<1>14. CASE \E kind \in BlockingKind : CallBlocking(kind)
  BY <1>14 DEF CallBlocking
<1> QED BY <1>7, <1>8, <1>9, <1>10, <1>11, <1>12, <1>13, <1>14 DEF ClientsNext

(* The clients use the readers as StdInReader says: all that holds of it   *)
(* whatever the callbacks do holds with them.                              *)
THEOREM ClientsUseReaders == ClientsSpec => Spec
<1>1. ClientsInit => Init BY DEF ClientsInit
<1>2. ClientsInv /\ [ClientsNext]_allVars => [Next]_stdinVars
  <2>1. UNCHANGED allVars => UNCHANGED stdinVars BY DEF allVars
  <2> QED BY <2>1, ClientsTakeSteps
<1> QED BY <1>1, <1>2, ClientsInvariance, PTL DEF ClientsSpec, Spec
=============================================================================
