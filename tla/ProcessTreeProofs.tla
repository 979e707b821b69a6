-------------------------- MODULE ProcessTreeProofs --------------------------
(***************************************************************************)
(* Theorems about ProcessTree for every set of processes.                  *)
(***************************************************************************)
EXTENDS ProcessTree, TLAPS

(* What has been found has been there, and its parent has been mapped.     *)
SeenInv ==
  /\ pstate[Root] # "none"
  /\ \A p \in Procs : listed[p] # Unlisted => pstate[p] # "none"
  /\ \A p \in Procs : link[p] # Unlinked => pstate[p] # "none" /\ p \in known
  /\ \A p \in tried : pstate[p] # "none" /\ p \in known
  /\ phase = "pause" => Root \in known
  /\ \A c \in Alive : parent[c] \in Alive \cup {Adopter}

(* What has been tried to pause stands still until it is resumed.          *)
PauseInv ==
  /\ stopped \subseteq paused /\ stopped \subseteq Alive
  /\ phase = "done" => paused = {}
  /\ phase \notin {"resume", "done"} => \A p \in tried \ Protected : p \in Alive => p \in stopped

(* The children of what stood still throughout a round are listed, and     *)
(* then linked, with the parents they have.                                *)
LinkInv ==
  /\ phase = "stats" => \A c \in Alive : parent[c] \in tried \ Protected
                                           => c \in toRead \/ listed[c] = parent[c]
  /\ (phase = "pause" /\ ~fresh) \/ phase = "kill"
        => \A c \in Alive : parent[c] \in tried \ Protected => link[c] = parent[c]

(* Nothing that has been found runs once the killing is over, and it does  *)
(* not have children that have not been found.                             *)
KillInv ==
  /\ phase = "kill" \/ ok => Found \subseteq tried
  /\ phase = "kill" => killed \subseteq tried /\ (killed \cap Alive) \ Protected \subseteq doomed
  /\ phase \notin {"kill", "resume", "done"} => killed = {}
  /\ ok => /\ phase \in {"resume", "done"}
           /\ (Found \cap Alive) \ Protected \subseteq doomed
           /\ \A c \in Alive : parent[c] \in Found \ Protected => link[c] = parent[c]

(* The inductive invariant.                                                *)
Inv == TypeOK /\ SeenInv /\ PauseInv /\ LinkInv /\ KillInv

(* It holds before the terminator has begun.                               *)
LEMMA InitInv == Init => Inv
<1> SUFFICES ASSUME Init PROVE Inv
    OBVIOUS
<1>1. TypeOK
      BY DEF Init, TypeOK, Phase
<1>2. SeenInv
      BY RootAssumption DEF Init, SeenInv, Alive, Procs
<1>3. PauseInv /\ LinkInv /\ KillInv
      BY DEF Init, PauseInv, LinkInv, KillInv
<1> QED BY <1>1, <1>2, <1>3 DEF Inv

(* Found holds the root and the children of what it holds.                 *)
LEMMA FoundClosed ==
  /\ Root \in Found
  /\ \A c \in Procs : link[c] \in Found => c \in Found
BY DEF Found, Procs

(* It is the least such set.                                               *)
LEMMA FoundLeast ==
  ASSUME NEW S \in SUBSET Procs, Root \in S, \A c \in Procs : link[c] \in S => c \in S
  PROVE  Found \subseteq S
BY DEF Found

(* It follows from the links alone.                                        *)
LEMMA FoundSame ==
  ASSUME link' = link
  PROVE  Found' = Found
BY DEF Found

(* A fork drops the entry of the name that it uses again, and no other.    *)
LEMMA ForkFound ==
  ASSUME TypeOK, SeenInv, NEW p \in Procs, NEW c \in Procs, Fork(p, c)
  PROVE  Found' \subseteq Found \ {c}
<1> DEFINE S == Found \ {c}
<1>1. c # Root
      BY DEF Fork, Forgotten, SeenInv
<1>2. S \in SUBSET Procs /\ Root \in S
      BY <1>1, FoundClosed DEF Found
<1>3. ASSUME NEW d \in Procs, link'[d] \in S PROVE d \in S
  <2>1. Unlinked \notin S
        BY MarksAssumption DEF Found
  <2>2. d # c /\ link'[d] = IF link[d] = c THEN link[c] ELSE link[d]
        BY <1>3, <2>1 DEF Fork
  <2>3. link[d] \in Found
    <3>1. CASE link[d] = c
          BY <1>3, <2>2, <3>1, FoundClosed
    <3>2. CASE link[d] # c
          BY <1>3, <2>2, <3>2
    <3> QED BY <3>1, <3>2
  <2> QED BY <2>2, <2>3, FoundClosed
<1> QED BY <1>2, <1>3 DEF Found

(* Every step keeps the types.                                             *)
LEMMA TypeStep == TypeOK /\ [Next]_vars => TypeOK'
<1> SUFFICES ASSUME TypeOK, [Next]_vars PROVE TypeOK'
    OBVIOUS
<1> USE DEF TypeOK, Phase, procVars, listVars, mapVars
<1>1. CASE Processes
  <2>1. CASE \E p, c \in Procs : Fork(p, c)
        BY <2>1 DEF Fork, TerminatorFrame
  <2>2. CASE \E p \in Procs : Exit(p)
        BY <2>2 DEF Exit, TerminatorFrame
  <2>3. CASE Reap
        BY <2>3 DEF Reap, TerminatorFrame
  <2> QED BY <1>1, <2>1, <2>2, <2>3 DEF Processes
<1>2. CASE ReadNames
      BY <1>2 DEF ReadNames, Exists
<1>3. CASE \E p \in Procs : ReadStat(p)
      BY <1>3 DEF ReadStat
<1>4. CASE RootFound
      BY <1>4 DEF RootFound, MapProcesses, Listed
<1>5. CASE \E p \in Procs : PauseOne(p)
      BY <1>5 DEF PauseOne
<1>6. CASE \E p \in Procs : KillOne(p)
      BY <1>6 DEF KillOne
<1>7. CASE \E p \in Procs : ResumeOne(p)
      BY <1>7 DEF ResumeOne
<1>8. CASE RootNotFound \/ AllPaused \/ AllKilled \/ Return
      BY <1>8 DEF RootNotFound, AllPaused, AllKilled, Return
<1>9. CASE UNCHANGED vars
      BY <1>9 DEF vars
<1> QED BY <1>1, <1>2, <1>3, <1>4, <1>5, <1>6, <1>7, <1>8, <1>9 DEF Next, Terminator

(* No step links or pauses what has never run.                             *)
LEMMA SeenStep == Inv /\ [Next]_vars => SeenInv'
<1> SUFFICES ASSUME Inv, [Next]_vars PROVE SeenInv'
    OBVIOUS
<1> USE DEF Inv, TypeOK, SeenInv, Alive, procVars, listVars, mapVars
<1>1. CASE Processes
  <2>1. CASE \E p, c \in Procs : Fork(p, c)
    <3> PICK p, c \in Procs : Fork(p, c)
        BY <2>1
    <3>1. /\ c # Root /\ c \notin Alive /\ \A q \in Alive : parent[q] # c
          /\ p \in Alive /\ p # c /\ c # Adopter
          BY RootAssumption DEF Fork, Forgotten, Runs
    <3>2. \A d \in Procs : pstate'[d] = IF d = c THEN "alive" ELSE pstate[d]
          BY DEF Fork
    <3>3. pstate'[Root] # "none"
          BY <3>2, RootAssumption DEF Procs
    <3>4. \A d \in Procs : listed'[d] # Unlisted => pstate'[d] # "none"
          BY <3>2 DEF Fork
    <3>5. \A d \in Procs : link'[d] # Unlinked => pstate'[d] # "none" /\ d \in known'
          BY <3>2, MarksAssumption DEF Fork
    <3>6. \A d \in tried' : pstate'[d] # "none" /\ d \in known'
          BY <3>2 DEF Fork
    <3>7. phase' = "pause" => Root \in known'
          BY <3>1 DEF Fork
    <3>8. \A d \in Alive' : parent'[d] \in Alive' \cup {Adopter}
          BY <3>1, <3>2 DEF Fork
    <3> QED BY <3>3, <3>4, <3>5, <3>6, <3>7, <3>8
  <2>2. CASE \E p \in Procs : Exit(p)
        BY <2>2, RootAssumption DEF Exit, TerminatorFrame
  <2>3. CASE Reap
        BY <2>3, RootAssumption DEF Reap, TerminatorFrame, Procs
  <2> QED BY <1>1, <2>1, <2>2, <2>3 DEF Processes
<1>2. CASE ReadNames
      BY <1>2 DEF ReadNames
<1>3. CASE \E p \in Procs : ReadStat(p)
      BY <1>3 DEF ReadStat, Exists
<1>4. CASE RootFound
      BY <1>4 DEF RootFound, MapProcesses, Listed
<1>5. CASE \E p \in Procs : PauseOne(p)
  <2> PICK p \in Procs : PauseOne(p)
      BY <1>5
  <2>1. pstate[p] # "none" /\ p \in known
    <3>1. CASE p = Root
          BY <3>1 DEF PauseOne
    <3>2. CASE link[p] \in tried
          BY <3>2, MarksAssumption DEF PauseOne
    <3> QED BY <3>1, <3>2 DEF PauseOne
  <2> QED BY <2>1 DEF PauseOne
<1>6. CASE \E p \in Procs : KillOne(p)
      BY <1>6 DEF KillOne
<1>7. CASE \E p \in Procs : ResumeOne(p)
      BY <1>7 DEF ResumeOne
<1>8. CASE RootNotFound \/ AllPaused \/ AllKilled \/ Return
      BY <1>8 DEF RootNotFound, AllPaused, AllKilled, Return
<1>9. CASE UNCHANGED vars
      BY <1>9 DEF vars
<1> QED BY <1>1, <1>2, <1>3, <1>4, <1>5, <1>6, <1>7, <1>8, <1>9 DEF Next, Terminator

(* No step lets run what the terminator has paused and not resumed.        *)
LEMMA PauseStep == Inv /\ [Next]_vars => PauseInv'
<1> SUFFICES ASSUME Inv, [Next]_vars PROVE PauseInv'
    OBVIOUS
<1> USE DEF Inv, TypeOK, PauseInv, Alive, Phase, procVars, listVars, mapVars
<1>1. CASE Processes
  <2>1. CASE \E p, c \in Procs : Fork(p, c)
    <3> PICK p, c \in Procs : Fork(p, c)
        BY <2>1
    <3>1. c \notin Alive /\ c \notin stopped
          BY DEF Fork, Forgotten
    <3> QED BY <3>1 DEF Fork
  <2>2. CASE \E p \in Procs : Exit(p)
        BY <2>2 DEF Exit, TerminatorFrame
  <2>3. CASE Reap
        BY <2>3 DEF Reap, TerminatorFrame
  <2> QED BY <1>1, <2>1, <2>2, <2>3 DEF Processes
<1>2. CASE ReadNames
      BY <1>2 DEF ReadNames
<1>3. CASE \E p \in Procs : ReadStat(p)
      BY <1>3 DEF ReadStat
<1>4. CASE RootFound
      BY <1>4 DEF RootFound
<1>5. CASE \E p \in Procs : PauseOne(p)
      BY <1>5 DEF PauseOne, Exists
<1>6. CASE \E p \in Procs : KillOne(p)
      BY <1>6 DEF KillOne
<1>7. CASE \E p \in Procs : ResumeOne(p)
      BY <1>7 DEF ResumeOne
<1>8. CASE RootNotFound \/ AllPaused \/ AllKilled \/ Return
      BY <1>8 DEF RootNotFound, AllPaused, AllKilled, Return
<1>9. CASE UNCHANGED vars
      BY <1>9 DEF vars
<1> QED BY <1>1, <1>2, <1>3, <1>4, <1>5, <1>6, <1>7, <1>8, <1>9 DEF Next, Terminator

(* No step loses a child of what stands still from the listing.            *)
LEMMA LinkStep == Inv /\ [Next]_vars => LinkInv'
<1> SUFFICES ASSUME Inv, [Next]_vars PROVE LinkInv'
    OBVIOUS
<1> USE DEF Inv, TypeOK, LinkInv, Alive, Phase, procVars, listVars, mapVars
<1>1. CASE Processes
  <2>1. CASE \E p, c \in Procs : Fork(p, c)
        BY <2>1 DEF Fork, TerminatorFrame, Runs, PauseInv
  <2>2. CASE \E p \in Procs : Exit(p)
        BY <2>2, RootAssumption DEF Exit, TerminatorFrame
  <2>3. CASE Reap
        BY <2>3 DEF Reap, TerminatorFrame
  <2> QED BY <1>1, <2>1, <2>2, <2>3 DEF Processes
<1>2. CASE ReadNames
      BY <1>2 DEF ReadNames, Exists
<1>3. CASE \E p \in Procs : ReadStat(p)
      BY <1>3 DEF ReadStat, Exists
<1>4. CASE RootFound
      BY <1>4, MarksAssumption DEF RootFound, MapProcesses, Listed, SeenInv
<1>5. CASE \E p \in Procs : PauseOne(p)
      BY <1>5 DEF PauseOne
<1>6. CASE \E p \in Procs : KillOne(p)
      BY <1>6 DEF KillOne
<1>7. CASE \E p \in Procs : ResumeOne(p)
      BY <1>7 DEF ResumeOne
<1>8. CASE RootNotFound \/ AllPaused \/ AllKilled \/ Return
      BY <1>8 DEF RootNotFound, AllPaused, AllKilled, Return
<1>9. CASE UNCHANGED vars
      BY <1>9 DEF vars
<1> QED BY <1>1, <1>2, <1>3, <1>4, <1>5, <1>6, <1>7, <1>8, <1>9 DEF Next, Terminator

(* No step adds a running process to what has been killed.                 *)
LEMMA KillStep == Inv /\ [Next]_vars => KillInv'
<1> SUFFICES ASSUME Inv, [Next]_vars PROVE KillInv'
    OBVIOUS
<1> USE DEF Inv, TypeOK, KillInv, Alive, Phase, procVars, listVars, mapVars
<1>1. CASE Processes
  <2>1. ASSUME NEW p \in Procs, NEW c \in Procs, Fork(p, c) PROVE KillInv'
    <3>1. /\ c \notin Found' /\ Found' \subseteq Found
          /\ c \notin Alive /\ p \in Alive \ doomed /\ Alive' = Alive \cup {c}
      <4>1. Found' \subseteq Found \ {c}
            BY <2>1, ForkFound DEF Inv
      <4> QED BY <2>1, <4>1 DEF Fork, Forgotten, Runs
    <3>2. /\ phase' = "kill" \/ ok' => Found' \subseteq tried'
          /\ phase' = "kill" => /\ killed' \subseteq tried'
                                /\ (killed' \cap Alive') \ Protected \subseteq doomed'
          /\ phase' \notin {"kill", "resume", "done"} => killed' = {}
          BY <2>1, <3>1 DEF Fork
    <3>3. ASSUME ok
          PROVE  /\ phase' \in {"resume", "done"}
                 /\ (Found' \cap Alive') \ Protected \subseteq doomed'
          BY <2>1, <3>1, <3>3 DEF Fork
    <3>4. ASSUME ok, NEW x \in Alive', parent'[x] \in Found' \ Protected
          PROVE  link'[x] = parent'[x]
      <4>1. x # c
            BY <2>1, <3>1, <3>4 DEF Fork
      <4>2. x \in Alive /\ parent[x] \in Found \ Protected /\ parent[x] # c /\ parent'[x] = parent[x]
            BY <2>1, <3>1, <3>4, <4>1 DEF Fork
      <4> QED BY <2>1, <3>4, <4>1, <4>2 DEF Fork
    <3> QED BY <2>1, <3>2, <3>3, <3>4 DEF Fork
  <2>2. CASE \E p \in Procs : Exit(p)
    <3>1. Found' = Found
          BY <2>2, FoundSame DEF Exit, TerminatorFrame
    <3> QED BY <2>2, <3>1, RootAssumption DEF Exit, TerminatorFrame, Found
  <2>3. CASE Reap
    <3>1. Found' = Found
          BY <2>3, FoundSame DEF Reap, TerminatorFrame
    <3> QED BY <2>3, <3>1 DEF Reap, TerminatorFrame
  <2> QED BY <1>1, <2>1, <2>2, <2>3 DEF Processes
<1>2. CASE ReadNames \/ (\E p \in Procs : ReadStat(p)) \/ RootFound \/ RootNotFound
      BY <1>2 DEF ReadNames, ReadStat, RootFound, RootNotFound
<1>3. CASE \E p \in Procs : PauseOne(p)
      BY <1>3 DEF PauseOne
<1>4. CASE AllPaused
      BY <1>4, FoundSame DEF AllPaused
<1>5. CASE \E p \in Procs : KillOne(p)
  <2>1. Found' = Found
        BY <1>5, FoundSame DEF KillOne
  <2> QED BY <1>5, <2>1 DEF KillOne
<1>6. CASE AllKilled
  <2>1. Found' = Found
        BY <1>6, FoundSame DEF AllKilled
  <2> QED BY <1>6, <2>1 DEF AllKilled, LinkInv
<1>7. CASE (\E p \in Procs : ResumeOne(p)) \/ Return
  <2>1. Found' = Found
        BY <1>7, FoundSame DEF ResumeOne, Return
  <2> QED BY <1>7, <2>1 DEF ResumeOne, Return
<1>8. CASE UNCHANGED vars
      BY <1>8, FoundSame DEF vars
<1> QED BY <1>1, <1>2, <1>3, <1>4, <1>5, <1>6, <1>7, <1>8 DEF Next, Terminator

(* The invariant holds in every reachable state.                           *)
THEOREM Invariance == Spec => []Inv
<1>1. Inv /\ [Next]_vars => Inv'
      BY TypeStep, SeenStep, PauseStep, LinkStep, KillStep DEF Inv
<1> QED BY InitInv, <1>1, PTL DEF Spec

(* The terminator's map, listing and phases stay well formed, whatever the *)
(* processes do in between.                                                *)
THEOREM TypeCorrect == Spec => []TypeOK
BY Invariance, PTL DEF Inv

(* The terminator leaves no process stopped.                               *)
THEOREM NothingPaused == Spec => []NothingLeftPaused
<1>1. Inv => NothingLeftPaused
      BY DEF Inv, PauseInv, NothingLeftPaused
<1> QED BY <1>1, Invariance, PTL

(* Once the terminator has succeeded, every process that descends from the *)
(* root, and may be signalled, has been sent SIGKILL.                      *)
THEOREM WholeTreeKilled == Spec => []KillsWholeTree
<1>1. Inv => KillsWholeTree
  <2> SUFFICES ASSUME Inv, ok, NEW p \in Tree \ Protected PROVE p \in doomed
      BY DEF KillsWholeTree
  <2> DEFINE S == Found \cup (Procs \ Alive)
  <2>1. S \in SUBSET Procs /\ Root \in S
        BY FoundClosed DEF Found
  <2>2. ASSUME NEW c \in Procs, parent[c] \in S \ Protected PROVE c \in S
    <3>1. CASE c \in Alive
      <4>1. parent[c] \in Found \ Protected
            BY <2>2, <3>1, RootAssumption DEF Inv, SeenInv
      <4>2. link[c] = parent[c]
            BY <3>1, <4>1 DEF Inv, KillInv
      <4> QED BY <4>1, <4>2, FoundClosed
    <3> QED BY <3>1
  <2>3. p \in Alive /\ p \in S
        BY <2>1, <2>2 DEF Tree
  <2> QED BY <2>3 DEF Inv, KillInv
<1> QED BY <1>1, Invariance, PTL
=============================================================================
