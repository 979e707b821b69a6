------------------------- MODULE WindowsLaunchProofs -------------------------
(***************************************************************************)
(* Theorems about WindowsLaunch for every value of its constants.          *)
(***************************************************************************)
EXTENDS WindowsLaunch, SequenceTheorems, TLAPS

-----------------------------------------------------------------------------
(* The inductive invariant.                                                *)

Launched == HasReported("Launched")
Failed   == HasReported("LaunchFailed")
HasExited == HasReported("Exited")

(* The steps of the thread before there is a process, and those after its  *)
(* wait.                                                                   *)
BeforePC == {"none", "start", "shell", "elevate", "find", "token", "logon", "access",
             "desktop", "prepare", "create"}
WaitPC   == {"loop", "woken", "act", "actTree"}
WokenPC  == {"woken", "act", "actTree"}
AfterPC  == {"drain", "cancel", "drain2", "exit", "close"}

(* A launch that its owner runs is run within f_Start; nobody starts a     *)
(* launch twice; the dispatcher runs no callback it was not given.         *)
StartInv ==
  /\ opc = "new" <=> tpc = "none"
  /\ opc = "inline" => ~opt.threaded
  /\ ~opt.threaded /\ tpc \notin {"none", "done"} => opc = "inline"
  /\ seen <= Len(sent)

(* What has been reported, by where the thread is.                         *)
ReportInv ==
  /\ sent = <<>> <=> tpc \in {"none", "launched", "failed"} \cup StartPC
  /\ tpc \in WaitPC \cup AfterPC => sent[1] = "Launched"
  /\ exited => tpc \in AfterPC \cup {"return", "done"}
  /\ HasExited => exited /\ tpc \in {"close", "return", "done"}
  /\ tpc = "close" /\ exited => HasExited
  /\ tpc \in {"return", "done"} => Failed \/ (exited => HasExited)
  /\ Failed => ~exited /\ tpc \in {"return", "done"} /\ Len(sent) = 1
  /\ \A i \in DOMAIN sent : sent[i] \in {"Launched", "LaunchFailed"} <=> i = 1

(* What the thread does depends on what is launched.                       *)
TargetInv ==
  /\ tpc \in {"find", "token", "logon", "access", "desktop", "prepare", "create",
              "created", "resume", "resumed", "undo"} => Creates
  /\ tpc = "shell" => opt.target = "document"
  /\ tpc = "token" => opt.target = "deelevated"
  /\ tpc \in {"elevate", "connect"} => opt.target = "elevated"
  /\ tpc \in StartPC \ {"start", "unwind"}
       => rd = IF opt.target = "elevated" THEN {} ELSE OutputPipes
  /\ tpc = "launched" => rd = OutputPipes

(* Which processes there are, and what the redirector has of the first.    *)
ProcInv ==
  /\ tpc \in BeforePC =>
       /\ \A p \in Procs : pstate[p] = "none"
       /\ ~hasHandle /\ ~job /\ ~sandbox
  /\ suspended <=> tpc \in {"created", "resume", "undo"}
  /\ suspended => pstate[Child] = "alive" /\ \A d \in Descendants : pstate[d] = "none"
  /\ tpc \in {"connect", "launched"} \cup WaitPC =>
       hasHandle \/ (opt.target \in {"document", "elevated"} /\ pstate[Child] = "none")
  /\ tpc \in WokenPC => hasHandle
  /\ tpc \in {"created", "resume", "resumed"} => ~hasHandle
  /\ hasHandle => hasID
  /\ pstate[Child] = "gone" => ~hasHandle /\ tpc \notin StartPC
  /\ stranger => pstate[Child] = "gone"

(* A launch that fails leaves nothing.                                     *)
FailInv ==
  /\ tpc \in {"none", "launched", "failed"} \cup StartPC => ~leaked
  /\ tpc \in {"unwind", "failed"} \/ Failed =>
       /\ opt.target # "elevated" => Active = {}
       /\ held = {} /\ ~leaked
  /\ tpc = "failed" \/ Failed => rd = {} /\ ~stdinOpen

(* What is loaded for the user.                                            *)
UserInv ==
  /\ tpc \in {"none", "start", "shell", "elevate", "connect", "find", "token", "logon"}
       => held = {}
  /\ tpc \in AfterPC \cup {"return", "done"} => held = {}
  /\ opt.user /\ opt.target = "executable" =>
       /\ tpc \in {"access", "desktop", "prepare", "create", "created", "resume", "resumed",
                   "undo", "launched"} \cup WaitPC => held # {}
       /\ tpc \in AfterPC \cup {"return", "done"} => leaked \/ Child \notin Active

(* The outstanding reads, and what was written before the process ended.   *)
ReadInv ==
  /\ \A q \in Pipe : taken[q] <= written[q] /\ owed[q] <= written[q]
  /\ pstate[Child] \in {"none", "alive"} => \A q \in Pipe : owed[q] = 0
  /\ exited => pstate[Child] # "alive"
  /\ "read" \notin opt.faults => \A q \in OutputPipes :
       /\ tpc \in WaitPC \cup {"drain", "cancel"} =>
            /\ io[q] # "off"
            /\ io[q] = "over" => taken[q] = written[q] /\ writers[q] = {}
       /\ exited /\ tpc # "drain" => taken[q] >= owed[q]

(* What is in a sandbox is killed with it.                                 *)
SandboxInv ==
  opt.sandboxed /\ Creates =>
    /\ tpc \notin {"created", "undo"} => sandbox \/ Active = {}
    /\ tpc \in {"return", "done"} => Active = {}

(* The job has been emptied, but for what leaves it, where it could be.    *)
JobInv ==
  /\ "launched" \in before => sent # <<>>
  /\ opc \in {"join", "release", "closed"} /\ "launched" \in before
     /\ "TerminateProcessTree" \in flags /\ "terminate" \notin opt.faults
       => JobProcs \subseteq doomed

(* Until a threaded launch is closed or cancelled, its thread waits for    *)
(* the exit; and so it does when the close waits and a stop is possible.   *)
Waited == \/ opc \in {"new", "idle", "terminating"}
          \/ /\ flags \cap Waits # {}
             /\ "StopProcess" \in flags => CanStop /\ "stop" \notin opt.faults
QuietInv ==
  opt.threaded /\ canceller = "idle" =>
    /\ opc \in {"new", "idle", "terminating"} => ~event /\ tpc \notin WokenPC
    /\ Waited => /\ tpc \in AfterPC \cup {"return", "done"} => exited \/ Failed
                 /\ event \/ tpc = "woken" => needWait /\ needTermination \subseteq flags
                 /\ tpc = "woken" => ~event
                 /\ tpc \in {"act", "actTree"} => wait /\ term \subseteq flags

(* The flags of a close reach the thread, and the thread the process that  *)
(* it can terminate.                                                       *)
Asks == /\ opt.threaded /\ "cancelled" \notin before
        /\ flags \cap {"TerminateProcess", "TerminateProcessTree"} # {}
        /\ opc \in {"closeJob", "join", "release", "closed"}
        /\ CanTerminate
KillInv ==
  Asks =>
    /\ tpc \in StartPC \cup {"launched"} => event /\ needTermination = flags \cap Terminations
    /\ tpc = "loop" => \/ Child \notin Active
                       \/ event /\ needTermination = flags \cap Terminations
    /\ tpc = "woken" => Child \notin Active \/ needTermination = flags \cap Terminations
    /\ tpc = "act" => Child \notin Active \/ term = flags \cap Terminations
    /\ tpc = "actTree" =>
         /\ ~opt.sandboxed
         /\ \/ Child \notin Active
            \/ tt["thread"].at = "list"
            \/ tt["thread"].at = "kill" /\ Child \in tt["thread"].found
    /\ tpc \in AfterPC \cup {"return", "done"} => Failed \/ Child \notin Active

Inv == /\ TypeOK /\ RefsCountUsers /\ StartInv /\ ReportInv /\ TargetInv /\ ProcInv
       /\ FailInv /\ UserInv /\ ReadInv /\ SandboxInv /\ JobInv /\ QuietInv /\ KillInv

(* TypeOK by the groups of variables that the actions leave alone.         *)
OwnerT  == /\ opc \in {"new", "inline", "idle", "terminating", "closeJob", "join", "release",
                       "closed"}
           /\ flags \in SUBSET Flag /\ before \in SUBSET Earlier
AskT    == needTermination \in SUBSET Flag /\ needWait \in BOOLEAN /\ event \in BOOLEAN
HandleT == /\ hasHandle \in BOOLEAN /\ hasID \in BOOLEAN
           /\ rd \in SUBSET Pipe /\ stdinOpen \in BOOLEAN
JobT    == job \in BOOLEAN /\ sandbox \in BOOLEAN
UserT   == held \in SUBSET {"profile", "station", "desktop"} /\ leaked \in BOOLEAN
ReportT == refs \in Nat /\ freed \in BOOLEAN /\ sent \in Seq(Kind) /\ seen \in Nat
LoopT   == exited \in BOOLEAN /\ term \in SUBSET Flag /\ wait \in BOOLEAN
ReadT   == /\ io \in [Pipe -> {"off", "pending", "retry", "over"}]
           /\ taken \in [Pipe -> Nat]
TreeT   == tt \in [Actor -> [at : {"off", "list", "kill", "job"}, found : SUBSET Procs]]
ThreadT == tpc \in ThreadPC /\ suspended \in BOOLEAN
OtherT  == /\ opt \in Option /\ writing \in BOOLEAN
           /\ canceller \in {"idle", "waiting", "done"} /\ owed \in [Pipe -> Nat]

-----------------------------------------------------------------------------
(* It holds initially.                                                     *)

LEMMA InitInv == Init => Inv
<1> SUFFICES ASSUME Init PROVE Inv
    OBVIOUS
<1>1. WorldTypeOK
  <2>1. /\ pstate \in [Procs -> {"none", "alive", "zombie", "gone"}]
        /\ parent \in [Descendants -> Procs \cup {NoProcess}]
        BY DEF Init, WorldInit
  <2>2. writers \in [Pipe -> SUBSET Procs] /\ written \in [Pipe -> 0..MaxOutput]
        BY BoundsAssumption DEF Init, WorldInit
  <2>3. stdinBuf \in 0..StdinCap
        BY BoundsAssumption DEF Init, WorldInit
  <2> QED BY <2>1, <2>2, <2>3 DEF Init, WorldInit, WorldTypeOK
<1>2. TypeOK
  <2>1. OwnerT /\ AskT /\ HandleT /\ JobT
        BY DEF Init, OwnerT, AskT, HandleT, JobT
  <2>4. UserT /\ LoopT /\ ThreadT
        BY DEF Init, UserT, LoopT, ThreadT, ThreadPC
  <2>5. ReportT
    <3>1. sent \in Seq(Kind)
          BY DEF Init
    <3> QED BY <3>1 DEF Init, ReportT
  <2>2. ReadT /\ TreeT
        BY DEF Init, ReadT, TreeT
  <2>3. OtherT
        BY OptionsAssumption DEF Init, OtherT
  <2> QED BY <1>1, <2>1, <2>2, <2>3, <2>4, <2>5
          DEF TypeOK, OwnerT, AskT, HandleT, JobT, UserT, ReportT, LoopT, ReadT, TreeT, ThreadT,
              OtherT
<1>3. ~Launched /\ ~Failed /\ ~HasExited /\ Len(sent) = 0 /\ sent = <<>> /\ DOMAIN sent = {}
      BY DEF Init, Launched, Failed, HasExited, HasReported
<1>4. Active = {} /\ Alive = {}
      BY DEF Init, WorldInit, Active, Alive
<1>12. RefsCountUsers
  <2>1. refs = 1 /\ freed = FALSE /\ seen = 0 /\ opc = "new" /\ tpc = "none"
        BY DEF Init
  <2>2. Len(sent) = 0
        BY <1>3
  <2>3. refs = Count(opc # "closed") + Count(opt.threaded /\ tpc \notin {"none", "done"})
               + (Len(sent) - seen)
        BY <2>1, <2>2 DEF Count
  <2>4. freed = (refs = 0)
    <3>1. freed = FALSE /\ ~(refs = 0)
          BY <2>1
    <3> QED BY <3>1, Zenon
  <2> QED BY <2>3, <2>4 DEF RefsCountUsers
<1>5. StartInv
      BY <1>3 DEF Init, StartInv
<1>13. TargetInv
      BY DEF Init, TargetInv, StartPC
<1>10. ReportInv
      BY <1>3 DEF Init, ReportInv, WaitPC, AfterPC
<1>6. ProcInv /\ FailInv /\ UserInv
      BY <1>3, <1>4 DEF Init, WorldInit, ProcInv, FailInv, UserInv, BeforePC, StartPC, WaitPC,
                  AfterPC, WokenPC, Procs
<1>7. ReadInv
      BY DEF Init, WorldInit, ReadInv, WaitPC, AfterPC, Pipe, Procs
<1>8. SandboxInv /\ JobInv
      BY <1>4 DEF Init, SandboxInv, JobInv
<1>9. QuietInv /\ KillInv
      BY DEF Init, QuietInv, KillInv, Asks, Waited, AfterPC, StartPC, WokenPC
<1> QED BY <1>2, <1>5, <1>6, <1>7, <1>8, <1>9, <1>10, <1>12, <1>13 DEF Inv

-----------------------------------------------------------------------------
(* Types.                                                                  *)

LEMMA WorldUnchanged ==
  ASSUME WorldTypeOK, UNCHANGED worldVars
  PROVE  WorldTypeOK'
BY DEF WorldTypeOK, worldVars, procVars, pipeVars, Pipe, Procs

(* A process is killed.                                                    *)
LEMMA KillTypes ==
  ASSUME WorldTypeOK, NEW ps, Kill(ps), DoomFrame
  PROVE  WorldTypeOK'
BY DEF WorldTypeOK, Kill, DoomFrame, Alive, pipeVars

LEMMA BreakTypes ==
  ASSUME WorldTypeOK, SendBreak
  PROVE  WorldTypeOK'
BY DEF WorldTypeOK, SendBreak, Alive, pipeVars, Procs

LEMMA EnvironmentTypes ==
  ASSUME WorldTypeOK, Environment
  PROVE  WorldTypeOK'
<1> USE DEF WorldTypeOK, Procs, Pipe, procVars, pipeVars
<1>1. CASE \E p \in Procs, d \in Descendants : Fork(p, d)
      BY <1>1 DEF Fork, Active, Alive
<1>2. CASE \E d \in Descendants : LeaveGroup(d)
      BY <1>2 DEF LeaveGroup
<1>3. CASE \E p \in Procs, q \in Pipe : Write(p, q)
      BY <1>3, BoundsAssumption DEF Write
<1>4. CASE \E p \in Procs, q \in Pipe : CloseOutput(p, q)
      BY <1>4 DEF CloseOutput
<1>5. CASE ReadStdin
      BY <1>5, BoundsAssumption DEF ReadStdin
<1>6. CASE \E p \in Procs : Die(p)
      BY <1>6 DEF Die
<1>7. CASE ReuseID(FALSE) \/ Forget
      BY <1>7 DEF ReuseID, Forget
<1> QED BY <1>1, <1>2, <1>3, <1>4, <1>5, <1>6, <1>7 DEF Environment, World

LEMMA PartTypes ==
  ASSUME TypeOK
  PROVE  /\ WorldTypeOK /\ OwnerT /\ AskT /\ HandleT /\ JobT /\ UserT /\ ReportT /\ LoopT
         /\ ReadT /\ TreeT /\ ThreadT /\ OtherT
BY DEF TypeOK, OwnerT, AskT, HandleT, JobT, UserT, ReportT, LoopT, ReadT, TreeT, ThreadT, OtherT

LEMMA WholeType ==
  ASSUME WorldTypeOK', OwnerT', AskT', HandleT', JobT', UserT', ReportT', LoopT',
         ReadT', TreeT', ThreadT', OtherT'
  PROVE  TypeOK'
BY DEF TypeOK, OwnerT, AskT, HandleT, JobT, UserT, ReportT, LoopT, ReadT, TreeT, ThreadT, OtherT

LEMMA FrameTypes ==
  ASSUME TypeOK
  PROVE  /\ UNCHANGED ownerVars => OwnerT'
         /\ UNCHANGED askVars => AskT'
         /\ UNCHANGED handleVars => HandleT'
         /\ UNCHANGED jobVars => JobT'
         /\ UNCHANGED userVars => UserT'
         /\ UNCHANGED reportVars => ReportT'
         /\ UNCHANGED <<refVars, sent, seen>> => ReportT'
         /\ UNCHANGED loopVars => LoopT'
         /\ UNCHANGED readVars => ReadT'
         /\ UNCHANGED tt => TreeT'
         /\ UNCHANGED <<tpc, suspended>> => ThreadT'
         /\ UNCHANGED <<opt, writing, canceller, owed>> => OtherT'
<1> USE DEF TypeOK
<1>1. UNCHANGED ownerVars => OwnerT'
      BY DEF ownerVars, OwnerT
<1>2. UNCHANGED askVars => AskT'
      BY DEF askVars, AskT
<1>3. UNCHANGED handleVars => HandleT'
      BY DEF handleVars, HandleT
<1>4. (UNCHANGED jobVars => JobT') /\ (UNCHANGED userVars => UserT')
      BY DEF jobVars, JobT, userVars, UserT
<1>5. /\ UNCHANGED reportVars => ReportT'
      /\ UNCHANGED <<refVars, sent, seen>> => ReportT'
      BY DEF reportVars, refVars, ReportT
<1>6. (UNCHANGED loopVars => LoopT') /\ (UNCHANGED readVars => ReadT')
      BY DEF loopVars, LoopT, readVars, ReadT
<1>7. (UNCHANGED tt => TreeT') /\ (UNCHANGED <<tpc, suspended>> => ThreadT')
      BY DEF TreeT, ThreadT
<1>8. UNCHANGED <<opt, writing, canceller, owed>> => OtherT'
      BY DEF OtherT
<1> QED BY <1>1, <1>2, <1>3, <1>4, <1>5, <1>6, <1>7, <1>8

LEMMA ReportTypes ==
  ASSUME TypeOK, NEW kind \in Kind, Report(kind)
  PROVE  ReportT'
BY DEF TypeOK, Report, ReportT

TreeCall == [at : {"off", "list", "kill", "job"}, found : SUBSET Procs]

LEMMA TreeExcept ==
  ASSUME TypeOK, NEW a \in Actor, NEW c \in TreeCall, tt' = [tt EXCEPT ![a] = c]
  PROVE  TreeT'
BY DEF TypeOK, TreeT, TreeCall

LEMMA CallTypes ==
  ASSUME TypeOK, NEW a \in Actor, CallTerminateTree(a)
  PROVE  TreeT'
<1>1. CASE hasHandle
  <2>1. [at |-> "list", found |-> {}] \in TreeCall
        BY DEF TreeCall
  <2> QED BY <1>1, <2>1, TreeExcept DEF CallTerminateTree
<1>2. CASE ~hasHandle
  <2>1. [at |-> "job", found |-> {}] \in TreeCall
        BY DEF TreeCall
  <2> QED BY <1>2, <2>1, TreeExcept DEF CallTerminateTree
<1> QED BY <1>1, <1>2

LEMMA TreeTypes ==
  ASSUME TypeOK, UNCHANGED opt, NEW a \in Actor, TerminateTreeStep(a)
  PROVE  TypeOK'
<1>1. TreeFrame
      BY DEF TerminateTreeStep, TreeList, TreeKill, TreeJob
<1>2. WorldTypeOK'
  <2>1. CASE TreeList(a)
        BY <2>1, WorldUnchanged DEF TypeOK, TreeList
  <2>2. CASE TreeKill(a)
    <3>1. PICK ps : Kill(ps)
          BY <2>2 DEF TreeKill
    <3> QED BY <2>2, <3>1, KillTypes DEF TypeOK, TreeKill
  <2>3. CASE TreeJob(a)
        BY <2>3, KillTypes DEF TypeOK, TreeJob, TerminateJob
  <2> QED BY <2>1, <2>2, <2>3 DEF TerminateTreeStep
<1>3. TreeT'
  <2>1. CASE TreeList(a)
    <3>1. [at |-> "kill", found |-> Tree] \in TreeCall
          BY DEF TreeCall, Tree, Alive
    <3> QED BY <2>1, <3>1, TreeExcept DEF TreeList
  <2>2. CASE TreeKill(a)
    <3>1. [at |-> "job", found |-> {}] \in TreeCall
          BY DEF TreeCall
    <3> QED BY <2>2, <3>1, TreeExcept DEF TreeKill
  <2>3. CASE TreeJob(a)
        BY <2>3 DEF TreeJob, TypeOK, TreeT
  <2> QED BY <2>1, <2>2, <2>3 DEF TerminateTreeStep
<1> QED BY <1>1, <1>2, <1>3, FrameTypes, PartTypes, WholeType DEF TreeFrame

LEMMA StartTypes ==
  ASSUME TypeOK, UNCHANGED opt, Starting
  PROVE  TypeOK'
<1> USE DEF StartFrame
<1>0. OutputPipes \subseteq Pipe
      BY DEF OutputPipes, Pipe
<1>1. CASE MakePipes
  <2>1. WorldTypeOK'
        BY <1>1, WorldUnchanged DEF MakePipes, TypeOK
  <2>2. HandleT'
        BY <1>1, <1>0 DEF MakePipes, TypeOK, HandleT
  <2>3. ThreadT'
        BY <1>1 DEF MakePipes, TypeOK, ThreadT, GoOn, ThreadPC, StartPC, LoopPC
  <2> QED BY <1>1, <2>1, <2>2, <2>3, FrameTypes, WholeType DEF MakePipes
<1>2. CASE LaunchDocument
  <2>1. WorldTypeOK'
        BY <1>2 DEF LaunchDocument, TypeOK, WorldTypeOK, pipeVars, Procs
  <2>2. HandleT'
        BY <1>2 DEF LaunchDocument, TypeOK, HandleT
  <2>3. ThreadT'
        BY <1>2 DEF LaunchDocument, TypeOK, ThreadT, GoOn, ThreadPC, StartPC, LoopPC
  <2> QED BY <1>2, <2>1, <2>2, <2>3, FrameTypes, WholeType DEF LaunchDocument
<1>3. CASE LaunchElevated
  <2>1. WorldTypeOK'
        BY <1>3 DEF LaunchElevated, TypeOK, WorldTypeOK, pipeVars, Procs
  <2>2. HandleT'
        BY <1>3 DEF LaunchElevated, TypeOK, HandleT
  <2>3. ThreadT'
        BY <1>3 DEF LaunchElevated, TypeOK, ThreadT, GoOn, ThreadPC, StartPC, LoopPC
  <2> QED BY <1>3, <2>1, <2>2, <2>3, FrameTypes, WholeType DEF LaunchElevated
<1>4. CASE ConnectPipes
  <2>1. WorldTypeOK'
        BY <1>4 DEF ConnectPipes, TypeOK, WorldTypeOK, procVars, Procs
  <2>2. HandleT'
        BY <1>4, <1>0 DEF ConnectPipes, TypeOK, HandleT
  <2>3. ThreadT'
        BY <1>4 DEF ConnectPipes, TypeOK, ThreadT, ThreadPC, StartPC, LoopPC
  <2> QED BY <1>4, <2>1, <2>2, <2>3, FrameTypes, WholeType DEF ConnectPipes
<1>5. CASE ConnectFails
  <2>1. WorldTypeOK'
        BY <1>5, WorldUnchanged DEF ConnectFails, TypeOK
  <2>2. ThreadT'
        BY <1>5 DEF ConnectFails, TypeOK, ThreadT, ThreadPC, StartPC, LoopPC
  <2> QED BY <1>5, <2>1, <2>2, FrameTypes, WholeType DEF ConnectFails
<1>6. CASE FindProgram
  <2>1. WorldTypeOK'
        BY <1>6, WorldUnchanged DEF FindProgram, TypeOK
  <2>2. ThreadT'
        BY <1>6 DEF FindProgram, TypeOK, ThreadT, GoOn, ThreadPC, StartPC, LoopPC
  <2> QED BY <1>6, <2>1, <2>2, FrameTypes, WholeType DEF FindProgram
<1>7. CASE FindToken
  <2>1. WorldTypeOK'
        BY <1>7, WorldUnchanged DEF FindToken, TypeOK
  <2>2. ThreadT'
        BY <1>7 DEF FindToken, TypeOK, ThreadT, GoOn, ThreadPC, StartPC, LoopPC
  <2> QED BY <1>7, <2>1, <2>2, FrameTypes, WholeType DEF FindToken
<1>8. CASE LogOn
  <2>1. WorldTypeOK'
        BY <1>8, WorldUnchanged DEF LogOn, TypeOK
  <2>2. UserT'
        BY <1>8 DEF LogOn, TypeOK, UserT
  <2>3. ThreadT'
        BY <1>8 DEF LogOn, TypeOK, ThreadT, GoOn, ThreadPC, StartPC, LoopPC
  <2> QED BY <1>8, <2>1, <2>2, <2>3, FrameTypes, WholeType DEF LogOn
<1>9. ASSUME NEW object \in {"station", "desktop"}, NEW from, NEW to \in ThreadPC,
              Access(object, from, to)
       PROVE  TypeOK'
  <2>1. WorldTypeOK'
        BY <1>9, WorldUnchanged DEF Access, TypeOK
  <2>2. UserT'
        BY <1>9 DEF Access, TypeOK, UserT
  <2>3. ThreadT'
        BY <1>9 DEF Access, TypeOK, ThreadT, ThreadPC, StartPC, LoopPC
  <2> QED BY <1>9, <2>1, <2>2, <2>3, FrameTypes, WholeType DEF Access
<1>10. CASE AccessStation \/ AccessDesktop
      BY <1>9, <1>10 DEF AccessStation, AccessDesktop, ThreadPC, StartPC, LoopPC
<1>11. CASE Prepare
  <2>1. WorldTypeOK'
        BY <1>11, WorldUnchanged DEF Prepare, TypeOK
  <2>2. HandleT' /\ UserT'
        BY <1>11 DEF Prepare, TypeOK, HandleT, UserT
  <2>3. ThreadT'
        BY <1>11 DEF Prepare, TypeOK, ThreadT, ThreadPC, StartPC, LoopPC
  <2> QED BY <1>11, <2>1, <2>2, <2>3, FrameTypes, WholeType DEF Prepare
<1>12. CASE CreateChild
  <2>0. pstate' \in [Procs -> {"none", "alive", "zombie", "gone"}]
        BY <1>12 DEF CreateChild, TypeOK, WorldTypeOK, Procs
  <2>4. writers' \in [Pipe -> SUBSET Procs]
        BY <1>12 DEF CreateChild, TypeOK, WorldTypeOK, Procs
  <2>1. WorldTypeOK'
        BY <1>12, <2>0, <2>4 DEF CreateChild, TypeOK, WorldTypeOK
  <2>2. UserT'
        BY <1>12 DEF CreateChild, TypeOK, UserT
  <2>3. ThreadT'
        BY <1>12 DEF CreateChild, TypeOK, ThreadT, Option, ThreadPC, StartPC, LoopPC
  <2> QED BY <1>12, <2>1, <2>2, <2>3, FrameTypes, WholeType DEF CreateChild
<1>13. CASE EnterSandbox
  <2>1. WorldTypeOK'
        BY <1>13, WorldUnchanged DEF EnterSandbox, TypeOK
  <2>2. JobT'
        BY <1>13 DEF EnterSandbox, TypeOK, JobT
  <2>3. ThreadT'
        BY <1>13 DEF EnterSandbox, TypeOK, ThreadT, ThreadPC, StartPC, LoopPC
  <2> QED BY <1>13, <2>1, <2>2, <2>3, FrameTypes, WholeType DEF EnterSandbox
<1>14. CASE EnterJob
  <2>1. WorldTypeOK'
        BY <1>14, WorldUnchanged DEF EnterJob, TypeOK
  <2>2. JobT'
        BY <1>14 DEF EnterJob, TypeOK, JobT
  <2>3. ThreadT'
        BY <1>14 DEF EnterJob, TypeOK, ThreadT, ThreadPC, StartPC, LoopPC
  <2> QED BY <1>14, <2>1, <2>2, <2>3, FrameTypes, WholeType DEF EnterJob
<1>15. CASE Resume
  <2>1. WorldTypeOK'
        BY <1>15, WorldUnchanged DEF Resume, TypeOK
  <2>2. ThreadT'
        BY <1>15 DEF Resume, TypeOK, ThreadT, ThreadPC, StartPC, LoopPC
  <2> QED BY <1>15, <2>1, <2>2, FrameTypes, WholeType DEF Resume
<1>16. CASE StoreProcess
  <2>1. WorldTypeOK'
        BY <1>16, WorldUnchanged DEF StoreProcess, TypeOK
  <2>2. HandleT'
        BY <1>16 DEF StoreProcess, TypeOK, HandleT
  <2>3. ThreadT'
        BY <1>16 DEF StoreProcess, TypeOK, ThreadT, ThreadPC, StartPC, LoopPC
  <2> QED BY <1>16, <2>1, <2>2, <2>3, FrameTypes, WholeType DEF StoreProcess
<1>17. CASE UndoLaunch
  <2>1. WorldTypeOK'
        BY <1>17, KillTypes DEF UndoLaunch, TypeOK
  <2>2. UserT'
        BY <1>17 DEF UndoLaunch, TypeOK, UserT
  <2>3. ThreadT'
        BY <1>17 DEF UndoLaunch, TypeOK, ThreadT, ThreadPC, StartPC, LoopPC
  <2> QED BY <1>17, <2>1, <2>2, <2>3, FrameTypes, WholeType DEF UndoLaunch
<1>18. CASE Unwind
  <2>1. WorldTypeOK'
        BY <1>18, KillTypes DEF Unwind, TypeOK, CloseHandles
  <2>2. HandleT' /\ JobT'
        BY <1>18 DEF Unwind, TypeOK, HandleT, JobT, CloseHandles
  <2>3. ThreadT'
        BY <1>18 DEF Unwind, TypeOK, ThreadT, ThreadPC, StartPC, LoopPC
  <2> QED BY <1>18, <2>1, <2>2, <2>3, FrameTypes, WholeType DEF Unwind
<1>19. CASE OnLaunchFailed
  <2>1. WorldTypeOK'
        BY <1>19, WorldUnchanged DEF OnLaunchFailed, TypeOK
  <2>2. ThreadT'
        BY <1>19 DEF OnLaunchFailed, TypeOK, ThreadT, ThreadPC, StartPC, LoopPC
  <2>3. ReportT'
        BY <1>19, ReportTypes DEF OnLaunchFailed, Kind
  <2> QED BY <1>19, <2>1, <2>2, <2>3, FrameTypes, WholeType DEF OnLaunchFailed
<1> QED BY <1>1, <1>2, <1>3, <1>4, <1>5, <1>6, <1>7, <1>8, <1>10, <1>11, <1>12, <1>13, <1>14,
           <1>15, <1>16, <1>17, <1>18, <1>19
           DEF Starting

(* The reference that is given back is one that is counted.                *)
LEMMA DropRefTypes ==
  ASSUME TypeOK, refs # 0, DropRef
  PROVE  refs' \in Nat /\ freed' \in BOOLEAN
BY DEF TypeOK, DropRef

LEMMA CountedRef ==
  ASSUME TypeOK, RefsCountUsers, StartInv,
         \/ (opt.threaded /\ tpc = "return")
         \/ opc = "release"
         \/ seen < Len(sent)
  PROVE  refs # 0
<1>1. Len(sent) \in Nat /\ seen \in Nat /\ seen <= Len(sent)
      BY LenProperties DEF TypeOK, StartInv
<1>2. CASE opt.threaded /\ tpc = "return"
      BY <1>1, <1>2 DEF RefsCountUsers, Count
<1>3. CASE opc = "release"
      BY <1>1, <1>3 DEF RefsCountUsers, Count
<1>4. CASE seen < Len(sent)
      BY <1>1, <1>4 DEF RefsCountUsers, Count
<1> QED BY <1>2, <1>3, <1>4

LEMMA MainTypes ==
  ASSUME Inv, UNCHANGED opt, Main
  PROVE  TypeOK'
<1> USE DEF LoopFrame
<1>0. TypeOK /\ RefsCountUsers /\ StartInv
      BY DEF Inv
<1>1. CASE OnLaunched
  <2>1. WorldTypeOK'
        BY <1>0, <1>1, WorldUnchanged DEF OnLaunched, TypeOK
  <2>2. ReadT'
        BY <1>0, <1>1 DEF OnLaunched, TypeOK, ReadT
  <2>3. ThreadT'
        BY <1>0, <1>1 DEF OnLaunched, TypeOK, ThreadT, ThreadPC, StartPC, LoopPC
  <2>4. ReportT'
        BY <1>0, <1>1, ReportTypes DEF OnLaunched, Kind
  <2> QED BY <1>0, <1>1, <2>1, <2>2, <2>3, <2>4, FrameTypes, WholeType DEF OnLaunched
<1>2. CASE SeeExit
  <2>1. WorldTypeOK'
        BY <1>0, <1>2, WorldUnchanged DEF SeeExit, TypeOK
  <2>2. UserT' /\ LoopT'
        BY <1>0, <1>2 DEF SeeExit, TypeOK, UserT, LoopT
  <2>3. ThreadT'
        BY <1>0, <1>2 DEF SeeExit, TypeOK, ThreadT, ThreadPC, StartPC, LoopPC
  <2> QED BY <1>0, <1>2, <2>1, <2>2, <2>3, FrameTypes, WholeType DEF SeeExit
<1>3. CASE SeeEvent
  <2>1. WorldTypeOK'
        BY <1>0, <1>3, WorldUnchanged DEF SeeEvent, TypeOK
  <2>2. AskT' /\ LoopT'
        BY <1>0, <1>3 DEF SeeEvent, TypeOK, AskT, LoopT, loopVars
  <2>3. ThreadT'
        BY <1>0, <1>3 DEF SeeEvent, TypeOK, ThreadT, ThreadPC, StartPC, LoopPC
  <2> QED BY <1>0, <1>3, <2>1, <2>2, <2>3, FrameTypes, WholeType DEF SeeEvent
<1>19. CASE TakeFlags
  <2>1. WorldTypeOK'
        BY <1>0, <1>19, WorldUnchanged DEF TakeFlags, TypeOK
  <2>2. AskT' /\ LoopT'
        BY <1>0, <1>19 DEF TakeFlags, TypeOK, AskT, LoopT
  <2>3. ThreadT'
        BY <1>0, <1>19 DEF TakeFlags, TypeOK, ThreadT, ThreadPC, StartPC, LoopPC
  <2> QED BY <1>0, <1>19, <2>1, <2>2, <2>3, FrameTypes, WholeType DEF TakeFlags
<1>4. ASSUME NEW q \in Pipe, ReadChunk(q) PROVE TypeOK'
  <2>1. WorldTypeOK'
        BY <1>0, <1>4, WorldUnchanged DEF ReadChunk, TypeOK
  <2>2. ReadT'
        BY <1>0, <1>4 DEF ReadChunk, TypeOK, ReadT
  <2>3. ReportT'
        BY <1>0, <1>4, ReportTypes DEF ReadChunk, Kind, OutputKind
  <2> QED BY <1>0, <1>4, <2>1, <2>2, <2>3, FrameTypes, WholeType DEF ReadChunk
<1>5. ASSUME NEW q \in Pipe, ReadEnd(q) PROVE TypeOK'
  <2>1. WorldTypeOK'
        BY <1>0, <1>5, WorldUnchanged DEF ReadEnd, TypeOK
  <2>2. ReadT'
        BY <1>0, <1>5 DEF ReadEnd, TypeOK, ReadT
  <2> QED BY <1>0, <1>5, <2>1, <2>2, FrameTypes, WholeType DEF ReadEnd
<1>6. ASSUME NEW q \in Pipe, ReadError(q) PROVE TypeOK'
  <2>1. WorldTypeOK'
        BY <1>0, <1>6, WorldUnchanged DEF ReadError, TypeOK
  <2>2. ReadT'
        BY <1>0, <1>6 DEF ReadError, TypeOK, ReadT
  <2>3. ReportT'
        BY <1>0, <1>6, ReportTypes DEF ReadError, Kind, OutputKind
  <2> QED BY <1>0, <1>6, <2>1, <2>2, <2>3, FrameTypes, WholeType DEF ReadError
<1>7. CASE ActTree
  <2>1. WorldTypeOK'
        BY <1>0, <1>7, WorldUnchanged DEF ActTree, TypeOK
  <2>2. ThreadT'
        BY <1>0, <1>7 DEF ActTree, TypeOK, ThreadT, ThreadPC, StartPC, LoopPC
  <2>3. TreeT'
        BY <1>0, <1>7, CallTypes DEF ActTree, Actor
  <2> QED BY <1>0, <1>7, <2>1, <2>2, <2>3, FrameTypes, WholeType DEF ActTree
<1>8. ASSUME NEW wanted \in BOOLEAN, Decide(wanted), UNCHANGED suspended
       PROVE  UserT' /\ ThreadT'
       BY <1>0, <1>8 DEF Decide, TypeOK, UserT, ThreadT, ThreadPC, StartPC, LoopPC
<1>w. wait \in BOOLEAN /\ FALSE \in BOOLEAN
      BY <1>0 DEF TypeOK
<1>9. CASE ActTreeDone
  <2>1. WorldTypeOK'
        BY <1>0, <1>9, WorldUnchanged DEF ActTreeDone, TypeOK
  <2>2. ReportT'
        BY <1>0, <1>9, ReportTypes DEF ActTreeDone, Kind, OutputKind
  <2>3. UserT' /\ ThreadT'
        BY <1>w, <1>8, <1>9 DEF ActTreeDone
  <2> QED BY <1>0, <1>9, <2>3, <2>1, <2>2, FrameTypes, WholeType DEF ActTreeDone
<1>10. CASE ActNothing
  <2>1. WorldTypeOK'
        BY <1>0, <1>10, WorldUnchanged DEF ActNothing, TypeOK
  <2>2. UserT' /\ ThreadT'
        BY <1>w, <1>8, <1>10 DEF ActNothing
  <2> QED BY <1>0, <1>10, <2>2, <2>1, FrameTypes, WholeType DEF ActNothing
<1>11. CASE ActSandbox
  <2>1. WorldTypeOK'
        BY <1>0, <1>11, KillTypes DEF ActSandbox, TypeOK
  <2>2. JobT'
        BY <1>0, <1>11 DEF ActSandbox, TypeOK, JobT
  <2>3. UserT' /\ ThreadT'
        BY <1>w, <1>8, <1>11 DEF ActSandbox
  <2>4. ReportT'
        BY <1>0, <1>11, ReportTypes, FrameTypes DEF ActSandbox, Kind, OutputKind
  <2> QED BY <1>0, <1>11, <2>3, <2>1, <2>2, <2>4, FrameTypes, WholeType DEF ActSandbox
<1>12. CASE ActStop
  <2>1. WorldTypeOK'
        BY <1>0, <1>12, WorldUnchanged, BreakTypes DEF ActStop, TypeOK
  <2>2. ReportT'
        BY <1>0, <1>12, ReportTypes DEF ActStop, TypeOK, ReportT, Kind, OutputKind, reportVars
  <2>3. UserT' /\ ThreadT'
        BY <1>w, <1>8, <1>12 DEF ActStop
  <2> QED BY <1>0, <1>12, <2>3, <2>1, <2>2, FrameTypes, WholeType DEF ActStop
<1>13. CASE Drained
  <2>1. WorldTypeOK'
        BY <1>0, <1>13, WorldUnchanged DEF Drained, TypeOK
  <2>2. ThreadT'
        BY <1>0, <1>13 DEF Drained, TypeOK, ThreadT, ThreadPC, StartPC, LoopPC
  <2> QED BY <1>0, <1>13, <2>1, <2>2, FrameTypes, WholeType DEF Drained
<1>14. CASE CancelReads
  <2>1. WorldTypeOK'
        BY <1>0, <1>14, WorldUnchanged DEF CancelReads, TypeOK
  <2>2. ReadT'
        BY <1>0, <1>14 DEF CancelReads, TypeOK, ReadT
  <2>3. ThreadT'
        BY <1>0, <1>14 DEF CancelReads, TypeOK, ThreadT, ThreadPC, StartPC, LoopPC
  <2> QED BY <1>0, <1>14, <2>1, <2>2, <2>3, FrameTypes, WholeType DEF CancelReads
<1>15. CASE CancelledReadsDone
  <2>1. WorldTypeOK'
        BY <1>0, <1>15, WorldUnchanged DEF CancelledReadsDone, TypeOK
  <2>2. ThreadT'
        BY <1>0, <1>15 DEF CancelledReadsDone, TypeOK, ThreadT, ThreadPC, StartPC, LoopPC
  <2> QED BY <1>0, <1>15, <2>1, <2>2, FrameTypes, WholeType DEF CancelledReadsDone
<1>16. CASE OnExit
  <2>1. WorldTypeOK'
        BY <1>0, <1>16, WorldUnchanged DEF OnExit, TypeOK
  <2>2. ThreadT'
        BY <1>0, <1>16 DEF OnExit, TypeOK, ThreadT, ThreadPC, StartPC, LoopPC
  <2>3. ReportT'
        BY <1>0, <1>16, ReportTypes, FrameTypes DEF OnExit, ReportIf, Kind
  <2> QED BY <1>0, <1>16, <2>1, <2>2, <2>3, FrameTypes, WholeType DEF OnExit
<1>17. CASE CloseAll
  <2>1. WorldTypeOK'
        BY <1>0, <1>17, KillTypes DEF CloseAll, TypeOK, CloseHandles
  <2>2. HandleT' /\ JobT'
        BY <1>0, <1>17 DEF CloseAll, TypeOK, HandleT, JobT, CloseHandles
  <2>3. ThreadT'
        BY <1>0, <1>17 DEF CloseAll, TypeOK, ThreadT, ThreadPC, StartPC, LoopPC
  <2> QED BY <1>0, <1>17, <2>1, <2>2, <2>3, FrameTypes, WholeType DEF CloseAll
<1>18. CASE Return
  <2>1. WorldTypeOK'
        BY <1>0, <1>18, WorldUnchanged DEF Return, TypeOK
  <2>2. ThreadT'
        BY <1>0, <1>18 DEF Return, TypeOK, ThreadT, ThreadPC, StartPC, LoopPC
  <2>3. OwnerT' /\ ReportT'
        BY <1>0, <1>18, CountedRef, DropRefTypes DEF Return, TypeOK, OwnerT, ReportT, refVars
  <2> QED BY <1>0, <1>18, <2>1, <2>2, <2>3, FrameTypes, WholeType DEF Return
<1> QED BY <1>1, <1>2, <1>3, <1>4, <1>5, <1>6, <1>7, <1>9, <1>10, <1>11, <1>12, <1>13, <1>14,
           <1>15, <1>16, <1>17, <1>18, <1>19
           DEF Main

LEMMA OwnerTypes ==
  ASSUME Inv, UNCHANGED opt, Owner
  PROVE  TypeOK'
<1> USE DEF OwnerFrame
<1>0. /\ TypeOK /\ RefsCountUsers /\ StartInv
      /\ \A f \in opt.closes : f \in SUBSET Flag
      BY DEF Inv, TypeOK, Option
<1>1. CASE Start
  <2>1. WorldTypeOK'
        BY <1>0, <1>1, WorldUnchanged DEF Start, TypeOK
  <2>2. OwnerT'
        BY <1>0, <1>1 DEF Start, TypeOK, OwnerT
  <2>3. ThreadT'
        BY <1>0, <1>1 DEF Start, TypeOK, ThreadT, ThreadPC, StartPC, LoopPC
  <2>4. AskT'
        BY <1>0, <1>1, <2>2 DEF Start, TypeOK, AskT, RequestClose, askVars, OwnerT
  <2>5. ReportT'
        BY <1>0, <1>1 DEF Start, TypeOK, ReportT
  <2> QED BY <1>0, <1>1, <2>1, <2>2, <2>3, <2>4, <2>5, FrameTypes, WholeType DEF Start
<1>2. CASE StopProcess
  <2>1. WorldTypeOK'
        BY <1>0, <1>2, BreakTypes DEF StopProcess, TypeOK
  <2> QED BY <1>0, <1>2, <2>1, FrameTypes, WholeType DEF StopProcess
<1>3. CASE TerminateTree
  <2>1. WorldTypeOK'
        BY <1>0, <1>3, WorldUnchanged DEF TerminateTree, TypeOK
  <2>2. OwnerT'
        BY <1>0, <1>3 DEF TerminateTree, TypeOK, OwnerT
  <2>3. TreeT'
        BY <1>0, <1>3, CallTypes DEF TerminateTree, Actor
  <2> QED BY <1>0, <1>3, <2>1, <2>2, <2>3, FrameTypes, WholeType DEF TerminateTree
<1>4. CASE TerminateTreeReturns
  <2>1. WorldTypeOK'
        BY <1>0, <1>4, WorldUnchanged DEF TerminateTreeReturns, TypeOK
  <2>2. OwnerT'
        BY <1>0, <1>4 DEF TerminateTreeReturns, TypeOK, OwnerT
  <2> QED BY <1>0, <1>4, <2>1, <2>2, FrameTypes, WholeType DEF TerminateTreeReturns
<1>5. CASE SendStdIn
  <2>1. WorldTypeOK'
        BY <1>0, <1>5, WorldUnchanged DEF SendStdIn, TypeOK
  <2>2. OtherT'
        BY <1>0, <1>5 DEF SendStdIn, TypeOK, OtherT
  <2> QED BY <1>0, <1>5, <2>1, <2>2, FrameTypes, WholeType DEF SendStdIn
<1>6. CASE SendDone
  <2>1. WorldTypeOK'
        BY <1>0, <1>6, BoundsAssumption DEF SendDone, TypeOK, WorldTypeOK, procVars, pipeVars
  <2>2. OtherT'
        BY <1>0, <1>6 DEF SendDone, TypeOK, OtherT
  <2> QED BY <1>0, <1>6, <2>1, <2>2, FrameTypes, WholeType DEF SendDone
<1>7. CASE CloseStdIn
  <2>1. WorldTypeOK'
        BY <1>0, <1>7, WorldUnchanged DEF CloseStdIn, TypeOK
  <2>2. HandleT'
        BY <1>0, <1>7 DEF CloseStdIn, TypeOK, HandleT
  <2> QED BY <1>0, <1>7, <2>1, <2>2, FrameTypes, WholeType DEF CloseStdIn
<1>8. CASE Close
  <2>1. WorldTypeOK'
        BY <1>0, <1>8, WorldUnchanged DEF Close, TypeOK
  <2>2. OwnerT'
        BY <1>0, <1>8 DEF Close, TypeOK, OwnerT
  <2>3. AskT'
        BY <1>0, <1>8, <2>2 DEF Close, TypeOK, AskT, RequestClose, OwnerT
  <2> QED BY <1>0, <1>8, <2>1, <2>2, <2>3, FrameTypes, WholeType DEF Close
<1>9. CASE TerminateTreeStep("owner")
      BY <1>0, <1>9, TreeTypes DEF Actor
<1>10. CASE CloseJob
  <2>1. WorldTypeOK'
        BY <1>0, <1>10, KillTypes DEF CloseJob, TypeOK, TerminateJob
  <2>2. OwnerT'
        BY <1>0, <1>10 DEF CloseJob, TypeOK, OwnerT
  <2> QED BY <1>0, <1>10, <2>1, <2>2, FrameTypes, WholeType DEF CloseJob
<1>11. CASE Join
  <2>1. WorldTypeOK'
        BY <1>0, <1>11, WorldUnchanged DEF Join, TypeOK
  <2>2. OwnerT'
        BY <1>0, <1>11 DEF Join, TypeOK, OwnerT
  <2> QED BY <1>0, <1>11, <2>1, <2>2, FrameTypes, WholeType DEF Join
<1>12. CASE Release
  <2>1. WorldTypeOK'
        BY <1>0, <1>12, WorldUnchanged DEF Release, TypeOK
  <2>2. OwnerT' /\ ReportT'
        BY <1>0, <1>12, CountedRef, DropRefTypes DEF Release, TypeOK, OwnerT, ReportT
  <2> QED BY <1>0, <1>12, <2>1, <2>2, FrameTypes, WholeType DEF Release
<1> QED BY <1>1, <1>2, <1>3, <1>4, <1>5, <1>6, <1>7, <1>8, <1>9, <1>10, <1>11, <1>12
           DEF Owner, OwnerStep

LEMMA OtherTypes ==
  ASSUME Inv, UNCHANGED opt, Dispatch \/ CancelAll \/ CancelDone \/ Environment
  PROVE  TypeOK'
<1>0. TypeOK /\ RefsCountUsers /\ StartInv
      BY DEF Inv
<1>1. CASE Dispatch
  <2>1. WorldTypeOK'
        BY <1>0, <1>1, WorldUnchanged DEF Dispatch, TypeOK
  <2>2. ReportT'
        BY <1>0, <1>1, CountedRef, DropRefTypes DEF Dispatch, TypeOK, ReportT
  <2> QED BY <1>0, <1>1, <2>1, <2>2, FrameTypes, WholeType DEF Dispatch
<1>2. CASE CancelAll
  <2>1. WorldTypeOK'
        BY <1>0, <1>2, WorldUnchanged DEF CancelAll, TypeOK
  <2>2. AskT' /\ OtherT'
        BY <1>0, <1>2 DEF CancelAll, TypeOK, AskT, OtherT
  <2> QED BY <1>0, <1>2, <2>1, <2>2, FrameTypes, WholeType DEF CancelAll
<1>3. CASE CancelDone
  <2>1. WorldTypeOK'
        BY <1>0, <1>3, WorldUnchanged DEF CancelDone, TypeOK
  <2>2. OtherT'
        BY <1>0, <1>3 DEF CancelDone, TypeOK, OtherT
  <2> QED BY <1>0, <1>3, <2>1, <2>2, FrameTypes, WholeType DEF CancelDone
<1>4. CASE Environment
  <2>1. WorldTypeOK'
        BY <1>0, <1>4, EnvironmentTypes DEF Environment, TypeOK
  <2>2. OtherT'
        BY <1>0, <1>4 DEF Environment, TypeOK, OtherT, WorldTypeOK
  <2> QED BY <1>0, <1>4, <2>1, <2>2, FrameTypes, WholeType DEF Environment
<1> QED BY <1>1, <1>2, <1>3, <1>4

LEMMA TypeStep ==
  ASSUME Inv, [Next]_vars
  PROVE  TypeOK'
<1>0. TypeOK
      BY DEF Inv
<1>1. CASE UNCHANGED vars
      BY <1>0, <1>1, WorldUnchanged, FrameTypes, WholeType, PartTypes DEF vars
<1>2. CASE Next /\ ~UNCHANGED vars
      BY <1>0, <1>2, StartTypes, MainTypes, TreeTypes, OwnerTypes, OtherTypes
         DEF Next, Thread, Finished, Actor
<1> QED BY <1>1, <1>2

-----------------------------------------------------------------------------
(* A launch as its callbacks and its references see it.                    *)

Reads == {"loop", "woken", "act", "actTree", "drain", "cancel", "drain2"}
Calling  == {"idle", "terminating", "closeJob", "join"}

ThreadSkeleton ==
  /\ UNCHANGED <<flags, before>>
  /\ \/ /\ tpc \in StartPC /\ tpc' \in StartPC \cup {"launched", "failed"}
        /\ UNCHANGED <<opc, exited, reportVars>>
     \/ tpc = "failed" /\ tpc' = "return" /\ Report("LaunchFailed") /\ UNCHANGED <<opc, exited>>
     \/ tpc = "launched" /\ tpc' = "loop" /\ Report("Launched") /\ UNCHANGED <<opc, exited>>
     \/ tpc = "loop" /\ tpc' = "drain" /\ exited' /\ UNCHANGED <<opc, reportVars>>
     \/ /\ tpc \in Reads /\ tpc' \in Reads /\ (tpc \notin WaitPC => tpc' \notin WaitPC)
        /\ \E kind \in OutputKind : Report(kind)
        /\ UNCHANGED <<opc, exited>>
     \/ /\ tpc \in Reads /\ tpc' \in Reads \cup {"exit"} /\ (tpc \notin WaitPC => tpc' \notin WaitPC)
        /\ UNCHANGED <<opc, exited, reportVars>>
     \/ /\ tpc = "exit" /\ tpc' = "close"
        /\ ReportIf(exited, "Exited")
        /\ UNCHANGED <<opc, exited>>
     \/ tpc = "close" /\ tpc' = "return" /\ UNCHANGED <<opc, exited, reportVars>>
     \/ /\ tpc = "return" /\ tpc' = "done" /\ UNCHANGED <<exited, sent, seen>>
        /\ IF opt.threaded THEN DropRef /\ UNCHANGED opc ELSE opc' = "idle" /\ UNCHANGED refVars
     \/ UNCHANGED <<tpc, opc, exited, reportVars>>

OwnerSkeleton ==
  /\ UNCHANGED <<sent, seen, exited>>
  /\ \/ /\ opc = "new" /\ tpc' = "start"
        /\ \/ opt.threaded /\ opc' = "idle" /\ refs' = refs + 1
           \/ ~opt.threaded /\ opc' = "inline" /\ refs' = refs
        /\ UNCHANGED freed
     \/ opc \in Calling /\ opc' \in Calling \cup {"release"} /\ UNCHANGED <<tpc, refVars>>
     \/ opc = "release" /\ opc' = "closed" /\ DropRef /\ UNCHANGED tpc

DispatchSkeleton ==
  /\ seen < Len(sent) /\ seen' = seen + 1 /\ DropRef
  /\ UNCHANGED <<sent, tpc, ownerVars, exited>>

Skeleton ==
  /\ UNCHANGED opt
  /\ ThreadSkeleton \/ OwnerSkeleton \/ DispatchSkeleton

LEMMA TreeSkeleton ==
  ASSUME NEW a \in Actor, TerminateTreeStep(a)
  PROVE  UNCHANGED <<ownerVars, tpc, exited, reportVars>>
BY DEF TerminateTreeStep, TreeList, TreeKill, TreeJob, TreeFrame, refVars, reportVars, loopVars

LEMMA StartSkeleton ==
  ASSUME Starting
  PROVE  ThreadSkeleton
<1> USE DEF ThreadSkeleton, StartFrame, StartPC, ownerVars, loopVars, refVars, reportVars
<1>1. CASE MakePipes
      BY <1>1 DEF MakePipes, GoOn
<1>2. CASE LaunchDocument \/ LaunchElevated
      BY <1>2 DEF LaunchDocument, LaunchElevated, GoOn
<1>3. CASE ConnectPipes \/ ConnectFails \/ Resume \/ StoreProcess \/ UndoLaunch
      BY <1>3 DEF ConnectPipes, ConnectFails, Resume, StoreProcess, UndoLaunch
<1>4. CASE FindProgram \/ FindToken \/ LogOn
      BY <1>4 DEF FindProgram, FindToken, LogOn, GoOn
<1>5. CASE AccessStation \/ AccessDesktop
      BY <1>5 DEF AccessStation, AccessDesktop, Access
<1>6. CASE Prepare \/ EnterSandbox \/ EnterJob \/ Unwind
      BY <1>6 DEF Prepare, EnterSandbox, EnterJob, Unwind
<1>7. CASE CreateChild
      BY <1>7 DEF CreateChild
<1>8. CASE OnLaunchFailed
      BY <1>8 DEF OnLaunchFailed
<1> QED BY <1>1, <1>2, <1>3, <1>4, <1>5, <1>6, <1>7, <1>8 DEF Starting

LEMMA MainSkeleton ==
  ASSUME Main
  PROVE  ThreadSkeleton
<1> USE DEF ThreadSkeleton, LoopFrame, Reads, WaitPC, ownerVars, loopVars
<1>1. CASE OnLaunched
      BY <1>1 DEF OnLaunched
<1>2. CASE SeeExit \/ SeeEvent \/ TakeFlags \/ ActTree
      BY <1>2 DEF SeeExit, SeeEvent, TakeFlags, ActTree
<1>3. ASSUME NEW q \in Pipe, ReadChunk(q) \/ ReadEnd(q) \/ ReadError(q)
      PROVE  ThreadSkeleton
      BY <1>3 DEF ReadChunk, ReadEnd, ReadError, Alertable, OutputKind
<1>4. CASE ActTreeDone
      BY <1>4 DEF ActTreeDone, Decide, OutputKind
<1>5. CASE ActSandbox \/ ActNothing
      BY <1>5 DEF ActSandbox, ActNothing, Decide, OutputKind
<1>6. CASE ActStop
      BY <1>6 DEF ActStop, Decide, OutputKind
<1>7. CASE Drained \/ CancelReads \/ CancelledReadsDone
      BY <1>7 DEF Drained, CancelReads, CancelledReadsDone
<1>8. CASE OnExit
      BY <1>8 DEF OnExit
<1>9. CASE CloseAll \/ Return
      BY <1>9 DEF CloseAll, Return, refVars, reportVars
<1> QED BY <1>1, <1>2, <1>3, <1>4, <1>5, <1>6, <1>7, <1>8, <1>9 DEF Main

LEMMA OwnerStepSkeleton ==
  ASSUME Owner
  PROVE  OwnerSkeleton \/ UNCHANGED <<ownerVars, tpc, exited, reportVars>>
<1> USE DEF OwnerSkeleton, OwnerFrame, Calling, ownerVars, refVars, reportVars, loopVars
<1>1. CASE Start
      BY <1>1 DEF Start
<1>2. CASE Close
      BY <1>2 DEF Close
<1>3. CASE TerminateTree \/ TerminateTreeReturns \/ CloseJob \/ Join
      BY <1>3 DEF TerminateTree, TerminateTreeReturns, CloseJob, Join
<1>4. CASE Release
      BY <1>4 DEF Release
<1>5. CASE StopProcess \/ SendStdIn \/ SendDone \/ CloseStdIn
      BY <1>5 DEF StopProcess, SendStdIn, SendDone, CloseStdIn
<1>6. CASE TerminateTreeStep("owner")
      BY <1>6, TreeSkeleton DEF Actor
<1> QED BY <1>1, <1>2, <1>3, <1>4, <1>5, <1>6 DEF Owner, OwnerStep

LEMMA StepSkeleton ==
  ASSUME [Next]_vars
  PROVE  Skeleton
<1>1. CASE Owner /\ UNCHANGED opt
      BY <1>1, OwnerStepSkeleton DEF Skeleton, ThreadSkeleton, ownerVars
<1>2. CASE Thread /\ UNCHANGED opt
  <2>1. CASE Starting \/ Main
        BY <1>2, <2>1, StartSkeleton, MainSkeleton DEF Skeleton
  <2>2. CASE TerminateTreeStep("thread")
        BY <1>2, <2>2, TreeSkeleton DEF Skeleton, ThreadSkeleton, ownerVars, Actor
  <2> QED BY <1>2, <2>1, <2>2 DEF Thread
<1>3. CASE Dispatch /\ UNCHANGED opt
      BY <1>3 DEF Dispatch, Skeleton, DispatchSkeleton, loopVars
<1>4. CASE (CancelAll \/ CancelDone \/ Environment) /\ UNCHANGED opt
      BY <1>4 DEF CancelAll, CancelDone, Environment, Skeleton, ThreadSkeleton, ownerVars,
                  refVars, reportVars, loopVars
<1>5. CASE UNCHANGED vars
      BY <1>5 DEF vars, Skeleton, ThreadSkeleton, ownerVars, refVars, reportVars, loopVars
<1> QED BY <1>1, <1>2, <1>3, <1>4, <1>5 DEF Next, Finished

LEMMA AppendReport ==
  ASSUME TypeOK, NEW kind, sent' = Append(sent, kind)
  PROVE  /\ Len(sent') = Len(sent) + 1
         /\ DOMAIN sent' = 1..Len(sent') /\ DOMAIN sent = 1..Len(sent)
         /\ sent'[Len(sent')] = kind
         /\ \A i \in 1..Len(sent) : sent'[i] = sent[i]
BY AppendProperties, LenProperties DEF TypeOK

LEMMA Reported ==
  ASSUME TypeOK, NEW kind, sent' = Append(sent, kind), NEW k
  PROVE  HasReported(k)' <=> HasReported(k) \/ k = kind
<1>1. Len(sent) \in Nat
      BY LenProperties DEF TypeOK
<1> QED BY <1>1, AppendReport DEF HasReported

LEMMA CountStep ==
  ASSUME TypeOK, RefsCountUsers, StartInv, Skeleton
  PROVE  RefsCountUsers' /\ StartInv'
<1> USE DEF RefsCountUsers, StartInv, Count, ownerVars, refVars, reportVars
<1>0. Len(sent) \in Nat /\ seen \in Nat /\ refs \in Nat
      BY LenProperties DEF TypeOK
<1>1. CASE ThreadSkeleton
  <2>1. CASE \E kind \in Kind : /\ tpc \notin {"none", "return", "done"}
                                /\ tpc' # "none" /\ tpc' # "done"
                                /\ Report(kind) /\ UNCHANGED opc
        BY <1>0, <1>1, <2>1, AppendReport DEF Report, ThreadSkeleton, Skeleton
  <2>2. CASE UNCHANGED <<opc, reportVars>>
        BY <1>0, <1>1, <2>2 DEF ThreadSkeleton, Skeleton, Reads, StartPC, DropRef
  <2>3. CASE /\ tpc = "return" /\ tpc' = "done" /\ UNCHANGED <<sent, seen>>
             /\ IF opt.threaded THEN DropRef /\ UNCHANGED opc ELSE opc' = "idle" /\ UNCHANGED refVars
        BY <1>0, <1>1, <2>3 DEF ThreadSkeleton, Skeleton, DropRef
  <2> QED BY <1>1, <2>1, <2>2, <2>3 DEF ThreadSkeleton, Reads, StartPC, Kind, ReportIf
<1>2. CASE OwnerSkeleton
      BY <1>0, <1>2 DEF OwnerSkeleton, Skeleton, Calling, DropRef
<1>3. CASE DispatchSkeleton
      BY <1>0, <1>3 DEF DispatchSkeleton, Skeleton, DropRef
<1> QED BY <1>1, <1>2, <1>3 DEF Skeleton

LEMMA ReportStep ==
  ASSUME TypeOK, StartInv, ReportInv, Skeleton
  PROVE  ReportInv'
<1> USE DEF ReportInv, Launched, Failed, HasExited, ReportIf
<1>0. Len(sent) \in Nat /\ DOMAIN sent = 1..Len(sent) /\ (sent = <<>> <=> Len(sent) = 0)
      BY LenProperties, EmptySeq DEF TypeOK
<1>1. CASE UNCHANGED sent
  <2>1. \A k : HasReported(k)' <=> HasReported(k)
        BY <1>1 DEF HasReported
  <2>2. CASE ThreadSkeleton
    <3>1. CASE UNCHANGED reportVars
          BY <1>1, <2>1, <2>2, <3>1
             DEF ThreadSkeleton, Reads, StartPC, WaitPC, AfterPC, Report
    <3>2. CASE ~UNCHANGED reportVars
          BY <1>1, <2>1, <2>2, <3>2
             DEF ThreadSkeleton, Reads, StartPC, WaitPC, AfterPC, Report, reportVars
    <3> QED BY <3>1, <3>2
  <2>3. CASE OwnerSkeleton \/ DispatchSkeleton
        BY <1>1, <2>1, <2>3 DEF OwnerSkeleton, DispatchSkeleton, StartInv, StartPC, WaitPC, AfterPC
  <2> QED BY <2>2, <2>3 DEF Skeleton
<1>2. CASE \E kind \in Kind : Report(kind) /\ ThreadSkeleton
  <2>1. PICK kind \in Kind : Report(kind) /\ ThreadSkeleton
        BY <1>2
  <2>2. \A k : HasReported(k)' <=> HasReported(k) \/ k = kind
        BY <2>1, Reported DEF Report
  <2>3. /\ Len(sent') = Len(sent) + 1 /\ sent' # <<>>
        /\ DOMAIN sent' = 1..Len(sent')
        /\ sent'[Len(sent')] = kind
        /\ \A i \in 1..Len(sent) : sent'[i] = sent[i]
    <3>1. sent' # <<>>
          BY <2>1, AppendProperties DEF Report, TypeOK
    <3> QED BY <2>1, <3>1, AppendReport DEF Report
  <2>4. \A k : Report(k) => k = kind
        BY <2>3, AppendReport DEF Report
  <2>5. /\ exited' = exited
        /\ \/ tpc = "failed" /\ tpc' = "return" /\ kind = "LaunchFailed"
           \/ tpc = "launched" /\ tpc' = "loop" /\ kind = "Launched"
           \/ /\ tpc \in Reads /\ tpc' \in Reads /\ kind \in OutputKind
              /\ tpc \notin WaitPC => tpc' \notin WaitPC
           \/ tpc = "exit" /\ tpc' = "close" /\ kind = "Exited" /\ exited
    <3>1. ~UNCHANGED sent
          BY <1>0, <2>3
    <3>2. ~UNCHANGED reportVars
          BY <3>1 DEF reportVars
    <3> QED BY <2>1, <2>4, <3>1, <3>2 DEF ThreadSkeleton
  <2>6. CASE tpc \in {"failed", "launched"}
    <3>1. Len(sent) = 0
          BY <1>0, <2>6
    <3>2. ~Launched /\ ~Failed /\ ~HasExited
          BY <1>0, <3>1 DEF HasReported
    <3>3. Len(sent') = 1 /\ sent'[1] = kind
          BY <2>3, <3>1
    <3>4. \A i \in DOMAIN sent' : sent'[i] \in {"Launched", "LaunchFailed"} <=> i = 1
          BY <2>3, <2>5, <2>6, <3>3 DEF Reads
    <3>5. ~exited
          BY <2>6 DEF AfterPC
    <3>6. ~HasExited' /\ (Failed' <=> kind = "LaunchFailed")
          BY <2>2, <2>5, <2>6, <3>2 DEF Reads
    <3>7. CASE tpc = "failed"
          BY <2>3, <2>5, <3>3, <3>4, <3>5, <3>6, <3>7 DEF StartPC, WaitPC, AfterPC, Reads
    <3>8. CASE tpc = "launched"
          BY <2>3, <2>5, <3>3, <3>4, <3>5, <3>6, <3>8 DEF StartPC, WaitPC, AfterPC, Reads
    <3> QED BY <2>6, <3>7, <3>8
  <2>7. CASE tpc \in Reads \cup {"exit"}
    <3>1. Len(sent) # 0 /\ ~Failed /\ ~HasExited
          BY <1>0, <2>7 DEF Reads, StartPC
    <3>2. sent'[1] = sent[1]
          BY <1>0, <2>3, <3>1
    <3>3. kind \notin {"Launched", "LaunchFailed"}
          BY <2>5, <2>7 DEF Reads, OutputKind
    <3>4. \A i \in DOMAIN sent' : sent'[i] \in {"Launched", "LaunchFailed"} <=> i = 1
          BY <1>0, <2>3, <3>1, <3>3
    <3>5. ~Failed' /\ (HasExited' <=> kind = "Exited")
          BY <2>2, <3>1, <3>3
    <3> QED BY <2>3, <2>5, <2>7, <3>2, <3>4, <3>5 DEF StartPC, WaitPC, AfterPC, Reads, OutputKind
  <2> QED BY <2>5, <2>6, <2>7
<1> QED BY <1>1, <1>2
        DEF Skeleton, ThreadSkeleton, OwnerSkeleton, DispatchSkeleton, Kind, reportVars

LEMMA FailedStep ==
  ASSUME TypeOK, ReportInv, Skeleton
  PROVE  /\ Failed' <=> Failed \/ (tpc = "failed" /\ tpc' = "return")
         /\ tpc = "failed" /\ Failed' => tpc' = "return"
<1>1. CASE UNCHANGED sent
  <2>1. Failed' <=> Failed
        BY <1>1 DEF Failed, HasReported
  <2>2. tpc = "failed" => ~Failed
        BY DEF ReportInv
  <2>3. ~(tpc = "failed" /\ tpc' = "return")
    <3>1. \A k : ~Report(k)
      <4>1. \A k : sent' = Append(sent, k) => Len(sent') = Len(sent) + 1
            BY AppendReport
      <4>2. Len(sent) \in Nat
            BY LenProperties DEF TypeOK
      <4> QED BY <1>1, <4>1, <4>2 DEF Report
    <3> QED BY <3>1 DEF Skeleton, ThreadSkeleton, OwnerSkeleton, DispatchSkeleton, StartPC, Reads
  <2> QED BY <2>1, <2>2, <2>3
<1>2. CASE \E kind \in Kind : Report(kind) /\ ThreadSkeleton
  <2>1. PICK kind \in Kind : Report(kind) /\ ThreadSkeleton
        BY <1>2
  <2>0. sent'[Len(sent')] = kind
        BY <2>1, AppendReport DEF Report
  <2>2. \A k : Report(k) => k = kind
        BY <2>0, AppendReport DEF Report
  <2>3. Failed' <=> Failed \/ kind = "LaunchFailed"
        BY <2>1, Reported DEF Report, Failed
  <2>4. ~UNCHANGED reportVars
    <3>1. Len(sent') = Len(sent) + 1 /\ Len(sent) \in Nat
          BY <2>1, AppendReport, LenProperties DEF Report, TypeOK
    <3> QED BY <3>1 DEF reportVars
  <2>5. kind = "LaunchFailed" <=> tpc = "failed"
        BY <2>1, <2>2, <2>4 DEF ThreadSkeleton, Reads, OutputKind, ReportIf, Report, reportVars
  <2>6. tpc = "failed" => tpc' = "return"
        BY <2>1, <2>4, <2>5 DEF ThreadSkeleton, StartPC, Reads, ReportIf, Report, reportVars
  <2> QED BY <2>3, <2>5, <2>6
<1> QED BY <1>1, <1>2
        DEF Skeleton, ThreadSkeleton, OwnerSkeleton, DispatchSkeleton, Kind, ReportIf, reportVars

-----------------------------------------------------------------------------
(* What the steps of the others do to the processes and to the redirector. *)

StillStep ==
  /\ UNCHANGED <<opt, pstate, parent, outside, writers, written, stranger>>
  /\ UNCHANGED <<hasHandle, hasID, rd, job, sandbox, held, leaked, suspended>>
  /\ UNCHANGED <<exited, term, wait, io, taken, sent, owed>>
  /\ stdinOpen' => stdinOpen
  /\ doomed \subseteq doomed'
  /\ tpc' = tpc \/ (opc = "new" /\ tpc' = "start")

LEMMA TreeStill ==
  ASSUME UNCHANGED opt, NEW a \in Actor, TerminateTreeStep(a)
  PROVE  StillStep
BY DEF TerminateTreeStep, TreeList, TreeKill, TreeJob, TerminateJob, TreeFrame, Kill, DoomFrame,
       StillStep,
       handleVars, jobVars, userVars, loopVars, readVars, worldVars, pipeVars

LEMMA OwnerStill ==
  ASSUME UNCHANGED opt, Owner
  PROVE  StillStep
<1> USE DEF StillStep, OwnerFrame, handleVars, jobVars, userVars, loopVars, readVars, worldVars,
            procVars, pipeVars
<1>1. CASE Start
      BY <1>1 DEF Start
<1>2. CASE StopProcess
      BY <1>2 DEF StopProcess, SendBreak
<1>3. CASE TerminateTree \/ TerminateTreeReturns \/ SendStdIn \/ SendDone
      BY <1>3 DEF TerminateTree, TerminateTreeReturns, SendStdIn, SendDone
<1>4. CASE CloseStdIn
      BY <1>4 DEF CloseStdIn
<1>5. CASE Close \/ Join \/ Release
      BY <1>5 DEF Close, Join, Release
<1>6. CASE CloseJob
      BY <1>6 DEF CloseJob, TerminateJob, Kill, DoomFrame
<1>7. CASE TerminateTreeStep("owner")
      BY <1>7, TreeStill DEF Actor
<1> QED BY <1>1, <1>2, <1>3, <1>4, <1>5, <1>6, <1>7 DEF Owner, OwnerStep

(* Every step is one of the launch thread in a start or in f_Main, one of  *)
(* the processes, or one that leaves all this alone.                       *)
LEMMA StepKinds ==
  ASSUME [Next]_vars
  PROVE  UNCHANGED opt /\ (Starting \/ Main \/ Environment \/ StillStep)
<1> USE DEF handleVars, jobVars, userVars, loopVars, readVars, worldVars
<1>1. CASE Owner /\ UNCHANGED opt
      BY <1>1, OwnerStill
<1>2. CASE Thread /\ UNCHANGED opt
      BY <1>2, TreeStill DEF Thread, Actor
<1>3. CASE (Dispatch \/ CancelAll \/ CancelDone) /\ UNCHANGED opt
      BY <1>3 DEF Dispatch, CancelAll, CancelDone, StillStep
<1>4. CASE UNCHANGED vars
      BY <1>4 DEF vars, StillStep
<1> QED BY <1>1, <1>2, <1>3, <1>4 DEF Next, Finished

LEMMA KillFacts ==
  ASSUME TypeOK, NEW ps, Kill(ps), DoomFrame
  PROVE  /\ Active' = Active \ ps /\ Alive' = Alive
         /\ doomed \subseteq doomed'
         /\ UNCHANGED <<pstate, parent, outside, writers, written, stranger>>
BY DEF Kill, DoomFrame, Active, Alive, pipeVars

(* A process that is alive comes from one that is active and of the same   *)
(* job; a pipe that nobody holds stays so.                                 *)
LEMMA WorldStep ==
  ASSUME TypeOK, Environment
  PROVE  /\ doomed' = doomed
         /\ \/ pstate'[Child] = pstate[Child]
            \/ pstate[Child] = "alive" /\ pstate'[Child] = "zombie"
            \/ /\ pstate[Child] = "zombie" /\ pstate'[Child] = "gone"
               /\ ~hasHandle /\ tpc \notin StartPC
         /\ Active = {} => Active' = {}
         /\ Alive \ outside \subseteq doomed => (Alive \ outside)' \subseteq doomed'
         /\ \A q \in Pipe : written[q] <= written'[q]
         /\ \A q \in Pipe : writers[q] = {} => writers'[q] = {} /\ written'[q] = written[q]
         /\ stranger' => stranger \/ pstate[Child] = "gone"
         /\ (\A p \in Procs : pstate[p] = "none") => \A p \in Procs : pstate'[p] = "none"
<1> USE ChildAssumption DEF TypeOK, WorldTypeOK, Procs, Pipe, procVars, pipeVars, Active, Alive
<1>1. CASE \E p \in Procs, d \in Descendants : Fork(p, d)
      BY <1>1 DEF Fork
<1>2. CASE \E d \in Descendants : LeaveGroup(d)
      BY <1>2 DEF LeaveGroup
<1>3. CASE \E p \in Procs, q \in Pipe : Write(p, q)
      BY <1>3, BoundsAssumption DEF Write
<1>4. CASE \E p \in Procs, q \in Pipe : CloseOutput(p, q)
      BY <1>4 DEF CloseOutput
<1>5. CASE ReadStdin
      BY <1>5 DEF ReadStdin
<1>6. CASE \E p \in Procs : Die(p)
      BY <1>6 DEF Die
<1>7. CASE ReuseID(FALSE) \/ Forget
      BY <1>7 DEF ReuseID, Forget
<1> QED BY <1>1, <1>2, <1>3, <1>4, <1>5, <1>6, <1>7 DEF Environment, World

MainStep ==
  /\ UNCHANGED <<opt, pstate, parent, outside, writers, written, stranger>>
  /\ UNCHANGED <<suspended, hasID, job, owed>>
  /\ \/ UNCHANGED <<hasHandle, stdinOpen, rd>>
     \/ tpc = "close" /\ ~hasHandle' /\ ~stdinOpen' /\ rd' = {}
  /\ doomed \subseteq doomed'
  /\ tpc \in WaitPC \cup {"launched", "drain", "cancel", "drain2", "exit", "close", "return"}
  /\ tpc' \in WaitPC \cup {"drain", "cancel", "drain2", "exit", "close", "return", "done"}
  /\ tpc' \in WaitPC => tpc \in WaitPC \cup {"launched"}
  /\ tpc' \in WokenPC => tpc \in WokenPC \/ (tpc = "loop" /\ hasHandle)

LEMMA MainStill ==
  ASSUME UNCHANGED opt, Main
  PROVE  MainStep
<1> USE DEF MainStep, LoopFrame, handleVars, jobVars, worldVars, pipeVars, WaitPC, WokenPC
<1>1. CASE OnLaunched \/ SeeExit \/ SeeEvent \/ TakeFlags
      BY <1>1 DEF OnLaunched, SeeExit, SeeEvent, TakeFlags, HasEnded
<1>2. ASSUME NEW q \in Pipe, ReadChunk(q) \/ ReadEnd(q) \/ ReadError(q)
      PROVE  MainStep
      BY <1>2 DEF ReadChunk, ReadEnd, ReadError, Alertable
<1>3. CASE ActTree \/ ActTreeDone
      BY <1>3 DEF ActTree, ActTreeDone, Decide
<1>4. CASE ActSandbox \/ ActNothing
      BY <1>4 DEF ActSandbox, ActNothing, Decide, Kill, DoomFrame
<1>5. CASE ActStop
      BY <1>5 DEF ActStop, Decide, SendBreak
<1>6. CASE Drained \/ CancelReads \/ CancelledReadsDone \/ OnExit
      BY <1>6 DEF Drained, CancelReads, CancelledReadsDone, OnExit
<1>7. CASE CloseAll
      BY <1>7 DEF CloseAll, CloseHandles, Kill, DoomFrame
<1>8. CASE Return
      BY <1>8 DEF Return
<1> QED BY <1>1, <1>2, <1>3, <1>4, <1>5, <1>6, <1>7, <1>8 DEF Main

-----------------------------------------------------------------------------
(* The parts of the invariant are preserved.                               *)

LEMMA TargetStep ==
  ASSUME TypeOK, TargetInv, StartInv, [Next]_vars
  PROVE  TargetInv'
<1>0. UNCHANGED opt /\ OutputPipes' = OutputPipes /\ (Creates' <=> Creates)
      BY StepKinds DEF OutputPipes, Creates
<1> USE DEF TargetInv, StartPC, WaitPC
<1>1. CASE Starting
  <2> USE DEF StartFrame
  <2>1. CASE MakePipes
        BY <1>0, <2>1 DEF MakePipes, GoOn, OutputPipes, Creates, TypeOK, Option, Target
  <2>2. CASE LaunchDocument \/ LaunchElevated
        BY <1>0, <2>2 DEF LaunchDocument, LaunchElevated, GoOn, OutputPipes
  <2>3. CASE ConnectPipes \/ ConnectFails
        BY <1>0, <2>3 DEF ConnectPipes, ConnectFails, handleVars
  <2>4. CASE FindProgram \/ FindToken \/ LogOn
        BY <1>0, <2>4 DEF FindProgram, FindToken, LogOn, GoOn, handleVars
  <2>5. CASE AccessStation \/ AccessDesktop \/ Prepare
        BY <1>0, <2>5 DEF AccessStation, AccessDesktop, Access, Prepare, handleVars
  <2>6. CASE CreateChild \/ EnterSandbox \/ EnterJob
        BY <1>0, <2>6 DEF CreateChild, EnterSandbox, EnterJob, handleVars
  <2>7. CASE Resume \/ StoreProcess \/ UndoLaunch
        BY <1>0, <2>7 DEF Resume, StoreProcess, UndoLaunch, handleVars, Creates
  <2>8. CASE Unwind \/ OnLaunchFailed
        BY <1>0, <2>8 DEF Unwind, OnLaunchFailed
  <2> QED BY <1>1, <2>1, <2>2, <2>3, <2>4, <2>5, <2>6, <2>7, <2>8 DEF Starting
<1>2. CASE Main
      BY <1>0, <1>2, MainStill DEF MainStep
<1>3. CASE StillStep
      BY <1>0, <1>3 DEF StillStep
<1>4. CASE Environment
      BY <1>0, <1>4 DEF Environment, handleVars
<1> QED BY <1>1, <1>2, <1>3, <1>4, StepKinds

LEMMA ProcStep ==
  ASSUME TypeOK, TargetInv, ProcInv, StartInv, [Next]_vars
  PROVE  ProcInv'
<1>0. /\ UNCHANGED opt
      /\ DOMAIN pstate = Procs /\ Child \in Procs /\ \A d \in Descendants : d \in Procs /\ d # Child
      BY StepKinds, ChildAssumption DEF TypeOK, WorldTypeOK, Procs
<1> USE DEF ProcInv, StartPC, BeforePC, WaitPC, WokenPC
<1>1. CASE Starting
  <2> USE DEF StartFrame, worldVars, handleVars, jobVars, pipeVars
  <2>1. CASE MakePipes
        BY <1>0, <2>1 DEF MakePipes, GoOn
  <2>2. CASE LaunchDocument
        BY <1>0, <2>2 DEF LaunchDocument, GoOn, TargetInv
  <2>3. CASE LaunchElevated
        BY <1>0, <2>3 DEF LaunchElevated, GoOn, TargetInv
  <2>4. CASE ConnectPipes \/ ConnectFails
        BY <1>0, <2>4 DEF ConnectPipes, ConnectFails, procVars
  <2>5. CASE FindProgram \/ FindToken \/ LogOn
        BY <1>0, <2>5 DEF FindProgram, FindToken, LogOn, GoOn
  <2>6. CASE AccessStation \/ AccessDesktop
        BY <1>0, <2>6 DEF AccessStation, AccessDesktop, Access
  <2>7. CASE Prepare
        BY <1>0, <2>7 DEF Prepare
  <2>8. CASE CreateChild
        BY <1>0, <2>8 DEF CreateChild, TypeOK, Option
  <2>9. CASE EnterSandbox \/ EnterJob
    <3>1. /\ UNCHANGED <<pstate, hasHandle, hasID, suspended, stranger>>
          /\ tpc = "created" /\ tpc' \in {"resume", "undo"}
          BY <2>9 DEF EnterSandbox, EnterJob
    <3> QED BY <1>0, <3>1
  <2>10. CASE Resume \/ StoreProcess
        BY <1>0, <2>10 DEF Resume, StoreProcess
  <2>11. CASE UndoLaunch
        BY <1>0, <2>11 DEF UndoLaunch, DoomFrame
  <2>12. CASE Unwind
        BY <1>0, <2>12 DEF Unwind, CloseHandles, DoomFrame
  <2>13. CASE OnLaunchFailed
        BY <1>0, <2>13 DEF OnLaunchFailed
  <2> QED BY <1>1, <2>1, <2>2, <2>3, <2>4, <2>5, <2>6, <2>7, <2>8, <2>9, <2>10, <2>11, <2>12,
             <2>13 DEF Starting
<1>2. CASE Main
      BY <1>0, <1>2, MainStill DEF MainStep
<1>3. CASE StillStep
      BY <1>0, <1>3 DEF StillStep, StartInv
<1>4. CASE Environment
  <2>1. UNCHANGED <<tpc, suspended, hasHandle, hasID, job, sandbox>> /\ ~suspended
        BY <1>4 DEF Environment, handleVars, jobVars
  <2> QED BY <1>0, <1>4, <2>1, WorldStep
<1> QED BY <1>1, <1>2, <1>3, <1>4, StepKinds

(* Only a start and the processes themselves make a process active.        *)
LEMMA ActiveStep ==
  ASSUME TypeOK, [Next]_vars, tpc \notin {"shell", "elevate", "create"}
  PROVE  Active' \subseteq Active \/ Environment
<1> USE DEF Active, Alive
<1>1. CASE Starting
  <2>1. CASE MakePipes \/ ConnectPipes \/ ConnectFails \/ FindProgram \/ FindToken \/ LogOn
        BY <2>1 DEF MakePipes, ConnectPipes, ConnectFails, FindProgram, FindToken, LogOn,
                    worldVars, procVars
  <2>2. CASE AccessStation \/ AccessDesktop \/ Prepare \/ EnterSandbox \/ EnterJob
        BY <2>2 DEF AccessStation, AccessDesktop, Access, Prepare, EnterSandbox, EnterJob, worldVars
  <2>3. CASE Resume \/ StoreProcess \/ OnLaunchFailed
        BY <2>3 DEF Resume, StoreProcess, OnLaunchFailed, worldVars
  <2>4. CASE UndoLaunch \/ Unwind
        BY <2>4 DEF UndoLaunch, Unwind, CloseHandles, Kill, DoomFrame
  <2>5. CASE LaunchDocument \/ LaunchElevated \/ CreateChild
        BY <2>5 DEF LaunchDocument, LaunchElevated, CreateChild, GoOn
  <2> QED BY <1>1, <2>1, <2>2, <2>3, <2>4, <2>5 DEF Starting
<1>2. CASE Main \/ StillStep
      BY <1>2, StepKinds, MainStill DEF MainStep, StillStep
<1> QED BY <1>1, <1>2, StepKinds

LEMMA ChildStep ==
  ASSUME TypeOK, [Next]_vars, Child \in Active'
  PROVE  Child \in Active \/ tpc \in {"shell", "elevate", "create"}
BY ActiveStep, WorldStep DEF Active, Alive

LEMMA IdleStep ==
  ASSUME TypeOK, [Next]_vars, Active = {}
  PROVE  Active' = {} \/ tpc \in {"shell", "elevate", "create"}
BY ActiveStep, WorldStep

LEMMA UserStep ==
  ASSUME TypeOK, TargetInv, ProcInv, FailInv, UserInv, StartInv, [Next]_vars
  PROVE  UserInv'
<1>0. UNCHANGED opt
      BY StepKinds
<1> USE DEF UserInv, TargetInv, StartPC, WaitPC, AfterPC
<1>1. CASE Starting
  <2> USE DEF StartFrame, userVars
  <2>1. CASE MakePipes \/ FindProgram \/ FindToken
        BY <1>0, <2>1 DEF MakePipes, FindProgram, FindToken, GoOn
  <2>2. CASE LaunchDocument \/ LaunchElevated
        BY <1>0, <2>2 DEF LaunchDocument, LaunchElevated, GoOn
  <2>3. CASE ConnectPipes \/ ConnectFails
        BY <1>0, <2>3 DEF ConnectPipes, ConnectFails
  <2>4. CASE LogOn
        BY <1>0, <2>4 DEF LogOn, GoOn
  <2>5. CASE AccessStation \/ AccessDesktop
        BY <1>0, <2>5 DEF AccessStation, AccessDesktop, Access
  <2>6. CASE Prepare \/ CreateChild
        BY <1>0, <2>6 DEF Prepare, CreateChild
  <2>7. CASE EnterSandbox \/ EnterJob \/ Resume \/ StoreProcess
        BY <1>0, <2>7 DEF EnterSandbox, EnterJob, Resume, StoreProcess
  <2>8. CASE UndoLaunch \/ Unwind
        BY <1>0, <2>8 DEF UndoLaunch, Unwind
  <2>9. CASE OnLaunchFailed
        BY <1>0, <2>9, ChildStep DEF OnLaunchFailed, FailInv
  <2> QED BY <1>1, <2>1, <2>2, <2>3, <2>4, <2>5, <2>6, <2>7, <2>8, <2>9 DEF Starting
<1>2. CASE Main
  <2>0. Child \in Active' => Child \in Active
        BY <1>0, <1>2, ChildStep, MainStill DEF MainStep
  <2> USE DEF userVars
  <2>1. CASE OnLaunched
        BY <1>0, <2>0, <2>1 DEF OnLaunched
  <2>2. CASE SeeExit
    <3>1. Creates => pstate[Child] = "zombie"
          BY <2>2 DEF SeeExit, HasEnded, ProcInv, Creates
    <3>2. Creates => Child \notin Active'
          BY <2>0, <3>1 DEF Active, Alive
    <3> QED BY <1>0, <2>2, <3>2 DEF SeeExit, Creates
  <2>3. CASE \/ SeeEvent \/ TakeFlags \/ ActTree
             \/ \E q \in Pipe : ReadChunk(q) \/ ReadEnd(q) \/ ReadError(q)
        BY <1>0, <2>0, <2>3 DEF SeeEvent, TakeFlags, ActTree, ReadChunk, ReadEnd, ReadError
  <2>4. ASSUME NEW wanted \in BOOLEAN, Decide(wanted), tpc \in WaitPC
        PROVE  UserInv'
        BY <1>0, <2>0, <2>4 DEF Decide
  <2>5. CASE ActTreeDone \/ ActSandbox \/ ActStop \/ ActNothing
    <3>1. wait \in BOOLEAN /\ FALSE \in BOOLEAN
          BY DEF TypeOK
    <3> QED BY <2>4, <2>5, <3>1 DEF ActTreeDone, ActSandbox, ActStop, ActNothing
  <2>6. CASE Drained \/ CancelReads \/ CancelledReadsDone \/ OnExit
        BY <1>0, <2>0, <2>6 DEF Drained, CancelReads, CancelledReadsDone, OnExit
  <2>7. CASE CloseAll \/ Return
        BY <1>0, <2>0, <2>7 DEF CloseAll, Return
  <2> QED BY <1>2, <2>1, <2>2, <2>3, <2>5, <2>6, <2>7 DEF Main
<1>3. CASE StillStep
      BY <1>0, <1>3, ChildStep DEF StillStep, StartInv
<1>4. CASE Environment
      BY <1>0, <1>4, ChildStep DEF Environment, userVars
<1> QED BY <1>1, <1>2, <1>3, <1>4, StepKinds

LEMMA FailStep ==
  ASSUME TypeOK, ReportInv, TargetInv, ProcInv, FailInv, UserInv, StartInv, [Next]_vars
  PROVE  FailInv'
<1>0. UNCHANGED opt
      BY StepKinds
<1>1. Failed' <=> Failed \/ (tpc = "failed" /\ tpc' = "return")
      BY StepSkeleton, FailedStep
<1>2. Failed => tpc \in {"return", "done"}
      BY DEF ReportInv
<1>3. Active = {} /\ tpc \notin {"shell", "elevate", "create"} => Active' = {}
      BY IdleStep
<1> USE DEF FailInv, StartPC
<1>4. CASE Starting
  <2> USE DEF StartFrame, userVars
  <2>0. ~Failed
        BY <1>2, <1>4, StartSkeleton DEF Starting, MakePipes, GoOn, LaunchDocument, LaunchElevated,
           ConnectPipes, ConnectFails, FindProgram, FindToken, LogOn, AccessStation, AccessDesktop,
           Access, Prepare, CreateChild, EnterSandbox, EnterJob, Resume, StoreProcess, UndoLaunch,
           Unwind, OnLaunchFailed
  <2>1. tpc \in BeforePC => Active = {}
        BY DEF ProcInv, Active, Alive
  <2>2. tpc \in {"start", "shell", "elevate", "connect", "find", "token", "logon"} => held = {}
        BY DEF UserInv
  <2> USE DEF BeforePC
  <2>3. CASE MakePipes \/ FindProgram \/ FindToken
        BY <1>0, <1>1, <1>3, <2>0, <2>1, <2>2, <2>3 DEF MakePipes, FindProgram, FindToken, GoOn
  <2>4. CASE LaunchDocument \/ LaunchElevated
    <3>1. tpc' = "unwind" => Active' = {}
          BY <2>1, <2>4 DEF LaunchDocument, LaunchElevated, GoOn, Active, Alive
    <3>2. /\ UNCHANGED <<held, leaked>>
          /\ tpc \in {"shell", "elevate"} /\ tpc' \in {"connect", "launched", "unwind"}
          BY <2>4 DEF LaunchDocument, LaunchElevated, GoOn
    <3> QED BY <1>0, <1>1, <2>0, <2>2, <3>1, <3>2
  <2>5. CASE ConnectPipes \/ ConnectFails
        BY <1>0, <1>1, <2>0, <2>2, <2>5 DEF ConnectPipes, ConnectFails, TargetInv
  <2>6. CASE LogOn
        BY <1>0, <1>1, <1>3, <2>0, <2>1, <2>2, <2>6 DEF LogOn, GoOn
  <2>7. CASE AccessStation \/ AccessDesktop
        BY <1>0, <1>1, <1>3, <2>0, <2>1, <2>7 DEF AccessStation, AccessDesktop, Access
  <2>8. CASE Prepare
        BY <1>0, <1>1, <1>3, <2>0, <2>1, <2>8 DEF Prepare
  <2>9. CASE CreateChild
    <3>1. tpc' = "unwind" => Active' = {}
          BY <2>1, <2>9 DEF CreateChild, Active, Alive
    <3> QED BY <1>0, <1>1, <2>0, <2>9, <3>1 DEF CreateChild
  <2>10. CASE EnterSandbox \/ EnterJob \/ Resume \/ StoreProcess
    <3>1. /\ UNCHANGED <<held, leaked>>
          /\ tpc \in StartPC /\ tpc' \in {"resume", "undo", "resumed", "launched"}
          BY <2>10 DEF EnterSandbox, EnterJob, Resume, StoreProcess
    <3> QED BY <1>0, <1>1, <2>0, <3>1
  <2>11. CASE UndoLaunch
    <3>1. Active \subseteq {Child}
          BY <2>11 DEF UndoLaunch, ProcInv, Active, Alive, Procs
    <3>2. Active' = {}
          BY <2>11, <3>1, KillFacts DEF UndoLaunch
    <3> QED BY <1>0, <1>1, <2>0, <2>11, <3>2 DEF UndoLaunch
  <2>12. CASE Unwind
        BY <1>0, <1>1, <1>3, <2>0, <2>12 DEF Unwind, CloseHandles
  <2>13. CASE OnLaunchFailed
        BY <1>0, <1>1, <1>3, <2>0, <2>13 DEF OnLaunchFailed, handleVars
  <2> QED BY <1>4, <2>3, <2>4, <2>5, <2>6, <2>7, <2>8, <2>9, <2>10, <2>11, <2>12, <2>13
          DEF Starting
<1>5. CASE Main
  <2>1. Failed => UNCHANGED <<held, leaked>>
        BY <1>2, <1>5 DEF Main, OnLaunched, SeeExit, SeeEvent, TakeFlags, ReadChunk, ReadEnd,
           ReadError, Alertable, ActTree, ActTreeDone, ActSandbox, ActStop, ActNothing, Drained, CancelReads,
           CancelledReadsDone, OnExit, CloseAll, Return, userVars
  <2> QED BY <1>0, <1>1, <1>2, <1>3, <1>5, <2>1, MainStill DEF MainStep, WaitPC
<1>6. CASE StillStep
      BY <1>0, <1>1, <1>2, <1>3, <1>6 DEF StillStep, StartInv
<1>7. CASE Environment
      BY <1>0, <1>1, <1>2, <1>3, <1>7 DEF Environment, userVars, handleVars
<1> QED BY <1>4, <1>5, <1>6, <1>7, StepKinds

LEMMA ReadStep ==
  ASSUME TypeOK, ReportInv, TargetInv, ProcInv, ReadInv, StartInv, [Next]_vars
  PROVE  ReadInv'
<1>0. UNCHANGED opt /\ OutputPipes' = OutputPipes /\ OutputPipes \subseteq Pipe
      BY StepKinds DEF OutputPipes, Pipe
<1>t. /\ \A q \in Pipe : taken[q] \in Nat /\ written[q] \in Nat /\ owed[q] \in Nat
      /\ DOMAIN io = Pipe /\ DOMAIN taken = Pipe /\ DOMAIN pstate = Procs /\ Child \in Procs
      BY DEF TypeOK, WorldTypeOK, Procs
<1> USE DEF ReadInv, WaitPC, AfterPC
<1>1. CASE Starting
  <2>1. /\ UNCHANGED <<written, owed, io, taken, exited>>
        /\ tpc' \in StartPC \cup {"launched", "failed", "return"} /\ tpc \in StartPC \cup {"failed"}
        /\ pstate'[Child] = pstate[Child] \/ pstate[Child] = "none"
    <3> USE DEF StartFrame, StartPC, readVars, loopVars, worldVars, procVars
    <3>1. CASE MakePipes \/ ConnectPipes \/ ConnectFails \/ FindProgram \/ FindToken \/ LogOn
          BY <3>1 DEF MakePipes, ConnectPipes, ConnectFails, FindProgram, FindToken, LogOn, GoOn
    <3>2. CASE AccessStation \/ AccessDesktop \/ Prepare \/ EnterSandbox \/ EnterJob
          BY <3>2 DEF AccessStation, AccessDesktop, Access, Prepare, EnterSandbox, EnterJob
    <3>3. CASE Resume \/ StoreProcess \/ OnLaunchFailed
          BY <3>3 DEF Resume, StoreProcess, OnLaunchFailed
    <3>4. CASE UndoLaunch \/ Unwind
          BY <3>4 DEF UndoLaunch, Unwind, CloseHandles, DoomFrame, pipeVars
    <3>5. CASE LaunchDocument \/ LaunchElevated
          BY <1>t, <3>5 DEF LaunchDocument, LaunchElevated, GoOn, ProcInv, BeforePC, pipeVars
    <3>6. CASE CreateChild
          BY <1>t, <3>6 DEF CreateChild, ProcInv, BeforePC
    <3> QED BY <1>1, <3>1, <3>2, <3>3, <3>4, <3>5, <3>6 DEF Starting
  <2>2. ~exited
        BY <2>1 DEF ReportInv, StartPC
  <2> QED BY <1>0, <2>1, <2>2 DEF StartPC
<1>2. CASE Main
  <2>0. /\ UNCHANGED <<pstate, writers, written, owed>>
        /\ tpc' \in WaitPC => tpc \in WaitPC \cup {"launched"}
        BY <1>2, MainStill, <1>0 DEF MainStep
  <2>1. CASE OnLaunched
        BY <1>0, <1>t, <2>0, <2>1 DEF OnLaunched, TargetInv, readVars, loopVars, ReportInv
  <2>2. CASE SeeExit
    <3>1. pstate[Child] # "alive"
          BY <2>2 DEF SeeExit, HasEnded, ProcInv
    <3> QED BY <1>0, <2>0, <2>2, <3>1 DEF SeeExit, readVars
  <2>3. ASSUME NEW t \in Pipe, ReadChunk(t) PROVE ReadInv'
    <3>1. /\ \A q \in Pipe : taken'[q] = IF q = t THEN taken[q] + 1 ELSE taken[q]
          /\ taken[t] < written[t] /\ io[t] # "over"
          /\ UNCHANGED <<io, exited, tpc>>
          BY <1>t, <2>3 DEF ReadChunk, Reading, loopVars
    <3> QED BY <1>0, <1>t, <2>0, <3>1
  <2>4. ASSUME NEW t \in Pipe, ReadEnd(t) PROVE ReadInv'
    <3>1. /\ \A q \in Pipe : io'[q] = IF q = t THEN "over" ELSE io[q]
          /\ taken[t] = written[t] /\ writers[t] = {}
          /\ UNCHANGED <<taken, exited, tpc>>
          BY <1>t, <2>4 DEF ReadEnd, AtEOF, loopVars
    <3> QED BY <1>0, <1>t, <2>0, <3>1
  <2>5. ASSUME NEW t \in Pipe, ReadError(t) PROVE ReadInv'
        BY <1>0, <1>t, <2>0, <2>5 DEF ReadError, loopVars
  <2>6. CASE SeeEvent \/ TakeFlags \/ ActTree \/ ActTreeDone \/ ActSandbox \/ ActStop \/ ActNothing
    <3>1. /\ UNCHANGED <<io, taken, exited>>
          /\ tpc \in WaitPC /\ tpc' \in WaitPC \cup {"drain"}
          BY <2>6 DEF SeeEvent, TakeFlags, ActTree, ActTreeDone, ActSandbox, ActStop, ActNothing,
                      Decide, readVars, loopVars
    <3> QED BY <1>0, <2>0, <3>1 DEF ReportInv
  <2>7. CASE Drained
    <3>1. "read" \notin opt.faults => \A q \in OutputPipes : taken[q] = written[q]
      <4> SUFFICES ASSUME "read" \notin opt.faults, NEW q \in OutputPipes
                   PROVE  taken[q] = written[q]
          OBVIOUS
      <4>1. io[q] # "off" /\ (io[q] = "over" => taken[q] = written[q])
            BY <2>7 DEF Drained
      <4>2. CASE io[q] = "over"
            BY <4>1, <4>2
      <4>3. CASE io[q] # "over"
        <5>1. Reading(q)
              BY <1>0, <4>1, <4>3 DEF Reading, TypeOK
        <5> QED BY <1>0, <1>t, <2>7, <5>1 DEF Drained, NoneReadable, Readable
      <4> QED BY <4>2, <4>3
    <3> QED BY <1>0, <1>t, <2>0, <2>7, <3>1 DEF Drained, readVars, loopVars
  <2>8. CASE CancelReads
        BY <1>0, <2>0, <2>8 DEF CancelReads, loopVars
  <2>9. CASE CancelledReadsDone \/ OnExit \/ CloseAll \/ Return
        BY <1>0, <2>0, <2>9 DEF CancelledReadsDone, OnExit, CloseAll, Return, readVars, loopVars
  <2> QED BY <1>2, <2>1, <2>2, <2>3, <2>4, <2>5, <2>6, <2>7, <2>8, <2>9 DEF Main
<1>3. CASE StillStep
  <2>1. UNCHANGED <<pstate, writers, written, exited, io, taken, owed>>
        BY <1>3 DEF StillStep
  <2>2. tpc' = tpc \/ tpc' = "start"
        BY <1>3 DEF StillStep
  <2>3. CASE tpc' = tpc
        BY <1>0, <2>1, <2>3
  <2>4. CASE tpc' = "start" /\ tpc' # tpc
    <3>1. tpc = "none"
          BY <1>3, <2>4 DEF StillStep, StartInv
    <3> QED BY <1>0, <2>1, <2>4, <3>1
  <2> QED BY <2>2, <2>3, <2>4
<1>4. CASE Environment
  <2>1. UNCHANGED <<io, taken, exited, tpc>>
        BY <1>4 DEF Environment, readVars, loopVars
  <2>2. \A q \in Pipe : written[q] <= written'[q] /\ written'[q] \in Nat
    <3>1. WorldTypeOK'
          BY <1>4, EnvironmentTypes DEF TypeOK
    <3> QED BY <1>4, <3>1, WorldStep, BoundsAssumption DEF WorldTypeOK
  <2>w. /\ pstate'[Child] \in {"none", "alive"} => pstate'[Child] = pstate[Child]
        /\ \A q \in Pipe : writers[q] = {} => writers'[q] = {} /\ written'[q] = written[q]
        BY <1>4, WorldStep
  <2>3. CASE UNCHANGED owed
        BY <1>0, <1>t, <2>1, <2>2, <2>3, <2>w
  <2>4. CASE pstate[Child] = "alive" /\ pstate'[Child] = "zombie" /\ owed' = written
        BY <1>0, <1>t, <2>1, <2>2, <2>4, <2>w
  <2> QED BY <1>4, <2>3, <2>4 DEF Environment
<1> QED BY <1>1, <1>2, <1>3, <1>4, StepKinds

LEMMA SandboxStep ==
  ASSUME TypeOK, TargetInv, ProcInv, FailInv, SandboxInv, StartInv, [Next]_vars
  PROVE  SandboxInv'
<1>0. UNCHANGED opt /\ (Creates' <=> Creates)
      BY StepKinds DEF Creates
<1>1. SUFFICES ASSUME opt.sandboxed, Creates
               PROVE  /\ tpc' \notin {"created", "undo"} => sandbox' \/ Active' = {}
                      /\ tpc' \in {"return", "done"} => Active' = {}
      BY <1>0 DEF SandboxInv
<1>2. Active = {} /\ tpc \notin {"shell", "elevate", "create"} => Active' = {}
      BY IdleStep
<1> USE DEF SandboxInv
<1>3. Kill(SandboxProcs) /\ DoomFrame /\ tpc \notin {"created", "undo"} => Active' = {}
  <2> SUFFICES ASSUME Kill(SandboxProcs), DoomFrame, tpc \notin {"created", "undo"}
               PROVE  Active' = {}
      OBVIOUS
  <2>1. Active' = Active \ SandboxProcs
        BY KillFacts
  <2> QED BY <1>1, <2>1 DEF SandboxProcs, Active
<1>4. CASE Starting
  <2> USE DEF StartFrame, jobVars
  <2>1. CASE MakePipes \/ FindProgram \/ FindToken \/ LogOn
        BY <1>1, <1>2, <2>1 DEF MakePipes, FindProgram, FindToken, LogOn, GoOn
  <2>2. CASE LaunchDocument \/ LaunchElevated \/ ConnectPipes \/ ConnectFails
        BY <1>1, <2>2 DEF LaunchDocument, LaunchElevated, ConnectPipes, ConnectFails, GoOn,
                          TargetInv, Creates
  <2>3. CASE AccessStation \/ AccessDesktop \/ Prepare
        BY <1>1, <1>2, <2>3 DEF AccessStation, AccessDesktop, Access, Prepare
  <2>4. CASE CreateChild
    <3>1. Active = {}
          BY <2>4 DEF CreateChild, ProcInv, BeforePC, Active, Alive
    <3>2. tpc' = "created" \/ Active' = {}
          BY <1>1, <2>4, <3>1 DEF CreateChild, Active, Alive
    <3>3. tpc' \notin {"return", "done"}
          BY <2>4 DEF CreateChild
    <3> QED BY <3>2, <3>3
  <2>5. CASE EnterSandbox \/ EnterJob
        BY <1>1, <2>5 DEF EnterSandbox, EnterJob
  <2>6. CASE Resume \/ StoreProcess
        BY <1>1, <1>2, <2>6 DEF Resume, StoreProcess
  <2>7. CASE UndoLaunch
    <3>1. Active \subseteq {Child}
          BY <2>7 DEF UndoLaunch, ProcInv, Active, Alive, Procs
    <3> QED BY <2>7, <3>1, KillFacts DEF UndoLaunch
  <2>8. CASE Unwind
        BY <1>3, <2>8 DEF Unwind, CloseHandles
  <2>9. CASE OnLaunchFailed
        BY <1>1, <1>2, <2>9 DEF OnLaunchFailed, FailInv, Creates
  <2> QED BY <1>4, <2>1, <2>2, <2>3, <2>4, <2>5, <2>6, <2>7, <2>8, <2>9 DEF Starting
<1>5. CASE Main
  <2>0. tpc \notin {"created", "undo", "shell", "elevate", "create"}
        BY <1>0, <1>5, MainStill DEF MainStep, WaitPC
  <2>1. CASE ActSandbox \/ CloseAll
        BY <1>3, <2>0, <2>1 DEF ActSandbox, CloseAll, CloseHandles
  <2>2. CASE ~(ActSandbox \/ CloseAll)
    <3>1. sandbox' = sandbox /\ (tpc' \in {"return", "done"} => tpc = "return")
      <4>1. CASE ActStop
            BY <4>1 DEF ActStop, Decide, jobVars
      <4>2. CASE ~ActStop
            BY <1>5, <2>2, <4>2 DEF Main, OnLaunched, SeeExit, SeeEvent, TakeFlags, ReadChunk,
               ReadEnd, ReadError, Alertable, ActTree, ActTreeDone, ActNothing, Decide, Drained, CancelReads,
               CancelledReadsDone, OnExit, Return, jobVars
      <4> QED BY <4>1, <4>2
    <3> QED BY <1>1, <1>2, <2>0, <3>1
  <2> QED BY <2>1, <2>2
<1>6. CASE StillStep
  <2>1. sandbox' = sandbox /\ (tpc' = tpc \/ (tpc = "none" /\ tpc' = "start"))
        BY <1>6 DEF StillStep, StartInv
  <2>2. Active' \subseteq Active
        BY <1>6 DEF StillStep, Active, Alive
  <2> QED BY <1>1, <2>1, <2>2
<1>7. CASE Environment
  <2>1. sandbox' = sandbox /\ tpc' = tpc
        BY <1>7 DEF Environment, jobVars
  <2>2. Active = {} => Active' = {}
        BY <1>7, WorldStep
  <2> QED BY <1>1, <2>1, <2>2
<1> QED BY <1>4, <1>5, <1>6, <1>7, StepKinds

(* Which steps change what the owner asks for.                             *)
LEMMA OwnerMoves ==
  ASSUME [Next]_vars, ~Close, ~CloseJob, ~Join, ~Release
  PROVE  /\ before' = before
         /\ \/ opc' \in {"idle", "inline", "terminating"}
            \/ opc' = opc /\ flags' = flags
<1> USE DEF ownerVars, OwnerFrame
<1>1. CASE Owner
  <2>1. CASE Start \/ TerminateTree \/ TerminateTreeReturns
        BY <2>1 DEF Start, TerminateTree, TerminateTreeReturns
  <2>2. CASE StopProcess \/ SendStdIn \/ SendDone \/ CloseStdIn
        BY <2>2 DEF StopProcess, SendStdIn, SendDone, CloseStdIn
  <2>3. CASE TerminateTreeStep("owner")
        BY <2>3, TreeSkeleton DEF Actor
  <2> QED BY <1>1, <2>1, <2>2, <2>3 DEF Owner, OwnerStep
<1>2. CASE Thread
  <2>1. CASE Starting \/ Main
    <3>1. ThreadSkeleton
          BY <2>1, StartSkeleton, MainSkeleton
    <3> QED BY <3>1 DEF ThreadSkeleton
  <2>2. CASE TerminateTreeStep("thread")
        BY <2>2, TreeSkeleton DEF Actor
  <2> QED BY <1>2, <2>1, <2>2 DEF Thread
<1>3. CASE Dispatch \/ CancelAll \/ CancelDone \/ Environment
      BY <1>3 DEF Dispatch, CancelAll, CancelDone, Environment
<1>4. CASE UNCHANGED vars
      BY <1>4 DEF vars
<1> QED BY <1>1, <1>2, <1>3, <1>4 DEF Next, Finished

LEMMA JobStep ==
  ASSUME TypeOK, StartInv, ReportInv, JobInv, [Next]_vars
  PROVE  JobInv'
<1>0. Skeleton /\ opt' = opt
      BY StepSkeleton, StepKinds
<1>1. sent # <<>> => sent' # <<>>
  <2>3. ASSUME NEW k, sent' = Append(sent, k) PROVE sent' # <<>>
    <3>1. Len(sent') = Len(sent) + 1
          BY <2>3, AppendReport
    <3>2. Len(sent) \in Nat
          BY LenProperties DEF TypeOK
    <3>3. Len(sent') # 0
          BY <3>1, <3>2
    <3> QED BY <3>3, EmptySeq
  <2> QED BY <1>0, <2>3 DEF Skeleton, ThreadSkeleton, OwnerSkeleton, DispatchSkeleton, Report,
                            ReportIf, reportVars
<1>2. CASE Close
  <2>1. "launched" \in before' => sent' # <<>>
        BY <1>1, <1>2 DEF Close
  <2>2. opc' = "closeJob" \/ (opc' = "join" /\ "TerminateProcessTree" \notin flags')
        BY <1>2 DEF Close
  <2> QED BY <2>1, <2>2 DEF JobInv
<1>3. CASE CloseJob
  <2>1. "launched" \in before' => sent' # <<>>
        BY <1>1, <1>3 DEF CloseJob, JobInv
  <2>2. "terminate" \notin opt.faults => JobProcs' \subseteq doomed'
        BY <1>3 DEF CloseJob, TerminateJob, OwnerFrame, jobVars, JobProcs, Kill, DoomFrame, Alive
  <2> QED BY <1>0, <2>1, <2>2 DEF JobInv
<1> USE DEF JobInv
<1>4. CASE Join \/ Release
  <2>1. UNCHANGED <<before, flags, job, pstate, outside, doomed>> /\ opc \in {"join", "release"}
    <3>1. CASE Join
          BY <3>1 DEF Join, OwnerFrame, jobVars, worldVars
    <3>2. CASE Release
          BY <3>2 DEF Release, OwnerFrame, jobVars, worldVars
    <3> QED BY <1>4, <3>1, <3>2
  <2>2. JobProcs' = JobProcs
        BY <2>1 DEF JobProcs, Alive
  <2>3. opc' \in {"release", "closed"}
        BY <1>4 DEF Join, Release
  <2> QED BY <1>0, <1>1, <2>1, <2>2, <2>3
<1>5. CASE ~(Close \/ CloseJob \/ Join \/ Release)
  <2>1. /\ before' = before
        /\ \/ opc' \in {"idle", "inline", "terminating"}
           \/ opc' = opc /\ flags' = flags
        BY <1>5, OwnerMoves
  <2>2. JobProcs \subseteq doomed /\ sent # <<>> => JobProcs' \subseteq doomed'
    <3>1. CASE Starting
      <4>1. tpc \in StartPC \cup {"failed"}
            BY <3>1 DEF Starting, MakePipes, GoOn, LaunchDocument, LaunchElevated, ConnectPipes,
               ConnectFails, FindProgram, FindToken, LogOn, AccessStation, AccessDesktop, Access,
               Prepare, CreateChild, EnterSandbox, EnterJob, Resume, StoreProcess, UndoLaunch,
               Unwind, OnLaunchFailed, StartPC
      <4> QED BY <4>1 DEF ReportInv
    <3>2. CASE Main \/ StillStep
          BY <3>2, StepKinds, MainStill DEF MainStep, StillStep, JobProcs, Alive
    <3>3. CASE Environment
      <4>1. job' = job
            BY <3>3 DEF Environment, jobVars
      <4> QED BY <3>3, <4>1, WorldStep DEF JobProcs
    <3> QED BY <3>1, <3>2, <3>3, StepKinds
  <2> QED BY <1>0, <1>1, <2>1, <2>2
<1> QED BY <1>2, <1>3, <1>4, <1>5

(* The steps but for a close and its discovery by the thread leave what is *)
(* asked for alone; fs_CancelAllLaunches only ends the wait.               *)
Early == {"new", "idle", "terminating"}
Late  == {"closeJob", "join", "release", "closed"}
AskFrame ==
  /\ UNCHANGED <<flags, before, needTermination, term, wait>>
  /\ event => event'
  /\ canceller' = "idle" => UNCHANGED <<canceller, event, needWait>>
  /\ opc' \in Early => opc \in Early
  /\ opc' \in Late => opc \in Late

LEMMA AskStep ==
  ASSUME opt.threaded, [Next]_vars, ~Close, ~SeeEvent, ~TakeFlags
  PROVE  AskFrame
<1> USE DEF AskFrame, ownerVars, askVars, loopVars, Early, Late
<1>1. CASE Owner
  <2> USE DEF OwnerFrame
  <2>1. CASE Start \/ TerminateTree \/ TerminateTreeReturns
        BY <2>1 DEF Start, TerminateTree, TerminateTreeReturns
  <2>2. CASE StopProcess \/ SendStdIn \/ SendDone \/ CloseStdIn
        BY <2>2 DEF StopProcess, SendStdIn, SendDone, CloseStdIn
  <2>3. CASE CloseJob \/ Join \/ Release
        BY <2>3 DEF CloseJob, Join, Release
  <2>4. CASE TerminateTreeStep("owner")
        BY <2>4 DEF TerminateTreeStep, TreeList, TreeKill, TreeJob, TreeFrame
  <2> QED BY <1>1, <2>1, <2>2, <2>3, <2>4 DEF Owner, OwnerStep
<1>2. CASE Starting
  <2> USE DEF StartFrame
  <2>1. CASE MakePipes
        BY <2>1 DEF MakePipes
  <2>5. CASE LaunchDocument
        BY <2>5 DEF LaunchDocument
  <2>6. CASE LaunchElevated
        BY <2>6 DEF LaunchElevated
  <2>7. CASE ConnectPipes \/ ConnectFails
        BY <2>7 DEF ConnectPipes, ConnectFails
  <2>2. CASE FindProgram \/ FindToken \/ LogOn \/ AccessStation \/ AccessDesktop \/ Prepare
        BY <2>2 DEF FindProgram, FindToken, LogOn, AccessStation, AccessDesktop, Access, Prepare
  <2>3. CASE CreateChild
        BY <2>3 DEF CreateChild
  <2>8. CASE EnterSandbox
        BY <2>8 DEF EnterSandbox
  <2>10. CASE EnterJob
        BY <2>10 DEF EnterJob
  <2>9. CASE Resume \/ StoreProcess
        BY <2>9 DEF Resume, StoreProcess
  <2>4. CASE UndoLaunch \/ Unwind \/ OnLaunchFailed
        BY <2>4 DEF UndoLaunch, Unwind, OnLaunchFailed
  <2> QED BY <1>2, <2>1, <2>2, <2>3, <2>4, <2>5, <2>6, <2>7, <2>8, <2>9, <2>10
         DEF Starting
<1>3. CASE Main
  <2> USE DEF LoopFrame
  <2>1. CASE OnLaunched \/ SeeExit
        BY <2>1 DEF OnLaunched, SeeExit
  <2>2. ASSUME NEW q \in Pipe, ReadChunk(q) \/ ReadEnd(q) \/ ReadError(q)
        PROVE  AskFrame
        BY <2>2 DEF ReadChunk, ReadEnd, ReadError
  <2>3. CASE ActTree \/ ActTreeDone \/ ActSandbox
        BY <2>3 DEF ActTree, ActTreeDone, ActSandbox
  <2>6. CASE ActStop
        BY <2>6 DEF ActStop
  <2>7. CASE ActNothing
        BY <2>7 DEF ActNothing
  <2>4. CASE Drained \/ CancelReads \/ CancelledReadsDone \/ OnExit
        BY <2>4 DEF Drained, CancelReads, CancelledReadsDone, OnExit
  <2>5. CASE CloseAll \/ Return
        BY <2>5 DEF CloseAll, Return
  <2> QED BY <1>3, <2>1, <2>2, <2>3, <2>4, <2>5, <2>6, <2>7 DEF Main
<1>4. CASE TerminateTreeStep("thread")
      BY <1>4 DEF TerminateTreeStep, TreeList, TreeKill, TreeJob, TreeFrame
<1>5. CASE Dispatch
      BY <1>5 DEF Dispatch
<1>9. CASE Environment
      BY <1>9 DEF Environment
<1>7. CASE CancelAll
      BY <1>7 DEF CancelAll
<1>8. CASE CancelDone
      BY <1>8 DEF CancelDone
<1>6. CASE UNCHANGED vars
      BY <1>6 DEF vars
<1> QED BY <1>1, <1>2, <1>3, <1>4, <1>5, <1>6, <1>7, <1>8, <1>9 DEF Next, Finished, Thread

LEMMA StartMoves ==
  ASSUME Starting
  PROVE  \/ tpc \in StartPC /\ tpc' \in StartPC \cup {"launched", "failed"}
         \/ tpc = "failed" /\ tpc' = "return"
<1>1. CASE MakePipes \/ LaunchDocument \/ LaunchElevated \/ ConnectPipes \/ ConnectFails
      BY <1>1 DEF MakePipes, LaunchDocument, LaunchElevated, ConnectPipes, ConnectFails, GoOn,
                  StartPC
<1>2. CASE FindProgram \/ FindToken \/ LogOn \/ AccessStation \/ AccessDesktop \/ Prepare
      BY <1>2 DEF FindProgram, FindToken, LogOn, AccessStation, AccessDesktop, Access, Prepare,
                  GoOn, StartPC
<1>3. CASE CreateChild
      BY <1>3 DEF CreateChild, StartPC
<1>4. CASE EnterSandbox \/ EnterJob \/ Resume \/ StoreProcess
      BY <1>4 DEF EnterSandbox, EnterJob, Resume, StoreProcess, StartPC
<1>5. CASE UndoLaunch \/ Unwind \/ OnLaunchFailed
      BY <1>5 DEF UndoLaunch, Unwind, OnLaunchFailed, StartPC
<1> QED BY <1>1, <1>2, <1>3, <1>4, <1>5 DEF Starting

LEMMA QuietStep ==
  ASSUME TypeOK, StartInv, ReportInv, ProcInv, QuietInv, [Next]_vars
  PROVE  QuietInv'
<1> SUFFICES ASSUME opt'.threaded, canceller' = "idle"
             PROVE  /\ opc' \in Early => ~event' /\ tpc' \notin WokenPC
                    /\ Waited' =>
                         /\ tpc' \in AfterPC \cup {"return", "done"} => exited' \/ Failed'
                         /\ event' \/ tpc' = "woken" =>
                              needWait' /\ needTermination' \subseteq flags'
                         /\ tpc' = "woken" => ~event'
                         /\ tpc' \in {"act", "actTree"} => wait' /\ term' \subseteq flags'
    BY DEF QuietInv, Early
<1>0. opt' = opt /\ opt.threaded /\ (CanStop' <=> CanStop)
      BY StepKinds DEF CanStop
<1> USE DEF WokenPC
<1>1. CASE Close
  <2>1. canceller = "idle" /\ opc = "idle" /\ UNCHANGED <<tpc, exited, term, wait, sent>>
        BY <1>1 DEF Close, OwnerFrame, loopVars
  <2>2. /\ opc' \in {"closeJob", "join"}
        /\ needTermination' = flags' \cap Terminations
        /\ needWait' = (needWait \/ flags' \cap Waits # {})
        BY <1>1 DEF Close, RequestClose
  <2>3. /\ tpc \notin WokenPC
        /\ tpc \in AfterPC \cup {"return", "done"} => exited \/ Failed
        BY <1>0, <2>1 DEF QuietInv, Waited
  <2>4. Failed' <=> Failed
        BY <2>1 DEF Failed, HasReported
  <2>5. Waited' => flags' \cap Waits # {}
        BY <2>2 DEF Waited
  <2> QED BY <2>1, <2>2, <2>3, <2>4, <2>5 DEF Early
<1>2. CASE SeeEvent
  <2>1. /\ UNCHANGED <<opc, flags, canceller, exited, sent>>
        /\ UNCHANGED <<needTermination, needWait>>
        /\ event /\ ~event' /\ tpc' = "woken"
        BY <1>2 DEF SeeEvent, LoopFrame, ownerVars, reportVars, loopVars
  <2>2. Waited' <=> Waited
        BY <1>0, <2>1 DEF Waited
  <2>3. canceller = "idle" /\ opc \notin Early
        BY <1>0, <2>1 DEF QuietInv, Early
  <2> QED BY <1>0, <2>1, <2>2, <2>3 DEF QuietInv, AfterPC
<1>4. CASE TakeFlags
  <2>1. /\ UNCHANGED <<opc, flags, canceller, event, exited, sent>>
        /\ term' = needTermination /\ wait' = needWait /\ tpc = "woken" /\ tpc' = "act"
        BY <1>4 DEF TakeFlags, LoopFrame, ownerVars, reportVars
  <2>2. Waited' <=> Waited
        BY <1>0, <2>1 DEF Waited
  <2>3. canceller = "idle" /\ opc \notin Early
        BY <1>0, <2>1 DEF QuietInv, Early
  <2> QED BY <1>0, <2>1, <2>2, <2>3 DEF QuietInv, AfterPC
<1>3. CASE ~Close /\ ~SeeEvent /\ ~TakeFlags
  <2>1. /\ UNCHANGED <<flags, term, wait, canceller, event, needWait, needTermination>>
        /\ canceller = "idle"
        /\ opc' \in Early => opc \in Early
        BY <1>0, <1>3, AskStep DEF AskFrame
  <2>2. Waited' => Waited
        BY <1>0, <2>1 DEF Waited, Early
  <2>3. /\ opc \in Early => ~event /\ tpc \notin WokenPC
        /\ Waited => /\ tpc \in AfterPC \cup {"return", "done"} => exited \/ Failed
                     /\ event \/ tpc = "woken" => needWait /\ needTermination \subseteq flags
                     /\ tpc = "woken" => ~event
                     /\ tpc \in {"act", "actTree"} => wait /\ term \subseteq flags
        BY <1>0, <2>1 DEF QuietInv, Early
  <2>4. /\ exited => exited'
        /\ Failed => Failed'
    <3>1. Failed => Failed'
          BY StepSkeleton, FailedStep
    <3>2. exited => exited'
      <4>1. CASE ThreadSkeleton
            BY <4>1 DEF ThreadSkeleton
      <4>2. CASE OwnerSkeleton \/ DispatchSkeleton
            BY <4>2 DEF OwnerSkeleton, DispatchSkeleton
      <4> QED BY <4>1, <4>2, StepSkeleton DEF Skeleton
    <3> QED BY <3>1, <3>2
  <2>5. /\ tpc' \in {"act", "actTree"} => tpc \in {"act", "actTree"}
        /\ tpc' = "woken" => tpc = "woken"
    <3>1. CASE Main
      <4>1. CASE OnLaunched \/ SeeExit
            BY <4>1 DEF OnLaunched, SeeExit
      <4>2. ASSUME NEW q \in Pipe, ReadChunk(q) \/ ReadEnd(q) \/ ReadError(q)
            PROVE  tpc' = tpc
            BY <4>2 DEF ReadChunk, ReadEnd, ReadError
      <4>3. CASE ActTree \/ ActTreeDone \/ ActSandbox \/ ActStop \/ ActNothing
            BY <4>3 DEF ActTree, ActTreeDone, ActSandbox, ActStop, ActNothing, Decide
      <4>4. CASE Drained \/ CancelReads \/ CancelledReadsDone \/ OnExit \/ CloseAll \/ Return
            BY <4>4 DEF Drained, CancelReads, CancelledReadsDone, OnExit, CloseAll, Return
      <4> QED BY <1>3, <3>1, <4>1, <4>2, <4>3, <4>4 DEF Main
    <3>2. CASE Starting
          BY <3>2, StartMoves DEF StartPC
    <3>3. CASE StillStep \/ Environment
          BY <3>3 DEF StillStep, Environment
    <3> QED BY <3>1, <3>2, <3>3, StepKinds
  <2>6. ASSUME Waited, tpc' \in AfterPC \cup {"return", "done"}
        PROVE  tpc \in AfterPC \cup {"return", "done"} \/ exited' \/ Failed'
    <3>0. tpc \in {"act", "actTree"} => wait /\ term \subseteq flags /\ hasID
          BY <2>3, <2>6 DEF ProcInv, WokenPC
    <3>1. CASE Main
      <4>1. CASE OnLaunched
            BY <2>6, <4>1 DEF OnLaunched, AfterPC
      <4>2. CASE SeeExit
            BY <4>2 DEF SeeExit
      <4>3. ASSUME NEW q \in Pipe, ReadChunk(q) \/ ReadEnd(q) \/ ReadError(q)
            PROVE  tpc' = tpc
            BY <4>3 DEF ReadChunk, ReadEnd, ReadError
      <4>4. CASE ActTree
            BY <2>6, <4>4 DEF ActTree, AfterPC
      <4>5. CASE ActTreeDone \/ ActSandbox \/ ActNothing
            BY <2>6, <3>0, <4>5 DEF ActTreeDone, ActSandbox, ActNothing, Decide, AfterPC
      <4>6. CASE ActStop
        <5>1. "StopProcess" \in flags /\ hasID /\ wait /\ opc \notin Early
              BY <2>3, <3>0, <4>6 DEF ActStop
        <5>2. CanStop /\ "stop" \notin opt.faults
              BY <2>6, <5>1 DEF Waited, Early
        <5>3. tpc' = "loop"
              BY <4>6, <5>1, <5>2 DEF ActStop, Decide
        <5> QED BY <2>6, <5>3 DEF AfterPC
      <4>7. CASE Drained \/ CancelReads \/ CancelledReadsDone \/ OnExit \/ CloseAll \/ Return
            BY <4>7 DEF Drained, CancelReads, CancelledReadsDone, OnExit, CloseAll, Return, AfterPC
      <4> QED BY <1>3, <2>6, <3>1, <4>1, <4>2, <4>3, <4>4, <4>5, <4>6, <4>7 DEF Main
    <3>2. CASE Starting
      <4>1. CASE tpc = "failed" /\ tpc' = "return"
            BY <4>1, StepSkeleton, FailedStep
      <4> QED BY <2>6, <3>2, <4>1, StartMoves DEF StartPC, AfterPC
    <3>3. CASE StillStep \/ Environment
          BY <2>6, <3>3 DEF StillStep, Environment, AfterPC
    <3> QED BY <3>1, <3>2, <3>3, StepKinds
  <2> QED BY <2>1, <2>2, <2>3, <2>4, <2>5, <2>6
<1> QED BY <1>1, <1>2, <1>3, <1>4

(* What becomes of the thread's termination of the tree.                   *)
LEMMA TreeMoves ==
  ASSUME TypeOK, [Next]_vars, ~ActTree
  PROVE  \/ tt'["thread"] = tt["thread"]
         \/ TreeList("thread") \/ TreeKill("thread") \/ TreeJob("thread")
<1>0. "thread" \in Actor /\ "owner" \in Actor /\ DOMAIN tt = Actor
      BY DEF TypeOK, Actor
<1>1. CASE Owner
  <2> USE DEF OwnerFrame
  <2>1. CASE Start \/ TerminateTreeReturns \/ StopProcess \/ SendStdIn \/ SendDone
        BY <2>1 DEF Start, TerminateTreeReturns, StopProcess, SendStdIn, SendDone
  <2>2. CASE TerminateTree
        BY <1>0, <2>2 DEF TerminateTree, CallTerminateTree
  <2>3. CASE CloseStdIn \/ Close \/ CloseJob \/ Join \/ Release
        BY <2>3 DEF CloseStdIn, Close, CloseJob, Join, Release
  <2>4. CASE TerminateTreeStep("owner")
        BY <1>0, <2>4 DEF TerminateTreeStep, TreeList, TreeKill, TreeJob
  <2> QED BY <1>1, <2>1, <2>2, <2>3, <2>4 DEF Owner, OwnerStep
<1>2. CASE Starting
  <2> USE DEF StartFrame
  <2>1. CASE MakePipes \/ LaunchDocument \/ LaunchElevated \/ ConnectPipes \/ ConnectFails
        BY <2>1 DEF MakePipes, LaunchDocument, LaunchElevated, ConnectPipes, ConnectFails
  <2>2. CASE FindProgram \/ FindToken \/ LogOn \/ AccessStation \/ AccessDesktop \/ Prepare
        BY <2>2 DEF FindProgram, FindToken, LogOn, AccessStation, AccessDesktop, Access, Prepare
  <2>3. CASE CreateChild \/ EnterSandbox \/ EnterJob \/ Resume \/ StoreProcess
        BY <2>3 DEF CreateChild, EnterSandbox, EnterJob, Resume, StoreProcess
  <2>4. CASE UndoLaunch \/ Unwind \/ OnLaunchFailed
        BY <2>4 DEF UndoLaunch, Unwind, OnLaunchFailed
  <2> QED BY <1>2, <2>1, <2>2, <2>3, <2>4 DEF Starting
<1>3. CASE Main
  <2>1. CASE OnLaunched \/ SeeExit \/ SeeEvent \/ TakeFlags
        BY <2>1 DEF OnLaunched, SeeExit, SeeEvent, TakeFlags
  <2>2. ASSUME NEW q \in Pipe, ReadChunk(q) \/ ReadEnd(q) \/ ReadError(q)
        PROVE  tt' = tt
        BY <2>2 DEF ReadChunk, ReadEnd, ReadError
  <2>3. CASE ActTreeDone \/ ActSandbox \/ ActStop \/ ActNothing
        BY <2>3 DEF ActTreeDone, ActSandbox, ActStop, ActNothing
  <2>4. CASE Drained \/ CancelReads \/ CancelledReadsDone \/ OnExit
        BY <2>4 DEF Drained, CancelReads, CancelledReadsDone, OnExit
  <2>5. CASE CloseAll \/ Return
        BY <2>5 DEF CloseAll, Return
  <2> QED BY <1>3, <2>1, <2>2, <2>3, <2>4, <2>5 DEF Main
<1>4. CASE TerminateTreeStep("thread")
      BY <1>4 DEF TerminateTreeStep
<1>5. CASE Dispatch \/ CancelAll \/ CancelDone \/ Environment
      BY <1>5 DEF Dispatch, CancelAll, CancelDone, Environment
<1>6. CASE UNCHANGED vars
      BY <1>6 DEF vars
<1> QED BY <1>1, <1>2, <1>3, <1>4, <1>5, <1>6 DEF Next, Finished, Thread

(* The process itself is in the tree that is searched from it.             *)
LEMMA ChildInTree ==
  ASSUME Child \in Alive
  PROVE  Child \in Tree
BY DEF Tree

LEMMA KillStep ==
  ASSUME TypeOK, StartInv, ReportInv, ProcInv, ReadInv, SandboxInv, QuietInv, KillInv, [Next]_vars
  PROVE  KillInv'
<1> DEFINE Reached ==
      /\ tpc \in StartPC \cup {"launched"} => event /\ needTermination = flags \cap Terminations
      /\ tpc = "loop" => \/ Child \notin Active
                         \/ event /\ needTermination = flags \cap Terminations
      /\ tpc = "woken" => Child \notin Active \/ needTermination = flags \cap Terminations
      /\ tpc = "act" => Child \notin Active \/ term = flags \cap Terminations
      /\ tpc = "actTree" =>
           /\ ~opt.sandboxed
           /\ \/ Child \notin Active
              \/ tt["thread"].at = "list"
              \/ tt["thread"].at = "kill" /\ Child \in tt["thread"].found
      /\ tpc \in AfterPC \cup {"return", "done"} => Failed \/ Child \notin Active
<1> SUFFICES ASSUME Asks' PROVE Reached'
    BY DEF KillInv
<1>0. /\ opt' = opt /\ opt.threaded /\ CanTerminate
      /\ "thread" \in Actor /\ DOMAIN tt = Actor /\ Child \in Procs
      BY StepKinds DEF Asks, CanTerminate, MayBeDenied, Creates, TypeOK, Actor, Procs
<1>1. tpc \notin {"shell", "elevate", "create"} /\ Child \notin Active => Child \notin Active'
      BY ChildStep
<1>2. CASE Close
  <2>1. /\ canceller = "idle" /\ opc = "idle" /\ event'
        /\ needTermination' = flags' \cap Terminations
        /\ UNCHANGED <<tpc, sent, pstate, doomed>>
    <3>1. "cancelled" \notin before' => canceller = "idle"
          BY <1>2 DEF Close, Earlier
    <3> QED BY <1>2, <3>1 DEF Close, RequestClose, OwnerFrame, worldVars, Asks
  <2>2. /\ tpc \notin WokenPC \cup {"none"}
        /\ tpc \in AfterPC \cup {"return", "done"} => exited \/ Failed
        BY <1>0, <2>1 DEF QuietInv, Waited, StartInv
  <2>3. exited => Child \notin Active
        BY DEF ReadInv, Active, Alive
  <2>4. (Failed' <=> Failed) /\ Active' = Active
        BY <2>1 DEF Failed, HasReported, Active, Alive
  <2> QED BY <2>1, <2>2, <2>3, <2>4 DEF WokenPC
<1>3. CASE SeeEvent
  <2>1. /\ UNCHANGED <<flags, opc, before, needTermination>> /\ tpc = "loop" /\ tpc' = "woken"
        BY <1>3 DEF SeeEvent, LoopFrame, ownerVars
  <2>2. Asks
        BY <1>0, <2>1 DEF Asks
  <2> QED BY <1>1, <2>1, <2>2 DEF KillInv, AfterPC, StartPC
<1>5. CASE TakeFlags
  <2>1. /\ UNCHANGED <<flags, opc, before>> /\ tpc = "woken" /\ tpc' = "act"
        /\ term' = needTermination
        BY <1>5 DEF TakeFlags, LoopFrame, ownerVars
  <2>2. Asks
        BY <1>0, <2>1 DEF Asks
  <2> QED BY <1>1, <2>1, <2>2 DEF KillInv, AfterPC, StartPC
<1>4. CASE ~Close /\ ~SeeEvent /\ ~TakeFlags
  <2>1. /\ UNCHANGED <<flags, before, needTermination, term>>
        /\ event => event'
        /\ opc \in Late
        BY <1>0, <1>4, AskStep DEF AskFrame, Late, Asks
  <2>2. Asks
        BY <1>0, <2>1 DEF Asks, Late
  <2>3. Reached
        BY <2>2 DEF KillInv
  <2>4. opc # "new" /\ tpc # "none" /\ (Failed => Failed')
        BY <2>1, StepSkeleton, FailedStep DEF Late, StartInv
  <2> HIDE DEF Reached
  <2>5. CASE Starting
    <3>1. CASE tpc = "failed" /\ tpc' = "return"
      <4>1. Failed'
            BY <3>1, StepSkeleton, FailedStep
      <4> QED BY <3>1, <4>1 DEF Reached, AfterPC, StartPC
    <3>2. CASE tpc \in StartPC /\ tpc' \in StartPC \cup {"launched", "failed"}
          BY <2>1, <2>3, <3>2 DEF Reached, AfterPC, StartPC
    <3> QED BY <2>5, <3>1, <3>2, StartMoves
  <2>6. CASE tpc' = tpc
    <3>1. CASE tpc # "actTree"
          BY <1>1, <2>1, <2>3, <2>4, <2>6, <3>1 DEF Reached, AfterPC, StartPC
    <3>2. CASE tpc = "actTree"
      <4>1. ~ActTree
            BY <3>2 DEF ActTree
      <4>2. CASE tt'["thread"] = tt["thread"]
            BY <1>0, <1>1, <2>3, <2>6, <3>2, <4>2 DEF Reached, AfterPC, StartPC
      <4>3. CASE TreeList("thread")
        <5>1. tt'["thread"].at = "kill" /\ tt'["thread"].found = Tree
              BY <1>0, <4>3 DEF TreeList
        <5>2. Child \in Active => Child \in Tree
              BY ChildInTree DEF Active
        <5> QED BY <1>0, <1>1, <2>3, <2>6, <3>2, <5>1, <5>2 DEF Reached, AfterPC, StartPC
      <4>4. CASE TreeKill("thread")
        <5>3. Opened(tt["thread"].found) = {tt["thread"].found}
              BY <1>0, <2>3, <3>2 DEF Reached, CanTerminate, Opened
        <5>1. Active' = Active \ tt["thread"].found
              BY <4>4, <5>3, KillFacts DEF TreeKill
        <5>2. Child \notin Active \/ Child \in tt["thread"].found
              BY <2>3, <3>2, <4>4 DEF Reached, TreeKill
        <5> QED BY <1>0, <2>3, <2>6, <3>2, <5>1, <5>2 DEF Reached, AfterPC, StartPC
      <4>5. CASE TreeJob("thread")
            BY <1>0, <1>1, <2>3, <2>6, <3>2, <4>5 DEF Reached, TreeJob, AfterPC, StartPC
      <4> QED BY <4>1, <4>2, <4>3, <4>4, <4>5, TreeMoves
    <3> QED BY <3>1, <3>2
  <2>7. CASE Main /\ tpc' # tpc
    <3> USE DEF Reached, AfterPC, StartPC
    <3>1. CASE OnLaunched
          BY <2>1, <2>3, <3>1 DEF OnLaunched
    <3>2. CASE SeeExit
      <4>1. Child \notin Active
            BY <3>2 DEF SeeExit, HasEnded, ProcInv, WaitPC, Active, Alive
      <4> QED BY <1>1, <3>2, <4>1 DEF SeeExit
    <3>3. CASE \E q \in Pipe : ReadChunk(q) \/ ReadEnd(q) \/ ReadError(q)
          BY <2>7, <3>3 DEF ReadChunk, ReadEnd, ReadError
    <3>4. CASE ActTree
      <4>1. hasHandle
            BY <3>4 DEF ActTree, ProcInv, WokenPC
      <4>2. tt'["thread"].at = "list" /\ tpc' = "actTree" /\ ~opt.sandboxed
            BY <1>0, <3>4, <4>1 DEF ActTree, CallTerminateTree
      <4> QED BY <1>0, <4>2
    <3>5. CASE ActTreeDone
      <4>1. Child \notin Active /\ tpc = "actTree" /\ tpc' \in {"loop", "drain"}
            BY <2>3, <3>5 DEF ActTreeDone, Decide
      <4> QED BY <1>1, <4>1
    <3>6. CASE ActSandbox
      <4>1. Active' = Active \ SandboxProcs
            BY <3>6, KillFacts DEF ActSandbox
      <4>2. sandbox \/ Active = {}
            BY <1>0, <3>6 DEF ActSandbox, CanTerminate, SandboxInv
      <4>3. Active' = {}
            BY <4>1, <4>2 DEF SandboxProcs, Active
      <4>4. tpc = "act" /\ tpc' \in {"loop", "drain"}
            BY <3>6 DEF ActSandbox, Decide
      <4> QED BY <4>3, <4>4
    <3>7. CASE ActStop \/ ActNothing
      <4>1. tpc = "act" /\ tpc' \in {"loop", "drain"}
            BY <3>7 DEF ActStop, ActNothing, Decide
      <4>2. ~Terminates
            BY <3>7 DEF ActStop, ActNothing, Terminates, Terminations
      <4>3. Child \notin Active
            BY <2>2, <2>3, <4>1, <4>2 DEF Asks, Terminates, Terminations
      <4> QED BY <1>1, <4>1, <4>3
    <3>8. CASE Drained \/ CancelReads \/ CancelledReadsDone \/ OnExit \/ CloseAll \/ Return
      <4>1. /\ tpc \in {"drain", "cancel", "drain2", "exit", "close", "return"}
            /\ tpc' \in {"cancel", "drain2", "exit", "close", "return", "done"}
            BY <3>8 DEF Drained, CancelReads, CancelledReadsDone, OnExit, CloseAll, Return
      <4> QED BY <1>1, <2>3, <2>4, <4>1
    <3> QED BY <1>4, <2>7, <3>1, <3>2, <3>3, <3>4, <3>5, <3>6, <3>7, <3>8 DEF Main
  <2>8. CASE StillStep \/ Environment
    <3>1. tpc' = tpc
          BY <2>4, <2>8 DEF StillStep, Environment
    <3> QED BY <2>6, <3>1
  <2> QED BY <2>5, <2>6, <2>7, <2>8, StepKinds
<1> QED BY <1>2, <1>3, <1>4, <1>5

-----------------------------------------------------------------------------
(* The invariant, and what follows from it.                                *)

LEMMA InvStep == Inv /\ [Next]_vars => Inv'
<1> SUFFICES ASSUME Inv, [Next]_vars PROVE Inv'
    OBVIOUS
<1>1. TypeOK' /\ RefsCountUsers' /\ StartInv' /\ ReportInv'
      BY TypeStep, StepSkeleton, CountStep, ReportStep DEF Inv
<1>2. TargetInv' /\ ProcInv' /\ FailInv' /\ UserInv'
      BY TargetStep, ProcStep, FailStep, UserStep DEF Inv
<1>3. ReadInv' /\ SandboxInv' /\ JobInv'
      BY ReadStep, SandboxStep, JobStep DEF Inv
<1>4. QuietInv' /\ KillInv'
      BY QuietStep, KillStep DEF Inv
<1> QED BY <1>1, <1>2, <1>3, <1>4 DEF Inv

LEMMA Invariance == Spec => []Inv
BY InitInv, InvStep, PTL DEF Spec

(* Every variable of a launch keeps its type.                              *)
THEOREM TypeCorrect == Spec => []TypeOK
<1>1. Inv => TypeOK
      BY DEF Inv
<1> QED BY <1>1, Invariance, PTL

LEMMA LaunchedIsNotFailed ==
  ASSUME Inv, Launched
  PROVE  ~Failed
<1>1. PICK i \in DOMAIN sent : sent[i] = "Launched"
      BY DEF Launched, HasReported
<1>2. i = 1 /\ sent[1] = "Launched"
      BY <1>1 DEF Inv, ReportInv
<1>3. ASSUME NEW j \in DOMAIN sent, sent[j] = "LaunchFailed" PROVE FALSE
      BY <1>2, <1>3 DEF Inv, ReportInv
<1> QED BY <1>3 DEF Failed, HasReported

LEMMA InvSound ==
  ASSUME Inv
  PROVE  LaunchIsSound
<1> USE DEF Inv
<1>1. ExitedAfterOwnOutput
      BY DEF ExitedAfterOwnOutput, ReportInv, ReadInv, HasExited
<1>2. FailureLeavesNothing
      BY DEF FailureLeavesNothing, FailInv, ReportInv, ProcInv, Failed
<1>3. ProfileOutlivesProcess
  <2>1. ASSUME opt.user, opt.target = "executable", Child \in Active
        PROVE  held # {} \/ leaked
    <3>1. pstate[Child] = "alive" /\ Child \in Procs
          BY <2>1 DEF Active, Alive
    <3>2. tpc \notin BeforePC \ {"access", "desktop", "prepare", "create"}
          BY <3>1 DEF ProcInv, BeforePC
    <3>3. tpc \notin {"connect", "unwind", "failed"}
          BY <2>1 DEF TargetInv, FailInv
    <3> QED BY <2>1, <3>2, <3>3
            DEF UserInv, BeforePC, AfterPC, WaitPC, TypeOK, ThreadPC, StartPC, LoopPC
  <2> QED BY <2>1 DEF ProfileOutlivesProcess, UserInv, ThreadEnded
<1>4. StopReachesTheProcess
      BY DEF StopReachesTheProcess, ProcInv
<1>5. TerminationTakesEffect
  <2>1. ASSUME opc = "closed", ThreadEnded, opt.threaded, "cancelled" \notin before,
               flags \cap {"TerminateProcess", "TerminateProcessTree"} # {},
               HasReported("Launched"), CanTerminate
        PROVE  Child \notin Active
    <3>1. Asks
          BY <2>1 DEF Asks
    <3>2. ~Failed
          BY <2>1, LaunchedIsNotFailed DEF Launched
    <3> QED BY <2>1, <3>1, <3>2 DEF KillInv, ThreadEnded
  <2>2. opt.sandboxed /\ Creates /\ ThreadEnded => Active = {}
        BY DEF SandboxInv, ThreadEnded
  <2>3. opc = "closed" /\ "launched" \in before /\ "TerminateProcessTree" \in flags
        /\ "terminate" \notin opt.faults
          => JobProcs \subseteq doomed
        BY DEF JobInv
  <2> QED BY <2>1, <2>2, <2>3 DEF TerminationTakesEffect
<1>6. WaitedForExitIsReported
  <2> SUFFICES ASSUME opc = "closed", ThreadEnded, opt.threaded, canceller = "idle",
                      flags \cap Waits # {}, HasReported("Launched"),
                      "StopProcess" \in flags => CanStop /\ "stop" \notin opt.faults
               PROVE  HasReported("Exited")
      BY DEF WaitedForExitIsReported
  <2>1. ~Failed
        BY LaunchedIsNotFailed DEF Launched
  <2>2. exited
        BY <2>1 DEF QuietInv, Waited, ThreadEnded
  <2> QED BY <2>1, <2>2 DEF ReportInv, ThreadEnded, HasExited
<1> QED BY <1>1, <1>2, <1>3, <1>4, <1>5, <1>6 DEF LaunchIsSound

(* However the process, its launch thread, the owner, the dispatcher and   *)
(* fs_CancelAllLaunches interleave: the exit is reported after the output, *)
(* a failed launch leaves nothing, the profile outlives the process, a     *)
(* stop reaches nobody else, a close that terminates has terminated what   *)
(* it can open to terminate it (no elevated process, and no process where  *)
(* access is denied), one that waits has reported the exit, and the last   *)
(* user deletes the redirector.                                            *)
THEOREM Sound == Spec => []LaunchIsSound
<1>1. Inv => LaunchIsSound
      BY InvSound
<1> QED BY <1>1, Invariance, PTL

(* The callbacks of a CConsoleRedirector keep the contract of those of     *)
(* CPOSIXLaunchContext.                                                    *)
THEOREM Refinement == Spec => FollowsContract
<1>1. Init => Contract!Init
      BY DEF Init, Contract!Init, ReportsOver
<1>2. Inv /\ [Next]_vars => [Contract!Next]_(Contract!vars)
  <2> SUFFICES ASSUME Inv, Skeleton
               PROVE  Contract!Next \/ UNCHANGED <<sent, ReportsOver>>
      BY StepSkeleton DEF Inv, Contract!vars
  <2> USE DEF Inv, ReportInv, ReportsOver
  <2>1. CASE UNCHANGED sent
    <3>1. CASE UNCHANGED ReportsOver
          BY <2>1, <3>1
    <3>2. CASE ~UNCHANGED ReportsOver
      <4>0. \A kind : ~Report(kind)
        <5>1. \A kind : sent' = Append(sent, kind) => Len(sent') = Len(sent) + 1
              BY AppendReport
        <5>2. Len(sent) \in Nat
              BY LenProperties DEF TypeOK
        <5> QED BY <2>1, <5>1, <5>2 DEF Report
      <4>1. tpc = "exit" /\ tpc' = "close"
            BY <3>2, <4>0 DEF Skeleton, ThreadSkeleton, OwnerSkeleton, DispatchSkeleton, Reads,
                              StartInv, StartPC, ReportIf
      <4> QED BY <2>1, <4>1 DEF Contract!Next, Contract!Abandon, StartPC
    <3> QED BY <3>1, <3>2
  <2>2. CASE ~UNCHANGED sent
    <3>1. PICK kind \in Kind : Report(kind) /\ ThreadSkeleton
          BY <2>2 DEF Skeleton, ThreadSkeleton, OwnerSkeleton, DispatchSkeleton, Kind, ReportIf,
                      reportVars
    <3>2. Contract!Report(kind)
      <4>1. sent'[Len(sent')] = kind
            BY <3>1, AppendReport DEF Report
      <4>2. \A k : Report(k) => k = kind
            BY <4>1, AppendReport DEF Report
      <4>3. ~UNCHANGED reportVars
            BY <2>2 DEF reportVars
      <4>4. \/ tpc = "failed" /\ tpc' = "return" /\ kind = "LaunchFailed"
            \/ tpc = "launched" /\ tpc' = "loop" /\ kind = "Launched"
            \/ tpc \in Reads /\ tpc' \in Reads /\ kind \in OutputKind
            \/ tpc = "exit" /\ tpc' = "close" /\ kind = "Exited"
            BY <2>2, <3>1, <4>2, <4>3 DEF ThreadSkeleton, ReportIf
      <4> QED BY <3>1, <4>4 DEF Contract!Report, Contract!Begin, Report, StartPC, Reads, OutputKind
    <3> QED BY <3>1, <3>2 DEF Contract!Next, Contract!Begin, Kind
  <2> QED BY <2>1, <2>2
<1> QED BY <1>1, <1>2, Invariance, PTL DEF Spec, FollowsContract, Contract!Spec
=============================================================================
