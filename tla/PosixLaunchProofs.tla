-------------------------- MODULE PosixLaunchProofs --------------------------
(***************************************************************************)
(* Theorems about PosixLaunch for every value of its constants.            *)
(***************************************************************************)
EXTENDS PosixLaunch, SequenceTheorems, TLAPS

-----------------------------------------------------------------------------
(* References: the count, and what keeps it from running below zero.       *)

(* A launch that its owner runs is run within f_Start; nobody starts a     *)
(* launch twice; the dispatcher runs no callback it was not given.         *)
StartInv ==
  /\ opc = "new" => tpc = "none"
  /\ opc = "inline" => ~opt.threaded
  /\ ~opt.threaded /\ tpc \notin {"none", "done"} => opc = "inline"
  /\ seen <= Len(sent)

(* The first report is made when the start is decided, and the exit is the *)
(* last one.                                                               *)
ReportInv ==
  /\ sent = <<>> <=> tpc \in {"none", "start", "launched", "failed"}
  /\ HasExited => ReportsOver

(* A close that joined the launch thread has found it at its end.          *)
JoinInv ==
  opc \in {"release", "closed"} /\ Joins(flags, lingering)
    => tpc \in {"none", "return", "done"}

Inv == TypeOK /\ RefsCountUsers /\ StartInv /\ ReportInv /\ JoinInv

LEMMA InitInv == Init => Inv
<1> SUFFICES ASSUME Init PROVE Inv
    OBVIOUS
<1>1. WorldTypeOK
  <2>1. /\ pstate \in [Procs -> {"none", "alive", "zombie", "gone"}]
        /\ parent \in [Descendants -> Procs \cup {NoProcess}]
        BY DEF Init, WorldInit
  <2>2. writers \in [Pipe -> SUBSET Procs] /\ written \in [Pipe -> 0..MaxOutput]
        BY BoundsAssumption DEF Init, WorldInit
  <2>3. outside \in SUBSET Descendants /\ doomed \in SUBSET Procs /\ asked \in SUBSET Procs
        BY DEF Init, WorldInit
  <2>4. stdinBuf \in 0..StdinCap
        BY BoundsAssumption DEF Init, WorldInit
  <2>5. stranger \in BOOLEAN /\ struck \in SUBSET {Everyone, Stranger}
        BY DEF Init, WorldInit
  <2> QED BY <2>1, <2>2, <2>3, <2>4, <2>5 DEF WorldTypeOK
<1>2. TypeOK
  <2>1. taken \in [Pipe -> Nat]
        BY DEF Init
  <2>2. tt \in [Actor -> [at : {"off", "load", "kill", "probe", "group"},
                         reaped : BOOLEAN, ok : BOOLEAN, err : BOOLEAN]]
        BY DEF Init
  <2>3. sent \in Seq(Kind)
        BY DEF Init
  <2> QED BY <1>1, <2>1, <2>2, <2>3, OptionsAssumption DEF Init, TypeOK, OwnerPC, ThreadPC
<1>3. RefsCountUsers /\ StartInv /\ ReportInv /\ JoinInv
      BY <1>2 DEF Init, RefsCountUsers, StartInv, ReportInv, JoinInv, HasExited, Count, TypeOK
<1> QED BY <1>2, <1>3 DEF Inv

LEMMA WorldUnchanged ==
  ASSUME WorldTypeOK, UNCHANGED worldVars
  PROVE  WorldTypeOK'
BY DEF WorldTypeOK, worldVars, pipeVars, Pipe, Procs

LEMMA WorldStep ==
  ASSUME WorldTypeOK, NEW grouped, NEW habits, World(grouped, habits)
  PROVE  WorldTypeOK'
<1>1. CASE \E p \in Procs, d \in Descendants : Fork(p, d)
      BY <1>1 DEF Fork, WorldTypeOK, Procs, Pipe, Active, Alive
<1>2. CASE \E d \in Descendants : LeaveGroup(d)
      BY <1>2 DEF LeaveGroup, WorldTypeOK, Procs, Pipe, pipeVars
<1>3. CASE \E p \in Procs, q \in Pipe : Write(p, q)
      BY <1>3, BoundsAssumption DEF Write, WorldTypeOK, Procs, Pipe, procVars
<1>4. CASE \E p \in Procs, q \in Pipe : CloseOutput(p, q)
      BY <1>4 DEF CloseOutput, WorldTypeOK, Procs, Pipe, procVars
<1>5. CASE ReadStdin
      BY <1>5, BoundsAssumption DEF ReadStdin, WorldTypeOK, procVars, pipeVars
<1>6. CASE \E p \in Procs : Die(p)
      BY <1>6 DEF Die, WorldTypeOK, Procs, Pipe, pipeVars
<1>7. CASE ReuseID(grouped)
      BY <1>7 DEF ReuseID, WorldTypeOK, pipeVars
<1> QED BY <1>1, <1>2, <1>3, <1>4, <1>5, <1>6, <1>7 DEF World

ReportsOK ==
  refs \in Nat /\ freed \in BOOLEAN /\ sent \in Seq(Kind) /\ seen \in Nat

TreeOK ==
  tt \in [Actor -> [at : {"off", "load", "kill", "probe", "group"},
                    reaped : BOOLEAN, ok : BOOLEAN, err : BOOLEAN]]

LEMMA ReportType ==
  ASSUME TypeOK, NEW kind \in Kind, Report(kind)
  PROVE  ReportsOK'
BY DEF TypeOK, Report, ReportsOK

LEMMA ReportIfType ==
  ASSUME TypeOK, NEW kind \in Kind, NEW condition, ReportIf(condition, kind)
  PROVE  ReportsOK'
BY ReportType DEF TypeOK, ReportIf, ReportsOK, reportVars

LEMMA DropRefType ==
  ASSUME TypeOK, refs # 0, DropRef
  PROVE  refs' \in Nat /\ freed' \in BOOLEAN
BY DEF TypeOK, DropRef

LEMMA CallType ==
  ASSUME TypeOK, NEW a \in Actor, CallTerminateTree(a)
  PROVE  TreeOK'
BY DEF TypeOK, CallTerminateTree, TreeOK

(* A record assigned to one of the two calls of f_TerminateTree.           *)
TreeCall == [at : {"off", "load", "kill", "probe", "group"},
             reaped : BOOLEAN, ok : BOOLEAN, err : BOOLEAN]

LEMMA TreeExcept ==
  ASSUME TypeOK, NEW a \in Actor, NEW c \in TreeCall, tt' = [tt EXCEPT ![a] = c]
  PROVE  TreeOK'
BY DEF TypeOK, TreeOK, TreeCall

TreeFrame == UNCHANGED <<ownerVars, askVars, wakeup, ctxVars, refVars, tpc, threadVars,
                         readVars, sent, seen, canceller>>

LEMMA TreeFrameType ==
  ASSUME TypeOK, UNCHANGED opt, TreeFrame, TreeOK', WorldTypeOK'
  PROVE  TypeOK'
BY DEF TypeOK, TreeOK, TreeFrame, ownerVars, askVars, ctxVars, refVars, threadVars, readVars

LEMMA TreeTypeStep ==
  ASSUME TypeOK, UNCHANGED opt, NEW a \in Actor, TerminateTreeStep(a)
  PROVE  TypeOK'
<1>1. TreeFrame
      BY DEF TerminateTreeStep, TreeLoad, TreeKill, TreeProbe, TreeGroup, TreeFrame
<1>2. WorldTypeOK'
  <2>1. CASE UNCHANGED worldVars
        BY <2>1, WorldUnchanged DEF TypeOK
  <2>2. CASE TreeKill(a) \/ TreeGroup(a)
    <3>1. doomed' \in SUBSET Procs
          BY <2>2 DEF TreeKill, TreeGroup, SigKill, Alive, TypeOK, WorldTypeOK
    <3>2. struck' \in SUBSET {Everyone, Stranger}
          BY <2>2 DEF TreeKill, TreeGroup, TypeOK, WorldTypeOK
    <3> QED BY <2>2, <3>1, <3>2 DEF TreeKill, TreeGroup, TypeOK, WorldTypeOK, pipeVars
  <2> QED BY <2>1, <2>2 DEF TerminateTreeStep, TreeLoad, TreeProbe
<1>3. \E c \in TreeCall : tt' = [tt EXCEPT ![a] = c]
  <2>1. tt[a] \in TreeCall
        BY DEF TypeOK, TreeCall
  <2>2. CASE TreeLoad(a)
        BY <2>1, <2>2 DEF TreeLoad, TreeCall, TypeOK
  <2>3. CASE TreeKill(a)
        BY <2>1, <2>3 DEF TreeKill, TreeCall, TypeOK
  <2>4. CASE TreeProbe(a)
        BY <2>1, <2>4 DEF TreeProbe, TreeCall
  <2>5. CASE TreeGroup(a)
        BY <2>1, <2>5 DEF TreeGroup, TreeCall
  <2> QED BY <2>2, <2>3, <2>4, <2>5 DEF TerminateTreeStep
<1> QED BY <1>1, <1>2, <1>3, TreeExcept, TreeFrameType

LEMMA TakeType ==
  ASSUME TypeOK, NEW q \in Pipe, TakeChunk(q)
  PROVE  tpc' = tpc /\ rd' = rd /\ taken' \in [Pipe -> Nat]
BY DEF TakeChunk, TypeOK

LEMMA RedirectType ==
  ASSUME TypeOK, NEW q \in Pipe, NEW here, NEW next \in ThreadPC, Redirect(q, here, next)
  PROVE  /\ tpc' \in ThreadPC
         /\ rd' \in SUBSET Pipe /\ eof' = eof /\ taken' \in [Pipe -> Nat]
<1>1. CASE TakeChunk(q)
      BY <1>1, TakeType DEF Redirect, TypeOK
<1>2. CASE ~TakeChunk(q)
      BY <1>2 DEF Redirect, TypeOK
<1> QED BY <1>1, <1>2

LEMMA DrainType ==
  ASSUME TypeOK, DrainOutput
  PROVE  /\ tpc' \in ThreadPC
         /\ rd' = rd /\ eof' \in SUBSET Pipe /\ taken' \in [Pipe -> Nat]
<1>1. CASE \E q \in Pipe : TakeChunk(q)
      BY <1>1, TakeType DEF DrainOutput, DrainPipe, TypeOK
<1>2. CASE ~\E q \in Pipe : TakeChunk(q)
      BY <1>2 DEF DrainOutput, DrainPipe, Pipe, TypeOK, ThreadPC
<1> QED BY <1>1, <1>2

(* Where a failing read leaves the thread.                                 *)
LEMMA ReadGoesOn ==
  ASSUME ReadFails
  PROVE  \/ tpc = "readOut"  /\ tpc' = "readErr"
         \/ tpc = "readErr"  /\ tpc' = "wait"
         \/ tpc = "lastOut"  /\ tpc' = "lastErr"
         \/ tpc = "lastErr"  /\ tpc' = "leave"
         \/ tpc = "drainOut" /\ tpc' = "drainErr"
         \/ tpc = "drainErr" /\ tpc' = "drainFlag"
BY DEF ReadFails, AfterRead

(* The world changes in few steps of the thread, and a report changes      *)
(* nothing else; so every action but these leaves both as they are.        *)
LEMMA ThreadTypeStep ==
  ASSUME Inv, UNCHANGED opt, Thread
  PROVE  TypeOK'
<1> USE DEF Inv, ThreadFrame, ownerVars, askVars, ctxVars, refVars, threadVars,
            readVars, reportVars
<1>1. CASE StartChild
  <2>1. WorldTypeOK'
        BY <1>1 DEF StartChild, TypeOK, WorldTypeOK, pipeVars, Procs, Pipe
  <2>2. stdinOpen' \in BOOLEAN /\ rd' \in SUBSET Pipe
        BY <1>1 DEF StartChild, OutputPipes, Pipe, TypeOK, Option
  <2> QED BY <1>1, <2>1, <2>2 DEF StartChild, TypeOK, ThreadPC
<1>2. CASE StartOther
  <2>1. WorldTypeOK'
        BY <1>2, WorldUnchanged DEF StartOther, TypeOK
  <2> QED BY <1>2, <2>1 DEF StartOther, TypeOK, ThreadPC
<1>3. CASE OnLaunched
  <2>1. WorldTypeOK'
        BY <1>3, WorldUnchanged DEF OnLaunched, TypeOK
  <2>2. ReportsOK'
        BY <1>3, ReportType, ReportIfType DEF OnLaunched, Kind, OutputKind, TypeOK, ReportsOK
  <2> QED BY <1>3, <2>1, <2>2 DEF OnLaunched, ReportsOK, TypeOK, ThreadPC
<1>4. CASE OnLaunchFailed
  <2>1. WorldTypeOK'
        BY <1>4, WorldUnchanged DEF OnLaunchFailed, TypeOK
  <2>2. ReportsOK'
        BY <1>4, ReportType, ReportIfType DEF OnLaunchFailed, Kind, OutputKind, TypeOK, ReportsOK
  <2> QED BY <1>4, <2>1, <2>2 DEF OnLaunchFailed, ReportsOK, TypeOK, ThreadPC
<1>5. CASE Poll
  <2>1. WorldTypeOK'
        BY <1>5, WorldUnchanged DEF Poll, TypeOK
  <2> QED BY <1>5, <2>1 DEF Poll, TypeOK, ThreadPC
<1>6. CASE LoopFails
  <2>1. WorldTypeOK'
        BY <1>6, WorldUnchanged DEF LoopFails, TypeOK
  <2>2. ReportsOK'
        BY <1>6, ReportType, ReportIfType DEF LoopFails, Kind, OutputKind, TypeOK, ReportsOK
  <2> QED BY <1>6, <2>1, <2>2 DEF LoopFails, ReportsOK, TypeOK, ThreadPC
<1>7. CASE RedirectOutput
  <2>1. WorldTypeOK'
        BY <1>7, WorldUnchanged DEF RedirectOutput, Redirect, TypeOK
  <2>2. ReportsOK'
        BY <1>7, ReportType, ReportIfType DEF RedirectOutput, Redirect, TakeChunk, KindOf, Kind,
                OutputKind, TypeOK, ReportsOK
  <2>3. /\ tpc' \in ThreadPC
        /\ rd' \in SUBSET Pipe /\ eof' = eof /\ taken' \in [Pipe -> Nat]
        BY <1>7, RedirectType DEF RedirectOutput, Pipe, ThreadPC
  <2> QED BY <1>7, <2>1, <2>2, <2>3 DEF RedirectOutput, Redirect, ReportsOK, TypeOK, ThreadPC
<1>8. CASE WaitChild
  <2>1. WorldTypeOK'
        BY <1>8 DEF WaitChild, TypeOK, WorldTypeOK, pipeVars, Procs
  <2> QED BY <1>8, <2>1 DEF WaitChild, TypeOK, ThreadPC
<1>9. CASE MarkReaped
  <2>1. WorldTypeOK'
        BY <1>9, WorldUnchanged DEF MarkReaped, TypeOK
  <2>2. ReportsOK'
        BY <1>9, ReportType, ReportIfType DEF MarkReaped, Kind, OutputKind, TypeOK, ReportsOK
  <2> QED BY <1>9, <2>1, <2>2 DEF MarkReaped, ReportsOK, TypeOK, ThreadPC
<1>10. CASE DrainWakeup
  <2>1. WorldTypeOK'
        BY <1>10, WorldUnchanged DEF DrainWakeup, TypeOK
  <2>2. wakeup' \in BOOLEAN
        BY <1>10 DEF DrainWakeup
  <2> QED BY <1>10, <2>1, <2>2 DEF DrainWakeup, TypeOK, ThreadPC
<1>11. CASE ReadFlags
  <2>1. WorldTypeOK'
        BY <1>11, WorldUnchanged DEF ReadFlags, TypeOK
  <2> QED BY <1>11, <2>1 DEF ReadFlags, TypeOK, ThreadPC
<1>12. CASE ActTree
  <2>1. WorldTypeOK'
        BY <1>12, WorldUnchanged DEF ActTree, TypeOK
  <2>2. TreeOK'
        BY <1>12, CallType DEF ActTree, Actor, TreeOK, TypeOK
  <2> QED BY <1>12, <2>1, <2>2 DEF ActTree, TreeOK, TypeOK, ThreadPC
<1>13. CASE ActTreeDone
  <2>1. WorldTypeOK'
        BY <1>13, WorldUnchanged DEF ActTreeDone, TypeOK
  <2>2. ReportsOK'
        BY <1>13, ReportType, ReportIfType DEF ActTreeDone, Kind, OutputKind, TypeOK, ReportsOK
  <2> QED BY <1>13, <2>1, <2>2 DEF ActTreeDone, Proceed, ReportsOK, TypeOK, ThreadPC
<1>14. CASE ActSignal
  <2>1. WorldTypeOK'
        BY <1>14 DEF ActSignal, TypeOK, WorldTypeOK, pipeVars, SigKill, SigTerm, Alive
  <2>2. ReportsOK'
        BY <1>14, ReportType, ReportIfType DEF ActSignal, Kind, OutputKind, TypeOK, ReportsOK
  <2>3. wait' \in BOOLEAN /\ tpc' \in ThreadPC
        BY <1>14 DEF ActSignal, Proceed, TypeOK, ThreadPC
  <2> QED BY <1>14, <2>1, <2>2, <2>3 DEF ActSignal, ReportsOK, TypeOK, ThreadPC
<1>15. CASE ActNothing
  <2>1. WorldTypeOK'
        BY <1>15, WorldUnchanged DEF ActNothing, TypeOK
  <2> QED BY <1>15, <2>1 DEF ActNothing, Proceed, TypeOK, ThreadPC
<1>16. CASE Drain
  <2>1. WorldTypeOK'
        BY <1>16, WorldUnchanged DEF Drain, TypeOK
  <2> QED BY <1>16, <2>1 DEF Drain, TypeOK, ThreadPC
<1>17. CASE DrainFails
  <2>1. WorldTypeOK'
        BY <1>17, WorldUnchanged DEF DrainFails, TypeOK
  <2>2. ReportsOK'
        BY <1>17, ReportType, ReportIfType DEF DrainFails, Kind, OutputKind, TypeOK, ReportsOK
  <2> QED BY <1>17, <2>1, <2>2 DEF DrainFails, ReportsOK, TypeOK, ThreadPC
<1>18. CASE DrainFlag
  <2>1. WorldTypeOK'
        BY <1>18, WorldUnchanged DEF DrainFlag, TypeOK
  <2>2. TreeOK'
        BY <1>18, CallType DEF DrainFlag, Actor, TreeOK, TypeOK
  <2> QED BY <1>18, <2>1, <2>2 DEF DrainFlag, TreeOK, TypeOK, ThreadPC
<1>19. CASE DrainTreeDone
  <2>1. WorldTypeOK'
        BY <1>19, WorldUnchanged DEF DrainTreeDone, TypeOK
  <2>2. ReportsOK'
        BY <1>19, ReportType, ReportIfType DEF DrainTreeDone, Kind, OutputKind, TypeOK, ReportsOK
  <2> QED BY <1>19, <2>1, <2>2 DEF DrainTreeDone, ReportsOK, TypeOK, ThreadPC
<1>20. CASE DrainOutput
  <2>1. WorldTypeOK'
        BY <1>20, WorldUnchanged DEF DrainOutput, DrainPipe, TypeOK
  <2>2. ReportsOK'
        BY <1>20, ReportType, ReportIfType DEF DrainOutput, DrainPipe, TakeChunk, KindOf, Kind,
                OutputKind, TypeOK, ReportsOK
  <2> QED BY <1>20, <2>1, <2>2, DrainType DEF DrainOutput, DrainPipe, ReportsOK, TypeOK, ThreadPC
<1>21. CASE OnExit
  <2>1. WorldTypeOK'
        BY <1>21, WorldUnchanged DEF OnExit, TypeOK
  <2>2. ReportsOK'
        BY <1>21, ReportType, ReportIfType DEF OnExit, Kind, OutputKind, TypeOK, ReportsOK
  <2> QED BY <1>21, <2>1, <2>2 DEF OnExit, ReportsOK, TypeOK, ThreadPC
<1>22. CASE ClosePipes
  <2>1. WorldTypeOK'
        BY <1>22, WorldUnchanged DEF ClosePipes, TypeOK
  <2>2. stdinOpen' \in BOOLEAN
        BY <1>22 DEF ClosePipes
  <2> QED BY <1>22, <2>1, <2>2 DEF ClosePipes, TypeOK, ThreadPC
<1>23. CASE Return
  <2>1. WorldTypeOK'
        BY <1>23, WorldUnchanged DEF Return, TypeOK
  <2>2. refs' \in Nat /\ freed' \in BOOLEAN
    <3>1. CASE opt.threaded
      <4>1. refs # 0
            BY <1>23, <3>1 DEF Return, TypeOK, RefsCountUsers, StartInv, Count
      <4> QED BY <1>23, <3>1, <4>1, DropRefType DEF Return
    <3>2. CASE ~opt.threaded
          BY <1>23, <3>2 DEF Return, TypeOK
    <3> QED BY <3>1, <3>2
  <2> QED BY <1>23, <2>1, <2>2 DEF Return, TypeOK, ThreadPC
<1>24. CASE TerminateTreeStep("thread")
      BY <1>24, TreeTypeStep DEF Actor
<1>25. CASE ReadFails
  <2>1. WorldTypeOK'
        BY <1>25, WorldUnchanged DEF ReadFails, TypeOK
  <2>2. ReportsOK'
        BY <1>25, ReportType DEF ReadFails, Kind, OutputKind
  <2>3. tpc' \in ThreadPC
        BY <1>25, ReadGoesOn DEF ThreadPC
  <2> QED BY <1>25, <2>1, <2>2, <2>3 DEF ReadFails, ReportsOK, TypeOK
<1> QED BY <1>1, <1>2, <1>3, <1>4, <1>5, <1>6, <1>7, <1>8, <1>9, <1>10, <1>11, <1>12,
           <1>13, <1>14, <1>15, <1>16, <1>17, <1>18, <1>19, <1>20, <1>21, <1>22, <1>23,
           <1>24, <1>25 DEF Thread

LEMMA RequestCloseType ==
  ASSUME TypeOK, NEW f \in SUBSET Flag, RequestClose(f)
  PROVE  needTermination' \in SUBSET Flag /\ needWait' \in BOOLEAN /\ closed' \in BOOLEAN
BY DEF TypeOK, RequestClose

LEMMA OwnerTypeStep ==
  ASSUME Inv, UNCHANGED opt, Owner
  PROVE  TypeOK'
<1> USE DEF Inv, OwnerFrame, ownerVars, askVars, ctxVars, refVars, threadVars, readVars
<1>1. CASE \E f \in opt.closes : Start(f)
  <2>1. WorldTypeOK'
        BY <1>1, WorldUnchanged DEF Start, TypeOK
  <2>2. CASE opt.threaded
        BY <1>1, <2>1, <2>2 DEF Start, TypeOK, OwnerPC, ThreadPC
  <2>3. CASE ~opt.threaded
        BY <1>1, <2>1, <2>3, RequestCloseType DEF Start, TypeOK, OwnerPC,
                ThreadPC, Option
  <2> QED BY <2>2, <2>3
<1>2. CASE StartThrows
  <2>1. WorldTypeOK'
        BY <1>2, WorldUnchanged DEF StartThrows, TypeOK
  <2> QED BY <1>2, <2>1 DEF StartThrows, TypeOK, OwnerPC
<1>3. CASE InlineDone
  <2>1. WorldTypeOK'
        BY <1>3, WorldUnchanged DEF InlineDone, TypeOK
  <2> QED BY <1>3, <2>1 DEF InlineDone, TypeOK, OwnerPC
<1>4. CASE \E f \in opt.closes : Close(f)
  <2>1. WorldTypeOK'
        BY <1>4, WorldUnchanged DEF Close, TypeOK
  <2> QED BY <1>4, <2>1 DEF Close, RequestClose, Terminations, TypeOK, OwnerPC,
             ThreadPC, Flag, Option
<1>5. CASE CheckReaped
  <2>1. WorldTypeOK'
        BY <1>5, WorldUnchanged DEF CheckReaped, TypeOK
  <2>2. TreeOK'
        BY <1>5, CallType DEF CheckReaped, Actor, TreeOK, TypeOK
  <2> QED BY <1>5, <2>1, <2>2 DEF CheckReaped, TreeOK, TypeOK, OwnerPC
<1>6. CASE TreeDone
  <2>1. WorldTypeOK'
        BY <1>6, WorldUnchanged DEF TreeDone, TypeOK
  <2> QED BY <1>6, <2>1 DEF TreeDone, TypeOK, OwnerPC
<1>7. CASE Join
  <2>1. WorldTypeOK'
        BY <1>7, WorldUnchanged DEF Join, TypeOK
  <2> QED BY <1>7, <2>1 DEF Join, TypeOK, OwnerPC
<1>8. CASE Release
  <2>1. WorldTypeOK'
        BY <1>8, WorldUnchanged DEF Release, TypeOK
  <2>2. refs # 0
        BY <1>8 DEF Release, TypeOK, RefsCountUsers, StartInv, Count
  <2> QED BY <1>8, <2>1, <2>2, DropRefType DEF Release, TypeOK, OwnerPC
<1>9. CASE \E op \in {"Stop", "StopGroup"} : StopProcess(op)
  <2>1. WorldTypeOK'
        BY <1>9 DEF StopProcess, TypeOK, WorldTypeOK, pipeVars, procVars, SigTerm, Alive, Group
  <2> QED BY <1>9, <2>1 DEF StopProcess, TypeOK, OwnerPC
<1>10. CASE TerminateTree
  <2>1. WorldTypeOK'
        BY <1>10, WorldUnchanged DEF TerminateTree, TypeOK
  <2>2. TreeOK'
        BY <1>10, CallType DEF TerminateTree, Actor, TreeOK, TypeOK
  <2> QED BY <1>10, <2>1, <2>2 DEF TerminateTree, TreeOK, TypeOK, OwnerPC
<1>11. CASE SendStdIn
  <2>1. WorldTypeOK'
        BY <1>11, WorldUnchanged DEF SendStdIn, TypeOK
  <2> QED BY <1>11, <2>1 DEF SendStdIn, TypeOK, OwnerPC
<1>12. CASE SendDone
  <2>1. WorldTypeOK'
        BY <1>12, BoundsAssumption DEF SendDone, TypeOK, WorldTypeOK, pipeVars, procVars
  <2> QED BY <1>12, <2>1 DEF SendDone, TypeOK, OwnerPC
<1>13. CASE CloseStdIn
  <2>1. WorldTypeOK'
        BY <1>13, WorldUnchanged DEF CloseStdIn, TypeOK
  <2>2. stdinOpen' \in BOOLEAN
        BY <1>13 DEF CloseStdIn
  <2> QED BY <1>13, <2>1, <2>2 DEF CloseStdIn, TypeOK, OwnerPC
<1>14. CASE TerminateTreeStep("owner")
      BY <1>14, TreeTypeStep DEF Actor
<1> QED BY <1>1, <1>2, <1>3, <1>4, <1>5, <1>6, <1>7, <1>8, <1>9, <1>10, <1>11, <1>12, <1>13, <1>14
        DEF Owner, OwnerStep

LEMMA TypeStep == Inv /\ [Next]_vars => TypeOK'
<1> SUFFICES ASSUME Inv, [Next]_vars PROVE TypeOK'
    OBVIOUS
<1> USE DEF Inv, ownerVars, askVars, ctxVars, refVars, threadVars, readVars
<1>1. CASE Owner /\ UNCHANGED opt
      BY <1>1, OwnerTypeStep
<1>2. CASE Thread /\ UNCHANGED opt
      BY <1>2, ThreadTypeStep
<1>3. CASE Dispatch /\ UNCHANGED opt
  <2>1. WorldTypeOK'
        BY <1>3, WorldUnchanged DEF Dispatch, TypeOK
  <2>2. refs # 0
        BY <1>3, <2>1, LenProperties DEF Dispatch, TypeOK, RefsCountUsers, StartInv, Count
  <2> QED BY <1>3, <2>1, <2>2, DropRefType DEF Dispatch, TypeOK
<1>4. CASE CancelAll /\ UNCHANGED opt
  <2>1. WorldTypeOK'
        BY <1>4, WorldUnchanged DEF CancelAll, TypeOK
  <2>2. needWait' \in BOOLEAN
        BY <1>4 DEF CancelAll
  <2> QED BY <1>4, <2>1, <2>2 DEF CancelAll, TypeOK
<1>5. CASE CancelDone /\ UNCHANGED opt
  <2>1. WorldTypeOK'
        BY <1>5, WorldUnchanged DEF CancelDone, TypeOK
  <2> QED BY <1>5, <2>1 DEF CancelDone, TypeOK
<1>6. CASE Environment /\ UNCHANGED opt
  <2>1. WorldTypeOK'
        BY <1>6, WorldStep DEF Environment, TypeOK
  <2> QED BY <1>6, <2>1 DEF Environment, TypeOK
<1>7. CASE UNCHANGED vars
  <2>1. WorldTypeOK'
        BY <1>7, WorldUnchanged DEF vars, TypeOK
  <2> QED BY <1>7, <2>1 DEF vars, TypeOK
<1> QED BY <1>1, <1>2, <1>3, <1>4, <1>5, <1>6, <1>7 DEF Next, Finished

-----------------------------------------------------------------------------
(* A launch as its callbacks and its references see it.  Every step of the *)
(* launch is one of these few, and what is proved about reports, the count *)
(* and the end of a close is proved about them.                            *)

Running == {"poll", "readOut", "readErr", "wait", "reap", "wakeup", "flags", "act",
            "actTree", "lastOut", "lastErr", "leave", "drain", "drainFlag", "drainTree",
            "drainOut", "drainErr", "exit"}
Calling == {"idle", "send", "terminating", "checkReaped", "closeTree", "join"}

ThreadSkeleton ==
  /\ UNCHANGED ownerVars
  /\ \/ tpc = "start" /\ tpc' \in {"launched", "failed"} /\ UNCHANGED reportVars
     \/ tpc = "launched" /\ tpc' \in Running /\ Report("Launched")
     \/ tpc = "failed" /\ tpc' = "return" /\ Report("LaunchFailed")
     \/ tpc \in Running /\ tpc' \in Running /\ \E kind \in OutputKind : Report(kind)
     \/ tpc \in Running /\ tpc' \in Running /\ UNCHANGED reportVars
     \/ tpc = "exit" /\ tpc' = "close" /\ Report("Exited")
     \/ tpc \in {"leave", "close"} /\ tpc' = "return" /\ UNCHANGED reportVars
     \/ /\ tpc = "return" /\ tpc' = "done" /\ UNCHANGED <<sent, seen>>
        /\ IF opt.threaded THEN DropRef ELSE UNCHANGED refVars
     \/ UNCHANGED <<tpc, reportVars>>

OwnerSkeleton ==
  /\ UNCHANGED <<sent, seen>>
  /\ \/ /\ opc = "new" /\ tpc' = "start"
        /\ \/ opt.threaded /\ opc' = "idle" /\ refs' = refs + 1
           \/ ~opt.threaded /\ opc' = "inline" /\ refs' = refs
        /\ UNCHANGED freed
     \/ /\ opc = "new" \/ (opc = "inline" /\ tpc = "done")
        /\ opc' \in {"leaked", "idle", "checkReaped"}
        /\ UNCHANGED <<tpc, refVars>>
     \/ opc \in Calling /\ opc' \in Calling /\ UNCHANGED <<tpc, refVars>>
     \/ /\ opc = "join" /\ opc' = "release"
        /\ Joins(flags, lingering) => tpc \in {"none", "return", "done"}
        /\ UNCHANGED <<flags, lingering, tpc, refVars>>
     \/ /\ opc = "release" /\ opc' = "closed" /\ DropRef
        /\ UNCHANGED <<flags, lingering, tpc>>

DispatchSkeleton ==
  /\ seen < Len(sent) /\ seen' = seen + 1 /\ DropRef
  /\ UNCHANGED <<sent, tpc, ownerVars>>

Skeleton ==
  /\ UNCHANGED opt
  /\ ThreadSkeleton \/ OwnerSkeleton \/ DispatchSkeleton

LEMMA TreeSkeleton ==
  ASSUME NEW a \in Actor, TerminateTreeStep(a)
  PROVE  UNCHANGED <<ownerVars, tpc, reportVars>>
BY DEF TerminateTreeStep, TreeLoad, TreeKill, TreeProbe, TreeGroup, refVars, reportVars

LEMMA ThreadStepSkeleton ==
  ASSUME TypeOK, Thread
  PROVE  ThreadSkeleton
<1> USE DEF ThreadSkeleton, ThreadFrame, Running, ownerVars
<1>1. CASE StartChild
      BY <1>1 DEF StartChild, reportVars
<1>2. CASE StartOther
      BY <1>2 DEF StartOther, reportVars
<1>3. CASE OnLaunched
      BY <1>3 DEF OnLaunched
<1>4. CASE OnLaunchFailed
      BY <1>4 DEF OnLaunchFailed
<1>5. CASE Poll
      BY <1>5 DEF Poll, reportVars
<1>6. CASE LoopFails
      BY <1>6 DEF LoopFails, OutputKind
<1>7. CASE RedirectOutput
      BY <1>7 DEF RedirectOutput, Redirect, TakeChunk, ReportIf, KindOf, OutputKind, reportVars
<1>8. CASE WaitChild
      BY <1>8 DEF WaitChild, reportVars
<1>9. CASE MarkReaped
      BY <1>9 DEF MarkReaped, ReportIf, OutputKind, reportVars
<1>10. CASE DrainWakeup
      BY <1>10 DEF DrainWakeup, reportVars
<1>11. CASE ReadFlags
      BY <1>11 DEF ReadFlags, reportVars
<1>12. CASE ActTree
      BY <1>12 DEF ActTree, reportVars
<1>13. CASE ActTreeDone
      BY <1>13 DEF ActTreeDone, Proceed, ReportIf, OutputKind, reportVars
<1>14. CASE ActSignal
      BY <1>14 DEF ActSignal, Proceed, OutputKind, reportVars
<1>15. CASE ActNothing
      BY <1>15 DEF ActNothing, Proceed, reportVars
<1>16. CASE Drain
      BY <1>16 DEF Drain, reportVars
<1>17. CASE DrainFails
      BY <1>17 DEF DrainFails, OutputKind
<1>18. CASE DrainFlag
      BY <1>18 DEF DrainFlag, reportVars
<1>19. CASE DrainTreeDone
      BY <1>19 DEF DrainTreeDone, ReportIf, OutputKind, reportVars
<1>20. CASE DrainOutput
      BY <1>20 DEF DrainOutput, DrainPipe, TakeChunk, ReportIf, KindOf, OutputKind, reportVars
<1>21. CASE OnExit
      BY <1>21 DEF OnExit
<1>22. CASE ClosePipes
      BY <1>22 DEF ClosePipes, reportVars
<1>23. CASE Return
      BY <1>23 DEF Return, reportVars
<1>24. CASE TerminateTreeStep("thread")
      BY <1>24, TreeSkeleton DEF Actor
<1>25. CASE ReadFails
      BY <1>25, ReadGoesOn DEF ReadFails, OutputKind
<1> QED BY <1>1, <1>2, <1>3, <1>4, <1>5, <1>6, <1>7, <1>8, <1>9, <1>10, <1>11, <1>12,
           <1>13, <1>14, <1>15, <1>16, <1>17, <1>18, <1>19, <1>20, <1>21, <1>22, <1>23,
           <1>24, <1>25 DEF Thread

LEMMA OwnerStepSkeleton ==
  ASSUME TypeOK, Owner
  PROVE  OwnerSkeleton \/ UNCHANGED <<ownerVars, tpc, reportVars>>
<1> USE DEF OwnerSkeleton, OwnerFrame, Calling, ownerVars, refVars
<1>1. CASE \E f \in opt.closes : Start(f)
      BY <1>1 DEF Start
<1>2. CASE StartThrows
      BY <1>2 DEF StartThrows
<1>3. CASE InlineDone
      BY <1>3 DEF InlineDone
<1>4. CASE \E f \in opt.closes : Close(f)
      BY <1>4 DEF Close
<1>5. CASE CheckReaped
      BY <1>5 DEF CheckReaped
<1>6. CASE TreeDone
      BY <1>6 DEF TreeDone
<1>7. CASE Join
      BY <1>7 DEF Join
<1>8. CASE Release
      BY <1>8 DEF Release
<1>9. CASE \E op \in {"Stop", "StopGroup"} : StopProcess(op)
      BY <1>9 DEF StopProcess, reportVars
<1>10. CASE TerminateTree
      BY <1>10 DEF TerminateTree
<1>11. CASE SendStdIn
      BY <1>11 DEF SendStdIn
<1>12. CASE SendDone
      BY <1>12 DEF SendDone
<1>13. CASE CloseStdIn
      BY <1>13 DEF CloseStdIn, reportVars
<1>14. CASE TerminateTreeStep("owner")
      BY <1>14, TreeSkeleton DEF Actor
<1> QED BY <1>1, <1>2, <1>3, <1>4, <1>5, <1>6, <1>7, <1>8, <1>9, <1>10, <1>11, <1>12, <1>13, <1>14
        DEF Owner, OwnerStep

LEMMA StepSkeleton == TypeOK /\ [Next]_vars => Skeleton
<1> SUFFICES ASSUME TypeOK, [Next]_vars PROVE Skeleton
    OBVIOUS
<1>1. CASE Owner /\ UNCHANGED opt
      BY <1>1, OwnerStepSkeleton DEF Skeleton, ThreadSkeleton
<1>2. CASE Thread /\ UNCHANGED opt
      BY <1>2, ThreadStepSkeleton DEF Skeleton
<1>3. CASE Dispatch /\ UNCHANGED opt
      BY <1>3 DEF Dispatch, Skeleton, DispatchSkeleton, ownerVars
<1>4. CASE (CancelAll \/ CancelDone \/ Environment) /\ UNCHANGED opt
      BY <1>4 DEF CancelAll, CancelDone, Environment, Skeleton, ThreadSkeleton, ownerVars,
                  refVars, reportVars
<1>5. CASE UNCHANGED vars
      BY <1>5 DEF vars, Skeleton, ThreadSkeleton, ownerVars, refVars, reportVars
<1> QED BY <1>1, <1>2, <1>3, <1>4, <1>5 DEF Next, Finished

LEMMA AppendReport ==
  ASSUME TypeOK, NEW kind, sent' = Append(sent, kind)
  PROVE  /\ Len(sent') = Len(sent) + 1
         /\ sent' # <<>>
         /\ sent'[Len(sent')] = kind
         /\ \A i \in 1..Len(sent) : sent'[i] = sent[i]
BY AppendProperties, LenProperties DEF TypeOK

-----------------------------------------------------------------------------
(* The inductive invariant is preserved.                                   *)

LEMMA CountStep ==
  ASSUME Inv, Skeleton
  PROVE  RefsCountUsers' /\ StartInv'
<1> USE DEF Inv, RefsCountUsers, StartInv, Count, ownerVars, refVars, reportVars
<1>0. Len(sent) \in Nat /\ seen \in Nat /\ refs \in Nat
      BY LenProperties DEF TypeOK
<1>1. CASE ThreadSkeleton
  <2>1. CASE \E kind \in Kind : /\ tpc \notin {"none", "return", "done"}
                                /\ tpc' # "none" /\ tpc' # "done"
                                /\ Report(kind)
        BY <1>0, <1>1, <2>1, AppendReport DEF Report, ThreadSkeleton, Skeleton
  <2>2. CASE UNCHANGED reportVars
        BY <1>0, <1>1, <2>2 DEF ThreadSkeleton, Skeleton, Running, DropRef
  <2>3. CASE /\ tpc = "return" /\ tpc' = "done" /\ UNCHANGED <<sent, seen>>
             /\ IF opt.threaded THEN DropRef ELSE UNCHANGED refVars
        BY <1>0, <1>1, <2>3 DEF ThreadSkeleton, Skeleton, DropRef
  <2> QED BY <1>1, <2>1, <2>2, <2>3 DEF ThreadSkeleton, Running, Kind
<1>2. CASE OwnerSkeleton
      BY <1>0, <1>2 DEF OwnerSkeleton, Skeleton, Calling, DropRef
<1>3. CASE DispatchSkeleton
      BY <1>0, <1>3 DEF DispatchSkeleton, Skeleton, DropRef
<1> QED BY <1>1, <1>2, <1>3 DEF Skeleton

LEMMA ReportStep ==
  ASSUME Inv, Skeleton
  PROVE  ReportInv'
<1> USE DEF Inv, ReportInv, ReportsOver, HasExited, reportVars
<1>1. CASE UNCHANGED sent
      BY <1>1 DEF Skeleton, ThreadSkeleton, OwnerSkeleton, DispatchSkeleton, Running, StartInv,
              Report
<1>2. CASE \E kind \in Kind : Report(kind) /\ ThreadSkeleton
  <2>1. PICK kind \in Kind : Report(kind) /\ ThreadSkeleton
        BY <1>2
  <2>2. sent' # <<>> /\ sent'[Len(sent')] = kind
        BY <2>1, AppendReport DEF Report
  <2>3. kind = "Exited" => tpc' \in {"close", "return", "done"}
        BY <2>1, <2>2 DEF ThreadSkeleton, Report, OutputKind
  <2>4. tpc' \notin {"none", "start", "launched", "failed"}
        BY <2>1, <2>2 DEF ThreadSkeleton, Report, Running
  <2> QED BY <2>2, <2>3, <2>4
<1> QED BY <1>1, <1>2 DEF Skeleton, ThreadSkeleton, OwnerSkeleton, DispatchSkeleton, Kind

LEMMA JoinStep ==
  ASSUME Inv, Skeleton
  PROVE  JoinInv'
<1> USE DEF Inv, JoinInv, ownerVars
<1>1. CASE ThreadSkeleton
      BY <1>1 DEF ThreadSkeleton, Running
<1>2. CASE OwnerSkeleton
      BY <1>2 DEF OwnerSkeleton, Calling
<1>3. CASE DispatchSkeleton
      BY <1>3 DEF DispatchSkeleton
<1> QED BY <1>1, <1>2, <1>3 DEF Skeleton

(* Everything below rests on this: types, reference count, start, reports  *)
(* and join of f_Main, f_Start and f_Close are kept by every step.         *)
THEOREM Invariance == Spec => []Inv
<1>1. Inv /\ [Next]_vars => Inv'
      BY TypeStep, StepSkeleton, CountStep, ReportStep, JoinStep DEF Inv
<1> QED BY InitInv, <1>1, PTL DEF Spec

(* Every variable of the launch stays within its type.                     *)
THEOREM TypeCorrect == Spec => []TypeOK
BY Invariance, PTL DEF Inv

(* The reference count of CPOSIXLaunchContext is the number of its users,  *)
(* so the context is deleted by the last of them and used by none after.   *)
THEOREM ReferencesCounted == Spec => []RefsCountUsers
BY Invariance, PTL DEF Inv

(* Nothing is reported any more once a joining f_Close has returned.       *)
THEOREM Quiet == Spec => QuietAfterJoin
<1>1. Inv /\ [Next]_vars => [opc = "closed" /\ Joins(flags, lingering) => sent' = sent]_vars
  <2> SUFFICES ASSUME Inv, [Next]_vars, opc = "closed", Joins(flags, lingering)
               PROVE  sent' = sent
      OBVIOUS
  <2>1. Skeleton /\ tpc \in {"none", "return", "done"}
        BY StepSkeleton DEF Inv, JoinInv
  <2> QED BY <2>1 DEF Skeleton, ThreadSkeleton, OwnerSkeleton, DispatchSkeleton, Running, Calling,
                      reportVars
<1> QED BY <1>1, Invariance, PTL DEF Spec, QuietAfterJoin

(* The callbacks of a launch follow LaunchContract: the detailed           *)
(* specification implements the abstract one.                              *)
THEOREM Refinement == Spec => FollowsContract
<1>1. Init => Contract!Init
      BY DEF Init, Contract!Init, ReportsOver
<1>2. Inv /\ [Next]_vars => [Contract!Next]_(Contract!vars)
  <2> SUFFICES ASSUME Inv, Skeleton
               PROVE  Contract!Next \/ UNCHANGED <<sent, ReportsOver>>
      BY StepSkeleton DEF Inv, Contract!vars
  <2> USE DEF Inv, ReportInv, ReportsOver
  <2>1. CASE UNCHANGED sent
    <3>1. CASE UNCHANGED ReportsOver
          BY <2>1, <3>1
    <3>2. CASE ~UNCHANGED ReportsOver
      <4>1. tpc = "leave" /\ tpc' = "return"
            BY <2>1, <3>2 DEF Skeleton, ThreadSkeleton, OwnerSkeleton, DispatchSkeleton, Running,
                              StartInv, reportVars, Report
      <4> QED BY <2>1, <4>1 DEF Contract!Next, Contract!Abandon, Running
    <3> QED BY <3>1, <3>2
  <2>2. CASE ~UNCHANGED sent
    <3>1. PICK kind \in Kind : Report(kind) /\ ThreadSkeleton
          BY <2>2 DEF Skeleton, ThreadSkeleton, OwnerSkeleton, DispatchSkeleton, Kind, reportVars
    <3>2. Contract!Report(kind)
          BY <2>2, <3>1 DEF Contract!Report, Contract!Begin, Report, ThreadSkeleton, Running,
                            OutputKind, reportVars
    <3> QED BY <3>1, <3>2 DEF Contract!Next, Contract!Begin, Kind
  <2> QED BY <2>1, <2>2
<1> QED BY <1>1, <1>2, Invariance, PTL DEF Spec, FollowsContract, Contract!Spec

-----------------------------------------------------------------------------
(* The exit is reported after all output.  An output pipe that the thread  *)
(* has left had no writer and nothing to read, which no step can undo.     *)

Ended(q) == taken[q] = written[q] /\ AtEOF(q)

OutputInv ==
  opt.faults = {} => \A q \in OutputPipes :
    /\ tpc \in Running \cup {"launched"} /\ q \notin rd => Ended(q)
    /\ tpc \in {"drainFlag", "drainTree", "drainOut", "drainErr"} /\ q \in eof => Ended(q)
    /\ tpc = "exit" \/ HasExited => Ended(q)

LEMMA OutputPipesType == OutputPipes \subseteq Pipe
BY DEF OutputPipes, Pipe

LEMMA WorldPipes ==
  ASSUME TypeOK, NEW grouped, NEW habits, World(grouped, habits), NEW q \in Pipe, writers[q] = {}
  PROVE  writers'[q] = {} /\ written'[q] = written[q]
<1>1. CASE \E r \in Procs, d \in Descendants : Fork(r, d)
      BY <1>1 DEF Fork
<1>2. CASE \E r \in Procs, t \in Pipe : Write(r, t)
      BY <1>2 DEF Write, TypeOK, WorldTypeOK
<1>3. CASE \E r \in Procs, t \in Pipe : CloseOutput(r, t)
      BY <1>3 DEF CloseOutput, TypeOK, WorldTypeOK
<1>4. CASE \E r \in Procs : Die(r)
      BY <1>4 DEF Die
<1>5. CASE ReadStdin \/ ReuseID(grouped) \/ \E d \in Descendants : LeaveGroup(d)
      BY <1>5 DEF ReadStdin, ReuseID, LeaveGroup, pipeVars
<1> QED BY <1>1, <1>2, <1>3, <1>4, <1>5 DEF World

LEMMA ThreadPipes ==
  ASSUME Thread
  PROVE  /\ tpc # "start" => UNCHANGED pipeVars
         /\ UNCHANGED taken \/ \E q \in Pipe : TakeChunk(q)
<1>1. CASE RedirectOutput \/ DrainOutput
      BY <1>1 DEF RedirectOutput, Redirect, DrainOutput, DrainPipe, Pipe, worldVars,
                  pipeVars
<1>2. CASE TerminateTreeStep("thread")
      BY <1>2 DEF TerminateTreeStep, TreeLoad, TreeKill, TreeProbe, TreeGroup, readVars,
              worldVars,
                  pipeVars
<1>3. CASE ~(RedirectOutput \/ DrainOutput \/ TerminateTreeStep("thread"))
      BY <1>3 DEF Thread, StartChild, StartOther, OnLaunched, OnLaunchFailed, Poll, LoopFails,
                  WaitChild, MarkReaped, DrainWakeup, ReadFlags, ActTree, ActTreeDone, ActSignal,
                  ActNothing, Drain, DrainFails, DrainFlag, DrainTreeDone, ReadFails, OnExit, ClosePipes,
                  Return, readVars, worldVars, pipeVars
<1> QED BY <1>1, <1>2, <1>3

LEMMA OwnerPipes ==
  ASSUME Owner
  PROVE  UNCHANGED <<readVars, pipeVars>>
BY DEF Owner, OwnerStep, Start, StartThrows, InlineDone, Close, CheckReaped, TreeDone, Join,
        Release,
       StopProcess, TerminateTree, SendStdIn, SendDone, CloseStdIn, TerminateTreeStep, TreeLoad,
       TreeKill, TreeProbe, TreeGroup, OwnerFrame, readVars, worldVars, pipeVars

LEMMA EndedStable ==
  ASSUME TypeOK, [Next]_vars, tpc # "start", NEW q \in Pipe, Ended(q)
  PROVE  Ended(q)'
<1> USE DEF Ended, AtEOF
<1>1. CASE Thread
  <2>1. taken'[q] = taken[q]
    <3>1. CASE UNCHANGED taken
          BY <3>1
    <3>2. CASE \E t \in Pipe : TakeChunk(t)
          BY <3>2 DEF TakeChunk, TypeOK, WorldTypeOK
    <3> QED BY <1>1, <3>1, <3>2, ThreadPipes
  <2> QED BY <1>1, <2>1, ThreadPipes DEF pipeVars
<1>2. CASE Environment
      BY <1>2, WorldPipes DEF Environment, readVars
<1>3. CASE Owner
      BY <1>3, OwnerPipes DEF readVars, pipeVars
<1>4. CASE Dispatch \/ CancelAll \/ CancelDone \/ UNCHANGED vars
      BY <1>4 DEF Dispatch, CancelAll, CancelDone, vars, readVars, worldVars
<1> QED BY <1>1, <1>2, <1>3, <1>4 DEF Next, Finished

LEMMA ExitedStep ==
  ASSUME Inv, Skeleton, HasExited'
  PROVE  HasExited \/ tpc = "exit"
<1>1. CASE UNCHANGED sent
      BY <1>1 DEF HasExited
<1>2. CASE \E kind \in Kind : Report(kind) /\ ThreadSkeleton
  <2>1. PICK kind \in Kind : Report(kind) /\ ThreadSkeleton
        BY <1>2
  <2>2. sent' # <<>> /\ sent'[Len(sent')] = kind
        BY <2>1, AppendReport DEF Report, Inv
  <2>3. kind = "Exited"
        BY <2>2 DEF HasExited
  <2> QED BY <2>1, <2>2, <2>3 DEF ThreadSkeleton, Report, OutputKind, reportVars
<1> QED BY <1>1, <1>2 DEF Skeleton, ThreadSkeleton, OwnerSkeleton, DispatchSkeleton, Kind,
                          OutputKind, reportVars

(* A pipe is closed, or seen at its end, only when it has ended.           *)
LEMMA PipesStep ==
  ASSUME TypeOK, NEW q \in OutputPipes, Thread, opt.faults = {}
  PROVE  /\ q \notin rd' /\ tpc' \in Running \cup {"launched"}
              => Ended(q) \/ (q \notin rd /\ tpc \in Running \cup {"launched"})
         /\ q \in eof' /\ tpc' \in {"drainFlag", "drainTree", "drainOut", "drainErr"}
              => \/ Ended(q)
                 \/ q \in eof /\ tpc \in {"drainFlag", "drainTree", "drainOut", "drainErr"}
                 \/ q \notin rd /\ tpc \in Running
         /\ tpc' = "exit" =>
              \/ Ended(q)
              \/ q \in eof /\ tpc \in {"drainFlag", "drainTree", "drainOut", "drainErr"}
              \/ q \notin rd /\ tpc \in Running
              \/ tpc = "exit"
<1> USE DEF Running
<1>1. CASE StartChild \/ StartOther
      BY <1>1 DEF StartChild, StartOther
<1>2. CASE RedirectOutput
  <2>1. /\ tpc \in {"readOut", "readErr", "lastOut", "lastErr"}
        /\ tpc' \in {"readOut", "readErr", "wait", "lastOut", "lastErr", "leave"}
        BY <1>2 DEF RedirectOutput, Redirect, TakeChunk
  <2>2. rd' = rd \/ \E t \in Pipe : rd' = rd \ {t} /\ Ended(t)
    <3>1. \A t \in Pipe : taken[t] \in Nat /\ written[t] \in Nat
          BY DEF TypeOK, WorldTypeOK
    <3> QED BY <1>2, <3>1 DEF RedirectOutput, Redirect, TakeChunk, Readable, Ended, Pipe
  <2> QED BY <2>1, <2>2
<1>3. CASE Drain
      BY <1>3 DEF Drain
<1>4. CASE DrainOutput
  <2>1. CASE \E t \in Pipe : TakeChunk(t) /\ t \notin eof /\ UNCHANGED eof
        BY <1>4, <2>1 DEF TakeChunk, DrainOutput, DrainPipe
  <2>2. CASE ~\E t \in Pipe : TakeChunk(t) /\ t \notin eof /\ UNCHANGED eof
    <3>1. q \in eof' => q \in eof \/ Ended(q)
          BY <1>4, <2>2 DEF DrainOutput, DrainPipe, Pipe, Ended, AtEOF
    <3>2. /\ rd' = rd
          /\ tpc \in {"drainOut", "drainErr"}
          /\ tpc' = "exit" => eof' = Pipe
          BY <1>4, <2>2 DEF DrainOutput, DrainPipe, Pipe
    <3> QED BY <3>1, <3>2, OutputPipesType
  <2> QED BY <2>1, <2>2
<1>5. CASE ClosePipes \/ Return \/ OnLaunchFailed \/ OnExit
      BY <1>5 DEF ClosePipes, Return, OnLaunchFailed, OnExit
<1>6. CASE LoopFails \/ DrainFails \/ ReadFails
      BY <1>6 DEF LoopFails, DrainFails, ReadFails
<1>7. CASE TerminateTreeStep("thread")
  <2>1. UNCHANGED <<tpc, readVars>>
        BY <1>7 DEF TerminateTreeStep, TreeLoad, TreeKill, TreeProbe, TreeGroup
  <2> QED BY <2>1 DEF readVars
<1>8. CASE OnLaunched \/ Poll \/ WaitChild \/ MarkReaped \/ DrainWakeup \/ ReadFlags \/ ActTree
           \/ ActTreeDone \/ ActSignal \/ ActNothing
      BY <1>8 DEF OnLaunched, Poll, WaitChild, MarkReaped, DrainWakeup, ReadFlags, ActTree,
                  ActTreeDone, ActSignal, ActNothing, Proceed, readVars
<1>9. CASE DrainFlag \/ DrainTreeDone
      BY <1>9 DEF DrainFlag, DrainTreeDone, readVars
<1> QED BY <1>1, <1>2, <1>3, <1>4, <1>5, <1>6, <1>7, <1>8, <1>9 DEF Thread

LEMMA OutputStep ==
  ASSUME Inv, OutputInv, [Next]_vars
  PROVE  OutputInv'
<1>0. Skeleton /\ OutputPipes' = OutputPipes /\ opt' = opt
      BY StepSkeleton DEF Inv, Skeleton, OutputPipes
<1> SUFFICES ASSUME opt.faults = {}, NEW q \in OutputPipes
             PROVE  /\ tpc' \in Running \cup {"launched"} /\ q \notin rd' => Ended(q)'
                    /\ tpc' \in {"drainFlag", "drainTree", "drainOut", "drainErr"} /\ q \in eof'
                         => Ended(q)'
                    /\ tpc' = "exit" \/ HasExited' => Ended(q)'
    BY <1>0 DEF OutputInv
<1>1. tpc # "start" /\ Ended(q) => Ended(q)'
      BY EndedStable, OutputPipesType DEF Inv
<1>2. HasExited' => HasExited \/ tpc = "exit"
      BY <1>0, ExitedStep
<1>3. HasExited => tpc \in {"close", "return", "done"}
      BY DEF Inv, ReportInv, ReportsOver
<1>4. HasExited' => Ended(q)'
      BY <1>1, <1>2, <1>3 DEF OutputInv
<1>5. CASE Thread
  <2>1. tpc = "start" => /\ tpc' \in Running \cup {"launched"} => q \in rd'
                         /\ tpc' \in {"start", "launched", "failed"}
    <3>1. CASE StartChild \/ StartOther
          BY <3>1 DEF StartChild, StartOther, Running
    <3>2. CASE TerminateTreeStep("thread")
          BY <3>2 DEF TerminateTreeStep, TreeLoad, TreeKill, TreeProbe, TreeGroup, Running
    <3>3. CASE RedirectOutput \/ DrainOutput
          BY <3>3 DEF RedirectOutput, Redirect, DrainOutput, DrainPipe
    <3>4. CASE ~(StartChild \/ StartOther \/ RedirectOutput \/ DrainOutput
                 \/ TerminateTreeStep("thread"))
          BY <1>5, <3>4, ReadGoesOn DEF Thread, OnLaunched, OnLaunchFailed, Poll, LoopFails, WaitChild,
                            MarkReaped, DrainWakeup, ReadFlags, ActTree, ActTreeDone,
                            ActSignal, ActNothing, Drain, DrainFails, DrainFlag,
                            DrainTreeDone, OnExit, ClosePipes, Return
    <3> QED BY <3>1, <3>2, <3>3, <3>4
  <2> QED BY <1>1, <1>4, <1>5, <2>1, PipesStep DEF OutputInv, Inv, Running
<1>6. CASE ~Thread
  <2>1. UNCHANGED <<rd, eof>> /\ (tpc' = tpc \/ tpc' = "start")
    <3>1. CASE Owner
          BY <3>1, OwnerPipes, OwnerStepSkeleton DEF OwnerSkeleton, Inv, readVars
    <3>2. CASE ~Owner
          BY <1>6, <3>2 DEF Next, Finished, Dispatch, CancelAll, CancelDone, Environment,
                            vars, readVars
    <3> QED BY <3>1, <3>2
  <2> QED BY <1>1, <1>4, <2>1 DEF OutputInv, Running
<1> QED BY <1>5, <1>6

(* f_Main reports the exit only when every chunk that was written to the   *)
(* output pipes has been read and passed on and no process can write more. *)
THEOREM OutputBeforeExit == Spec => []ExitedAfterAllOutput
<1>1. Init => OutputInv
      BY DEF Init, OutputInv, HasExited, Running
<1>2. OutputInv => ExitedAfterAllOutput
      BY DEF OutputInv, ExitedAfterAllOutput, Ended
<1> QED BY <1>1, <1>2, OutputStep, Invariance, PTL DEF Spec

-----------------------------------------------------------------------------
(* A close takes effect.                                                   *)

(* While f_Main loops it has a process that it has not reaped; a launch    *)
(* that has failed has none; and one on which nothing fails is drained and *)
(* ends when the process has been reaped.                                  *)
Loop    == {"poll", "readOut", "readErr", "wait", "wakeup", "flags", "act", "actTree"}
Leaving == {"lastOut", "lastErr", "leave", "close", "return", "done"}
Failed  == sent # <<>> /\ sent[1] = "LaunchFailed"

Emptying == {"drain", "drainFlag", "drainTree", "drainOut", "drainErr", "exit"}
AllNone  == \A p \in Procs : pstate[p] = "none"

AbsentInv ==
  /\ tpc \in {"none", "start", "failed"} \/ Failed => AllNone
  /\ tpc \in {"none", "start", "failed"} => ~hasID /\ ~reaped
  /\ sent # <<>> => sent[1] \in {"Launched", "LaunchFailed"}
  /\ Failed => tpc \in {"return", "done"}
PresentInv ==
  /\ tpc \in Loop \/ (tpc = "launched" /\ hasID)
       => hasID /\ ~reaped /\ pstate[Child] \in {"alive", "zombie"}
  /\ tpc = "reap" \/ (opt.faults = {} /\ (tpc \in Emptying \/ HasExited))
       => pstate[Child] = "gone"
  /\ opt.faults = {} /\ tpc = "launched" => hasID
ChildInv == AbsentInv /\ PresentInv

(* What the owner of a threaded launch has asked for when it closes it is  *)
(* what the loop of f_Main finds.                                          *)
Asking  == {"start", "launched"} \cup Loop
ClosePC == {"checkReaped", "closeTree", "join", "release", "closed"}

AskInv ==
  opt.threaded =>
    /\ closed <=> opc \in ClosePC
    /\ ~closed => ~needWait
    /\ closed /\ tpc \in Asking => needTermination = flags \cap Terminations
    /\ closed /\ canceller = "idle" => needWait = (flags \cap Waits # {})
    /\ tpc \in {"act", "actTree"} =>
         /\ closed
         /\ term = flags \cap Terminations
         /\ canceller = "idle" => wait = (flags \cap Waits # {})

(* f_TerminateTree, called by the loop, kills the process it finds, and    *)
(* then the process group.                                                 *)
CanSignal == "kill" \notin opt.faults
GroupEnded == opt.group => Active \cap Group = {}
TreeInv ==
  tpc = "actTree" =>
    /\ tt["thread"].at # "probe"
    /\ tt["thread"].at \in {"kill", "group"} => ~tt["thread"].reaped
    /\ tt["thread"].at = "group" =>
         opt.group /\ tt["thread"].ok /\ (CanSignal => Child \notin Active)
    /\ tt["thread"].at = "off" =>
         tt["thread"].ok /\ (CanSignal => Child \notin Active /\ GroupEnded)

(* The loop is left for a close that does not wait, or no longer, and that *)
(* has sent its signals.                                                   *)
Signalled ==
  /\ flags \cap {"TerminateProcess", "TerminateProcessTree"} # {} => Child \notin Active
  /\ flags \cap Terminations = {"StopProcess"} => Child \in asked \/ Child \notin Active
  /\ "TerminateProcessTree" \in flags => GroupEnded

LeaveInv ==
  opt.threaded /\ CanSignal /\ tpc \in Leaving /\ HasLaunched /\ ~HasExited =>
    /\ closed
    /\ flags \cap Waits = {} \/ canceller # "idle"
    /\ Signalled

-----------------------------------------------------------------------------
(* What the steps do to the processes.  No step but the start and the reap *)
(* of the launched process does more than this.                            *)
Moves ==
  /\ asked \subseteq asked'
  /\ pstate'[Child] = pstate[Child] \/ (pstate[Child] = "alive" /\ pstate'[Child] = "zombie")
  /\ AllNone => AllNone'
  /\ Child \notin Active => Child \notin Active'
  /\ Active \cap Group = {} => (Active \cap Group)' = {}

Calm == UNCHANGED <<pstate, outside>> /\ doomed \subseteq doomed' /\ asked \subseteq asked'

LEMMA CalmMoves == Calm => Moves
BY DEF Calm, Moves, AllNone, Active, Alive, Group

LEMMA ActiveGroup == \A p \in Procs : p \in Active \cap Group <=> p \in Active /\ p \notin outside
BY DEF Active, Alive, Group

LEMMA WorldMoves ==
  ASSUME TypeOK, NEW grouped, NEW habits, World(grouped, habits)
  PROVE  Moves
<1> USE DEF Moves, AllNone
<1>1. CASE \E p \in Procs, d \in Descendants : Fork(p, d)
  <2> PICK p \in Procs, d \in Descendants : Fork(p, d)
      BY <1>1
  <2>1. /\ p \in Active /\ pstate[p] = "alive"
        /\ pstate' = [pstate EXCEPT ![d] = "alive"]
        /\ outside' = IF p \in outside THEN outside \cup {d} ELSE outside
        /\ doomed' = doomed /\ asked' = asked
        BY DEF Fork, Active, Alive
  <2>2. d # Child /\ pstate'[Child] = pstate[Child]
        BY <2>1, ChildAssumption DEF TypeOK, WorldTypeOK, Procs
  <2>3. ~AllNone
        BY <2>1
  <2>4. Active' \subseteq Active \cup {d}
        BY <2>1 DEF Active, Alive, TypeOK, WorldTypeOK
  <2>5. Active \cap Group = {} => p \in outside
        BY <2>1, ActiveGroup
  <2>6. (Active \cap Group)' = {q \in Procs : q \in Active' /\ q \notin outside'}
        BY DEF Active, Alive, Group
  <2>7. Active \cap Group = {} => (Active \cap Group)' = {}
        BY <2>1, <2>4, <2>5, <2>6, ActiveGroup
  <2>8. Child \notin Active => Child \notin Active'
        BY <2>2, <2>4
  <2> QED BY <2>1, <2>2, <2>3, <2>7, <2>8
<1>2. CASE \E p \in Procs : Die(p)
      BY <1>2, ChildAssumption DEF Die, Active, Alive, Group, TypeOK, WorldTypeOK, Procs
<1>3. CASE \E d \in Descendants : LeaveGroup(d)
      BY <1>3 DEF LeaveGroup, Active, Alive, Group
<1>4. CASE \/ \E p \in Procs, q \in Pipe : Write(p, q)
           \/ \E p \in Procs, q \in Pipe : CloseOutput(p, q)
           \/ ReadStdin \/ ReuseID(grouped)
      BY <1>4, CalmMoves DEF Calm, Write, CloseOutput, ReadStdin, ReuseID, procVars
<1> QED BY <1>1, <1>2, <1>3, <1>4 DEF World

LEMMA TreeCalm ==
  ASSUME NEW a \in Actor, TerminateTreeStep(a)
  PROVE  Calm
BY DEF TerminateTreeStep, TreeLoad, TreeKill, TreeProbe, TreeGroup, SigKill, worldVars, Calm

LEMMA OwnerCalm ==
  ASSUME Owner
  PROVE  Calm
<1> USE DEF worldVars, Calm
<1>1. CASE TerminateTreeStep("owner")
      BY <1>1, TreeCalm DEF Actor
<1>2. CASE \E op \in {"Stop", "StopGroup"} : StopProcess(op)
      BY <1>2 DEF StopProcess, SigTerm
<1>3. CASE ~TerminateTreeStep("owner") /\ ~\E op \in {"Stop", "StopGroup"} : StopProcess(op)
      BY <1>3 DEF Owner, OwnerStep, Start, StartThrows, InlineDone, Close, CheckReaped, TreeDone,
                  Join, Release, TerminateTree, SendStdIn, SendDone, CloseStdIn, procVars
<1> QED BY <1>1, <1>2, <1>3

(* What the thread does in f_TerminateTree is its own business.            *)
LEMMA OwnerTree ==
  ASSUME TypeOK, Owner
  PROVE  tt'["thread"] = tt["thread"]
<1>1. CASE TerminateTreeStep("owner")
      BY <1>1 DEF TerminateTreeStep, TreeLoad, TreeKill, TreeProbe, TreeGroup, TypeOK, Actor
<1>2. CASE CheckReaped \/ TerminateTree
      BY <1>2 DEF CheckReaped, TerminateTree, CallTerminateTree, TypeOK, Actor
<1>3. CASE ~TerminateTreeStep("owner") /\ ~CheckReaped /\ ~TerminateTree
      BY <1>3 DEF Owner, OwnerStep, Start, StartThrows, InlineDone, Close, TreeDone,
                  Join, Release, StopProcess, SendStdIn, SendDone, CloseStdIn
<1> QED BY <1>1, <1>2, <1>3

(* What everybody but the launch thread leaves to it.                      *)
Bystander ==
  /\ Moves
  /\ UNCHANGED <<opt, hasID, reaped, term, wait, sent, tt["thread"]>>
  /\ tpc' = tpc \/ (opc = "new" /\ tpc' = "start")
  /\ canceller # "idle" => canceller' # "idle"

LEMMA BystanderStep ==
  ASSUME TypeOK, [Next]_vars
  PROVE  Thread \/ Bystander
<1> USE DEF Bystander
<1>1. CASE Owner /\ UNCHANGED opt
  <2>1. Calm /\ tt'["thread"] = tt["thread"]
        BY <1>1, OwnerCalm, OwnerTree
  <2>2. UNCHANGED <<hasID, reaped, term, wait, sent, canceller>>
        BY <1>1 DEF Owner, OwnerStep, Start, StartThrows, InlineDone, Close, CheckReaped, TreeDone,
                Join, Release, StopProcess, TerminateTree, SendStdIn, SendDone, CloseStdIn,
                TerminateTreeStep, TreeLoad, TreeKill, TreeProbe, TreeGroup, OwnerFrame,
                threadVars, ctxVars
  <2>3. tpc' = tpc \/ (opc = "new" /\ tpc' = "start")
        BY <1>1, OwnerStepSkeleton DEF OwnerSkeleton
  <2> QED BY <1>1, <2>1, <2>2, <2>3, CalmMoves
<1>2. CASE Environment /\ UNCHANGED opt
      BY <1>2, WorldMoves DEF Environment, ctxVars, threadVars
<1>3. CASE (Dispatch \/ CancelAll \/ CancelDone) /\ UNCHANGED opt
  <2>1. Calm
        BY <1>3 DEF Dispatch, CancelAll, CancelDone, worldVars, Calm
  <2> QED BY <1>3, <2>1, CalmMoves DEF Dispatch, CancelAll, CancelDone, ctxVars, threadVars
<1>4. CASE UNCHANGED vars
  <2>1. Calm
        BY <1>4 DEF vars, worldVars, Calm
  <2> QED BY <1>4, <2>1, CalmMoves DEF vars, ctxVars, threadVars
<1> QED BY <1>1, <1>2, <1>3, <1>4 DEF Next, Finished

-----------------------------------------------------------------------------
(* The first report and the last one.                                      *)
LEMMA FirstReport ==
  ASSUME Inv, Skeleton
  PROVE  /\ sent # <<>> => sent' # <<>> /\ sent'[1] = sent[1]
         /\ sent = <<>> /\ sent' # <<>> =>
              \/ tpc = "launched" /\ sent'[1] = "Launched"
              \/ tpc = "failed" /\ tpc' = "return" /\ sent'[1] = "LaunchFailed"
         /\ HasExited => HasExited'
<1>1. CASE UNCHANGED sent
      BY <1>1 DEF HasExited
<1>2. CASE \E kind \in Kind : Report(kind) /\ ThreadSkeleton
  <2> PICK kind \in Kind : Report(kind) /\ ThreadSkeleton
      BY <1>2
  <2>1. /\ Len(sent') = Len(sent) + 1 /\ sent' # <<>> /\ sent'[Len(sent')] = kind
        /\ \A i \in 1..Len(sent) : sent'[i] = sent[i]
        BY AppendReport DEF Report, Inv
  <2>2. sent # <<>> => sent' # <<>> /\ sent'[1] = sent[1]
        BY <2>1, LenProperties, EmptySeq DEF Inv, TypeOK
  <2>3. sent = <<>> => tpc \in {"launched", "failed"}
        BY <2>1 DEF Inv, ReportInv, ThreadSkeleton, Running, reportVars, Report
  <2>4. sent = <<>> => sent'[1] = kind
        BY <2>1
  <2>5. /\ tpc = "launched" => kind = "Launched"
        /\ tpc = "failed" => kind = "LaunchFailed" /\ tpc' = "return"
    <3>1. sent' # sent
          BY <2>1, LenProperties DEF Inv, TypeOK
    <3>2. /\ tpc = "launched" => sent' = Append(sent, "Launched")
          /\ tpc = "failed" => sent' = Append(sent, "LaunchFailed") /\ tpc' = "return"
          BY <3>1 DEF ThreadSkeleton, Running, Report, reportVars
    <3>3. \A k : sent' = Append(sent, k) => sent'[Len(sent')] = k
          BY AppendReport DEF Inv
    <3> QED BY <2>1, <3>2, <3>3
  <2>6. ~HasExited
        BY <2>1 DEF Inv, ReportInv, ReportsOver, ThreadSkeleton, Running, reportVars, Report
  <2> QED BY <2>1, <2>2, <2>3, <2>4, <2>5, <2>6
<1> QED BY <1>1, <1>2 DEF Skeleton, ThreadSkeleton, OwnerSkeleton, DispatchSkeleton, Kind,
                          OutputKind, reportVars

(* What the thread does to the processes: it starts one, reaps it, signals *)
(* them, or leaves them alone.                                             *)
LEMMA ThreadCalm ==
  ASSUME Thread, ~StartChild
  PROVE  /\ UNCHANGED <<hasID, canceller, closed, needWait>> /\ (~MarkReaped => reaped' = reaped)
         /\ ~WaitChild => Calm
<1> USE DEF ThreadFrame, askVars, ctxVars, worldVars, Calm
<1>1. CASE TerminateTreeStep("thread")
  <2>1. UNCHANGED <<hasID, canceller, closed, needWait>> /\ (~MarkReaped => reaped' = reaped)
        BY <1>1 DEF TerminateTreeStep, TreeLoad, TreeKill, TreeProbe, TreeGroup
  <2> QED BY <1>1, <2>1, TreeCalm DEF Actor
<1>2. CASE ActSignal
      BY <1>2 DEF ActSignal, SigKill, SigTerm
<1>3. CASE RedirectOutput \/ DrainOutput
      BY <1>3 DEF RedirectOutput, Redirect, DrainOutput, DrainPipe
<1>4. CASE ~TerminateTreeStep("thread") /\ ~ActSignal /\ ~RedirectOutput /\ ~DrainOutput
      BY <1>4 DEF Thread, StartOther, OnLaunched, OnLaunchFailed, Poll, LoopFails,
                  WaitChild, MarkReaped, DrainWakeup, ReadFlags, ActTree, ActTreeDone,
                  ActNothing, Drain, DrainFails, DrainFlag, DrainTreeDone, ReadFails, OnExit, ClosePipes,
                  Return
<1> QED BY <1>1, <1>2, <1>3, <1>4

LEMMA FirstIsKept ==
  ASSUME Inv, Skeleton
  PROVE  /\ Failed' => Failed \/ (tpc = "failed" /\ tpc' = "return")
         /\ Failed => Failed'
         /\ HasLaunched' => HasLaunched \/ tpc = "launched"
         /\ sent' = <<>> => sent = <<>>
BY FirstReport DEF Failed, HasLaunched

-----------------------------------------------------------------------------
(* The process of a launch that loops is there to be signalled.            *)
LEMMA AbsentStep ==
  ASSUME Inv, ChildInv, [Next]_vars
  PROVE  AbsentInv'
<1>0. Skeleton /\ AbsentInv /\ TypeOK
      BY StepSkeleton DEF Inv, ChildInv
<1>1. sent' # <<>> => sent'[1] \in {"Launched", "LaunchFailed"}
      BY <1>0, FirstReport DEF AbsentInv
<1>2. Failed' => tpc' \in {"return", "done"}
  <2>1. Failed => tpc' \in {"return", "done"}
        BY <1>0 DEF AbsentInv, Skeleton, ThreadSkeleton, OwnerSkeleton, DispatchSkeleton, Running,
                    Inv, StartInv
  <2> QED BY <1>0, <2>1, FirstIsKept
<1>3. CASE ~Thread
  <2>1. Bystander
        BY <1>0, <1>3, BystanderStep
  <2>2. tpc' \in {"none", "start", "failed"} => tpc \in {"none", "start", "failed"}
        BY <2>1 DEF Bystander, Inv, StartInv
  <2>3. Failed' => Failed
        BY <2>1 DEF Bystander, Failed
  <2>4. (tpc \in {"none", "start", "failed"} \/ Failed => AllNone')
        BY <1>0, <2>1 DEF Bystander, Moves, AbsentInv
  <2> QED BY <1>0, <1>1, <1>2, <2>1, <2>2, <2>3, <2>4 DEF Bystander, AbsentInv
<1>4. CASE Thread
  <2>1. CASE StartChild
        BY <1>1, <1>2, <2>1 DEF StartChild, AbsentInv
  <2>2. CASE ~StartChild
    <3>1. tpc' \in {"none", "start", "failed"} \/ Failed' =>
            tpc \in {"none", "start", "failed"} \/ Failed
          BY <1>0, <1>4, ThreadStepSkeleton, FirstIsKept DEF ThreadSkeleton, Running
    <3>3. tpc' \in {"none", "start", "failed"} => tpc \in {"none", "start", "failed"}
          BY <1>0, <1>4, ThreadStepSkeleton DEF ThreadSkeleton, Running
    <3>2. tpc \in {"none", "start", "failed"} \/ Failed => UNCHANGED <<pstate, hasID, reaped>>
          BY <1>0, <1>4, <2>2, ThreadCalm DEF Calm, WaitChild, MarkReaped, AbsentInv
    <3> QED BY <1>0, <1>1, <1>2, <3>1, <3>2, <3>3 DEF AbsentInv, AllNone
  <2> QED BY <2>1, <2>2
<1> QED BY <1>3, <1>4

(* Where the thread goes once it has started the process.                  *)
LEMMA ThreadPlaces ==
  ASSUME Thread, ~StartChild, ~WaitChild, ~StartOther, ~OnLaunched
  PROVE  \/ tpc' = tpc /\ reaped' = reaped
         \/ /\ tpc' \notin {"launched", "reap"}
            /\ tpc' \in Loop => tpc \in Loop /\ reaped' = reaped
            /\ tpc' \in Emptying /\ opt.faults = {} => tpc \in Emptying \cup {"reap"}
<1> USE DEF Loop, Emptying, ctxVars
<1>1. CASE TerminateTreeStep("thread")
      BY <1>1 DEF TerminateTreeStep, TreeLoad, TreeKill, TreeProbe, TreeGroup
<1>2. CASE RedirectOutput
      BY <1>2 DEF RedirectOutput, Redirect, TakeChunk
<1>3. CASE DrainOutput
      BY <1>3 DEF DrainOutput, DrainPipe, TakeChunk
<1>4. CASE ActTreeDone \/ ActSignal \/ ActNothing
      BY <1>4 DEF ActTreeDone, ActSignal, ActNothing, Proceed
<1>5. CASE ReadFails
      BY <1>5, ReadGoesOn DEF ReadFails
<1>6. CASE ~TerminateTreeStep("thread") /\ ~ActTreeDone /\ ~ActSignal /\ ~ActNothing
           /\ ~RedirectOutput /\ ~DrainOutput /\ ~ReadFails
      BY <1>6 DEF Thread, OnLaunchFailed, Poll, LoopFails, MarkReaped, DrainWakeup,
                  ReadFlags, ActTree, Drain, DrainFails, DrainFlag, DrainTreeDone, OnExit,
                  ClosePipes, Return
<1> QED BY <1>1, <1>2, <1>3, <1>4, <1>5, <1>6

LEMMA PresentStep ==
  ASSUME Inv, ChildInv, [Next]_vars
  PROVE  PresentInv'
<1>0. Skeleton /\ AbsentInv /\ PresentInv /\ TypeOK
      BY StepSkeleton DEF Inv, ChildInv
<1>1. HasExited' => HasExited \/ tpc = "exit"
      BY <1>0, ExitedStep
<1>2. HasExited => tpc \in {"close", "return", "done"}
      BY DEF Inv, ReportInv, ReportsOver
<1>3. CASE ~Thread
  <2>1. Bystander
        BY <1>0, <1>3, BystanderStep
  <2>2. HasExited' => HasExited
        BY <2>1 DEF Bystander, HasExited
  <2>3. /\ pstate[Child] \in {"alive", "zombie"} => pstate'[Child] \in {"alive", "zombie"}
        /\ pstate[Child] = "gone" => pstate'[Child] = "gone"
        BY <2>1 DEF Bystander, Moves
  <2>4. UNCHANGED <<opt, hasID, reaped>> /\ tpc' \in {tpc, "start"}
        BY <2>1 DEF Bystander
  <2> QED BY <1>0, <2>2, <2>3, <2>4 DEF PresentInv, Loop, Emptying
<1>4. CASE Thread
  <2>0. opt' = opt
        BY <1>0 DEF Skeleton
  <2>1. CASE StartChild
    <3>1. pstate'[Child] = "alive" /\ hasID' /\ ~reaped' /\ tpc' = "launched"
          BY <1>0, <2>1 DEF StartChild, TypeOK, WorldTypeOK, Procs, AbsentInv
    <3>2. ~HasExited'
          BY <1>1, <1>2, <2>1 DEF StartChild
    <3> QED BY <3>1, <3>2 DEF PresentInv, Loop, Emptying
  <2>2. CASE WaitChild
    <3>1. ~HasExited'
          BY <1>1, <1>2, <2>2 DEF WaitChild
    <3>2. UNCHANGED <<hasID, reaped>> /\ hasID /\ ~reaped
          BY <1>0, <2>2 DEF WaitChild, ctxVars, PresentInv, Loop
    <3>3. \/ pstate'[Child] = "gone" /\ tpc' = "reap"
          \/ pstate'[Child] \in {"alive", "zombie"} /\ tpc' \in {"wakeup", "poll"}
          BY <1>0, <2>2 DEF WaitChild, PresentInv, Loop, TypeOK, WorldTypeOK, Procs
    <3> QED BY <3>1, <3>2, <3>3 DEF PresentInv, Loop, Emptying
  <2>3. CASE ~StartChild /\ ~WaitChild
    <3>1. pstate' = pstate /\ hasID' = hasID /\ (~MarkReaped => reaped' = reaped)
          BY <1>4, <2>3, ThreadCalm DEF Calm
    <3>2. CASE StartOther
      <4>1. tpc' \in {"launched", "failed"} /\ (opt.faults = {} => tpc' = "failed") /\ ~hasID
            BY <1>0, <3>2 DEF StartOther, AbsentInv
      <4>2. ~HasExited'
            BY <1>1, <1>2, <3>2 DEF StartOther
      <4> QED BY <2>0, <3>1, <4>1, <4>2 DEF PresentInv, Loop, Emptying
    <3>3. CASE OnLaunched
      <4>1. /\ tpc = "launched" /\ tpc' = IF hasID THEN "poll" ELSE "drain"
            /\ reaped' = reaped
            BY <3>3 DEF OnLaunched, ctxVars
      <4>2. ~HasExited'
            BY <1>1, <1>2, <4>1
      <4> QED BY <1>0, <2>0, <3>1, <4>1, <4>2 DEF PresentInv, Loop, Emptying
    <3>4. CASE ~StartOther /\ ~OnLaunched
      <4>1. HasExited' => HasExited \/ tpc = "exit"
            BY <1>1
      <4>2. \/ tpc' = tpc /\ reaped' = reaped
            \/ /\ tpc' \notin {"launched", "reap"}
               /\ tpc' \in Loop => tpc \in Loop /\ reaped' = reaped
               /\ tpc' \in Emptying /\ opt.faults = {} => tpc \in Emptying \cup {"reap"}
            BY <1>4, <2>3, <3>4, ThreadPlaces
      <4> QED BY <1>0, <2>0, <3>1, <4>1, <4>2 DEF PresentInv, Loop, Emptying
    <3> QED BY <3>2, <3>3, <3>4
  <2> QED BY <2>1, <2>2, <2>3
<1> QED BY <1>3, <1>4

LEMMA ChildStep ==
  ASSUME Inv, ChildInv, [Next]_vars
  PROVE  ChildInv'
<1>1. AbsentInv' /\ PresentInv'
      BY AbsentStep, PresentStep
<1> QED BY <1>1 DEF ChildInv

-----------------------------------------------------------------------------
(* The loop of f_Main finds what the owner has asked for.                  *)

LEMMA OwnerAsks ==
  ASSUME Owner, opt.threaded
  PROVE  \/ opc = "idle" /\ tpc' = tpc /\ \E f \in opt.closes : Close(f)
         \/ opc = "new" /\ opc' = "idle" /\ tpc' = "start" /\ UNCHANGED <<askVars, flags>>
         \/ /\ UNCHANGED <<askVars, flags, tpc>>
            /\ opc \in ClosePC <=> opc' \in ClosePC
<1> USE DEF ownerVars, ClosePC
<1>1. CASE \E f \in opt.closes : Start(f) \/ Close(f)
      BY <1>1 DEF Start, Close
<1>2. CASE TerminateTreeStep("owner")
      BY <1>2 DEF TerminateTreeStep, TreeLoad, TreeKill, TreeProbe, TreeGroup
<1>3. CASE CheckReaped \/ TreeDone \/ Join \/ Release
      BY <1>3 DEF CheckReaped, TreeDone, Join, Release
<1>4. CASE InlineDone \/ SendDone \/ StartThrows \/ TerminateTree \/ SendStdIn \/ CloseStdIn
           \/ \E op \in {"Stop", "StopGroup"} : StopProcess(op)
      BY <1>4 DEF InlineDone, SendDone, StartThrows, TerminateTree, SendStdIn, CloseStdIn,
                  StopProcess
<1> QED BY <1>1, <1>2, <1>3, <1>4 DEF Owner, OwnerStep

LEMMA ThreadAsks ==
  ASSUME Thread
  PROVE  /\ UNCHANGED <<ownerVars, needWait, closed, canceller>>
         /\ tpc' \in Asking => tpc \in Asking /\ needTermination' = needTermination
         /\ tpc' \in {"act", "actTree"} =>
              \/ tpc \in {"act", "actTree"} /\ UNCHANGED <<term, wait>>
              \/ tpc = "flags" /\ closed /\ term' = needTermination /\ wait' = needWait
<1> USE DEF Asking, Loop, ThreadFrame, askVars, ownerVars, threadVars
<1>1. CASE TerminateTreeStep("thread")
      BY <1>1 DEF TerminateTreeStep, TreeLoad, TreeKill, TreeProbe, TreeGroup
<1>2. CASE RedirectOutput
      BY <1>2 DEF RedirectOutput, Redirect, TakeChunk
<1>3. CASE DrainOutput
      BY <1>3 DEF DrainOutput, DrainPipe, TakeChunk
<1>4. CASE ActTreeDone \/ ActSignal \/ ActNothing
      BY <1>4 DEF ActTreeDone, ActSignal, ActNothing, Proceed
<1>5. CASE StartChild \/ StartOther \/ OnLaunched \/ OnLaunchFailed
      BY <1>5 DEF StartChild, StartOther, OnLaunched, OnLaunchFailed
<1>6. CASE ReadFlags \/ ActTree
      BY <1>6 DEF ReadFlags, ActTree
<1>7. CASE Poll \/ LoopFails \/ WaitChild \/ MarkReaped \/ DrainWakeup
      BY <1>7 DEF Poll, LoopFails, WaitChild, MarkReaped, DrainWakeup
<1>8. CASE Drain \/ DrainFails \/ DrainFlag \/ DrainTreeDone \/ OnExit \/ ClosePipes \/ Return
      BY <1>8 DEF Drain, DrainFails, DrainFlag, DrainTreeDone, OnExit, ClosePipes, Return
<1>9. CASE ReadFails
      BY <1>9, ReadGoesOn DEF ReadFails
<1> QED BY <1>1, <1>2, <1>3, <1>4, <1>5, <1>6, <1>7, <1>8, <1>9 DEF Thread

LEMMA AskStep ==
  ASSUME Inv, AskInv, [Next]_vars
  PROVE  AskInv'
<1>0. Skeleton /\ TypeOK /\ opt' = opt
      BY StepSkeleton DEF Inv, Skeleton
<1> SUFFICES ASSUME opt.threaded PROVE AskInv'
    BY <1>0 DEF AskInv
<1> USE DEF Asking, Loop, ClosePC
<1>1. CASE Thread
      BY <1>0, <1>1, ThreadAsks DEF AskInv, ownerVars
<1>2. CASE Owner /\ UNCHANGED opt
  <2>0. UNCHANGED <<term, wait, canceller>>
        BY <1>2 DEF Owner, OwnerStep, Start, StartThrows, InlineDone, Close, CheckReaped,
                TreeDone, Join, Release, StopProcess, TerminateTree, SendStdIn, SendDone,
                CloseStdIn, TerminateTreeStep, TreeLoad, TreeKill, TreeProbe, TreeGroup,
                OwnerFrame, threadVars
  <2>1. CASE opc = "idle" /\ tpc' = tpc /\ \E f \in opt.closes : Close(f)
    <3>1. ~closed /\ ~needWait /\ tpc \notin {"act", "actTree"}
          BY <2>1 DEF AskInv
    <3> QED BY <1>0, <2>0, <2>1, <3>1 DEF Close, RequestClose, AskInv
  <2>2. CASE opc = "new" /\ opc' = "idle" /\ tpc' = "start" /\ UNCHANGED <<askVars, flags>>
    <3>1. ~closed
          BY <2>2 DEF AskInv
    <3> QED BY <1>0, <2>0, <2>2, <3>1 DEF AskInv, askVars
  <2>3. CASE /\ UNCHANGED <<askVars, flags, tpc>>
             /\ opc \in ClosePC <=> opc' \in ClosePC
        BY <1>0, <2>0, <2>3 DEF AskInv, askVars
  <2> QED BY <1>2, <2>1, <2>2, <2>3, OwnerAsks
<1>3. CASE CancelAll
      BY <1>0, <1>3 DEF CancelAll, AskInv, ownerVars, threadVars
<1>4. CASE Dispatch \/ CancelDone \/ Environment \/ UNCHANGED vars
      BY <1>0, <1>4 DEF Dispatch, CancelDone, Environment, vars, AskInv, ownerVars, threadVars,
                        askVars
<1> QED BY <1>1, <1>2, <1>3, <1>4 DEF Next, Finished

-----------------------------------------------------------------------------
(* f_TerminateTree kills what it is called for.                            *)

LEMMA MovesKeep ==
  ASSUME Moves, opt' = opt
  PROVE  /\ Child \notin Active => Child \notin Active'
         /\ GroupEnded => GroupEnded'
         /\ Child \in asked => Child \in asked'
BY DEF Moves, GroupEnded

LEMMA KilledInactive ==
  ASSUME NEW ps, SigKill(ps), UNCHANGED pstate
  PROVE  \A p \in ps : p \notin Active'
BY DEF SigKill, Active, Alive

(* The record of a call after each of its steps.                           *)
LEMMA LoadedCall ==
  ASSUME NEW t \in [Actor -> TreeCall], NEW a \in Actor, NEW r
  PROVE  LET new == [t EXCEPT ![a] = [@ EXCEPT !.at = "kill", !.reaped = r]][a]
         IN  new.at = "kill" /\ new.reaped = r
BY DEF TreeCall

LEMMA KilledCall ==
  ASSUME NEW t \in [Actor -> TreeCall], NEW a \in Actor, NEW next, NEW err
  PROVE  LET new == [t EXCEPT ![a].at = next, ![a].ok = TRUE, ![a].err = err][a]
         IN  new.at = next /\ new.ok /\ new.reaped = t[a].reaped
BY DEF TreeCall

LEMMA GroupCall ==
  ASSUME NEW t \in [Actor -> TreeCall], NEW a \in Actor, NEW u,
         \/ u = [t EXCEPT ![a].at = "off", ![a].ok = TRUE]
         \/ u = [t EXCEPT ![a].at = "off"]
         \/ u = [t EXCEPT ![a].at = "off", ![a].err = TRUE]
  PROVE  u[a].at = "off" /\ (t[a].ok => u[a].ok)
BY DEF TreeCall

LEMMA TreeKeeps ==
  ASSUME TypeOK, ChildInv, TreeInv, tpc = "actTree", UNCHANGED opt, TerminateTreeStep("thread")
  PROVE  TreeInv'
<1>0. /\ hasID /\ ~reaped /\ pstate[Child] \in {"alive", "zombie"}
      /\ tpc' = "actTree" /\ opt' = opt
      BY DEF ChildInv, PresentInv, Loop, TerminateTreeStep, TreeLoad, TreeKill, TreeProbe, TreeGroup
<1>1. /\ Calm /\ Moves
      BY TreeCalm, CalmMoves DEF Actor
<1>2. Child \notin Active => Child \notin Active'
      BY <1>0, <1>1, MovesKeep
<1>3. tt \in [Actor -> TreeCall] /\ "thread" \in Actor
      BY DEF TypeOK, Actor, TreeCall
<1>4. CASE TreeLoad("thread")
  <2>1. tt' = [tt EXCEPT !["thread"] = [@ EXCEPT !.at = "kill", !.reaped = reaped]]
        BY <1>0, <1>4, Zenon DEF TreeLoad
  <2>2. tt'["thread"].at = "kill" /\ tt'["thread"].reaped = reaped
        BY <1>3, <2>1, LoadedCall
  <2> QED BY <1>0, <2>2 DEF TreeInv
<1>5. CASE TreeKill("thread")
  <2> DEFINE next == IF opt.group THEN "group" ELSE "off"
  <2>1. ~tt["thread"].reaped
        BY <1>0, <1>5 DEF TreeKill, TreeInv
  <2>2. \E err \in BOOLEAN :
          tt' = [tt EXCEPT !["thread"].at = next, !["thread"].ok = TRUE, !["thread"].err = err]
        BY <1>0, <1>5, <2>1 DEF TreeKill
  <2>3. tt'["thread"].at = next /\ tt'["thread"].ok /\ ~tt'["thread"].reaped
        BY <1>3, <2>1, <2>2, KilledCall
  <2>4. CanSignal => SigKill({Child} \cup Tree)
        BY <1>0, <1>5, <2>1 DEF TreeKill, CanSignal
  <2>5. CanSignal => Child \notin Active'
        BY <1>1, <2>4, KilledInactive DEF Calm
  <2> QED BY <1>0, <2>3, <2>5 DEF TreeInv, GroupEnded, CanSignal
<1>6. CASE TreeGroup("thread")
  <2>1. opt.group /\ tt["thread"].ok
        BY <1>0, <1>6 DEF TreeGroup, TreeInv
  <2>2. CanSignal => Child \notin Active'
        BY <1>0, <1>2, <1>6 DEF TreeGroup, TreeInv
  <2>3. tt'["thread"].at = "off" /\ tt'["thread"].ok
    <3>1. \/ tt' = [tt EXCEPT !["thread"].at = "off", !["thread"].ok = TRUE]
          \/ tt' = [tt EXCEPT !["thread"].at = "off"]
          \/ tt' = [tt EXCEPT !["thread"].at = "off", !["thread"].err = TRUE]
          BY <1>6 DEF TreeGroup
    <3> QED BY <1>3, <2>1, <3>1, GroupCall
  <2>4. CanSignal => (Active \cap Group)' = {}
    <3>1. CASE SigKill(Group)
          BY <1>1, <3>1, KilledInactive DEF Calm, Group
    <3>2. CASE Group = {}
          BY <1>1, <3>2 DEF Calm, Group
    <3> QED BY <1>6, <3>1, <3>2 DEF TreeGroup, CanSignal
  <2> QED BY <1>0, <2>2, <2>3, <2>4 DEF TreeInv, GroupEnded, CanSignal
<1>7. ~TreeProbe("thread")
      BY DEF TreeProbe, TreeInv
<1> QED BY <1>4, <1>5, <1>6, <1>7 DEF TerminateTreeStep

LEMMA TreeStep ==
  ASSUME Inv, ChildInv, TreeInv, [Next]_vars
  PROVE  TreeInv'
<1>0. Skeleton /\ TypeOK /\ opt' = opt
      BY StepSkeleton DEF Inv, Skeleton
<1>1. CASE ~Thread
  <2>1. Bystander
        BY <1>0, <1>1, BystanderStep
  <2>2. /\ Child \notin Active => Child \notin Active'
        /\ GroupEnded => GroupEnded'
        BY <1>0, <2>1, MovesKeep DEF Bystander
  <2>3. tpc' = "actTree" => tpc = "actTree" /\ tt'["thread"] = tt["thread"]
        BY <2>1 DEF Bystander
  <2> QED BY <1>0, <2>2, <2>3 DEF TreeInv, CanSignal
<1>2. CASE Thread
  <2>1. CASE ActTree
    <3>1. tt'["thread"].at = "load"
          BY <1>0, <2>1 DEF ActTree, CallTerminateTree, TypeOK, Actor
    <3> QED BY <3>1 DEF TreeInv
  <2>2. CASE TerminateTreeStep("thread")
    <3>1. tpc' = tpc
          BY <2>2, TreeSkeleton DEF Actor
    <3> QED BY <1>0, <2>2, <3>1, TreeKeeps DEF TreeInv
  <2>3. CASE ~ActTree /\ ~TerminateTreeStep("thread")
    <3>1. tpc' # "actTree"
      <4>1. CASE RedirectOutput \/ DrainOutput
            BY <4>1 DEF RedirectOutput, Redirect, DrainOutput, DrainPipe, TakeChunk
      <4>2. CASE ~RedirectOutput /\ ~DrainOutput
            BY <1>2, <2>3, <4>2, ReadGoesOn DEF Thread, StartChild, StartOther, OnLaunched, OnLaunchFailed,
                      Poll, LoopFails, WaitChild, MarkReaped, DrainWakeup, ReadFlags,
                      ActTreeDone, ActSignal, ActNothing, Proceed, Drain, DrainFails, DrainFlag,
                      DrainTreeDone, OnExit, ClosePipes, Return
      <4> QED BY <4>1, <4>2
    <3> QED BY <3>1 DEF TreeInv
  <2> QED BY <2>1, <2>2, <2>3
<1> QED BY <1>1, <1>2

LEMMA EntersLeaving ==
  ASSUME Thread, tpc \notin Leaving, tpc' \in Leaving, ~OnExit, ~OnLaunchFailed
  PROVE  (ActTreeDone \/ ActSignal \/ ActNothing) /\ tpc' = "lastOut"
<1> USE DEF Leaving
<1>1. CASE TerminateTreeStep("thread")
      BY <1>1, TreeSkeleton DEF Actor
<1>2. CASE RedirectOutput
      BY <1>2 DEF RedirectOutput, Redirect, TakeChunk
<1>3. CASE DrainOutput
      BY <1>3 DEF DrainOutput, DrainPipe, TakeChunk
<1>4. CASE ActTreeDone \/ ActSignal \/ ActNothing
      BY <1>4 DEF ActTreeDone, ActSignal, ActNothing, Proceed
<1>5. CASE StartChild \/ StartOther \/ OnLaunched \/ Poll \/ LoopFails \/ WaitChild \/ MarkReaped
      BY <1>5 DEF StartChild, StartOther, OnLaunched, Poll, LoopFails, WaitChild, MarkReaped
<1>6. CASE DrainWakeup \/ ReadFlags \/ ActTree \/ Drain \/ DrainFails \/ DrainFlag
           \/ DrainTreeDone \/ ClosePipes \/ Return
      BY <1>6 DEF DrainWakeup, ReadFlags, ActTree, Drain, DrainFails, DrainFlag, DrainTreeDone,
                  ClosePipes, Return
<1>7. CASE ReadFails
      BY <1>7, ReadGoesOn
<1> QED BY <1>1, <1>2, <1>3, <1>4, <1>5, <1>6, <1>7 DEF Thread

-----------------------------------------------------------------------------
(* The loop is left only when the close has taken effect.                  *)

LEMMA SignalledKept ==
  ASSUME Moves, UNCHANGED <<opt, flags>>, Signalled
  PROVE  Signalled'
BY MovesKeep DEF Signalled

(* The three ways out of the loop for a launch that is closed.             *)
LEMMA LeavesLoop ==
  ASSUME TypeOK, AskInv, TreeInv, UNCHANGED opt, opt.threaded, CanSignal,
         ActTreeDone \/ ActSignal \/ ActNothing, tpc' = "lastOut"
  PROVE  /\ closed /\ UNCHANGED <<flags, closed, canceller>>
         /\ flags \cap Waits = {} \/ canceller # "idle"
         /\ Signalled'
<1>0. /\ tpc \in {"act", "actTree"}
      /\ UNCHANGED <<flags, closed, canceller, pstate, outside>>
      BY DEF ActTreeDone, ActSignal, ActNothing, ThreadFrame, ownerVars, askVars, worldVars
<1>1. /\ closed /\ term = flags \cap Terminations
      /\ canceller = "idle" => wait = (flags \cap Waits # {})
      BY <1>0 DEF AskInv
<1>2. CASE ActTreeDone
  <2>1. tt["thread"].ok /\ Child \notin Active /\ GroupEnded
        BY <1>2 DEF ActTreeDone, TreeInv
  <2>2. ~wait
        BY <1>2, <2>1 DEF ActTreeDone, Proceed, TypeOK
  <2>3. Child \notin Active' /\ GroupEnded'
        BY <1>0, <1>2, <2>1 DEF ActTreeDone, worldVars, Active, Alive, Group, GroupEnded
  <2> QED BY <1>0, <1>1, <2>2, <2>3 DEF Signalled
<1>3. CASE ActSignal
  <2>1. /\ ~WantsTree
        /\ IF "TerminateProcess" \in term THEN SigKill({Child}) ELSE SigTerm({Child})
        /\ ~wait
        BY <1>3 DEF ActSignal, CanSignal, Proceed
  <2>2. "TerminateProcessTree" \notin flags
        BY <1>1, <2>1 DEF WantsTree, Terminations
  <2>3. "TerminateProcess" \in flags => Child \notin Active'
        BY <1>0, <1>1, <2>1, KilledInactive DEF Terminations
  <2>4. "TerminateProcess" \notin flags => Child \in asked' \/ Child \notin Active'
        BY <1>0, <1>1, <2>1 DEF SigTerm, Terminations, Active, Alive
  <2> QED BY <1>0, <1>1, <2>1, <2>2, <2>3, <2>4 DEF Signalled, Terminations
<1>4. CASE ActNothing
  <2>1. term = {} /\ ~wait
        BY <1>4 DEF ActNothing, Proceed
  <2> QED BY <1>0, <1>1, <2>1 DEF Signalled, Terminations
<1> QED BY <1>2, <1>3, <1>4

LEMMA OthersKeepFlags ==
  ASSUME TypeOK, AskInv, [Next]_vars, opt.threaded, closed
  PROVE  UNCHANGED <<flags, closed>>
<1>1. CASE Thread
      BY <1>1, ThreadAsks DEF ownerVars
<1>2. CASE Owner
      BY <1>2, OwnerAsks DEF AskInv, ClosePC, askVars
<1>3. CASE Dispatch \/ CancelAll \/ CancelDone \/ Environment \/ UNCHANGED vars
      BY <1>3 DEF Dispatch, CancelAll, CancelDone, Environment, vars, ownerVars, askVars
<1> QED BY <1>1, <1>2, <1>3 DEF Next, Finished

LEMMA LeaveStep ==
  ASSUME Inv, ChildInv, AskInv, TreeInv, LeaveInv, [Next]_vars
  PROVE  LeaveInv'
<1>0. Skeleton /\ TypeOK /\ opt' = opt
      BY StepSkeleton DEF Inv, Skeleton
<1> SUFFICES ASSUME opt.threaded, CanSignal, tpc' \in Leaving, HasLaunched', ~HasExited'
             PROVE  closed' /\ (flags' \cap Waits = {} \/ canceller' # "idle") /\ Signalled'
    BY <1>0 DEF LeaveInv, CanSignal
<1>1. ~HasExited
      BY <1>0, FirstReport
<1>2. CASE tpc \in Leaving
  <2>1. HasLaunched
        BY <1>0, <1>2, FirstIsKept DEF Leaving
  <2>2. closed /\ (flags \cap Waits = {} \/ canceller # "idle") /\ Signalled
        BY <1>1, <1>2, <2>1 DEF LeaveInv
  <2>3. UNCHANGED <<flags, closed>>
        BY <1>0, <2>2, OthersKeepFlags
  <2>4. Moves /\ (canceller # "idle" => canceller' # "idle")
    <3>1. CASE Thread
      <4>1. ~StartChild /\ ~WaitChild
            BY <1>2 DEF StartChild, WaitChild, Leaving
      <4> QED BY <3>1, <4>1, ThreadCalm, CalmMoves
    <3>2. CASE ~Thread
          BY <1>0, <3>2, BystanderStep DEF Bystander
    <3> QED BY <3>1, <3>2
  <2> QED BY <1>0, <2>2, <2>3, <2>4, SignalledKept
<1>3. CASE tpc \notin Leaving
  <2>1. Thread
        BY <1>0, <1>3, BystanderStep DEF Bystander, Leaving
  <2>2. ~OnExit /\ ~OnLaunchFailed
    <3>1. ~OnExit
      <4> SUFFICES ASSUME OnExit PROVE FALSE
          OBVIOUS
      <4>1. sent' # <<>> /\ sent'[Len(sent')] = "Exited"
            BY <1>0, AppendReport DEF OnExit, Report
      <4> QED BY <4>1 DEF HasExited
    <3>2. ~OnLaunchFailed
      <4> SUFFICES ASSUME OnLaunchFailed PROVE FALSE
          OBVIOUS
      <4>1. tpc = "failed" /\ ~HasLaunched
            BY DEF OnLaunchFailed, HasLaunched, Inv, ReportInv
      <4> QED BY <1>0, <4>1, FirstIsKept
    <3> QED BY <3>1, <3>2
  <2>3. (ActTreeDone \/ ActSignal \/ ActNothing) /\ tpc' = "lastOut"
        BY <1>3, <2>1, <2>2, EntersLeaving
  <2> QED BY <1>0, <2>3, LeavesLoop
<1> QED BY <1>2, <1>3

(* What is proved together of a close.                                     *)
CloseInv == ChildInv /\ AskInv /\ TreeInv /\ LeaveInv

LEMMA CloseInitially == Init => CloseInv
<1> SUFFICES ASSUME Init PROVE CloseInv
    OBVIOUS
<1>1. ChildInv
      BY DEF Init, WorldInit, ChildInv, AbsentInv, PresentInv, AllNone, Emptying, Failed,
             Loop, HasExited
<1>2. AskInv /\ TreeInv /\ LeaveInv
      BY DEF Init, AskInv, ClosePC, Asking, Loop, TreeInv, LeaveInv, Leaving
<1> QED BY <1>1, <1>2 DEF CloseInv

LEMMA CloseStep == Inv /\ CloseInv /\ [Next]_vars => CloseInv'
BY ChildStep, AskStep, TreeStep, LeaveStep DEF CloseInv

LEMMA CloseSuffices == Inv /\ CloseInv => CloseTakesEffect
<1> SUFFICES ASSUME Inv, CloseInv, opt.threaded, ThreadEnded
             PROVE  /\ CanSignal /\ HasLaunched /\ ~HasExited
                         => flags \cap Waits = {} \/ canceller # "idle"
                    /\ opt.faults = {} /\ closed => Signalled \/ Child \notin Active
    BY DEF CloseTakesEffect, WaitedForExitIsReported, TerminateTakesEffect, Signalled, CanSignal
<1>1. tpc \in Leaving /\ sent # <<>>
      BY DEF ThreadEnded, Leaving, Inv, ReportInv
<1>2. CASE HasLaunched /\ ~HasExited
      BY <1>1, <1>2 DEF CloseInv, LeaveInv, CanSignal
<1>3. CASE HasExited /\ opt.faults = {}
      BY <1>3 DEF CloseInv, ChildInv, AbsentInv, PresentInv, AllNone, Active, Alive
<1>4. CASE ~HasLaunched
  <2>1. Failed
        BY <1>1, <1>4 DEF CloseInv, ChildInv, AbsentInv, Failed, HasLaunched
  <2> QED BY <1>4, <2>1 DEF CloseInv, ChildInv, AbsentInv, PresentInv, AllNone, Active, Alive
<1> QED BY <1>2, <1>3, <1>4

(* A close takes effect, in whatever order the owner closes the launch,    *)
(* fs_CancelAllLaunches gives it up, and its process starts and exits: the *)
(* loop of f_Main is left for the close only when the signal it asks for   *)
(* has been sent and nobody waits for the process.                         *)
THEOREM CloseEffective == Spec => []CloseTakesEffect
BY CloseInitially, CloseStep, CloseSuffices, Invariance, PTL DEF Spec

-----------------------------------------------------------------------------
(* When a close terminates the tree, nothing of the group is left.         *)

(* Nothing but its end makes a process let go of the standard output, and  *)
(* so no process is left when the exit is reported.                        *)
HoldInv ==
  "close" \notin opt.habits => \A p \in Alive : p \in writers["stdout"]

LEMMA WorldHolds ==
  ASSUME TypeOK, HoldInv, "close" \notin opt.habits, NEW grouped, World(grouped, opt.habits)
  PROVE  \A p \in Alive' : p \in writers'["stdout"]
<1>0. /\ \A p \in Procs : pstate[p] = "alive" => p \in writers["stdout"]
      /\ "stdout" \in Pipe
      BY DEF HoldInv, Alive, Pipe
<1>1. CASE \E p \in Procs, d \in Descendants : Fork(p, d)
      BY <1>0, <1>1 DEF Fork, Active, Alive, TypeOK, WorldTypeOK, Procs
<1>2. CASE \E p \in Procs : Die(p)
      BY <1>0, <1>2 DEF Die, Alive, TypeOK, WorldTypeOK, Procs
<1>3. CASE \/ \E d \in Descendants : LeaveGroup(d)
           \/ \E p \in Procs, q \in Pipe : Write(p, q)
           \/ ReadStdin \/ ReuseID(grouped)
      BY <1>0, <1>3 DEF LeaveGroup, Write, ReadStdin, ReuseID, procVars, pipeVars, Alive
<1> QED BY <1>1, <1>2, <1>3 DEF World

LEMMA HoldStep ==
  ASSUME Inv, ChildInv, HoldInv, [Next]_vars
  PROVE  HoldInv'
<1>0. Skeleton /\ TypeOK /\ opt' = opt
      BY StepSkeleton DEF Inv, Skeleton
<1> SUFFICES ASSUME "close" \notin opt.habits
             PROVE  \A p \in Alive' : p \in writers'["stdout"]
    BY <1>0 DEF HoldInv
<1>1. CASE Environment
      BY <1>0, <1>1, WorldHolds DEF Environment
<1>2. CASE StartChild
  <2>1. \A p \in Procs : pstate[p] = "none"
        BY <1>2 DEF StartChild, ChildInv, AbsentInv, AllNone
  <2>2. Alive' = {Child}
        BY <1>0, <1>2, <2>1 DEF StartChild, Alive, TypeOK, WorldTypeOK, Procs
  <2>3. "stdout" \in Pipe /\ "stdout" \in OutputPipes
        BY DEF Pipe, OutputPipes
  <2> QED BY <1>2, <2>2, <2>3 DEF StartChild
<1>3. CASE ~Environment /\ ~StartChild
  <2>1. writers' = writers
    <3>1. CASE Thread
      <4>1. CASE tpc # "start"
            BY <3>1, <4>1, ThreadPipes DEF pipeVars
      <4>2. CASE StartOther
            BY <4>2 DEF StartOther, worldVars
      <4>3. CASE tpc = "start" /\ ~StartOther
        <5>1. TerminateTreeStep("thread")
              BY <1>3, <3>1, <4>3, ReadGoesOn DEF Thread, OnLaunched, OnLaunchFailed, Poll, LoopFails,
                    RedirectOutput, Redirect, WaitChild, MarkReaped, DrainWakeup, ReadFlags,
                    ActTree, ActTreeDone, ActSignal, ActNothing, Drain, DrainFails, DrainFlag,
                    DrainTreeDone, DrainOutput, DrainPipe, OnExit, ClosePipes, Return
        <5> QED BY <5>1 DEF TerminateTreeStep, TreeLoad, TreeKill, TreeProbe, TreeGroup,
                            worldVars, pipeVars
      <4> QED BY <4>1, <4>2, <4>3
    <3>2. CASE Owner
          BY <3>2, OwnerPipes DEF pipeVars
    <3>3. CASE Dispatch \/ CancelAll \/ CancelDone \/ UNCHANGED vars
          BY <3>3 DEF Dispatch, CancelAll, CancelDone, vars, worldVars
    <3> QED BY <1>3, <3>1, <3>2, <3>3 DEF Next, Finished
  <2>2. Alive' \subseteq Alive
    <3>1. CASE WaitChild
          BY <1>0, <3>1 DEF WaitChild, Alive, TypeOK, WorldTypeOK, Procs
    <3>2. CASE Thread /\ ~WaitChild
          BY <1>3, <3>2, ThreadCalm DEF Calm, Alive
    <3>3. CASE Owner
          BY <3>3, OwnerCalm DEF Calm, Alive
    <3>4. CASE Dispatch \/ CancelAll \/ CancelDone \/ UNCHANGED vars
          BY <3>4 DEF Dispatch, CancelAll, CancelDone, vars, worldVars, Alive
    <3> QED BY <1>3, <3>1, <3>2, <3>3, <3>4 DEF Next, Finished
  <2> QED BY <2>1, <2>2 DEF HoldInv
<1> QED BY <1>1, <1>2, <1>3

(* A launch of which no system call fails, and whose processes hold their  *)
(* output to their end.                                                    *)
Dependable == opt.threaded /\ opt.faults = {} /\ "close" \notin opt.habits

LEMMA TreeSuffices ==
  Inv /\ CloseInv /\ HoldInv /\ OutputInv => (Dependable => TreeCloseEndsGroup)
<1> SUFFICES ASSUME Inv, CloseInv, HoldInv, OutputInv, Dependable, ThreadEnded,
                    "TerminateProcessTree" \in flags, opt.group
             PROVE  Active \cap Group = {}
    BY DEF TreeCloseEndsGroup
<1>1. tpc \in Leaving /\ sent # <<>>
      BY DEF ThreadEnded, Leaving, Inv, ReportInv
<1>2. CASE HasLaunched /\ ~HasExited
      BY <1>1, <1>2 DEF CloseInv, LeaveInv, CanSignal, Dependable, Signalled, GroupEnded
<1>3. CASE HasExited
  <2>1. writers["stdout"] = {}
        BY <1>3 DEF OutputInv, Dependable, OutputPipes, Pipe, Ended, AtEOF
  <2> QED BY <2>1 DEF HoldInv, Dependable, Active
<1>4. CASE ~HasLaunched
  <2>1. Failed
        BY <1>1, <1>4 DEF CloseInv, ChildInv, AbsentInv, Failed, HasLaunched
  <2> QED BY <2>1 DEF CloseInv, ChildInv, AbsentInv, PresentInv, AllNone, Active, Alive
<1> QED BY <1>2, <1>3, <1>4

(* The close of a threaded launch that terminates its tree has ended every *)
(* process of its group, unless a system call fails or a process closes    *)
(* the output before it ends: f_Main has killed the group, or has drained  *)
(* the output to its end.  A process that closes its output is why the     *)
(* property is not proved without that hypothesis: see PosixLaunchLostTree.*)
THEOREM TreeCloseEffective == Spec => [](Dependable => TreeCloseEndsGroup)
<1>1. Init => HoldInv /\ OutputInv
      BY DEF Init, WorldInit, HoldInv, Alive, OutputInv, HasExited, Running
<1>2. Inv /\ CloseInv /\ HoldInv /\ [Next]_vars => HoldInv'
      BY HoldStep DEF CloseInv
<1> QED BY <1>1, <1>2, CloseInitially, CloseStep, OutputStep, TreeSuffices, Invariance, PTL
        DEF Spec
=============================================================================
