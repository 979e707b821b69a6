---------------------------- MODULE LaunchContract ----------------------------
(***************************************************************************)
(* What m_fOnStateChange and m_fOnOutput of a launch are promised to see,  *)
(* whatever the process, its owner and the system do: how the launch went, *)
(* once and before anything else; then output; and how it ended, once and  *)
(* after all output - or never, when the launch is given up.  A launch     *)
(* that failed reports nothing more.                                       *)
(***************************************************************************)
EXTENDS Sequences

CONSTANTS OutputKind \* the reports that are output

VARIABLES
  reports, \* the reports so far
  over     \* no report will follow

Begin == {"Launched", "LaunchFailed"}

vars == <<reports, over>>

Init == reports = <<>> /\ over = FALSE

Report(kind) ==
  /\ ~over
  /\ IF reports = <<>> THEN kind \in Begin ELSE kind \in OutputKind \cup {"Exited"}
  /\ reports' = Append(reports, kind)
  /\ over' = (kind \in {"LaunchFailed", "Exited"})

(* The owner gives the launch up before its process has exited.            *)
Abandon ==
  /\ reports # <<>>
  /\ ~over
  /\ over' = TRUE
  /\ UNCHANGED reports

Next == Abandon \/ \E kind \in OutputKind \cup Begin \cup {"Exited"} : Report(kind)

Spec == Init /\ [][Next]_vars
=============================================================================
