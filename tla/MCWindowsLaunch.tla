--------------------------- MODULE MCWindowsLaunch ---------------------------
(***************************************************************************)
(* Instances of WindowsLaunch for TLC.                                     *)
(***************************************************************************)
EXTENDS WindowsLaunch

Plain == [target |-> "executable", group |-> FALSE, sandboxed |-> FALSE, user |-> FALSE,
          redirect |-> TRUE, separate |-> FALSE, dispatcher |-> FALSE, threaded |-> TRUE,
          faults |-> {}, ops |-> {}, habits |-> {},
          closes |-> {{}, {"TerminateProcess", "BlockOnExit"}, {"StopProcess", "LingerUntilDone"}}]

TreeWays == {{"LingerUntilDone"}, {"TerminateProcessTree"},
             {"TerminateProcessTree", "LingerUntilDone"}}

(* A process that is run as another user; a process group with a           *)
(* descendant; one that may be left without a job and whose input is       *)
(* written; a de-elevated one that its owner runs; a sandbox; and launches *)
(* of a document, which is run as it is although another user and a        *)
(* sandbox are asked for, and of an elevated process; and a process group  *)
(* of which neither the processes nor the job may be terminated.           *)
ManyOptions ==
  {[Plain EXCEPT !.user = TRUE, !.dispatcher = TRUE,
                 !.faults = {"start", "access", "stop", "shutdown"},
                 !.closes = {{"TerminateProcess"}, {"StopProcess", "LingerUntilDone"}}],
   [Plain EXCEPT !.group = TRUE, !.closes = TreeWays, !.habits = {"fork", "leave"}],
   [Plain EXCEPT !.group = TRUE, !.faults = {"job"}, !.closes = {{"TerminateProcess"}},
                 !.ops = Op],
   [Plain EXCEPT !.target = "deelevated", !.threaded = FALSE, !.separate = TRUE,
                 !.closes = {{}}],
   [Plain EXCEPT !.sandboxed = TRUE, !.redirect = FALSE, !.faults = {"start", "terminate"},
                 !.closes = {{}, {"TerminateProcess", "BlockOnExit"}}, !.habits = {"fork"}],
   [Plain EXCEPT !.target = "document", !.user = TRUE, !.sandboxed = TRUE, !.faults = {"start"},
                 !.ops = {"Stdin"}],
   [Plain EXCEPT !.target = "elevated", !.faults = {"start", "read"}, !.ops = {"Stdin"},
                 !.closes = @ \cup {{"TerminateProcess"}}],
   [Plain EXCEPT !.group = TRUE, !.redirect = FALSE, !.faults = {"denied", "terminate"},
                 !.closes = {{"TerminateProcessTree"}, {"TerminateProcessTree", "BlockOnExit"}},
                 !.habits = {"fork"}]}
=============================================================================
