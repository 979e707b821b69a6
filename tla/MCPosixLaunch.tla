---------------------------- MODULE MCPosixLaunch ----------------------------
(***************************************************************************)
(* Instances of PosixLaunch for TLC.                                       *)
(***************************************************************************)
EXTENDS PosixLaunch

ManyWays ==
  {{}, {"LingerUntilDone"}, {"TerminateProcess", "BlockOnExit"},
   {"StopProcess", "LingerUntilDone"}, {"TerminateProcessTree"}}

Plain == [group |-> FALSE, sandboxed |-> FALSE, redirect |-> TRUE,
          separate |-> FALSE, dispatcher |-> FALSE, threaded |-> TRUE,
          faults |-> {}, closes |-> ManyWays, ops |-> {}, habits |-> {"close"}]

Grouped == [Plain EXCEPT !.group = TRUE]

(* Callbacks on the launch thread, callbacks through a dispatcher, a       *)
(* launch run by its owner, a launch on which everything can fail, and one *)
(* with a descendant that may do anything, with operations of the owner.   *)
ManyOptions ==
  {Plain,
   [Plain EXCEPT !.dispatcher = TRUE, !.separate = TRUE],
   [Plain EXCEPT !.threaded = FALSE, !.redirect = FALSE, !.faults = {"wakeup"}],
   [Grouped EXCEPT !.sandboxed = TRUE, !.separate = TRUE, !.faults = Fault],
   [Grouped EXCEPT !.closes = {{"LingerUntilDone"}, {"TerminateProcessTree"}},
                   !.ops = {"StopGroup", "TerminateTree"}, !.habits = Habit]}

TreeWays ==
  {{"TerminateProcessTree"}, {"TerminateProcessTree", "BlockOnExit"}}

(* A descendant that holds the output, and stdin writes that can block.    *)
TreeOptions ==
  {[Grouped EXCEPT !.closes = TreeWays \cup {{"LingerUntilDone"}}, !.ops = {"Stdin"},
                   !.habits = {"fork"}]}

(* A descendant that may close the output.                                 *)
LostTreeOptions ==
  {[Grouped EXCEPT !.closes = TreeWays, !.habits = {"fork", "close"}]}

StopOptions == {[Grouped EXCEPT !.closes = TreeWays, !.ops = {"Stop"}, !.habits = {}]}
=============================================================================
