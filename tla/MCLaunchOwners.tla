--------------------------- MODULE MCLaunchOwners ---------------------------
(***************************************************************************)
(* Instances of LaunchActor and of LaunchHandler, the two that own         *)
(* launches, for TLC: of one at a time, while the other is not used.       *)
(***************************************************************************)
EXTENDS LaunchActor, LaunchHandler

CONSTANT h1   \* one of Launches

Soft == [tree |-> FALSE, group |-> FALSE, lines |-> FALSE, simple |-> FALSE,
         text |-> 0, sends |-> 1, stops |-> Stop]
Group == [Soft EXCEPT !.tree = TRUE, !.group = TRUE]

(* Launches that are stopped; the tree of one that is terminated; output   *)
(* as it comes, and in lines; and a simple launch.                         *)
AllConfigs ==
  {Soft,
   [Group EXCEPT !.stops = {"Process", "TerminateProcessTree"}],
   [Soft EXCEPT !.text = 1, !.sends = 0, !.stops = {"Process"}],
   [Group EXCEPT !.lines = TRUE, !.text = 2, !.sends = 0, !.stops = {}],
   [Soft EXCEPT !.simple = TRUE, !.lines = TRUE, !.text = 1, !.sends = 2, !.stops = {}]}

Direct == [launches |-> Launches, output |-> 0, delayed |-> FALSE, dispatched |-> FALSE,
           throws |-> FALSE, timed |-> FALSE, most |-> 0, operations |-> {}]
One == [Direct EXCEPT !.launches = {h1}]
Unused == [Direct EXCEPT !.launches = {}]

(* Launches that are terminated, removed and waited for; that linger; that *)
(* cannot be made; whose output is delayed; whose callbacks are dispatched.*)
AllSetups ==
  {Unused,
   [Direct EXCEPT !.operations = {"terminate", "reap", "block"}, !.most = 1],
   [Direct EXCEPT !.operations = {"linger", "block"}],
   [One EXCEPT !.operations = {"reap", "linger", "wait"}, !.timed = TRUE],
   [One EXCEPT !.operations = {"block"}, !.throws = TRUE, !.timed = TRUE],
   [One EXCEPT !.operations = {"block"}, !.delayed = TRUE, !.output = 2],
   [One EXCEPT !.operations = {"terminate", "linger", "reap"}, !.dispatched = TRUE,
               !.output = 1]}

OwnersInit ==
    /\ HandlerInit /\ Init
    /\ setup # Unused => config = Soft

OwnersNext ==
    \/ setup = Unused /\ Next /\ UNCHANGED handlerVars
    \/ HandlerNext /\ UNCHANGED vars

OwnersSpec ==
    OwnersInit /\ [][OwnersNext]_<<vars, handlerVars>> /\ Fairness /\ HandlerFairness
=============================================================================
