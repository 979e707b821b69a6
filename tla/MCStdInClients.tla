--------------------------- MODULE MCStdInClients ---------------------------
(***************************************************************************)
(* Instances of StdInClients for TLC.                                      *)
(***************************************************************************)
EXTENDS StdInClients

Idle == [text |-> <<"letter", "newline">>, paced |-> BOOLEAN, kinds |-> {}, calls |-> 0,
         aborts |-> 0, subscribe |-> FALSE, destroy |-> FALSE, imps |-> 4, others |-> {}]
Actor == [Idle EXCEPT !.paced = {FALSE}, !.calls = 2, !.imps = 2]

Typed == [Actor EXCEPT !.kinds = {"prompt"}, !.imps = 1]

(* Readers that are opened by anyone; lines that an abort or the           *)
(* destruction comes between, and a subscriber; lines and binary input     *)
(* while another reader wants to be alone; prompts with a cursor, and one  *)
(* with a string and a break; binary input; and a blocking reader.         *)
AllConfigs ==
  {[Idle EXCEPT !.imps = 3, !.others = Readers \ Own],
   [Actor EXCEPT !.kinds = {"prompt"}, !.aborts = 1, !.destroy = TRUE],
   [Actor EXCEPT !.text = <<"letter", "letter", "newline">>, !.kinds = {"line"},
                 !.aborts = 1, !.imps = 1, !.others = LineInput],
   [Actor EXCEPT !.text = <<"letter", "newline", "letter", "newline">>, !.kinds = {"line"},
                 !.imps = 1, !.subscribe = TRUE],
   [Actor EXCEPT !.kinds = {"line", "binary"}, !.others = Exclusive \ Own],
   [Typed EXCEPT !.text = <<"letter", "escape", "left", "letter", "erase", "newline">>],
   [Typed EXCEPT !.text = <<"letter", "home", "escape", "insert", "letter", "newline">>],
   [Typed EXCEPT !.text = <<"letter", "home", "escape", "delete", "end", "newline">>],
   [Typed EXCEPT !.text = <<"letter", "escape", "string", "bell", "break", "newline">>],
   [Actor EXCEPT !.kinds = {"binary"}, !.aborts = 1, !.paced = BOOLEAN],
   [Actor EXCEPT !.text = <<"letter", "newline", "newline">>, !.kinds = BlockingKind]}
=============================================================================
