-------------------------- MODULE MCListRefresher --------------------------
(* Instances of ListRefresher for TLC. *)
EXTENDS ListRefresher, TLC

CONSTANTS c1, c2

Item(id, reason) == [ID |-> id, Reason |-> reason]

(* "dev1" and "dev2" are device ids, ".*" and "dev[2]" match some of them, *)
(* "dev(" does not compile.  Ids are repeated, reasons change, rules come  *)
(* and go.                                                                 *)
History ==
  << <<Item("dev1", "a"), Item(".*", "b"), Item("dev1", "c")>>,
     <<Item("dev[2]", "a"), Item("dev(", "b")>>,
     <<Item(".*", "d"), Item("dev[2]", "e")>> >>

Matching == {<<"dev1", "dev1">>, <<"dev2", "dev2">>, <<".*", "dev1">>, <<".*", "dev2">>,
             <<"dev[2]", "dev2">>}
=============================================================================
