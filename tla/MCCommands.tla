----------------------------- MODULE MCCommands -----------------------------
(* Two sessions, one of them the user's own, and two that may be created.  *)
EXTENDS Commands

MCDirs == {<<"h">>, <<"h", " ">>, <<"b", "a">>}
MCHome == <<"h">>

(* Users alone; users and shells; shells alone.                            *)
MCBudgets ==
  {[users |-> 3, shells |-> 0], [users |-> 1, shells |-> 2], [users |-> 0, shells |-> 4]}

MCAsIndex == [t \in Targets |-> CASE t = "1" -> 1 [] t = "2" -> 2 [] OTHER -> 0]
MCMatching == [t \in Targets |-> CASE t = "id" -> {"self"} [] t = "prefix" -> {"self", "s2"}
                                  [] OTHER -> {}]
=============================================================================
