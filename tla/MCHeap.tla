------------------------------- MODULE MCHeap -------------------------------
(***************************************************************************)
(* A String, a class P with references and statics, a subclass Q of P      *)
(* whose field lies where the one of P does, and a class R in which an int *)
(* comes before a reference, a long follows it, and statics are a long and *)
(* an array.                                                               *)
(***************************************************************************)
EXTENDS Heap

CONSTANTS P, Q, R

Var(name, elem, static) == [name |-> name, fd |-> Field(0, elem, <<>>), static |-> static]
Array(name, static) == [name |-> name, fd |-> Field(1, "C", <<>>), static |-> static]
MCFields(c) ==
    CASE c = Text -> <<Array("chars", FALSE)>>
      [] c = P -> <<Var("a", "L", FALSE), Var("b", "B", TRUE), Var("o", "L", TRUE), Var("c", "L", FALSE)>>
      [] c = Q -> <<Var("d", "L", FALSE)>>
      [] c = R -> <<Var("i", "I", FALSE), Var("r", "L", FALSE), Var("j", "J", FALSE), Var("s", "J", TRUE), Array("t", TRUE)>>
      [] OTHER -> <<>>
MCSuper(c) == IF c = Q THEN P ELSE Object
MCValues == {1, -1}
MCLengths == {-1, 2}
MCLiterals == {<<2, 1>>}

=============================================================================
