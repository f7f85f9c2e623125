---------------------------- MODULE InternTable ----------------------------
(***************************************************************************)
(* What string literals promise to a Java program: the first use of a      *)
(* string picks an object nobody has, and every use, in any thread, is     *)
(* given that object (so == on literals compares their contents).          *)
(***************************************************************************)
CONSTANTS Strings, Refs, NoRef

VARIABLES
    table,   \* the object of each string, or NoRef
    given    \* the pairs <<string, object>> handed out so far

internVars == <<table, given>>

Init ==
    /\ table = [s \in Strings |-> NoRef]
    /\ given = {}

Define(s, r) ==
    /\ table[s] = NoRef
    /\ \A u \in Strings : table[u] # r
    /\ table' = [table EXCEPT ![s] = r]
    /\ UNCHANGED given

Give(s) ==
    /\ table[s] # NoRef
    /\ given' = given \cup {<<s, table[s]>>}
    /\ UNCHANGED table

Next ==
    \E s \in Strings :
        \/ \E r \in Refs : Define(s, r)
        \/ Give(s)

Spec == Init /\ [][Next]_internVars
=============================================================================
