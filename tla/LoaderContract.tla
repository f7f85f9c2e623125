--------------------------- MODULE LoaderContract ---------------------------
(***************************************************************************)
(* What the rest of the machine may assume of the class loader: requests   *)
(* are served one at a time; a class is linked after its superclass and    *)
(* never unlinked; a request that succeeds names the classes it linked,    *)
(* one that fails names none and may have linked some.                     *)
(***************************************************************************)
EXTENDS Naturals

CONSTANTS Classes, NoClass

VARIABLES
    supers,   \* the superclass of each class, or NoClass
    linked,   \* the classes that can be used
    serving,  \* a request is being served
    base,     \* the classes that were linked when it came in
    answer    \* the answer to the last request

contractVars == <<supers, linked, serving, base, answer>>

Pending     == [kind |-> "pending", loaded |-> {}]
Failed      == [kind |-> "failed", loaded |-> {}]
Loaded(set) == [kind |-> "loaded", loaded |-> set]

Init ==
    /\ supers \in [Classes -> Classes \cup {NoClass}]
    /\ linked = {}
    /\ serving = FALSE
    /\ base = {}
    /\ answer = Pending

\* A request that needs work.
Begin ==
    /\ ~serving
    /\ serving' = TRUE
    /\ base' = linked
    /\ answer' = Pending
    /\ UNCHANGED <<supers, linked>>

\* A request answered from what is known already.
AnswerAtOnce ==
    /\ ~serving
    /\ base' = linked
    /\ answer' \in {Failed, Loaded({})}
    /\ UNCHANGED <<supers, linked, serving>>

LinkClass(c) ==
    /\ serving
    /\ c \notin linked
    /\ supers[c] \in linked \cup {NoClass}
    /\ linked' = linked \cup {c}
    /\ UNCHANGED <<supers, serving, base, answer>>

Succeed ==
    /\ serving
    /\ serving' = FALSE
    /\ answer' = Loaded(linked \ base)
    /\ UNCHANGED <<supers, linked, base>>

Fail ==
    /\ serving
    /\ serving' = FALSE
    /\ answer' = Failed
    /\ UNCHANGED <<supers, linked, base>>

Next ==
    \/ Begin
    \/ AnswerAtOnce
    \/ \E c \in Classes : LinkClass(c)
    \/ Succeed
    \/ Fail

Spec == Init /\ [][Next]_contractVars
=============================================================================
