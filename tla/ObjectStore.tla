---------------------------- MODULE ObjectStore ----------------------------
(***************************************************************************)
(* What a program may rely on of the heap: objects, static variables,      *)
(* arrays and strings are apart from each other, and a read returns what   *)
(* was written last.  After some operations nothing is promised (wild).    *)
(***************************************************************************)
EXTENDS Integers, Sequences

CONSTANTS
    Classes, Text, CharsSlot,   \* java/lang/String and its field of characters
    Slots,                      \* the instance variables of an object of a class
    Statics,                    \* the static variables
    Values, Lengths, Pointers, Literals,
    Junk                        \* the value of a variable nobody assigned

VARIABLES
    fields,     \* of the object of each key from 0: its class and its variables
    statics,    \* the value of each static variable that was ever assigned
    elems,      \* of each array, by its pointer: the elements
    answer,     \* what the last operation returned
    wild
vars == <<fields, statics, elems, answer, wild>>

Init == /\ fields = <<>> /\ statics = [k \in {} |-> Junk] /\ elems = [p \in {} |-> <<>>]
        /\ answer = <<>> /\ wild = FALSE

Blank(c) == [class |-> c, at |-> [s \in Slots[c] |-> Junk]]
With(f, k, v) == [j \in DOMAIN f \cup {k} |-> IF j = k THEN v ELSE f[j]]
AsChar(v) == v % 65536

New ==
    \E c \in Classes :
        /\ fields' = Append(fields, Blank(c))
        /\ answer' = <<Len(fields)>> /\ UNCHANGED <<statics, elems>>

Put ==
    \E k \in DOMAIN fields, v \in Values \cup DOMAIN elems : \E s \in DOMAIN fields[k].at :
        /\ fields' = [fields EXCEPT ![k].at[s] = v]
        /\ answer' = <<>> /\ UNCHANGED <<statics, elems>>

Get ==
    \E k \in DOMAIN fields : \E s \in DOMAIN fields[k].at :
        answer' = <<fields[k].at[s]>> /\ UNCHANGED <<fields, statics, elems>>

PutStatic(key) ==
    \E v \in Values \cup DOMAIN elems :
        statics' = With(statics, key, v) /\ answer' = <<>> /\ UNCHANGED <<fields, elems>>

\* A variable nobody assigned reads as null, which is no value.
GetStatic(key) ==
    /\ answer' = (IF key \in DOMAIN statics THEN <<statics[key]>> ELSE <<>>)
    /\ UNCHANGED <<fields, statics, elems>>

NewArray ==
    \E p \in Pointers \ DOMAIN elems, n \in Lengths :
        /\ n >= 0 /\ elems' = With(elems, p, [i \in 1..n |-> Junk])
        /\ answer' = <<p>> /\ UNCHANGED <<fields, statics>>

Store ==
    \E a \in DOMAIN elems, v \in Values : \E i \in DOMAIN elems[a] :
        /\ elems' = [elems EXCEPT ![a][i] = AsChar(v)]
        /\ answer' = <<>> /\ UNCHANGED <<fields, statics>>

Load ==
    \E a \in DOMAIN elems : \E i \in DOMAIN elems[a] :
        answer' = <<elems[a][i]>> /\ UNCHANGED <<fields, statics, elems>>

Length ==
    \E a \in DOMAIN elems : answer' = <<Len(elems[a])>> /\ UNCHANGED <<fields, statics, elems>>

\* A string is an object and an array of its characters.
NewString ==
    \E p \in Pointers \ DOMAIN elems, text \in Literals :
        /\ fields' = Append(fields, [Blank(Text) EXCEPT !.at[CharsSlot] = p])
        /\ elems' = With(elems, p, text)
        /\ answer' = <<Len(fields)>> /\ UNCHANGED statics

ReadString ==
    \E k \in DOMAIN fields :
        /\ fields[k].class = Text /\ fields[k].at[CharsSlot] \in DOMAIN elems
        /\ answer' = elems[fields[k].at[CharsSlot]] /\ UNCHANGED <<fields, statics, elems>>

Next ==
    \/ /\ ~wild /\ ~wild'
       /\ \/ New \/ Put \/ Get \/ NewArray \/ Store \/ Load \/ Length \/ NewString \/ ReadString
          \/ \E key \in Statics : PutStatic(key) \/ GetStatic(key)
    \/ wild'

Spec == Init /\ [][Next]_vars

=============================================================================
