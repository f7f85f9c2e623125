----------------------------- MODULE Descriptor -----------------------------
(***************************************************************************)
(* Field and method descriptors (class.rs): parsing, printing, the size of *)
(* a field and the operand a descriptor accepts.  A text is a sequence of  *)
(* one-character strings.  A field descriptor is a record: the number of   *)
(* array dimensions, the element (a base letter, or "L" for a class) and   *)
(* the class name (empty for a base type).  A parser ends with a value, an *)
(* error or a panic.                                                       *)
(***************************************************************************)
EXTENDS Integers, Sequences, SequencesExt

Base == {"B", "C", "D", "F", "I", "J", "S", "Z"}
Field(dims, elem, name) == [dims |-> dims, elem |-> elem, name |-> name]
Void == Field(0, "V", <<>>)
Semicolon == ";"        \* behind the name of a class
Dimensions == 0..255    \* a u8, and all that JVMS 4.3.2 admits

Value(v) == [is |-> "value", val |-> v]
Error    == [is |-> "error", val |-> Void]
Panic    == [is |-> "panic", val |-> Void]

-----------------------------------------------------------------------------

\* JavaType::size_of; every reference is a usize wide.
SizeOf(fd) ==
    IF fd.dims > 0 \/ fd.elem = "L" THEN 8
    ELSE [B |-> 1, C |-> 2, D |-> 8, F |-> 4, I |-> 4, J |-> 8, S |-> 2, Z |-> 1][fd.elem]

\* FieldDescriptor::matches_operand.  NullReference and Void match nothing.
MatchesOperand(fd, operand) ==
    operand = IF fd.dims > 0 THEN "ArrayReference"
              ELSE [L |-> "ClassReference", B |-> "Int", S |-> "Int", Z |-> "Int", I |-> "Int",
                    C |-> "Char", D |-> "Double", F |-> "Float", J |-> "Long"][fd.elem]

PrintField(fd) ==
    [i \in 1..fd.dims |-> "["]
        \o (IF fd.elem = "L" THEN <<"L">> \o fd.name \o <<Semicolon>> ELSE <<fd.elem>>)

\* String::from(&MethodDescriptor); d is a record of the parameters and the
\* return type.
PrintMethod(d) ==
    <<"(">> \o FlattenSeq([i \in DOMAIN d.params |-> PrintField(d.params[i])])
        \o <<")">> \o PrintField(d.ret)

-----------------------------------------------------------------------------

\* FieldDescriptor::parse.  Slicing the empty text, an `L` with nothing after
\* it, and a text of brackets alone panic; what follows a base letter and the
\* last character of a class name are not looked at.  The count of dimensions
\* is not cut to a u8: nothing is said of descriptors of more than 255.
ParseField(s) ==
    LET plain == {i \in DOMAIN s : s[i] # "["}
        at    == CHOOSE i \in plain : \A j \in plain : i <= j
    IN  IF plain = {} THEN Panic
        ELSE IF s[at] \in Base THEN Value(Field(at - 1, s[at], <<>>))
        ELSE IF s[at] # "L" THEN Error
        ELSE IF at = Len(s) THEN Panic
        ELSE Value(Field(at - 1, "L", SubSeq(s, at + 1, Len(s) - 1)))

\* The first position of c in s from position p on, or 0.
Find(c, s, p) ==
    LET found == {i \in p..Len(s) : s[i] = c}
    IN  IF found = {} THEN 0 ELSE CHOOSE i \in found : \A j \in found : i <= j

\* Faulty variant: the semicolon is sought from the front of the descriptor.
ParseParamsFromFront(s, close) ==
    LET end(p) == IF s[p] \in Base THEN p
                  ELSE IF Find(Semicolon, s, 1) > 0 THEN Find(Semicolon, s, 1)
                  ELSE p + close - 1
        params[p \in 2..2 * Len(s)] ==
            IF p > Len(s) \/ p = close THEN Value(<<>>)
            ELSE IF end(p) > Len(s) THEN Panic
            ELSE LET first == ParseField(SubSeq(s, p, end(p)))
                     rest  == IF end(p) < p THEN Panic ELSE params[end(p) + 1]
                 IN  IF first.is # "value" THEN first
                     ELSE IF rest.is # "value" THEN rest
                     ELSE Value(<<first.val>> \o rest.val)
    IN  params[2]

\* The loop of MethodDescriptor::parse from position p on: the end of a class
\* or array type is sought at the next semicolon; without one the (absolute)
\* position of the closing parenthesis is added to the (relative) start.
ParseParams(s, close) ==
    LET end(p) == IF s[p] \in Base THEN p
                  ELSE IF Find(Semicolon, s, p) > 0 THEN Find(Semicolon, s, p)
                  ELSE p + close - 1
        params[p \in 2..2 * Len(s)] ==
            IF p > Len(s) \/ p = close THEN Value(<<>>)
            ELSE IF end(p) > Len(s) THEN Panic
            ELSE LET first == ParseField(SubSeq(s, p, end(p)))
                     rest  == params[end(p) + 1]
                 IN  IF first.is # "value" THEN first
                     ELSE IF rest.is # "value" THEN rest
                     ELSE Value(<<first.val>> \o rest.val)
    IN  params[2]

\* MethodDescriptor::parse: no closing parenthesis is an error; a text that
\* ends in V returns void.
ParseMethod(s) ==
    LET close  == Find(")", s, 1)
        params == ParseParams(s, close)
        ret    == IF s[Len(s)] = "V" THEN Value(Void)
                  ELSE ParseField(SubSeq(s, close + 1, Len(s)))
    IN  IF close = 0 THEN Error
        ELSE IF params.is # "value" THEN params
        ELSE IF ret.is # "value" THEN ret
        ELSE Value([params |-> params.val, ret |-> ret.val])

=============================================================================
