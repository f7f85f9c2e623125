------------------------------ MODULE Bytecode ------------------------------
(***************************************************************************)
(* The bytecode codec (lib.rs, mod bytecode): from_bytes_with_indices,     *)
(* bytecode_to_bytes and size_of.  Code is a sequence of bytes; an         *)
(* instruction is a record of the opcode that names its variant (the       *)
(* first one for the variants _n), the constant n of such a variant, and   *)
(* the operand bytes.                                                      *)
(***************************************************************************)
EXTENDS Integers, Sequences, SequencesExt

Instr(op, n, args) == [op |-> op, n |-> n, args |-> args]

-----------------------------------------------------------------------------
(***************************************************************************)
(* Decoding.                                                               *)
(***************************************************************************)

\* Faulty variant: a range that excludes its end (lload_3).
ExclusiveFamilies == {<<2, 8>>, <<26, 29>>, <<30, 32>>, <<34, 37>>, <<38, 41>>, <<42, 45>>}

\* The variants that stand for several opcodes: first and last opcode.
Families ==
    {<<2, 8>>, <<9, 10>>, <<11, 13>>, <<14, 15>>, <<26, 29>>, <<30, 33>>, <<34, 37>>,
     <<38, 41>>, <<42, 45>>, <<59, 62>>, <<63, 66>>, <<67, 70>>, <<71, 74>>, <<75, 78>>}

FamilyOf(op) == {f \in Families : op \in f[1]..f[2]}
Variant(op)  == IF FamilyOf(op) = {} THEN op ELSE (CHOOSE f \in FamilyOf(op) : TRUE)[1]

\* dconst_<d> is given the distance from opcode 3, like iconst_<i>.
ConstantOf(op) ==
    IF FamilyOf(op) = {} THEN 0
    ELSE op - (IF Variant(op) \in {2, 14} THEN 3 ELSE Variant(op))

\* Opcodes with no arm: dup_x1, wide (whose arm is at 0xcf) and those above.
NoArm == {90, 196} \cup ((202..255) \ {207})

Lookupswitch == 171
U4At(bytes, p) ==
    LET b == SubSeq(bytes, p + 1, p + 4)
        high == IF b[1] >= 128 THEN b[1] - 256 ELSE b[1]
    IN  ((high * 256 + b[2]) * 256 + b[3]) * 256 + b[4]

\* Operand bytes of an instruction other than lookupswitch.  lstore, ret,
\* tableswitch and Wide have operands in a class file and none here.
OperandBytes(op) ==
    IF op \in {16, 18, 188} \cup 21..25 \cup {54} \cup 56..58 THEN 1
    ELSE IF op \in {17, 19, 20, 132, 189, 192, 193, 187, 198, 199} \cup 153..168
                       \cup 178..184 \cup {186} THEN 2
    ELSE IF op \in {185, 197} THEN 3
    ELSE IF op \in {200, 201} THEN 4
    ELSE 0

\* The arm of lookupswitch at position p: four bytes before the padding, then
\* a default, the count and the pairs (pos is 0 in every call).
SwitchBytes(bytes, p) ==
    LET pad    == (4 - ((p + 5) % 4)) % 4
        head   == 4 + pad + 8
        npairs == U4At(bytes, p + 1 + head - 4)
    IN  [head |-> head,
         all  |-> IF p + 1 + head > Len(bytes) THEN head
                  ELSE head + 8 * (IF npairs > 0 THEN npairs ELSE 0)]

\* The instruction at position p: the bytes after its opcode (those that have
\* to be there at least, and all of them), what it becomes, the next position.
SizeAt(bytes, p) ==
    IF bytes[p + 1] = Lookupswitch THEN SwitchBytes(bytes, p)
    ELSE [head |-> OperandBytes(bytes[p + 1]), all |-> OperandBytes(bytes[p + 1])]
NextAt(bytes, p) == p + 1 + SizeAt(bytes, p).all
InstrAt(bytes, p) ==
    Instr(Variant(bytes[p + 1]), ConstantOf(bytes[p + 1]), SubSeq(bytes, p + 2, NextAt(bytes, p)))

\* from_bytes_with_indices: the instructions with their positions, or the way
\* the decoding ends.  A cut operand is an error, a cut pair of a lookupswitch
\* and an unknown opcode are panics.
Ends(how) == [is |-> how, val |-> <<>>]
Decode(bytes) ==
    LET from[p \in 0..Len(bytes)] ==
            IF p = Len(bytes) THEN Ends("value")
            ELSE IF bytes[p + 1] \in NoArm THEN Ends("panic")
            ELSE IF p + 1 + SizeAt(bytes, p).head > Len(bytes) THEN Ends("error")
            ELSE IF NextAt(bytes, p) > Len(bytes) THEN Ends("panic")
            ELSE LET rest == from[NextAt(bytes, p)]
                 IN  IF rest.is # "value" THEN rest
                     ELSE [is |-> "value",
                           val |-> <<[at |-> p, ins |-> InstrAt(bytes, p)]>> \o rest.val]
    IN  from[0]

-----------------------------------------------------------------------------
(***************************************************************************)
(* Encoding.                                                               *)
(***************************************************************************)

\* Arms that leave the operands out.
EncodedBare == {182, 183, 184, 186, 193, 197}
\* unimplemented!()
NotEncoded == {171, 207}

\* Faulty variant: the constant of a variant is not added to its opcode.
EncodeFirst(ins) == IF ins.op \in EncodedBare THEN <<ins.op>> ELSE <<ins.op>> \o ins.args

\* An arm of bytecode_to_bytes (u8 additions wrap, as in a release build).
\* iconst_<i> and dconst_<d> are encoded from the first opcode of their
\* variant, which is not what they were decoded from.
Encode(ins) ==
    IF ins.op \in EncodedBare THEN <<ins.op>> ELSE <<(ins.op + ins.n) % 256>> \o ins.args

\* Bytecode::size_of, of the variants it is defined for (not tableswitch and
\* wide) but lookupswitch: the opcode and its operands, and the arms that say
\* something else.
InstrSize(ins) ==
    IF ins.op \in {17, 54, 179, 197} THEN 1
    ELSE IF ins.op = 181 THEN 2
    ELSE IF ins.op \in {185, 186} THEN 5
    ELSE 1 + OperandBytes(ins.op)

=============================================================================
