----------------------------- MODULE ClassFile -----------------------------
(***************************************************************************)
(* The class file format of JVMS 7, chapter 4, as a relation between the   *)
(* items of a file and the structure they stand for, and what the reader   *)
(* has to make of a file that is laid out so.                              *)
(*                                                                         *)
(* A structure cf has the items of the whole file (cf.items), its          *)
(* constants as the reader keeps them, and its fields, methods and         *)
(* attributes.  A sequence ...At says for each entry of a table, and for   *)
(* what stands behind the last one, how many items stand before it.  Names *)
(* and descriptors are indices of constants.  A member also has the type   *)
(* its descriptor was printed from; a Code attribute has its bytes, the    *)
(* positions of its instructions (starts), the number of its exception     *)
(* handlers and the names of the attributes inside it.                     *)
(***************************************************************************)
EXTENDS ClassReader

IsSequence(s) == s \in Seq(ToSet(s))
Indices(s) == 1..Len(s)

-----------------------------------------------------------------------------
(***************************************************************************)
(* Constants.                                                              *)
(***************************************************************************)

IsText(cf, i)  == i \in Indices(cf.constants) /\ cf.constants[i].tag = Utf8
TextOf(cf, i)  == cf.constants[i].text
IsClass(cf, i) ==
    i \in Indices(cf.constants) /\ cf.constants[i].tag = 7 /\ IsText(cf, cf.constants[i].args[1])
NameOf(cf, i)  == TextOf(cf, cf.constants[i].args[1])

\* A reference to a field or a method: its class, its name and its descriptor.
IsReference(cf, i) == i \in Indices(cf.constants) /\ cf.constants[i].tag \in {9, 10, 11}
NameAndType(cf, i) == cf.constants[cf.constants[i].args[2]]
Reference(cf, i) ==
    [class |-> NameOf(cf, cf.constants[i].args[1]), name |-> TextOf(cf, NameAndType(cf, i).args[1]),
     text |-> TextOf(cf, NameAndType(cf, i).args[2]), kind |-> 10]
RefersRight(cf, i) ==
    /\ IsClass(cf, cf.constants[i].args[1])
    /\ cf.constants[i].args[2] \in Indices(cf.constants) /\ NameAndType(cf, i).tag = 12
    /\ IsText(cf, NameAndType(cf, i).args[1]) /\ IsText(cf, NameAndType(cf, i).args[2])

-----------------------------------------------------------------------------
(***************************************************************************)
(* Layout.                                                                 *)
(***************************************************************************)

\* The p-th item is a number of w bytes; it is v.
Number(cf, p, w)   == p <= Len(cf.items) /\ cf.items[p].w = w /\ cf.items[p].kind = "number"
Holds(cf, p, w, v) == Number(cf, p, w) /\ cf.items[p].v = v
BlockAt(cf, p, v, kind) ==
    p <= Len(cf.items) /\ cf.items[p] = [w |-> Len(v), v |-> v, kind |-> kind]

\* A table of n entries has n + 1 positions.
Positions(at, n) == at \in [1..n + 1 -> Nat]

\* JVMS 4.1 and 4.4.  A long or a double constant takes two indices (4.4.5):
\* a file with one is not described here.
HeaderAt(cf) ==
    /\ Holds(cf, 1, 4, Magic) /\ Holds(cf, 2, 2, 0) /\ Number(cf, 3, 2)
    /\ Holds(cf, 4, 2, Len(cf.constants) + 1)
    /\ cf.constantsAt[1] = 4

ConstantAt(cf, k) ==
    LET c == cf.constants[k]
        p == cf.constantsAt[k]
        n == Len(Operands(c.tag))
    IN  /\ Holds(cf, p + 1, 1, c.tag) /\ Operands(c.tag) # <<>> /\ c.tag \notin {5, 6}
        /\ c.tag = Utf8 =>
              /\ c = Constant(Utf8, <<>>, c.text) /\ IsSequence(c.text)
              /\ Holds(cf, p + 2, 2, Len(c.text)) /\ BlockAt(cf, p + 3, c.text, "text")
              /\ cf.constantsAt[k + 1] = p + 3
        /\ c.tag # Utf8 =>
              /\ c = Constant(c.tag, [j \in 1..n |-> c.args[j]], <<>>)
              /\ \A j \in 1..n : Holds(cf, p + 1 + j, Operands(c.tag)[j], c.args[j])
              /\ cf.constantsAt[k + 1] = p + 1 + n
        /\ IsReference(cf, k) => RefersRight(cf, k)

\* This class, its superclass and its interfaces; the count of the fields.
NamesAt(cf) ==
    LET p == cf.constantsAt[Len(cf.constants) + 1]
        n == Len(cf.interfaces)
    IN  /\ Number(cf, p + 1, 2) /\ Holds(cf, p + 2, 2, cf.this)
        /\ Holds(cf, p + 3, 2, cf.super) /\ Holds(cf, p + 4, 2, n)
        /\ \A k \in 1..n :
              Holds(cf, p + 4 + k, 2, cf.interfaces[k]) /\ IsClass(cf, cf.interfaces[k])
        /\ Holds(cf, p + 5 + n, 2, Len(cf.fields)) /\ cf.fieldsAt[1] = p + 5 + n
        /\ IsClass(cf, cf.this)
        /\ IF cf.super = 0 THEN NameOf(cf, cf.this) = ObjectName ELSE IsClass(cf, cf.super)

\* JVMS 4.7: behind position p stands an attribute; the body of one the reader
\* does not know is one item.
NameAt(cf, name, p) ==
    IsText(cf, name) /\ Holds(cf, p + 1, 2, name) /\ Number(cf, p + 2, 4)
PlainAt(cf, name, p) ==
    /\ NameAt(cf, name, p) /\ TextOf(cf, name) # CodeName
    /\ IF TextOf(cf, name) = ConstantValueName THEN Number(cf, p + 3, 2)
       ELSE p + 3 <= Len(cf.items) /\ cf.items[p + 3].w = cf.items[p + 2].v
IsCode(cf, a)  == TextOf(cf, a.name) = CodeName
InnerAt(a, p)  == p + 8 + 4 * a.handlers
CodeAt(cf, a, p) ==
    /\ NameAt(cf, a.name, p) /\ Number(cf, p + 3, 2) /\ Number(cf, p + 4, 2)
    /\ Holds(cf, p + 5, 4, Len(a.code)) /\ BlockAt(cf, p + 6, a.code, "bytes")
    /\ a.code \in Seq(0..255)
    /\ a.handlers \in Nat /\ Holds(cf, p + 7, 2, a.handlers)
    /\ \A j \in 1..4 * a.handlers : Number(cf, p + 7 + j, 2)
    /\ IsSequence(a.inner) /\ Holds(cf, InnerAt(a, p), 2, Len(a.inner))
    /\ \A j \in Indices(a.inner) : PlainAt(cf, a.inner[j], InnerAt(a, p) + 3 * (j - 1))
AttributeSize(cf, a) == IF IsCode(cf, a) THEN 8 + 4 * a.handlers + 3 * Len(a.inner) ELSE 3
AttributesAt(cf, attributes, at) ==
    /\ IsSequence(attributes) /\ Positions(at, Len(attributes))
    /\ \A k \in Indices(attributes) :
          LET a == attributes[k]
          IN  /\ IF IsCode(cf, a) THEN CodeAt(cf, a, at[k]) ELSE PlainAt(cf, a.name, at[k])
              /\ at[k + 1] = at[k] + AttributeSize(cf, a)

\* JVMS 4.5 and 4.6: a field or a method.
MemberAt(cf, m, p, next) ==
    /\ Number(cf, p + 1, 2) /\ Holds(cf, p + 2, 2, m.name) /\ Holds(cf, p + 3, 2, m.text)
    /\ Holds(cf, p + 4, 2, Len(m.attributes))
    /\ IsText(cf, m.name) /\ IsText(cf, m.text)
    /\ AttributesAt(cf, m.attributes, m.attributesAt)
    /\ m.attributesAt[1] = p + 4 /\ m.attributesAt[Len(m.attributes) + 1] = next
MembersAt(cf, members, at) ==
    /\ IsSequence(members) /\ Positions(at, Len(members))
    /\ \A k \in Indices(members) : MemberAt(cf, members[k], at[k], at[k + 1])

NoCode(cf, attributes) == \A k \in Indices(attributes) : ~IsCode(cf, attributes[k])

\* JVMS 4.3.2 and 4.3.3.
FieldType(fd) ==
    /\ fd = Field(fd.dims, fd.elem, fd.name) /\ fd.dims \in Dimensions
    /\ \/ fd.elem \in Base /\ fd.name = <<>>
       \/ fd.elem = "L" /\ IsSequence(fd.name)
MethodType(d) ==
    /\ d = [params |-> d.params, ret |-> d.ret] /\ IsSequence(d.params)
    /\ \A k \in Indices(d.params) : FieldType(d.params[k])
    /\ d.ret = Void \/ FieldType(d.ret)

FieldsAt(cf) ==
    /\ MembersAt(cf, cf.fields, cf.fieldsAt)
    /\ \A k \in Indices(cf.fields) :
          LET f == cf.fields[k]
          IN  NoCode(cf, f.attributes) /\ FieldType(f.type) /\ TextOf(cf, f.text) = PrintField(f.type)

\* No two methods have the same name and descriptor (4.6), and no method has
\* two Code attributes (4.7.3).
SameMethod(cf, m, n) ==
    TextOf(cf, m.name) = TextOf(cf, n.name) /\ TextOf(cf, m.text) = TextOf(cf, n.text)
MethodsAt(cf) ==
    LET p == cf.fieldsAt[Len(cf.fields) + 1]
    IN  /\ Holds(cf, p + 1, 2, Len(cf.methods)) /\ cf.methodsAt[1] = p + 1
        /\ MembersAt(cf, cf.methods, cf.methodsAt)
        /\ \A k \in Indices(cf.methods) :
              LET m == cf.methods[k]
              IN  /\ MethodType(m.type) /\ TextOf(cf, m.text) = PrintMethod(m.type)
                  /\ \A i, j \in Indices(m.attributes) :
                        IsCode(cf, m.attributes[i]) /\ IsCode(cf, m.attributes[j]) => i = j
        /\ \A j, k \in Indices(cf.methods) : SameMethod(cf, cf.methods[j], cf.methods[k]) => j = k

ClassAttributesAt(cf) ==
    LET p == cf.methodsAt[Len(cf.methods) + 1]
    IN  /\ Holds(cf, p + 1, 2, Len(cf.attributes)) /\ cf.attributesAt[1] = p + 1
        /\ AttributesAt(cf, cf.attributes, cf.attributesAt) /\ NoCode(cf, cf.attributes)
        /\ cf.attributesAt[Len(cf.attributes) + 1] = Len(cf.items)

ClassFile(cf) ==
    /\ Len(cf.items) \in Nat /\ IsSequence(cf.constants) /\ IsSequence(cf.interfaces)
    /\ Positions(cf.constantsAt, Len(cf.constants))
    /\ HeaderAt(cf) /\ \A k \in Indices(cf.constants) : ConstantAt(cf, k)
    /\ NamesAt(cf) /\ FieldsAt(cf) /\ MethodsAt(cf) /\ ClassAttributesAt(cf)

\* A written file is the front of such a file, or all of it.  The others may be
\* anything.
ASSUME WrittenAssumption ==
    \A f \in Files :
        f.written =>
            /\ ClassFile(f.src) /\ Len(f.items) <= Len(f.src.items)
            /\ \A k \in Indices(f.items) : f.items[k] = f.src.items[k]

-----------------------------------------------------------------------------
(***************************************************************************)
(* Code.                                                                   *)
(***************************************************************************)

\* Operand bytes of an opcode (JVMS 6.5), but for those with a variable number.
JvmsOperands(op) ==
    IF op \in {16, 18, 169, 188} \cup 21..25 \cup 54..58 THEN 1
    ELSE IF op \in {17, 19, 20, 132, 187, 189, 192, 193, 198, 199} \cup 153..168
                       \cup 178..184 THEN 2
    ELSE IF op = 197 THEN 3
    ELSE IF op \in {185, 186, 200, 201} THEN 4
    ELSE 0
\* The zero bytes that end invokeinterface and invokedynamic.
Zeros(op) == IF op = 185 THEN 1 ELSE IF op = 186 THEN 2 ELSE 0

\* Opcodes decoded to something else than the instruction they are: dup_x1 and
\* wide have no arm, lstore, ret and the switches are cut short.
Misread == {55, 90, 169, 170, 171, 196}

\* The first opcode of the instructions that differ from op in a constant
\* only (JVMS 6.5: iconst, lconst, fconst, dconst, the loads and the stores).
FirstOpcode(op) ==
    CASE op \in 2..8   -> 2
      [] op \in 9..10  -> 9
      [] op \in 11..13 -> 11
      [] op \in 14..15 -> 14
      [] op \in 26..45 -> op - ((op - 26) % 4)
      [] op \in 59..78 -> op - ((op - 59) % 4)
      [] OTHER         -> op

\* Instructions that are not misread lie end to end over the code (4.9.1);
\* they start at the positions in starts.
InstrBehind(code, p) == p + 1 + JvmsOperands(code[p + 1])
Straight(code, starts) ==
    /\ starts \subseteq 0..Len(code) - 1
    /\ starts = ({0} \cup {InstrBehind(code, p) : p \in starts}) \ {Len(code)}
    /\ \A p \in starts :
          /\ code[p + 1] \in (0..201) \ Misread /\ InstrBehind(code, p) <= Len(code)
          /\ \A z \in 0..Zeros(code[p + 1]) - 1 : code[InstrBehind(code, p) - z] = 0

\* The Code attribute of a method, if it has one.
CodesOf(cf, m) == {a \in ToSet(m.attributes) : IsCode(cf, a)}
AllStraight(cf) ==
    \A k \in Indices(cf.methods) : \A a \in CodesOf(cf, cf.methods[k]) : Straight(a.code, a.starts)

-----------------------------------------------------------------------------
(***************************************************************************)
(* Properties.                                                             *)
(***************************************************************************)

Done  == outcome = "done"
Whole == Len(file.items) = Len(file.src.items)

\* A method of the class is the k-th method of the file.
IsMethod(m, cf, k) ==
    m.name = TextOf(cf, cf.methods[k].name) /\ m.text = TextOf(cf, cf.methods[k].text)

\* The class is the one that was written, field for field, method for method,
\* attribute for attribute and reference for reference.  Fields are kept by
\* their names: of the fields of one name and different types (JVMS 4.5 allows
\* them) the last one is left.
IsClassOf(cf) ==
    /\ class.this = NameOf(cf, cf.this)
    /\ class.super = (IF cf.super = 0 THEN <<>> ELSE <<NameOf(cf, cf.super)>>)
    /\ Len(class.interfaces) = Len(cf.interfaces)
    /\ \A k \in Indices(cf.interfaces) :
          ClassInfo(class.interfaces[k]) = <<NameOf(cf, cf.interfaces[k])>>
    /\ {[name |-> f.name, fd |-> f.fd] : f \in class.fields}
          = {[name |-> TextOf(cf, cf.fields[k].name), fd |-> cf.fields[k].type] :
                k \in {k \in Indices(cf.fields) :
                          \A j \in k + 1..Len(cf.fields) :
                              TextOf(cf, cf.fields[j].name) # TextOf(cf, cf.fields[k].name)}}
    /\ \A k \in Indices(cf.methods) : \E m \in class.methods : IsMethod(m, cf, k)
    /\ \A m \in class.methods : \E k \in Indices(cf.methods) : IsMethod(m, cf, k)
    /\ class.attributes = {TextOf(cf, a.name) : a \in ToSet(cf.attributes)}
    /\ \A i \in Indices(cf.constants) : IsReference(cf, i) => RefInfo(i) = <<Reference(cf, i)>>

\* A file laid out as JVMS chapter 4 says, of a class without a long or double
\* constant and without an instruction the decoder misreads, is read to its
\* end by load_class; and a class that is handed out is the class that was
\* written, also when the file was cut short after one of its items.  (A number
\* that is cut in two is not read, as one that is missing.  Where a file ends
\* inside the code of a method the place is lost, and nothing is said.)
ReadsBack ==
    file.written =>
        /\ Whole /\ AllStraight(file.src) => outcome \in {"reading", "done"}
        /\ Done => IsClassOf(file.src)

\* Parsing a method's descriptor gives the signature it was printed from, for
\* every signature without an array of a base type among the parameters: for
\* such an array MethodDescriptor::parse finds the end in the wrong place.
\* (A class name may hold a parenthesis, and may not hold a semicolon, JVMS
\* 4.2.2; the parser takes the first parenthesis for the end of the parameters.)
Sought(fd) ==
    Semicolon \notin ToSet(fd.name) /\ ")" \notin ToSet(fd.name)
DescriptorsReadBack ==
    Done /\ file.written =>
        \A k \in Indices(file.src.methods) :
            LET d == file.src.methods[k].type
            IN  /\ Sought(d.ret)
                /\ \A i \in Indices(d.params) :
                      Sought(d.params[i]) /\ (d.params[i].dims = 0 \/ d.params[i].elem = "L")
                => \E m \in class.methods :
                      IsMethod(m, file.src, k) /\ ParseMethod(m.text) = Value(d)

\* The decoder stays in step with the code: every instruction of the method is
\* decoded at its own position with the operand bytes it has there, and what
\* is decoded at other positions (the zeros after invokeinterface and
\* invokedynamic) is nop.
InStep(decoded, code, starts) ==
    /\ \A p \in starts : \E d \in decoded :
          /\ d.at = p /\ d.ins.op = FirstOpcode(code[p + 1])
          /\ d.ins.args = SubSeq(code, p + 2, InstrBehind(code, p) - Zeros(code[p + 1]))
    /\ \A d \in decoded : d.at \in starts \/ d.ins.op = 0
CodeInStep ==
    Done /\ file.written =>
        \A m \in class.methods : \E k \in Indices(file.src.methods) :
            /\ IsMethod(m, file.src, k)
            /\ \A a \in CodesOf(file.src, file.src.methods[k]) :
                  Straight(a.code, a.starts) => InStep(ToSet(m.code), a.code, a.starts)

\* bytecode_to_bytes gives back the bytes an instruction was decoded from, and
\* size_of their number, but for the arms that say something else: iconst,
\* dconst, the invocations, instanceof and multianewarray are encoded
\* otherwise, istore, sipush, putstatic and putfield have another size, and
\* tableswitch has none.
\* Constant::to_bytes gives back the items of every constant but a text.
EncodesTo(d, code) ==
    LET bytes == SubSeq(code, d.at + 1, d.at + 1 + Len(d.ins.args))
    IN  d.ins.op \notin {2, 14, 182, 183, 184, 186, 193, 197} \cup B!NotEncoded =>
            /\ B!Encode(d.ins) = bytes
            /\ d.ins.op \notin {17, 54, 170, 179, 181, 185} => B!InstrSize(d.ins) = Len(bytes)
CodecAgrees ==
    Done /\ file.written =>
        /\ \A m \in class.methods : \E k \in Indices(file.src.methods) :
              /\ IsMethod(m, file.src, k)
              /\ \A a \in CodesOf(file.src, file.src.methods[k]) :
                    \A d \in ToSet(m.code) : EncodesTo(d, a.code)
        /\ \A i \in Indices(file.src.constants) :
              pool[i + 1].tag # Utf8 =>
                  \A j \in Indices(ConstantItems(pool[i + 1])) :
                      LET written == file.src.items[file.src.constantsAt[i] + j]
                      IN  ConstantItems(pool[i + 1])[j] = Item(written.w, written.v)

=============================================================================
