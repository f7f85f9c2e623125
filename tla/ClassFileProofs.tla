-------------------------- MODULE ClassFileProofs --------------------------
(***************************************************************************)
(* A class file that is laid out as chapter 4 of JVMS 7 says is read back, *)
(* for every such file: the invariant says, for every place the reader may *)
(* be at, where in the file it is and what it has put together so far.     *)
(***************************************************************************)
EXTENDS ClassFile, ClassReaderProofs

\* Behind position p of the file stands what the cursor has not passed.
CursorAt(cf, p) ==
    /\ \A k \in 1..Len(rest) : rest[k] = cf.items[p + k]
    /\ Whole => Len(rest) = Len(cf.items) - p

\* What of the class is there when the first k entries of a table are read.
PoolUpTo(cf, k) ==
    /\ Len(pool) = k + 1 /\ pool[1] = Constant(Utf8, <<>>, <<>>)
    /\ \A i \in 1..k : pool[i + 1] = cf.constants[i]
InterfacesUpTo(cf, k) ==
    /\ class.interfaces \in Seq(Nat) /\ Len(class.interfaces) = k
    /\ \A i \in 1..k : class.interfaces[i] = cf.interfaces[i]

\* The i-th field is the last one of its name among the first k.
FieldName(cf, i) == TextOf(cf, cf.fields[i].name)
LastOfName(cf, i, k) == \A j \in i + 1..k : FieldName(cf, j) # FieldName(cf, i)
IsField(f, cf, i) == f.name = FieldName(cf, i) /\ f.fd = cf.fields[i].type
FieldsUpTo(cf, k) ==
    /\ \A f \in class.fields : \E i \in 1..k : LastOfName(cf, i, k) /\ IsField(f, cf, i)
    /\ \A i \in 1..k : LastOfName(cf, i, k) => \E f \in class.fields : IsField(f, cf, i)

\* The code of a method is the one decoded from its Code attribute.
CodeUpTo(cf, attributes, code, k) ==
    \A i \in 1..k : IsCode(cf, attributes[i]) =>
        /\ B!Decode(attributes[i].code).is = "value"
        /\ code = B!Decode(attributes[i].code).val
MethodRead(m, cf, i) ==
    /\ IsMethod(m, cf, i)
    /\ CodeUpTo(cf, cf.methods[i].attributes, m.code, Len(cf.methods[i].attributes))
MethodsUpTo(cf, k) ==
    /\ \A m \in class.methods : \E i \in 1..k : MethodRead(m, cf, i)
    /\ \A i \in 1..k : \E m \in class.methods : MethodRead(m, cf, i)
NamesUpTo(cf, attributes, k) == {TextOf(cf, attributes[i].name) : i \in 1..k}

\* The attributes left of the member, or of the class.
LeftOver == inner[Len(inner)]

-----------------------------------------------------------------------------
(***************************************************************************)
(* Where the reader is, by the table it reads.                             *)
(***************************************************************************)

AtHeader(cf) == inner = <<>> /\ class = NoClass /\ CursorAt(cf, 0)

AtConstants(cf) ==
    LET k == Len(cf.constants) - left
    IN  /\ inner = <<>> /\ class = NoClass /\ left <= Len(cf.constants)
        /\ PoolUpTo(cf, k) /\ CursorAt(cf, cf.constantsAt[k + 1])

NamesRead(cf) ==
    /\ PoolUpTo(cf, Len(cf.constants))
    /\ class.this = NameOf(cf, cf.this)
    /\ class.super = IF cf.super = 0 THEN <<>> ELSE <<NameOf(cf, cf.super)>>

AtInterfaces(cf) ==
    LET k == Len(cf.interfaces) - left
    IN  /\ inner = <<>> /\ NamesRead(cf) /\ left <= Len(cf.interfaces)
        /\ class.fields = {} /\ class.methods = {} /\ class.attributes = {}
        /\ InterfacesUpTo(cf, k)
        /\ CursorAt(cf, cf.constantsAt[Len(cf.constants) + 1] + 4 + k)

\* Between two attributes: of the member (or the class), or inside a Code
\* attribute.
AtAttribute(cf, attributes, at) ==
    LET j == Len(attributes) - LeftOver
        a == attributes[j]
    IN  /\ inner # <<>> /\ LeftOver <= Len(attributes)
        /\ \/ Len(inner) = 1 /\ CursorAt(cf, at[j + 1])
           \/ /\ Len(inner) = 2 /\ j >= 1 /\ IsCode(cf, a) /\ inner[1] <= Len(a.inner)
              /\ CursorAt(cf, InnerAt(a, at[j]) + 3 * (Len(a.inner) - inner[1]))

\* Between two members, or inside one.
AtMember(cf, members, at) ==
    LET k == Len(members) - left
        m == members[k + 1]
    IN  /\ left <= Len(members)
        /\ inner = <<>> => CursorAt(cf, at[k + 1])
        /\ inner # <<>> =>
              /\ left > 0
              /\ member.name = TextOf(cf, m.name) /\ member.text = TextOf(cf, m.text)
              /\ table = "fields" => member.fd = m.type
              /\ AtAttribute(cf, m.attributes, m.attributesAt)
              /\ CodeUpTo(cf, m.attributes, member.code, Len(m.attributes) - LeftOver)

HeadRead(cf) == NamesRead(cf) /\ InterfacesUpTo(cf, Len(cf.interfaces))

AtFields(cf) ==
    /\ HeadRead(cf) /\ class.methods = {} /\ class.attributes = {}
    /\ FieldsUpTo(cf, Len(cf.fields) - left)
    /\ AtMember(cf, cf.fields, cf.fieldsAt)

AtMethods(cf) ==
    /\ HeadRead(cf) /\ FieldsUpTo(cf, Len(cf.fields)) /\ class.attributes = {}
    /\ MethodsUpTo(cf, Len(cf.methods) - left)
    /\ AtMember(cf, cf.methods, cf.methodsAt)

MembersRead(cf) ==
    HeadRead(cf) /\ FieldsUpTo(cf, Len(cf.fields)) /\ MethodsUpTo(cf, Len(cf.methods))
AtAttributes(cf) ==
    /\ MembersRead(cf)
    /\ AtAttribute(cf, cf.attributes, cf.attributesAt)
    /\ class.attributes = NamesUpTo(cf, cf.attributes, Len(cf.attributes) - LeftOver)

ClassParts ==
    {"this", "super", "interfaces", "fields", "methods", "attributes", "heapSize"}
MemberParts == {"name", "text", "fd", "attributes", "code"}
Mark(cf) ==
    /\ DOMAIN class = ClassParts /\ DOMAIN member = MemberParts
    /\ table = "header"     => AtHeader(cf)
    /\ table = "constants"  => AtConstants(cf)
    /\ table = "interfaces" => AtInterfaces(cf)
    /\ table = "fields"     => AtFields(cf)
    /\ table = "methods"    => AtMethods(cf)
    /\ table = "attributes" => AtAttributes(cf)

\* The whole class is read when the reader is done.
AllRead(cf) ==
    MembersRead(cf) /\ class.attributes = NamesUpTo(cf, cf.attributes, Len(cf.attributes))

WrittenInv ==
    file.written =>
        /\ Reading => Mark(file.src)
        /\ Done => AllRead(file.src)
        /\ Whole /\ AllStraight(file.src) => outcome \in {"reading", "done"}

-----------------------------------------------------------------------------
(***************************************************************************)
(* The cursor: an item that is read is the item of the file at that place. *)
(***************************************************************************)

Reader(cf) == TypeInv /\ Reading /\ file.src = cf /\ ClassFile(cf)

LEMMA Counts ==
    ASSUME NEW cf, ClassFile(cf)
    PROVE  /\ Len(cf.items) \in Nat /\ Len(cf.constants) \in Nat /\ Len(cf.interfaces) \in Nat
           /\ Len(cf.fields) \in Nat /\ Len(cf.methods) \in Nat /\ Len(cf.attributes) \in Nat
<1>1. \A s : IsSequence(s) => Len(s) \in Nat
  BY LenProperties DEF IsSequence
<1> QED
  BY <1>1 DEF ClassFile, FieldsAt, MethodsAt, ClassAttributesAt, MembersAt, AttributesAt

LEMMA RestLength ==
    ASSUME RestInv
    PROVE  Len(rest) \in Nat /\ \E S : rest \in Seq(S)
  BY LenProperties DEF RestInv

LEMMA There ==
    ASSUME NEW cf, Reader(cf), NEW p \in Nat, CursorAt(cf, p), NEW k \in Nat \ {0},
           p + k <= Len(cf.items), Whole \/ k <= Len(rest)
    PROVE  k <= Len(rest) /\ rest[k] = cf.items[p + k] /\ Width(k) = cf.items[p + k].w
<1>1. Len(rest) \in Nat /\ Len(cf.items) \in Nat
  BY Counts, RestLength DEF Reader, TypeInv
<1>2. k <= Len(rest)
  BY <1>1 DEF CursorAt
<1> QED
  BY <1>1, <1>2 DEF CursorAt, Width

LEMMA Seen ==
    ASSUME NEW cf, Reader(cf), NEW p \in Nat, CursorAt(cf, p), NEW k \in Nat \ {0}, NEW w,
           Number(cf, p + k, w), Whole \/ k <= Len(rest)
    PROVE  /\ k <= Len(rest) /\ Width(k) = w /\ rest[k].kind = "number"
           /\ V(k) = cf.items[p + k].v /\ V(k) \in Nat
<1>1. k <= Len(rest) /\ rest[k] = cf.items[p + k] /\ Width(k) = cf.items[p + k].w
  BY There DEF Number
<1>2. V(k) \in Nat
  BY NumberRead DEF Reader, TypeInv
<1> QED
  BY <1>1, <1>2 DEF Number, V

\* Where numbers are expected, those that are read are there.
LEMMA Present ==
    ASSUME Reads, NEW k \in DOMAIN Expected, Expected[k] \in Nat
    PROVE  k <= Len(rest) /\ Width(k) = Expected[k]
  BY DEF Reads, ReadAt, Width

LEMMA Moved ==
    ASSUME NEW cf, Reader(cf), NEW p \in Nat, CursorAt(cf, p), NEW n \in Nat, Pass(n),
           Whole => p + n <= Len(cf.items)
    PROVE  CursorAt(cf, p + n)' /\ outcome' = outcome /\ file' = file
<1>1. PICK S : rest \in Seq(S)
  BY RestLength DEF Reader, TypeInv
<1>2. Len(rest) \in Nat /\ Len(cf.items) \in Nat
  BY Counts, RestLength DEF Reader, TypeInv
<1>3. rest' = SubSeq(rest, n + 1, Len(rest)) /\ file' = file /\ outcome' = outcome
  BY DEF Pass
<1>4. \A i \in (n + 1)..Len(rest) : rest[i] \in S
  BY <1>1, ElementOfSeq, LenProperties
<1>5. /\ Len(rest') = IF n + 1 <= Len(rest) THEN Len(rest) - (n + 1) + 1 ELSE 0
      /\ \A i \in 1..Len(rest) - (n + 1) + 1 : rest'[i] = rest[n + 1 + i - 1]
  BY ONLY <1>2, <1>3, <1>4, n \in Nat, SubSeqProperties
<1>6. ASSUME NEW k \in 1..Len(rest') PROVE rest'[k] = cf.items[p + n + k]
  <2>1. n + k \in 1..Len(rest) /\ rest'[k] = rest[n + k]
    BY <1>2, <1>5, <1>6
  <2> QED
    BY <2>1, <1>2 DEF CursorAt
<1>7. Whole' => Len(rest') = Len(cf.items) - (p + n)
  <2> SUFFICES ASSUME Whole' PROVE Len(rest') = Len(cf.items) - (p + n)
    OBVIOUS
  <2>1. Whole
    BY <1>3 DEF Whole
  <2> QED
    BY <1>2, <1>5, <2>1 DEF CursorAt
<1> QED
  BY <1>3, <1>6, <1>7 DEF CursorAt

-----------------------------------------------------------------------------
(***************************************************************************)
(* The constant pool.                                                      *)
(***************************************************************************)

\* The guards of Expected exclude each other.
LEMMA ExpectedIs ==
    /\ table = "header" /\ inner = <<>> => Expected = <<4, 2, 2, 2>>
    /\ More("constants") => Expected = ConstantReads
    /\ Over("constants") \/ MoreMembers => Expected = <<2, 2, 2, 2>>
    /\ More("interfaces") \/ Over("interfaces") \/ Over("fields") \/ Over("methods") =>
          Expected = <<2>>
    /\ MoreAttributes /\ table # "header" =>
          /\ Attribute(CodeName) => Expected = CodeReads
          /\ Attribute(ConstantValueName) => Expected = <<2, 4, 2>>
          /\ ~Attribute(CodeName) /\ ~Attribute(ConstantValueName) => Expected = <<2, 4>>
<1>1. \A t : (More(t) => table = t /\ inner = <<>> /\ ~Over(t)) /\ (Over(t) => table = t /\ inner = <<>>)
  BY DEF More, Over, InTable
<1>2. (MoreMembers => table \in {"fields", "methods"} /\ inner = <<>>) /\ (MoreAttributes => inner # <<>>)
  BY <1>1 DEF MoreMembers, MoreAttributes
<1>3. /\ Attribute(CodeName) => MoreAttributes /\ ~Attribute(ConstantValueName)
      /\ Attribute(ConstantValueName) => MoreAttributes
  BY NamesAssumption DEF Attribute
<1>4. MoreMembers => ~Over("fields") /\ ~Over("methods")
  BY <1>1 DEF MoreMembers
<1>5. table = "header" /\ inner = <<>> => Expected = <<4, 2, 2, 2>>
  BY ONLY <1>1, <1>2, <1>3 DEF Expected
<1>6. More("constants") => Expected = ConstantReads
  BY ONLY <1>1, <1>2, <1>3 DEF Expected
<1>7. Over("constants") \/ MoreMembers => Expected = <<2, 2, 2, 2>>
  BY ONLY <1>1, <1>2, <1>3 DEF Expected
<1>8. More("interfaces") \/ Over("interfaces") \/ Over("fields") \/ Over("methods") =>
        Expected = <<2>>
  BY ONLY <1>1, <1>2, <1>3, <1>4 DEF Expected
<1>9. ASSUME MoreAttributes, table # "header"
      PROVE  /\ Attribute(CodeName) => Expected = CodeReads
             /\ Attribute(ConstantValueName) => Expected = <<2, 4, 2>>
             /\ ~Attribute(CodeName) /\ ~Attribute(ConstantValueName) => Expected = <<2, 4>>
  <2>1. ~More("constants") /\ ~Over("constants") /\ ~MoreMembers
    BY <1>1, <1>2, <1>9
  <2> QED
    BY ONLY <1>3, <1>9, <2>1 DEF Expected
<1> QED
  BY <1>5, <1>6, <1>7, <1>8, <1>9

\* What is read at each place is known when the reads find what they expect,
\* and they do in a whole file.
LEMMA HeaderSeen ==
    ASSUME NEW cf, Reader(cf), table = "header", AtHeader(cf), Whole \/ Reads
    PROVE  Reads /\ V(1) = Magic /\ V(2) = 0 /\ V(4) = Len(cf.constants) + 1
<1>1. Expected = <<4, 2, 2, 2>>
  BY ExpectedIs DEF AtHeader
<1>2. /\ Number(cf, 1, 4) /\ Number(cf, 2, 2) /\ Number(cf, 3, 2) /\ Number(cf, 4, 2)
      /\ cf.items[1].v = Magic /\ cf.items[2].v = 0 /\ cf.items[4].v = Len(cf.constants) + 1
  BY DEF Reader, ClassFile, HeaderAt, Holds
<1>3. \A k \in 1..4 : Whole \/ k <= Len(rest)
  BY <1>1, Present
<1>4. CursorAt(cf, 0)
  BY DEF AtHeader
<1>5. /\ Width(1) = 4 /\ Width(2) = 2 /\ Width(3) = 2 /\ Width(4) = 2
      /\ \A k \in {1, 2, 3, 4} : rest[k].kind = "number"
      /\ V(1) = Magic /\ V(2) = 0 /\ V(4) = Len(cf.constants) + 1
  <2>1. \A k \in Nat \ {0} : \A w : Number(cf, 0 + k, w) /\ (Whole \/ k <= Len(rest)) =>
          Width(k) = w /\ rest[k].kind = "number" /\ V(k) = cf.items[0 + k].v
    <3>1. 0 \in Nat
      OBVIOUS
    <3> QED
      BY <1>4, <3>1, Seen
  <2>2. \A k \in {1, 2, 3, 4} : k \in Nat \ {0} /\ 0 + k = k /\ k \in 1..4
    OBVIOUS
  <2> QED
    BY ONLY <1>2, <1>3, <2>1, <2>2
<1>6. \A k \in {1, 2, 3, 4} : ReadAs(k) = "number"
  BY DEF ReadAs, More, InTable, Attribute, MoreAttributes, AtHeader
<1>7. \A k \in {1, 2, 3, 4} : ReadAt(k)
  BY <1>1, <1>5, <1>6 DEF ReadAt
<1> QED
  BY <1>1, <1>5, <1>7 DEF Reads

\* The reads of a constant, one by one.
LEMMA ConstantReadsOf ==
    ASSUME V(1) \in Nat, V(2) \in Nat
    PROVE  LET n == Len(Operands(V(1)))
           IN  /\ n \in {0, 1, 2}
               /\ DOMAIN Operands(V(1)) = 1..n
               /\ \A j \in 1..n : Operands(V(1))[j] \in Nat
               /\ Len(ConstantReads) = 1 + n + (IF V(1) = Utf8 THEN 1 ELSE 0)
               /\ DOMAIN ConstantReads = 1..Len(ConstantReads)
               /\ ConstantReads[1] = 1
               /\ \A j \in 1..n : ConstantReads[1 + j] = Operands(V(1))[j]
               /\ V(1) = Utf8 => n = 1 /\ ConstantReads[2] = 2 /\ ConstantReads[3] = V(2)
<1> DEFINE ops == Operands(V(1))
           last == IF V(1) = Utf8 THEN <<V(2)>> ELSE <<>>
           o == <<1>>
<1>1. /\ <<2>> \in Seq(Nat) /\ <<4>> \in Seq(Nat) /\ <<8>> \in Seq(Nat)
      /\ <<2, 2>> \in Seq(Nat) /\ <<1, 2>> \in Seq(Nat) /\ <<>> \in Seq(Nat)
  OBVIOUS
<1>2. ops \in {<<2>>, <<4>>, <<8>>, <<2, 2>>, <<1, 2>>, <<>>} /\ (V(1) = Utf8 => ops = <<2>>)
  BY DEF Operands, Utf8
<1>3. ops \in Seq(Nat) /\ Len(ops) \in {0, 1, 2}
  <2> HIDE DEF ops
  <2> QED
    BY ONLY <1>1, <1>2
<1>4. last \in Seq(Nat) /\ Len(last) = (IF V(1) = Utf8 THEN 1 ELSE 0) /\ (V(1) = Utf8 => last[1] = V(2))
  BY V(2) \in Nat, EmptySeq
<1>5. o \in Seq(Nat) /\ Len(o) = 1 /\ o[1] = 1
  OBVIOUS
<1>6. ConstantReads = (o \o ops) \o last
  BY DEF ConstantReads
<1> HIDE DEF ops, last, o
<1>7. /\ o \o ops \in Seq(Nat) /\ Len(o \o ops) = 1 + Len(ops)
      /\ (o \o ops)[1] = 1 /\ \A j \in 1..Len(ops) : (o \o ops)[1 + j] = ops[j]
  <2>1. /\ o \o ops \in Seq(Nat) /\ Len(o \o ops) = Len(o) + Len(ops)
        /\ \A i \in 1..Len(o) : (o \o ops)[i] = o[i]
        /\ \A i \in 1..Len(ops) : (o \o ops)[Len(o) + i] = ops[i]
    <3>1. o \in Seq(Nat) /\ ops \in Seq(Nat)
      BY ONLY <1>3, <1>5
    <3> QED
      BY ONLY <3>1, Together
  <2> QED
    BY ONLY <1>3, <1>5, <2>1
<1> DEFINE u == o \o ops
<1> HIDE DEF u
<1>8. u \in Seq(Nat)
  BY <1>7 DEF u
<1>9. /\ u \o last \in Seq(Nat) /\ Len(u \o last) = Len(u) + Len(last)
      /\ \A i \in 1..Len(u) : (u \o last)[i] = u[i]
      /\ \A i \in 1..Len(last) : (u \o last)[Len(u) + i] = last[i]
  <2>1. u \in Seq(Nat) /\ last \in Seq(Nat)
    BY ONLY <1>4, <1>8
  <2> QED
    BY ONLY <2>1, Together
<1>10. Len(u) = 1 + Len(ops) /\ u[1] = 1 /\ \A j \in 1..Len(ops) : u[1 + j] = ops[j]
  BY <1>7 DEF u
<1>11. Len(u \o last) = 1 + Len(ops) + (IF V(1) = Utf8 THEN 1 ELSE 0)
  BY ONLY <1>3, <1>4, <1>9, <1>10
<1>12. (u \o last)[1] = 1 /\ \A j \in 1..Len(ops) : (u \o last)[1 + j] = ops[j]
  <2>1. 1 \in 1..Len(u) /\ \A j \in 1..Len(ops) : 1 + j \in 1..Len(u)
    BY ONLY <1>3, <1>10
  <2> QED
    BY ONLY <1>9, <1>10, <2>1
<1>13. V(1) = Utf8 => Len(ops) = 1 /\ (u \o last)[2] = 2 /\ (u \o last)[3] = V(2)
  <2> SUFFICES ASSUME V(1) = Utf8 PROVE Len(ops) = 1 /\ (u \o last)[2] = 2 /\ (u \o last)[3] = V(2)
    OBVIOUS
  <2>1. Len(ops) = 1 /\ ops[1] = 2
    BY <1>2
  <2>2. 1 \in 1..Len(last) /\ Len(u) = 2 /\ last[1] = V(2)
    BY <1>4, <1>10, <2>1
  <2>3. (u \o last)[Len(u) + 1] = last[1]
    BY ONLY <1>9, <2>2
  <2>4. (u \o last)[1 + 1] = ops[1]
    <3>1. 1 \in 1..Len(ops)
      BY ONLY <2>1
    <3> QED
      BY ONLY <1>12, <3>1
  <2>5. (u \o last)[3] = V(2)
    <3>1. Len(u) + 1 = 3
      BY ONLY <2>2
    <3> QED
      BY ONLY <2>2, <2>3, <3>1
  <2>6. (u \o last)[2] = 2
    <3>1. 1 + 1 = 2
      OBVIOUS
    <3> QED
      BY ONLY <2>1, <2>4, <3>1
  <2> QED
    BY ONLY <2>1, <2>5, <2>6
<1>14. DOMAIN (u \o last) = 1..Len(u \o last) /\ DOMAIN ops = 1..Len(ops)
  BY ONLY <1>3, <1>9, LenProperties
<1>15. \A j \in 1..Len(ops) : ops[j] \in Nat
  BY ONLY <1>3, ElementOfSeq
<1>16. ConstantReads = u \o last
  BY <1>6 DEF u
<1> QED
  BY ONLY <1>3, <1>11, <1>12, <1>13, <1>14, <1>15, <1>16 DEF ops

\* At the k-th constant of the pool.
ReadsConstant(cf, k) ==
    LET c == cf.constants[k]
    IN  /\ V(1) = c.tag /\ Operands(c.tag) # <<>>
        /\ c.tag = Utf8 => Block(3) = c.text
        /\ c.tag # Utf8 => \A j \in 1..Len(Operands(c.tag)) : V(j + 1) = c.args[j]
        /\ Len(Expected) \in Nat /\ cf.constantsAt[k + 1] = cf.constantsAt[k] + Len(Expected)
        /\ Whole => cf.constantsAt[k + 1] <= Len(cf.items)

LEMMA ConstantSeen ==
    ASSUME NEW cf, Reader(cf), More("constants"), AtConstants(cf), Whole \/ Reads
    PROVE  Reads /\ ReadsConstant(cf, Len(cf.constants) - left + 1)
<1>1. PICK k : k = Len(cf.constants) - left + 1
  OBVIOUS
<1>2. PICK c : c = cf.constants[k]
  OBVIOUS
<1>3. PICK p : p = cf.constantsAt[k]
  OBVIOUS
<1>4. k \in 1..Len(cf.constants) /\ Len(cf.items) \in Nat
  BY <1>1, Counts DEF Reader, TypeInv, ReaderTypeOK, More, AtConstants
<1>5. ConstantAt(cf, k) /\ p \in Nat
  BY <1>3, <1>4, Counts DEF Reader, ClassFile, Positions, Indices
<1>6. CursorAt(cf, p)
  BY <1>1, <1>3 DEF AtConstants
<1> DEFINE ops == Operands(c.tag)
           n == Len(ops)
<1>7. /\ Holds(cf, p + 1, 1, c.tag) /\ ops # <<>>
      /\ c.tag = Utf8 =>
            /\ Holds(cf, p + 2, 2, Len(c.text)) /\ BlockAt(cf, p + 3, c.text, "text")
            /\ cf.constantsAt[k + 1] = p + 3
      /\ c.tag # Utf8 =>
            /\ \A j \in 1..n : Holds(cf, p + 1 + j, ops[j], c.args[j])
            /\ cf.constantsAt[k + 1] = p + 1 + n
  BY <1>2, <1>3, <1>5 DEF ConstantAt
<1>8. V(1) \in Nat /\ V(2) \in Nat
  BY NumberRead DEF Reader, TypeInv
<1>9. Expected = ConstantReads
  BY ExpectedIs
<1> HIDE DEF ops, n
<1>10. \A i \in DOMAIN Expected : Expected[i] \in Nat => Whole \/ i <= Len(rest)
  BY ONLY Whole \/ Reads, Present
<1>11. ASSUME NEW i \in Nat \ {0}, NEW w, Number(cf, p + i, w), Whole \/ i <= Len(rest)
       PROVE  /\ i <= Len(rest) /\ Width(i) = w /\ rest[i].kind = "number"
              /\ V(i) = cf.items[p + i].v
  BY <1>5, <1>6, <1>11, Seen
<1>12. V(1) = c.tag /\ Width(1) = 1 /\ rest[1].kind = "number"
  <2>1. 1 \in DOMAIN Expected /\ Expected[1] = 1
    <3>1. Len(ConstantReads) \in Nat /\ Len(ConstantReads) >= 1
      BY <1>8, ConstantReadsOf
    <3>2. DOMAIN ConstantReads = 1..Len(ConstantReads) /\ ConstantReads[1] = 1
      BY <1>8, ConstantReadsOf
    <3> QED
      BY ONLY <1>9, <3>1, <3>2
  <2>2. Whole \/ 1 <= Len(rest)
    BY <1>10, <2>1
  <2> QED
    BY <1>7, <1>11, <2>2 DEF Holds
<1>13. /\ n \in {0, 1, 2} /\ DOMAIN Operands(V(1)) = 1..n
       /\ DOMAIN Expected = 1..1 + n + (IF c.tag = Utf8 THEN 1 ELSE 0)
       /\ Len(Expected) = 1 + n + (IF c.tag = Utf8 THEN 1 ELSE 0)
       /\ Expected[1] = 1
       /\ \A j \in 1..n : Expected[1 + j] = ops[j] /\ ops[j] \in Nat
       /\ c.tag = Utf8 => n = 1 /\ Expected[2] = 2 /\ Expected[3] = V(2)
  BY <1>8, <1>9, <1>12, ConstantReadsOf DEF ops, n
<1>14. \A i : (ReadAs(i) = IF V(1) = Utf8 /\ i = 3 THEN "text" ELSE "number")
  BY DEF ReadAs, More, InTable, Attribute, MoreAttributes
<1>15. CASE c.tag = Utf8
  <2>1. V(2) = Len(c.text) /\ Width(2) = 2 /\ rest[2].kind = "number"
    <3>1. 2 \in DOMAIN Expected /\ Expected[2] = 2
      BY <1>13, <1>15
    <3>2. Whole \/ 2 <= Len(rest)
      BY <1>10, <3>1
    <3> QED
      BY <1>7, <1>11, <1>15, <3>2 DEF Holds
  <2>2. rest[3] = cf.items[p + 3] /\ Width(3) = cf.items[p + 3].w /\ p + 3 <= Len(cf.items)
    <3>1. 3 \in DOMAIN Expected /\ Expected[3] = V(2)
      BY <1>13, <1>15
    <3>2. Whole \/ 3 <= Len(rest)
      BY <1>8, <1>10, <3>1
    <3>3. p + 3 <= Len(cf.items)
      BY <1>7, <1>15 DEF BlockAt
    <3> QED
      BY <1>5, <1>6, <3>2, <3>3, There
  <2>3. rest[3].kind = "text" /\ Block(3) = c.text /\ Width(3) = V(2)
    BY <1>7, <1>15, <2>1, <2>2 DEF BlockAt, Block
  <2>4. ReadAt(1) /\ ReadAt(2) /\ ReadAt(3)
    BY <1>12, <1>13, <1>14, <1>15, <2>1, <2>3 DEF ReadAt
  <2>5. DOMAIN Expected = 1..3 /\ Len(Expected) = 3
    BY <1>13, <1>15
  <2>6. Reads
    BY <2>4, <2>5 DEF Reads
  <2> QED
    BY <1>1, <1>2, <1>3, <1>7, <1>12, <1>15, <2>2, <2>3, <2>5, <2>6 DEF ReadsConstant, ops
<1>16. CASE c.tag # Utf8
  <2>1. ASSUME NEW j \in 1..n
        PROVE  V(j + 1) = c.args[j] /\ Width(1 + j) = ops[j] /\ rest[1 + j].kind = "number"
    <3>1. 1 + j \in DOMAIN Expected /\ Expected[1 + j] = ops[j] /\ ops[j] \in Nat
      BY ONLY <1>13, <1>16, <2>1
    <3>2. Whole \/ 1 + j <= Len(rest)
      BY <1>10, <3>1
    <3>3. 1 + j \in Nat \ {0} /\ p + (1 + j) = p + 1 + j /\ j + 1 = 1 + j
      BY ONLY <1>5, <1>13, <2>1
    <3>4. Holds(cf, p + (1 + j), ops[j], c.args[j])
      BY <1>7, <1>16, <2>1, <3>3
    <3> QED
      BY ONLY <1>11, <3>2, <3>3, <3>4 DEF Holds
  <2>2. DOMAIN Expected = 1..1 + n /\ Len(Expected) = 1 + n
    BY <1>13, <1>16
  <2>3. ASSUME NEW i \in 1..1 + n PROVE ReadAt(i)
    <3>1. CASE i = 1
      BY <1>12, <1>13, <1>14, <1>16, <3>1 DEF ReadAt
    <3>2. CASE i # 1
      <4>1. i - 1 \in 1..n /\ 1 + (i - 1) = i
        BY <1>13, <3>2
      <4> QED
        BY <1>12, <1>13, <1>14, <1>16, <2>1, <4>1 DEF ReadAt
    <3> QED
      BY <3>1, <3>2
  <2>4. Reads
    BY <2>2, <2>3 DEF Reads
  <2>5. p + 1 + n <= Len(cf.items)
    <3>1. n # 0
      <4>1. Operands(c.tag) \in {<<2>>, <<4>>, <<8>>, <<2, 2>>, <<1, 2>>, <<>>}
        BY DEF Operands
      <4>2. Operands(c.tag) # <<>> => Len(Operands(c.tag)) # 0
        BY ONLY <4>1
      <4> QED
        BY <1>7, <4>2 DEF ops, n
    <3>2. n \in 1..n
      BY <1>13, <3>1
    <3> QED
      BY <1>7, <1>16, <3>2 DEF Holds, Number
  <2>6. Len(Expected) \in Nat /\ cf.constantsAt[k + 1] = cf.constantsAt[k] + Len(Expected)
    BY <1>3, <1>5, <1>7, <1>13, <1>16, <2>2
  <2> QED
    BY <1>1, <1>2, <1>7, <1>12, <1>16, <2>1, <2>4, <2>5, <2>6 DEF ReadsConstant, ops, n
<1> QED
  BY <1>15, <1>16

\* A run of numbers.
LEMMA NumbersSeen ==
    ASSUME NEW cf, Reader(cf), NEW p \in Nat, CursorAt(cf, p), NEW n \in Nat \ {0},
           DOMAIN Expected = 1..n,
           \A k \in 1..n : /\ Expected[k] \in Nat /\ Number(cf, p + k, Expected[k])
                           /\ ReadAs(k) = "number",
           Whole \/ Reads
    PROVE  /\ Reads /\ p + n <= Len(cf.items)
           /\ \A k \in 1..n : k <= Len(rest) /\ V(k) = cf.items[p + k].v
<1>1. ASSUME NEW k \in 1..n
      PROVE  ReadAt(k) /\ k <= Len(rest) /\ V(k) = cf.items[p + k].v
  <2>1. Whole \/ k <= Len(rest)
    BY Present
  <2>2. /\ k <= Len(rest) /\ Width(k) = Expected[k] /\ rest[k].kind = "number"
        /\ V(k) = cf.items[p + k].v
    <3>1. PICK w : w = Expected[k]
      OBVIOUS
    <3>2. k \in Nat \ {0} /\ Number(cf, p + k, w)
      BY <3>1
    <3>3. k <= Len(rest) /\ Width(k) = w /\ rest[k].kind = "number" /\ V(k) = cf.items[p + k].v
      BY ONLY <2>1, <3>2, Reader(cf), p \in Nat, CursorAt(cf, p), Seen
    <3> QED
      BY ONLY <3>1, <3>3
  <2> QED
    BY <2>2 DEF ReadAt
<1>2. n \in 1..n
  OBVIOUS
<1>3. p + n <= Len(cf.items)
  BY <1>2 DEF Number
<1> QED
  BY <1>1, <1>3 DEF Reads

\* A step that goes on, and keeps the place.
GoesOn(cf) == Mark(cf)' /\ outcome' = "reading" /\ file' = file

LEMMA HeaderStep ==
    ASSUME NEW cf, Reader(cf), Mark(cf), ReadHeader
    PROVE  GoesOn(cf)
<1>1. table = "header" /\ Reads /\ inner = <<>> /\ outcome = "reading" /\ AtHeader(cf)
  BY DEF ReadHeader, InTable, Reading, Mark
<1>2. V(1) = Magic /\ V(2) = 0 /\ V(4) = Len(cf.constants) + 1
  BY <1>1, HeaderSeen
<1>3. Len(cf.constants) \in Nat /\ Len(cf.items) \in Nat /\ cf.constantsAt[1] = 4
  BY Counts DEF Reader, ClassFile, HeaderAt
<1>4. /\ pool' = <<Constant(Utf8, <<>>, <<>>)>> /\ table' = "constants"
      /\ left' = Len(cf.constants) /\ Pass(4) /\ inner' = <<>> /\ class' = class /\ member' = member
  BY <1>1, <1>2, <1>3 DEF ReadHeader
<1>5. CursorAt(cf, 4)'
  <2>1. CursorAt(cf, 0) /\ 4 <= Len(cf.items)
    BY <1>1, <1>3 DEF AtHeader, Reader, ClassFile, HeaderAt, Holds, Number
  <2>2. 0 \in Nat /\ 4 \in Nat /\ 0 + 4 = 4
    OBVIOUS
  <2> QED
    BY <1>4, <2>1, <2>2, Moved
<1>6. outcome' = "reading" /\ file' = file
  BY <1>1, <1>4 DEF Pass
<1>7. PoolUpTo(cf, 0)'
  BY <1>4 DEF PoolUpTo
<1>8. AtConstants(cf)'
  <2>1. class' = NoClass
    BY <1>1, <1>4 DEF AtHeader
  <2>2. Len(cf.constants) - left' = 0
    BY <1>3, <1>4
  <2> QED
    BY <1>3, <1>4, <1>5, <1>7, <2>1, <2>2 DEF AtConstants
<1> QED
  BY <1>4, <1>6, <1>8 DEF GoesOn, Mark

LEMMA ConstantStep ==
    ASSUME NEW cf, Reader(cf), Mark(cf), ReadConstant
    PROVE  GoesOn(cf)
<1>1. /\ table = "constants" /\ More("constants") /\ Reads /\ AtConstants(cf)
      /\ outcome = "reading" /\ left > 0
  BY DEF ReadConstant, More, InTable, Reading, Mark
<1>10. PICK k : k = Len(cf.constants) - left + 1
  OBVIOUS
<1>11. PICK n : n = Len(Expected)
  OBVIOUS
<1> DEFINE c == cf.constants[k]
<1>2. ReadsConstant(cf, k)
  BY <1>1, <1>10, ConstantSeen
<1>3. /\ Len(cf.constants) \in Nat /\ left \in Nat /\ k \in 1..Len(cf.constants) /\ left - 1 \in Nat
      /\ Len(cf.constants) - (left - 1) = k
  BY <1>1, <1>10, Counts DEF Reader, TypeInv, ReaderTypeOK, AtConstants
<1>4. ConstantAt(cf, k) /\ cf.constantsAt[k] \in Nat
  BY <1>3 DEF Reader, ClassFile, Positions, Indices
<1> DEFINE ops == Operands(V(1))
           d == IF V(1) = Utf8 THEN Constant(Utf8, <<>>, Block(3))
                ELSE Constant(V(1), [j \in DOMAIN ops |-> V(j + 1)], <<>>)
<1>5. /\ pool' = Append(pool, d) /\ left' = left - 1 /\ Pass(Len(Expected))
      /\ UNCHANGED <<table, inner, class, member>>
  BY <1>2 DEF ReadConstant, ReadsConstant
<1>6. d = c
  <2>1. V(1) = c.tag
    BY <1>2 DEF ReadsConstant
  <2>2. CASE c.tag = Utf8
    BY <1>2, <1>4, <2>1, <2>2 DEF ReadsConstant, ConstantAt
  <2>3. CASE c.tag # Utf8
    <3>1. V(1) \in Nat /\ V(2) \in Nat
      BY NumberRead DEF Reader, TypeInv
    <3>2. DOMAIN ops = 1..Len(Operands(c.tag))
      BY <2>1, <3>1, ConstantReadsOf
    <3>3. \A j \in 1..Len(Operands(c.tag)) : V(j + 1) = c.args[j]
      BY <1>2, <2>3 DEF ReadsConstant
    <3>4. c = Constant(c.tag, [j \in 1..Len(Operands(c.tag)) |-> c.args[j]], <<>>)
      BY <1>4, <2>3 DEF ConstantAt
    <3> HIDE DEF c, ops
    <3>5. [j \in DOMAIN ops |-> V(j + 1)] = [j \in 1..Len(Operands(c.tag)) |-> c.args[j]]
      BY ONLY <3>2, <3>3
    <3> QED
      BY ONLY <2>1, <2>3, <3>4, <3>5
  <2> QED
    BY <2>2, <2>3
<1> HIDE DEF d
<1>7. PoolUpTo(cf, k)'
  <2>1. PICK S : pool \in Seq(S)
    BY DEF Reader, TypeInv, PoolInv
  <2>2. PoolUpTo(cf, k - 1)
    BY <1>1, <1>3, <1>10 DEF AtConstants
  <2>3. pool \in Seq(S \cup {c}) /\ c \in S \cup {c}
    BY <2>1
  <2>4. /\ Len(Append(pool, c)) = Len(pool) + 1
        /\ \A i \in 1..Len(pool) : Append(pool, c)[i] = pool[i]
        /\ Append(pool, c)[Len(pool) + 1] = c
    BY <2>3, AppendProperties
  <2>5. Len(pool) = k /\ pool[1] = Constant(Utf8, <<>>, <<>>) /\ \A i \in 1..k - 1 : pool[i + 1] = cf.constants[i]
    BY <1>3, <2>2 DEF PoolUpTo
  <2>6. pool' = Append(pool, c)
    BY <1>5, <1>6
  <2>7. Len(pool') = k + 1 /\ pool'[1] = Constant(Utf8, <<>>, <<>>)
    BY <1>3, <2>4, <2>5, <2>6
  <2>8. ASSUME NEW i \in 1..k PROVE pool'[i + 1] = cf.constants[i]
    <3>1. CASE i = k
      BY <2>4, <2>5, <2>6, <3>1
    <3>2. CASE i # k
      <4>1. i \in 1..k - 1 /\ i + 1 \in 1..k
        BY <1>3, <3>2
      <4> QED
        BY <2>4, <2>5, <2>6, <4>1
    <3> QED
      BY <3>1, <3>2
  <2> QED
    BY <2>7, <2>8 DEF PoolUpTo
<1>8. CursorAt(cf, cf.constantsAt[k + 1])' /\ outcome' = outcome /\ file' = file
  <2>1. CursorAt(cf, cf.constantsAt[k])
    BY <1>1, <1>10 DEF AtConstants
  <2>2. /\ n \in Nat /\ cf.constantsAt[k + 1] = cf.constantsAt[k] + n /\ Pass(n)
        /\ Whole => cf.constantsAt[k] + n <= Len(cf.items)
    BY <1>2, <1>5, <1>11 DEF ReadsConstant
  <2>3. CursorAt(cf, cf.constantsAt[k] + n)' /\ outcome' = outcome /\ file' = file
    BY <1>4, <2>1, <2>2, Moved
  <2> QED
    BY <2>2, <2>3
<1>9. AtConstants(cf)'
  BY <1>1, <1>3, <1>5, <1>7, <1>8 DEF AtConstants
<1> QED
  BY <1>1, <1>5, <1>8, <1>9 DEF GoesOn, Mark

-----------------------------------------------------------------------------
(***************************************************************************)
(* The names of the class, its interfaces and the counts.                  *)
(***************************************************************************)

\* What the pool resolves to.
LEMMA Resolved ==
    ASSUME NEW cf, ClassFile(cf), PoolUpTo(cf, Len(cf.constants))
    PROVE  /\ \A i \in 1..Len(cf.constants) : Get(i) = cf.constants[i]
           /\ Get(0) = Constant(Utf8, <<>>, <<>>)
           /\ \A i : IsText(cf, i) => Get(i).tag = Utf8 /\ Get(i).text = TextOf(cf, i)
           /\ \A i : IsClass(cf, i) => ClassInfo(i) = <<NameOf(cf, i)>>
           /\ ClassInfo(0) = <<>>
<1>1. Len(cf.constants) \in Nat /\ Len(pool) = Len(cf.constants) + 1
  BY Counts DEF PoolUpTo
<1>2. \A i \in 1..Len(cf.constants) : Get(i) = cf.constants[i]
  BY <1>1 DEF Get, PoolUpTo
<1>3. Get(0) = Constant(Utf8, <<>>, <<>>)
  BY <1>1 DEF Get, PoolUpTo
<1>4. \A i : IsText(cf, i) => Get(i).tag = Utf8 /\ Get(i).text = TextOf(cf, i)
  BY <1>2 DEF IsText, TextOf, Indices
<1>5. ASSUME NEW i, IsClass(cf, i) PROVE ClassInfo(i) = <<NameOf(cf, i)>>
  <2>1. Get(i) = cf.constants[i] /\ cf.constants[i].tag = 7
    BY <1>2, <1>5 DEF IsClass, Indices
  <2>2. IsText(cf, cf.constants[i].args[1])
    BY <1>5 DEF IsClass
  <2> QED
    BY <1>4, <2>1, <2>2 DEF ClassInfo, NameOf
<1>6. ClassInfo(0) = <<>>
  BY <1>3 DEF ClassInfo, Constant, Utf8
<1> QED
  BY <1>2, <1>3, <1>4, <1>5, <1>6

LEMMA NamesSeen ==
    ASSUME NEW cf, Reader(cf), Over("constants"), AtConstants(cf), Whole \/ Reads
    PROVE  /\ Reads /\ V(2) = cf.this /\ V(3) = cf.super /\ V(4) = Len(cf.interfaces)
           /\ cf.constantsAt[Len(cf.constants) + 1] \in Nat
           /\ CursorAt(cf, cf.constantsAt[Len(cf.constants) + 1])
           /\ cf.constantsAt[Len(cf.constants) + 1] + 4 <= Len(cf.items)
<1>1. PICK p : p = cf.constantsAt[Len(cf.constants) + 1]
  OBVIOUS
<1>2. Len(cf.constants) \in Nat /\ left = 0 /\ Len(cf.constants) - left = Len(cf.constants)
  BY Counts DEF Reader, Over
<1>3. p \in Nat
  BY <1>1, <1>2 DEF Reader, ClassFile, Positions
<1>4. CursorAt(cf, p)
  BY <1>1, <1>2 DEF AtConstants
<1>5. /\ Number(cf, p + 1, 2) /\ Holds(cf, p + 2, 2, cf.this)
      /\ Holds(cf, p + 3, 2, cf.super) /\ Holds(cf, p + 4, 2, Len(cf.interfaces))
  BY <1>1 DEF Reader, ClassFile, NamesAt
<1>6. Expected = <<2, 2, 2, 2>>
  BY ExpectedIs
<1>7. \A k \in 1..4 : ReadAs(k) = "number"
  BY DEF ReadAs, More, Over, InTable, Attribute, MoreAttributes
<1>8. \A k \in 1..4 : Number(cf, p + k, 2)
  <2>1. \A k \in 1..4 : k = 1 \/ k = 2 \/ k = 3 \/ k = 4
    OBVIOUS
  <2> QED
    BY <1>5, <2>1 DEF Holds
<1>9. DOMAIN Expected = 1..4 /\ \A k \in 1..4 : Expected[k] = 2
  BY <1>6
<1>10. Reads /\ p + 4 <= Len(cf.items) /\ \A k \in 1..4 : k <= Len(rest) /\ V(k) = cf.items[p + k].v
  BY ONLY <1>3, <1>4, <1>7, <1>8, <1>9, Reader(cf), Whole \/ Reads, NumbersSeen, 4 \in Nat \ {0}, 2 \in Nat
<1>11. V(2) = cf.this /\ V(3) = cf.super /\ V(4) = Len(cf.interfaces)
  <2>1. V(2) = cf.items[p + 2].v /\ V(3) = cf.items[p + 3].v /\ V(4) = cf.items[p + 4].v
    BY <1>10
  <2> QED
    BY ONLY <1>5, <2>1 DEF Holds
<1> QED
  BY ONLY <1>1, <1>3, <1>4, <1>10, <1>11

LEMMA NamesStep ==
    ASSUME NEW cf, Reader(cf), Mark(cf), ReadNames
    PROVE  GoesOn(cf)
<1>1. /\ table = "constants" /\ Over("constants") /\ Reads /\ AtConstants(cf)
      /\ outcome = "reading" /\ inner = <<>> /\ left = 0
  BY DEF ReadNames, Over, InTable, Reading, Mark
<1>2. PICK p : p = cf.constantsAt[Len(cf.constants) + 1]
  OBVIOUS
<1>3. /\ V(2) = cf.this /\ V(3) = cf.super /\ V(4) = Len(cf.interfaces)
      /\ p \in Nat /\ CursorAt(cf, p) /\ p + 4 <= Len(cf.items)
  BY <1>1, <1>2, NamesSeen
<1>4. Len(cf.constants) \in Nat /\ Len(cf.interfaces) \in Nat
  BY Counts DEF Reader
<1>5. class = NoClass /\ PoolUpTo(cf, Len(cf.constants))
  BY <1>1, <1>4 DEF AtConstants
<1>6. /\ IsClass(cf, cf.this)
      /\ cf.super = 0 => NameOf(cf, cf.this) = ObjectName
      /\ cf.super # 0 => IsClass(cf, cf.super)
  BY DEF Reader, ClassFile, NamesAt
<1>7. ClassInfo(V(2)) = <<NameOf(cf, cf.this)>>
  BY <1>3, <1>5, <1>6, Resolved DEF Reader
<1>8. ClassInfo(V(3)) = IF cf.super = 0 THEN <<>> ELSE <<NameOf(cf, cf.super)>>
  BY <1>3, <1>5, <1>6, Resolved DEF Reader
<1>9. /\ class' = [class EXCEPT !.this = NameOf(cf, cf.this), !.super = ClassInfo(V(3))]
      /\ table' = "interfaces" /\ left' = Len(cf.interfaces) /\ Pass(4)
      /\ UNCHANGED <<inner, pool, member>>
  <2>1. ClassInfo(V(2)) # <<>> /\ ClassInfo(V(2))[1] = NameOf(cf, cf.this)
    BY <1>7
  <2>2. ~(ClassInfo(V(3)) = <<>> /\ ClassInfo(V(2))[1] # ObjectName)
    BY <1>6, <1>8, <2>1
  <2> QED
    BY <1>3, <2>1, <2>2 DEF ReadNames
<1>10. CursorAt(cf, p + 4)' /\ outcome' = outcome /\ file' = file
  BY <1>3, <1>9, Moved, 4 \in Nat
<1>11. /\ DOMAIN class' = ClassParts /\ class'.this = NameOf(cf, cf.this)
       /\ class'.super = ClassInfo(V(3)) /\ class'.interfaces = <<>>
       /\ class'.fields = {} /\ class'.methods = {} /\ class'.attributes = {}
  BY <1>5, <1>9 DEF NoClass, ClassParts
<1>12. PoolUpTo(cf, Len(cf.constants))'
  BY <1>5, <1>9 DEF PoolUpTo
<1>13. InterfacesUpTo(cf, 0)'
  <2>1. class'.interfaces \in Seq(Nat) /\ Len(class'.interfaces) = 0
    BY <1>11, EmptySeq
  <2> QED
    BY <2>1 DEF InterfacesUpTo
<1>14. NamesRead(cf)'
  BY <1>8, <1>11, <1>12 DEF NamesRead
<1>15. AtInterfaces(cf)'
  <2>1. Len(cf.interfaces) - left' = 0 /\ p + 4 + 0 = p + 4
    BY <1>3, <1>4, <1>9
  <2> QED
    BY <1>1, <1>2, <1>4, <1>9, <1>10, <1>11, <1>13, <1>14, <2>1 DEF AtInterfaces
<1>16. DOMAIN member' = MemberParts
  BY <1>9 DEF Mark
<1> QED
  BY <1>1, <1>9, <1>10, <1>11, <1>15, <1>16 DEF GoesOn, Mark

\* One number.
LEMMA OneSeen ==
    ASSUME NEW cf, Reader(cf), NEW p \in Nat, CursorAt(cf, p), Number(cf, p + 1, 2),
           Expected = << 2 >>, ~MoreAttributes, ~More("constants"), Whole \/ Reads
    PROVE  Reads /\ p + 1 <= Len(cf.items) /\ V(1) = cf.items[p + 1].v
<1>1. DOMAIN Expected = 1..1 /\ \A k \in 1..1 : k = 1 /\ Expected[k] \in Nat /\ Expected[k] = 2
  OBVIOUS
<1>2. \A k \in 1..1 : ReadAs(k) = "number"
  BY DEF ReadAs, Attribute
<1>3. \A k \in 1..1 : Number(cf, p + k, Expected[k])
  BY <1>1
<1>4. Reads /\ p + 1 <= Len(cf.items) /\ \A k \in 1..1 : V(k) = cf.items[p + k].v
  BY ONLY <1>1, <1>2, <1>3, Reader(cf), p \in Nat, CursorAt(cf, p), Whole \/ Reads,
     NumbersSeen, 1 \in Nat \ {0}
<1> QED
  BY <1>4

LEMMA InterfaceSeen ==
    ASSUME NEW cf, Reader(cf), More("interfaces"), AtInterfaces(cf), Whole \/ Reads,
           NEW k, k = Len(cf.interfaces) - left
    PROVE  /\ Reads /\ V(1) = cf.interfaces[k + 1]
           /\ \E p \in Nat : /\ p = cf.constantsAt[Len(cf.constants) + 1] + 4 + k
                             /\ CursorAt(cf, p) /\ p + 1 <= Len(cf.items)
<1>1. PICK p : p = cf.constantsAt[Len(cf.constants) + 1]
  OBVIOUS
<1>2. Len(cf.constants) \in Nat /\ Len(cf.interfaces) \in Nat /\ left \in Nat /\ left > 0
  BY Counts DEF Reader, More, TypeInv, ReaderTypeOK
<1>3. p \in Nat
  BY <1>1, <1>2 DEF Reader, ClassFile, Positions
<1>4. k \in Nat /\ k + 1 \in 1..Len(cf.interfaces)
  BY <1>2 DEF AtInterfaces
<1>5. Holds(cf, p + 4 + (k + 1), 2, cf.interfaces[k + 1])
  BY <1>1, <1>4 DEF Reader, ClassFile, NamesAt
<1>10. PICK q : q = p + 4 + k
  OBVIOUS
<1>6. q \in Nat /\ q = p + 4 + k /\ q + 1 = p + 4 + (k + 1)
  BY ONLY <1>3, <1>4, <1>10
<1>7. CursorAt(cf, q)
  BY <1>1, <1>6 DEF AtInterfaces
<1>8. Expected = <<2>> /\ ~MoreAttributes /\ ~More("constants")
  BY ExpectedIs DEF More, InTable, MoreAttributes
<1>9. Reads /\ q + 1 <= Len(cf.items) /\ V(1) = cf.items[q + 1].v
  BY <1>5, <1>6, <1>7, <1>8, OneSeen DEF Holds
<1> QED
  BY <1>1, <1>5, <1>6, <1>7, <1>9 DEF Holds

LEMMA InterfaceStep ==
    ASSUME NEW cf, Reader(cf), Mark(cf), ReadInterface
    PROVE  GoesOn(cf)
<1>1. /\ table = "interfaces" /\ More("interfaces") /\ Reads /\ AtInterfaces(cf)
      /\ outcome = "reading" /\ inner = <<>> /\ left > 0
  BY DEF ReadInterface, More, InTable, Reading, Mark
<1>2. PICK k : k = Len(cf.interfaces) - left
  OBVIOUS
<1>3. V(1) = cf.interfaces[k + 1]
  BY <1>1, <1>2, InterfaceSeen
<1>4. PICK p \in Nat : /\ p = cf.constantsAt[Len(cf.constants) + 1] + 4 + k
                       /\ CursorAt(cf, p) /\ p + 1 <= Len(cf.items)
  BY <1>1, <1>2, InterfaceSeen
<1>5. /\ left' = left - 1 /\ Pass(1) /\ UNCHANGED <<table, inner, pool, member>>
      /\ class' = [class EXCEPT !.interfaces = Append(@, V(1))]
  BY DEF ReadInterface
<1>6. CursorAt(cf, p + 1)' /\ outcome' = outcome /\ file' = file
  BY <1>4, <1>5, Moved, 1 \in Nat
<1>14. PICK q : q = cf.constantsAt[Len(cf.constants) + 1]
  OBVIOUS
<1>7. /\ Len(cf.interfaces) \in Nat /\ left \in Nat /\ k \in Nat /\ Len(cf.interfaces) - left' = k + 1
      /\ left' <= Len(cf.interfaces) /\ q \in Nat
  <2>1. Len(cf.interfaces) \in Nat /\ left \in Nat /\ left <= Len(cf.interfaces)
    BY <1>1, Counts DEF Reader, TypeInv, ReaderTypeOK, AtInterfaces
  <2>2. q \in Nat
    <3>1. Len(cf.constants) + 1 \in 1..Len(cf.constants) + 1
      BY Counts DEF Reader
    <3> QED
      BY <1>14, <3>1 DEF Reader, ClassFile, Positions
  <2> QED
    BY <1>1, <1>2, <1>5, <2>1, <2>2
<1>8. cf.constantsAt[Len(cf.constants) + 1] + 4 + (k + 1) = p + 1
  <2>1. p = q + 4 + k
    BY <1>4, <1>14
  <2>2. q + 4 + (k + 1) = p + 1
    BY ONLY <1>7, <2>1
  <2> QED
    BY <1>14, <2>2
<1>9. DOMAIN class = ClassParts
  BY DEF Mark
<1>10. /\ DOMAIN class' = ClassParts /\ class'.this = class.this /\ class'.super = class.super
       /\ class'.interfaces = Append(class.interfaces, V(1))
       /\ class'.fields = class.fields /\ class'.methods = class.methods
       /\ class'.attributes = class.attributes
  BY <1>5, <1>9 DEF ClassParts
<1>11. InterfacesUpTo(cf, k + 1)'
  <2>1. V(1) \in Nat
    BY NumberRead DEF Reader, TypeInv
  <2>2. /\ class.interfaces \in Seq(Nat) /\ Len(class.interfaces) = k
        /\ \A i \in 1..k : class.interfaces[i] = cf.interfaces[i]
    BY <1>1, <1>2 DEF AtInterfaces, InterfacesUpTo
  <2>3. /\ class'.interfaces \in Seq(Nat) /\ Len(class'.interfaces) = k + 1
        /\ \A i \in 1..k : class'.interfaces[i] = class.interfaces[i]
        /\ class'.interfaces[k + 1] = V(1)
    BY <1>10, <2>1, <2>2, AppendProperties
  <2>4. \A i \in 1..k + 1 : i = k + 1 \/ i \in 1..k
    BY <1>7
  <2> QED
    BY <1>3, <2>2, <2>3, <2>4 DEF InterfacesUpTo
<1>12. NamesRead(cf)'
  BY <1>1, <1>5, <1>10 DEF AtInterfaces, NamesRead, PoolUpTo
<1>13. AtInterfaces(cf)'
  BY <1>1, <1>5, <1>6, <1>7, <1>8, <1>10, <1>11, <1>12 DEF AtInterfaces
<1> QED
  BY <1>1, <1>5, <1>6, <1>10, <1>13 DEF GoesOn, Mark

\* The count of the fields, of the methods or of the attributes.
LEMMA CountSeen ==
    ASSUME NEW cf, Reader(cf), Mark(cf), Over("interfaces") \/ Over("fields") \/ Over("methods"),
           Whole \/ Reads
    PROVE  /\ Reads
           /\ \E p \in Nat :
                 /\ CursorAt(cf, p) /\ p + 1 <= Len(cf.items)
                 /\ table = "interfaces" => V(1) = Len(cf.fields) /\ cf.fieldsAt[1] = p + 1
                 /\ table = "fields" => V(1) = Len(cf.methods) /\ cf.methodsAt[1] = p + 1
                 /\ table = "methods" => V(1) = Len(cf.attributes) /\ cf.attributesAt[1] = p + 1
<1>1. /\ Len(cf.constants) \in Nat /\ Len(cf.interfaces) \in Nat /\ Len(cf.fields) \in Nat
      /\ Len(cf.methods) \in Nat /\ left = 0 /\ inner = <<>>
      /\ table \in {"interfaces", "fields", "methods"}
  BY Counts DEF Reader, Over, InTable
<1>2. Expected = <<2>> /\ ~MoreAttributes /\ ~More("constants")
  BY <1>1, ExpectedIs DEF More, InTable, MoreAttributes
<1>3. CASE table = "interfaces"
  <2> DEFINE q == cf.constantsAt[Len(cf.constants) + 1]
             n == Len(cf.interfaces)
  <2>5. q \in Nat /\ n \in Nat
    BY <1>1 DEF Reader, ClassFile, Positions
  <2>1. PICK p \in Nat : p = q + 4 + n
    <3> HIDE DEF q, n
    <3> QED
      BY ONLY <2>5
  <2>2. CursorAt(cf, p)
    <3>1. Len(cf.interfaces) - left = Len(cf.interfaces)
      BY <1>1
    <3> QED
      BY <1>3, <2>1, <3>1 DEF Mark, AtInterfaces
  <2>3. Holds(cf, p + 1, 2, Len(cf.fields)) /\ cf.fieldsAt[1] = p + 1
    <3>2. q + 5 + n = p + 1
      <4> HIDE DEF q, n
      <4> QED
        BY ONLY <2>1, <2>5
    <3> QED
      BY <3>2 DEF Reader, ClassFile, NamesAt
  <2>4. Reads /\ p + 1 <= Len(cf.items) /\ V(1) = Len(cf.fields)
    BY <1>2, <2>2, <2>3, OneSeen DEF Holds
  <2> QED
    BY <1>3, <2>2, <2>3, <2>4
<1>4. CASE table = "fields"
  <2>1. PICK p \in Nat : p = cf.fieldsAt[Len(cf.fields) + 1]
    <3>1. Positions(cf.fieldsAt, Len(cf.fields))
      BY DEF Reader, ClassFile, FieldsAt, MembersAt
    <3> QED
      BY <1>1, <3>1 DEF Positions
  <2>2. CursorAt(cf, p)
    <3>1. Len(cf.fields) - left = Len(cf.fields)
      BY <1>1
    <3> QED
      BY <1>1, <1>4, <2>1, <3>1 DEF Mark, AtFields, AtMember
  <2>3. Holds(cf, p + 1, 2, Len(cf.methods)) /\ cf.methodsAt[1] = p + 1
    BY <2>1 DEF Reader, ClassFile, MethodsAt
  <2>4. Reads /\ p + 1 <= Len(cf.items) /\ V(1) = Len(cf.methods)
    BY <1>2, <2>2, <2>3, OneSeen DEF Holds
  <2> QED
    BY <1>4, <2>2, <2>3, <2>4
<1>5. CASE table = "methods"
  <2>1. PICK p \in Nat : p = cf.methodsAt[Len(cf.methods) + 1]
    <3>1. Positions(cf.methodsAt, Len(cf.methods))
      BY DEF Reader, ClassFile, MethodsAt, MembersAt
    <3> QED
      BY <1>1, <3>1 DEF Positions
  <2>2. CursorAt(cf, p)
    <3>1. Len(cf.methods) - left = Len(cf.methods)
      BY <1>1
    <3> QED
      BY <1>1, <1>5, <2>1, <3>1 DEF Mark, AtMethods, AtMember
  <2>3. Holds(cf, p + 1, 2, Len(cf.attributes)) /\ cf.attributesAt[1] = p + 1
    BY <2>1 DEF Reader, ClassFile, ClassAttributesAt
  <2>4. Reads /\ p + 1 <= Len(cf.items) /\ V(1) = Len(cf.attributes)
    BY <1>2, <2>2, <2>3, OneSeen DEF Holds
  <2> QED
    BY <1>5, <2>2, <2>3, <2>4
<1> QED
  BY <1>1, <1>3, <1>4, <1>5

LEMMA SameClass ==
    ASSUME NEW cf, UNCHANGED <<class, pool>>
    PROVE  /\ NamesRead(cf) => NamesRead(cf)'
           /\ HeadRead(cf) => HeadRead(cf)'
           /\ \A k : FieldsUpTo(cf, k) => FieldsUpTo(cf, k)'
           /\ \A k : MethodsUpTo(cf, k) => MethodsUpTo(cf, k)'
<1>1. NamesRead(cf) => NamesRead(cf)'
  BY DEF NamesRead, PoolUpTo
<1>2. HeadRead(cf) => HeadRead(cf)'
  BY <1>1 DEF HeadRead, InterfacesUpTo
<1>3. \A k : FieldsUpTo(cf, k) => FieldsUpTo(cf, k)'
  BY DEF FieldsUpTo
<1>4. \A k : MethodsUpTo(cf, k) => MethodsUpTo(cf, k)'
  BY DEF MethodsUpTo
<1> QED
  BY <1>1, <1>2, <1>3, <1>4

LEMMA CountStep ==
    ASSUME NEW cf, Reader(cf), Mark(cf), ReadCount
    PROVE  GoesOn(cf)
<1>1. /\ table \in {"interfaces", "fields", "methods"} /\ outcome = "reading" /\ left = 0
      /\ Reads /\ inner = <<>>
  BY DEF ReadCount, Over, InTable, Reading
<1>2. /\ table' = [interfaces |-> "fields", fields |-> "methods", methods |-> "attributes"][table]
      /\ left'  = (IF table = "methods" THEN 0 ELSE V(1))
      /\ inner' = (IF table = "methods" THEN <<V(1)>> ELSE <<>>)
      /\ Pass(1) /\ UNCHANGED <<pool, class, member>> /\ Reads
  BY DEF ReadCount
<1>3. PICK p \in Nat :
         /\ CursorAt(cf, p) /\ p + 1 <= Len(cf.items)
         /\ table = "interfaces" => V(1) = Len(cf.fields) /\ cf.fieldsAt[1] = p + 1
         /\ table = "fields" => V(1) = Len(cf.methods) /\ cf.methodsAt[1] = p + 1
         /\ table = "methods" => V(1) = Len(cf.attributes) /\ cf.attributesAt[1] = p + 1
  <2>1. Over("interfaces") \/ Over("fields") \/ Over("methods")
    BY DEF ReadCount
  <2> QED
    BY <1>2, <2>1, CountSeen
<1>4. CursorAt(cf, p + 1)' /\ outcome' = outcome /\ file' = file
  BY <1>2, <1>3, Moved, 1 \in Nat
<1>5. /\ Len(cf.interfaces) \in Nat /\ Len(cf.fields) \in Nat /\ Len(cf.methods) \in Nat
      /\ Len(cf.attributes) \in Nat
  BY Counts DEF Reader
<1>6. UNCHANGED <<class, pool>>
  BY <1>2
<1>7. CASE table = "interfaces"
  <2>1. /\ NamesRead(cf) /\ InterfacesUpTo(cf, Len(cf.interfaces) - left)
        /\ class.fields = {} /\ class.methods = {} /\ class.attributes = {}
    BY <1>7 DEF Mark, AtInterfaces
  <2>2. HeadRead(cf)
    <3>1. Len(cf.interfaces) - left = Len(cf.interfaces)
      BY <1>1, <1>5
    <3> QED
      BY <2>1, <3>1 DEF HeadRead
  <2>3. FieldsUpTo(cf, 0)
    BY <2>1 DEF FieldsUpTo
  <2>4. HeadRead(cf)' /\ FieldsUpTo(cf, 0)'
    BY <1>6, <2>2, <2>3, SameClass
  <2>5. table' = "fields" /\ left' = Len(cf.fields) /\ inner' = <<>>
    BY <1>2, <1>3, <1>7
  <2>6. Len(cf.fields) - left' = 0
    BY <1>5, <2>5
  <2>7. AtMember(cf, cf.fields, cf.fieldsAt)'
    BY <1>3, <1>4, <1>5, <1>7, <2>5, <2>6 DEF AtMember
  <2>8. AtFields(cf)'
    BY <1>6, <2>1, <2>4, <2>6, <2>7 DEF AtFields
  <2> QED
    BY <1>1, <1>2, <1>4, <2>5, <2>8 DEF GoesOn, Mark
<1>8. CASE table = "fields"
  <2>1. HeadRead(cf) /\ FieldsUpTo(cf, Len(cf.fields) - left) /\ class.methods = {} /\ class.attributes = {}
    BY <1>8 DEF Mark, AtFields
  <2>2. FieldsUpTo(cf, Len(cf.fields))
    <3>1. Len(cf.fields) - left = Len(cf.fields)
      BY <1>1, <1>5
    <3> QED
      BY <2>1, <3>1
  <2>3. MethodsUpTo(cf, 0)
    BY <2>1 DEF MethodsUpTo
  <2>4. HeadRead(cf)' /\ FieldsUpTo(cf, Len(cf.fields))' /\ MethodsUpTo(cf, 0)'
    BY <1>6, <2>1, <2>2, <2>3, SameClass
  <2>5. table' = "methods" /\ left' = Len(cf.methods) /\ inner' = <<>>
    BY <1>2, <1>3, <1>8
  <2>6. Len(cf.methods) - left' = 0
    BY <1>5, <2>5
  <2>7. AtMember(cf, cf.methods, cf.methodsAt)'
    BY <1>3, <1>4, <1>5, <1>8, <2>5, <2>6 DEF AtMember
  <2>8. AtMethods(cf)'
    BY <1>6, <2>1, <2>4, <2>6, <2>7 DEF AtMethods
  <2> QED
    BY <1>1, <1>2, <1>4, <2>5, <2>8 DEF GoesOn, Mark
<1>9. CASE table = "methods"
  <2>1. /\ HeadRead(cf) /\ FieldsUpTo(cf, Len(cf.fields)) /\ class.attributes = {}
        /\ MethodsUpTo(cf, Len(cf.methods) - left)
    BY <1>9 DEF Mark, AtMethods
  <2>2. MethodsUpTo(cf, Len(cf.methods))
    <3>1. Len(cf.methods) - left = Len(cf.methods)
      BY <1>1, <1>5
    <3> QED
      BY <2>1, <3>1
  <2>4. MembersRead(cf)'
    BY <1>6, <2>1, <2>2, SameClass DEF MembersRead
  <2>5. table' = "attributes" /\ inner' = <<Len(cf.attributes)>>
    BY <1>2, <1>3, <1>9
  <2>6. Len(inner') = 1 /\ inner' # <<>> /\ LeftOver' = Len(cf.attributes)
    BY <2>5 DEF LeftOver
  <2>7. Len(cf.attributes) - LeftOver' = 0
    BY <1>5, <2>6
  <2>8. AtAttribute(cf, cf.attributes, cf.attributesAt)'
    BY <1>3, <1>4, <1>5, <1>9, <2>6, <2>7 DEF AtAttribute
  <2>9. class'.attributes = NamesUpTo(cf, cf.attributes, 0)
    BY <1>6, <2>1 DEF NamesUpTo
  <2>10. AtAttributes(cf)'
    BY <2>4, <2>7, <2>8, <2>9 DEF AtAttributes
  <2> QED
    BY <1>1, <1>2, <1>4, <2>5, <2>10 DEF GoesOn, Mark
<1> QED
  BY <1>1, <1>7, <1>8, <1>9


-----------------------------------------------------------------------------
(***************************************************************************)
(* A field or a method.                                                    *)
(***************************************************************************)

InMembers(cf, members, at) ==
    \/ table = "fields" /\ members = cf.fields /\ at = cf.fieldsAt
    \/ table = "methods" /\ members = cf.methods /\ at = cf.methodsAt

LEMMA MembersLaidOut ==
    ASSUME NEW cf, Reader(cf), Mark(cf), NEW members, NEW at, InMembers(cf, members, at)
    PROVE  /\ AtMember(cf, members, at) /\ NamesRead(cf)
           /\ Len(members) \in Nat /\ left \in Nat /\ Len(members) - left \in Nat
           /\ \A k : k = Len(members) - left /\ left > 0 =>
                 /\ k + 1 \in 1..Len(members) /\ at[k + 1] \in Nat
                 /\ MemberAt(cf, members[k + 1], at[k + 1], at[k + 1 + 1])
<1>1. MembersAt(cf, members, at)
  BY DEF InMembers, Reader, ClassFile, FieldsAt, MethodsAt
<1>2. AtMember(cf, members, at) /\ NamesRead(cf)
  BY DEF InMembers, Mark, AtFields, AtMethods, HeadRead
<1>3. Len(members) \in Nat /\ left \in Nat
  BY Counts DEF InMembers, Reader, TypeInv, ReaderTypeOK
<1>4. left <= Len(members)
  BY <1>2 DEF AtMember
<1>5. ASSUME NEW k, k = Len(members) - left, left > 0
      PROVE  /\ k + 1 \in 1..Len(members) /\ at[k + 1] \in Nat
             /\ MemberAt(cf, members[k + 1], at[k + 1], at[k + 1 + 1])
  <2>1. k + 1 \in 1..Len(members) /\ k + 1 \in 1..Len(members) + 1
    BY <1>3, <1>4, <1>5
  <2> QED
    BY <1>1, <2>1 DEF MembersAt, Positions, Indices
<1> QED
  BY <1>2, <1>3, <1>4, <1>5

LEMMA MemberSeen ==
    ASSUME NEW cf, Reader(cf), Mark(cf), NEW members, NEW at, InMembers(cf, members, at),
           MoreMembers, Whole \/ Reads, NEW k, k = Len(members) - left
    PROVE  LET m == members[k + 1]
           IN  /\ Reads /\ V(2) = m.name /\ V(3) = m.text /\ V(4) = Len(m.attributes)
               /\ CursorAt(cf, at[k + 1]) /\ at[k + 1] \in Nat /\ at[k + 1] + 4 <= Len(cf.items)
<1>1. left > 0 /\ inner = <<>>
  BY DEF MoreMembers, More, InTable
<1>2. PICK p : p = at[k + 1]
  OBVIOUS
<1>3. PICK m : m = members[k + 1]
  OBVIOUS
<1>4. p \in Nat /\ MemberAt(cf, m, p, at[k + 1 + 1])
  BY <1>1, <1>2, <1>3, MembersLaidOut
<1>5. CursorAt(cf, p)
  <2>1. AtMember(cf, members, at)
    BY MembersLaidOut
  <2> QED
    BY <1>1, <1>2, <2>1 DEF AtMember
<1>6. /\ Number(cf, p + 1, 2) /\ Holds(cf, p + 2, 2, m.name)
      /\ Holds(cf, p + 3, 2, m.text) /\ Holds(cf, p + 4, 2, Len(m.attributes))
  BY <1>4 DEF MemberAt
<1>7. Expected = <<2, 2, 2, 2>>
  BY ExpectedIs
<1>8. \A i \in 1..4 : ReadAs(i) = "number"
  BY DEF ReadAs, MoreMembers, More, InTable, Attribute, MoreAttributes
<1>9. \A i \in 1..4 : Number(cf, p + i, 2)
  <2>1. \A i \in 1..4 : i = 1 \/ i = 2 \/ i = 3 \/ i = 4
    OBVIOUS
  <2> QED
    BY <1>6, <2>1 DEF Holds
<1>10. DOMAIN Expected = 1..4 /\ \A i \in 1..4 : Expected[i] = 2
  BY <1>7
<1>11. Reads /\ p + 4 <= Len(cf.items) /\ \A i \in 1..4 : i <= Len(rest) /\ V(i) = cf.items[p + i].v
  BY ONLY <1>4, <1>5, <1>8, <1>9, <1>10, Reader(cf), Whole \/ Reads, NumbersSeen,
     4 \in Nat \ {0}, 2 \in Nat
<1>12. V(2) = m.name /\ V(3) = m.text /\ V(4) = Len(m.attributes)
  <2>1. V(2) = cf.items[p + 2].v /\ V(3) = cf.items[p + 3].v /\ V(4) = cf.items[p + 4].v
    BY <1>11
  <2> QED
    BY ONLY <1>6, <2>1 DEF Holds
<1> QED
  BY ONLY <1>2, <1>3, <1>4, <1>5, <1>11, <1>12

\* Types that are printed and parsed.
LEMMA FieldTyped ==
    ASSUME NEW fd, FieldType(fd)
    PROVE  fd \in FieldDescriptors(ToSet(fd.name)) /\ ParseField(PrintField(fd)) = Value(fd)
<1>1. CASE fd.elem \in Base /\ fd.name = <<>>
  <2>1. fd = Field(fd.dims, fd.elem, <<>>) /\ fd.dims \in Dimensions
    BY <1>1 DEF FieldType
  <2>2. fd \in FieldDescriptors(ToSet(fd.name))
    BY <1>1, <2>1 DEF FieldDescriptors
  <2> QED
    BY <2>2, FieldReadsBack
<1>2. CASE fd.elem = "L" /\ IsSequence(fd.name)
  <2>1. fd = Field(fd.dims, "L", fd.name) /\ fd.dims \in Dimensions /\ fd.name \in Seq(ToSet(fd.name))
    BY <1>2 DEF FieldType, IsSequence
  <2>2. fd \in FieldDescriptors(ToSet(fd.name))
    BY <2>1 DEF FieldDescriptors
  <2> QED
    BY <2>2, FieldReadsBack
<1> QED
  BY <1>1, <1>2 DEF FieldType

\* A step inside a member.
LEMMA MemberKept ==
    ASSUME NEW cf, Reader(cf), Mark(cf), NEW members, NEW at, InMembers(cf, members, at),
           UNCHANGED <<table, left, pool, class, file, outcome>>, AtMember(cf, members, at)',
           DOMAIN member' = MemberParts
    PROVE  GoesOn(cf)
<1>1. table' = table /\ left' = left /\ outcome' = "reading" /\ DOMAIN class' = ClassParts
  BY DEF Reader, Reading, Mark
<1>2. CASE table = "fields"
  <2>1. AtFields(cf)
    BY <1>2 DEF Mark
  <2>2. members = cf.fields /\ at = cf.fieldsAt
    BY <1>2 DEF InMembers
  <2>3. AtFields(cf)'
    BY <1>1, <2>1, <2>2, SameClass DEF AtFields
  <2> QED
    BY <1>1, <1>2, <2>3 DEF GoesOn, Mark
<1>3. CASE table = "methods"
  <2>1. AtMethods(cf)
    BY <1>3 DEF Mark
  <2>2. members = cf.methods /\ at = cf.methodsAt
    BY <1>3 DEF InMembers
  <2>3. AtMethods(cf)'
    BY <1>1, <2>1, <2>2, SameClass DEF AtMethods
  <2> QED
    BY <1>1, <1>3, <2>3 DEF GoesOn, Mark
<1> QED
  BY <1>2, <1>3 DEF InMembers

LEMMA MemberStep ==
    ASSUME NEW cf, Reader(cf), Mark(cf), ReadMember
    PROVE  GoesOn(cf)
<1>1. Reads /\ MoreMembers /\ left > 0 /\ inner = <<>> /\ table \in {"fields", "methods"}
  BY DEF ReadMember, MoreMembers, More, InTable
<1>2. PICK members, at : InMembers(cf, members, at)
  BY <1>1 DEF InMembers
<1>3. PICK k : k = Len(members) - left
  OBVIOUS
<1>4. PICK m : m = members[k + 1]
  OBVIOUS
<1>5. PICK p : p = at[k + 1]
  OBVIOUS
<1>6. /\ V(2) = m.name /\ V(3) = m.text /\ V(4) = Len(m.attributes)
      /\ CursorAt(cf, p) /\ p \in Nat /\ p + 4 <= Len(cf.items)
  BY <1>1, <1>2, <1>3, <1>4, <1>5, MemberSeen
<1>7. /\ k + 1 \in 1..Len(members) /\ MemberAt(cf, m, p, at[k + 1 + 1]) /\ NamesRead(cf)
      /\ AtMember(cf, members, at)
  BY <1>1, <1>2, <1>3, <1>4, <1>5, MembersLaidOut
<1>8. /\ Get(V(2)).tag = Utf8 /\ Get(V(2)).text = TextOf(cf, m.name)
      /\ Get(V(3)).tag = Utf8 /\ Get(V(3)).text = TextOf(cf, m.text)
  <2>1. IsText(cf, m.name) /\ IsText(cf, m.text)
    BY <1>7 DEF MemberAt
  <2> QED
    BY <1>6, <1>7, <2>1, Resolved DEF Reader, NamesRead
<1>9. table = "fields" => ParseField(TextOf(cf, m.text)) = Value(m.type)
  <2>1. table = "fields" => m = cf.fields[k + 1] /\ k + 1 \in Indices(cf.fields)
    BY <1>2, <1>4, <1>7 DEF InMembers, Indices
  <2>2. table = "fields" => FieldType(m.type) /\ TextOf(cf, m.text) = PrintField(m.type)
    BY <2>1 DEF Reader, ClassFile, FieldsAt
  <2> QED
    BY <2>2, FieldTyped
<1> DEFINE fd == IF table = "fields" /\ Get(V(3)).tag = Utf8 THEN ParseField(Get(V(3)).text)
                 ELSE Value(Void)
<1>10. fd.is = "value" /\ (table = "fields" => fd.val = m.type)
  BY <1>8, <1>9 DEF Value
<1>11. /\ member' = [name |-> Get(V(2)).text, text |-> Get(V(3)).text, fd |-> fd.val,
                     attributes |-> {}, code |-> <<>>]
       /\ inner' = <<V(4)>> /\ Pass(4) /\ UNCHANGED <<table, left, pool, class>>
  BY <1>8, <1>10 DEF ReadMember
<1> HIDE DEF fd
<1>12. CursorAt(cf, p + 4)' /\ outcome' = outcome /\ file' = file
  BY <1>6, <1>11, Moved, 4 \in Nat
<1>13. /\ DOMAIN member' = MemberParts /\ member'.name = TextOf(cf, m.name)
       /\ member'.text = TextOf(cf, m.text) /\ (table = "fields" => member'.fd = m.type)
  BY <1>8, <1>10, <1>11 DEF MemberParts
<1>14. Len(m.attributes) \in Nat /\ m.attributesAt[1] = p + 4
  <2>1. AttributesAt(cf, m.attributes, m.attributesAt) /\ m.attributesAt[1] = p + 4
    BY <1>7 DEF MemberAt
  <2> QED
    BY <2>1, LenProperties DEF AttributesAt, IsSequence
<1>15. /\ inner' # <<>> /\ Len(inner') = 1 /\ LeftOver' = Len(m.attributes)
       /\ Len(m.attributes) - LeftOver' = 0 /\ LeftOver' <= Len(m.attributes)
  BY <1>6, <1>11, <1>14 DEF LeftOver
<1>16. AtAttribute(cf, m.attributes, m.attributesAt)'
  <2>1. CursorAt(cf, m.attributesAt[0 + 1])'
    BY <1>12, <1>14
  <2> QED
    BY <1>15, <2>1 DEF AtAttribute
<1>17. CodeUpTo(cf, m.attributes, member'.code, Len(m.attributes) - LeftOver')
  BY <1>15 DEF CodeUpTo
<1>18. AtMember(cf, members, at)'
  BY <1>1, <1>3, <1>4, <1>7, <1>11, <1>13, <1>15, <1>16, <1>17 DEF AtMember
<1> QED
  BY <1>2, <1>11, <1>12, <1>13, <1>18, MemberKept

-----------------------------------------------------------------------------
(***************************************************************************)
(* Attributes: of a field, a method or the class, and inside a Code        *)
(* attribute.                                                              *)
(***************************************************************************)

\* The attributes that are read are those of the class or of a member.
Owner(cf, attributes, at) ==
    \/ table = "attributes" /\ attributes = cf.attributes /\ at = cf.attributesAt
    \/ \E members, places :
          /\ InMembers(cf, members, places)
          /\ \E k : /\ k = Len(members) - left
                    /\ attributes = members[k + 1].attributes
                    /\ at = members[k + 1].attributesAt

LEMMA Owned ==
    ASSUME NEW cf, Reader(cf), Mark(cf), inner # <<>>
    PROVE  \E attributes, at : Owner(cf, attributes, at)
<1>1. table = "attributes" \/ table \in {"fields", "methods"}
  BY DEF Reader, TypeInv, ReaderTypeOK
<1>2. CASE table = "attributes"
  BY <1>2 DEF Owner
<1>3. CASE table \in {"fields", "methods"}
  <2>1. PICK members, places : InMembers(cf, members, places)
    BY <1>3 DEF InMembers
  <2>2. PICK k, as, at : /\ k = Len(members) - left
                         /\ as = members[k + 1].attributes /\ at = members[k + 1].attributesAt
    OBVIOUS
  <2>3. Owner(cf, as, at)
    BY ONLY <2>1, <2>2 DEF Owner
  <2> QED
    BY <2>3
<1> QED
  BY <1>1, <1>2, <1>3

LEMMA OwnerLaidOut ==
    ASSUME NEW cf, Reader(cf), Mark(cf), inner # <<>>,
           NEW attributes, NEW at, Owner(cf, attributes, at)
    PROVE  /\ AttributesAt(cf, attributes, at) /\ AtAttribute(cf, attributes, at) /\ NamesRead(cf)
           /\ Len(attributes) \in Nat /\ LeftOver \in Nat /\ Len(inner) \in {1, 2}
           /\ Len(attributes) - LeftOver \in Nat
           /\ table = "attributes" => attributes = cf.attributes /\ NoCode(cf, attributes)
           /\ table # "attributes" => CodeUpTo(cf, attributes, member.code, Len(attributes) - LeftOver)
<1>1. /\ AttributesAt(cf, attributes, at) /\ AtAttribute(cf, attributes, at) /\ NamesRead(cf)
      /\ table = "attributes" => attributes = cf.attributes /\ NoCode(cf, attributes)
      /\ table # "attributes" => CodeUpTo(cf, attributes, member.code, Len(attributes) - LeftOver)
  <2>1. CASE table = "attributes" /\ attributes = cf.attributes /\ at = cf.attributesAt
    <3>1. AtAttributes(cf)
      BY <2>1 DEF Mark
    <3> QED
      BY <2>1, <3>1 DEF AtAttributes, MembersRead, HeadRead, Reader, ClassFile, ClassAttributesAt
  <2>2. ASSUME NEW members, NEW places, InMembers(cf, members, places),
               NEW k, k = Len(members) - left,
               attributes = members[k + 1].attributes, at = members[k + 1].attributesAt
        PROVE  /\ AttributesAt(cf, attributes, at) /\ AtAttribute(cf, attributes, at)
               /\ NamesRead(cf) /\ table # "attributes"
               /\ CodeUpTo(cf, attributes, member.code, Len(attributes) - LeftOver)
    <3>1. table # "attributes"
      BY <2>2 DEF InMembers
    <3>2. left > 0
      BY <3>1 DEF Reader, TypeInv, ReaderTypeOK
    <3>3. /\ AtMember(cf, members, places) /\ NamesRead(cf)
          /\ MemberAt(cf, members[k + 1], places[k + 1], places[k + 1 + 1])
      BY <2>2, <3>2, MembersLaidOut
    <3> QED
      BY <2>2, <3>1, <3>3 DEF AtMember, MemberAt
  <2> QED
    BY <2>1, <2>2 DEF Owner
<1>2. Len(attributes) \in Nat
  BY <1>1, LenProperties DEF AttributesAt, IsSequence
<1>3. inner \in Seq(Nat) /\ Len(inner) \in {1, 2} /\ LeftOver <= Len(attributes)
  BY <1>1 DEF AtAttribute, Reader, TypeInv, ReaderTypeOK
<1>4. LeftOver \in Nat
  <2>1. Len(inner) \in 1..Len(inner)
    BY <1>3
  <2> QED
    BY <1>3, <2>1, ElementOfSeq DEF LeftOver
<1> QED
  BY <1>1, <1>2, <1>3, <1>4

\* The attribute that is read next, of the member or the class ...
LEMMA OuterAttribute ==
    ASSUME NEW cf, Reader(cf), Mark(cf), MoreAttributes, Len(inner) = 1,
           NEW attributes, NEW at, Owner(cf, attributes, at),
           NEW k, k = Len(attributes) - LeftOver, NEW a, a = attributes[k + 1],
           NEW p, p = at[k + 1]
    PROVE  /\ k \in Nat /\ k + 1 \in 1..Len(attributes) /\ p \in Nat /\ CursorAt(cf, p)
           /\ LeftOver > 0 /\ LeftOver = inner[1]
           /\ IF IsCode(cf, a) THEN CodeAt(cf, a, p) ELSE PlainAt(cf, a.name, p)
           /\ at[k + 1 + 1] = p + AttributeSize(cf, a)
<1>1. /\ AttributesAt(cf, attributes, at) /\ AtAttribute(cf, attributes, at)
      /\ Len(attributes) \in Nat /\ LeftOver \in Nat /\ k \in Nat
  BY OwnerLaidOut DEF MoreAttributes
<1>2. LeftOver = inner[1] /\ LeftOver > 0
  BY DEF LeftOver, MoreAttributes
<1>3. k + 1 \in 1..Len(attributes)
  BY <1>1, <1>2
<1>4. p \in Nat
  <2>1. k + 1 \in 1..Len(attributes) + 1
    BY <1>1, <1>3
  <2> QED
    BY <1>1, <2>1 DEF AttributesAt, Positions
<1>5. CursorAt(cf, p)
  BY <1>1 DEF AtAttribute
<1> QED
  BY <1>1, <1>2, <1>3, <1>4, <1>5 DEF AttributesAt, Indices

\* ... or inside a Code attribute.
LEMMA InnerAttribute ==
    ASSUME NEW cf, Reader(cf), Mark(cf), inner # <<>>, Len(inner) = 2,
           NEW attributes, NEW at, Owner(cf, attributes, at),
           NEW j, j = Len(attributes) - LeftOver, NEW a, a = attributes[j],
           NEW i, i = Len(a.inner) - inner[1], NEW p, p = InnerAt(a, at[j]) + 3 * i
    PROVE  /\ j \in 1..Len(attributes) /\ IsCode(cf, a) /\ CodeAt(cf, a, at[j])
           /\ i \in Nat /\ inner[1] \in Nat /\ Len(a.inner) \in Nat
           /\ InnerAt(a, at[j]) \in Nat /\ p \in Nat /\ CursorAt(cf, p)
           /\ at[j + 1] = at[j] + AttributeSize(cf, a) /\ at[j] \in Nat
           /\ inner[1] > 0 => i + 1 \in 1..Len(a.inner) /\ PlainAt(cf, a.inner[i + 1], p)
<1>1. /\ AttributesAt(cf, attributes, at) /\ AtAttribute(cf, attributes, at)
      /\ Len(attributes) \in Nat /\ LeftOver \in Nat /\ j \in Nat
  BY OwnerLaidOut
<1>2. j >= 1 /\ IsCode(cf, a) /\ inner[1] <= Len(a.inner) /\ CursorAt(cf, p)
  BY <1>1 DEF AtAttribute
<1>3. j \in 1..Len(attributes) /\ j \in 1..Len(attributes) + 1
  BY <1>1, <1>2
<1>4. CodeAt(cf, a, at[j]) /\ at[j + 1] = at[j] + AttributeSize(cf, a) /\ at[j] \in Nat
  BY <1>1, <1>2, <1>3 DEF AttributesAt, Indices, Positions
<1>5. inner[1] \in Nat
  <2>1. 1 \in 1..Len(inner) /\ inner \in Seq(Nat)
    BY DEF Reader, TypeInv, ReaderTypeOK
  <2> QED
    BY <2>1, ElementOfSeq
<1>6. Len(a.inner) \in Nat
  BY <1>4, LenProperties DEF CodeAt, IsSequence
<1>7. i \in Nat
  BY <1>2, <1>5, <1>6
<1>8. InnerAt(a, at[j]) \in Nat
  <2>1. PICK h \in Nat : h = a.handlers
    BY <1>4 DEF CodeAt
  <2>2. PICK q \in Nat : q = at[j]
    BY <1>4
  <2>3. InnerAt(a, at[j]) = q + 8 + 4 * h
    BY <2>1, <2>2 DEF InnerAt
  <2> QED
    BY ONLY <2>3
<1>9. p \in Nat
  <2> DEFINE q == InnerAt(a, at[j])
  <2>1. q \in Nat /\ p = q + 3 * i
    BY <1>8
  <2> HIDE DEF q
  <2> QED
    BY ONLY <1>7, <2>1
<1>10. ASSUME inner[1] > 0
       PROVE  i + 1 \in 1..Len(a.inner) /\ PlainAt(cf, a.inner[i + 1], p)
  <2>1. PICK y \in Nat, n \in Nat : y = inner[1] /\ n = Len(a.inner)
    BY <1>5, <1>6
  <2>2. i = n - y /\ y > 0
    BY <1>10, <2>1
  <2>3. i + 1 \in 1..n /\ i + 1 - 1 = i
    BY ONLY <1>7, <2>1, <2>2
  <2>4. PICK x : x = i + 1
    OBVIOUS
  <2>5. x \in Indices(a.inner) /\ 3 * (x - 1) = 3 * i
    BY <2>1, <2>3, <2>4 DEF Indices
  <2>6. PlainAt(cf, a.inner[x], InnerAt(a, at[j]) + 3 * (x - 1))
    BY ONLY <1>4, <2>5 DEF CodeAt
  <2> QED
    BY <2>1, <2>3, <2>4, <2>5, <2>6
<1> QED
  BY <1>2, <1>3, <1>4, <1>5, <1>6, <1>7, <1>8, <1>9, <1>10

\* The reads of a Code attribute, one by one.
LEMMA CodeReadsOf ==
    ASSUME V(5) \in Nat, V(7) \in Nat
    PROVE  /\ Len(CodeReads) = 8 + 4 * V(7) /\ DOMAIN CodeReads = 1..8 + 4 * V(7)
           /\ CodeReads[1] = 2 /\ CodeReads[2] = 4 /\ CodeReads[3] = 2 /\ CodeReads[4] = 2
           /\ CodeReads[5] = 4 /\ CodeReads[6] = V(5) /\ CodeReads[7] = 2
           /\ \A k \in 8..8 + 4 * V(7) : CodeReads[k] = 2
<1> DEFINE head  == <<2, 4, 2, 2, 4, V(5), 2>>
           twos == [k \in 1..4 * V(7) + 1 |-> 2]
<1>1. /\ head \in Seq(Nat) /\ Len(head) = 7
      /\ head[1] = 2 /\ head[2] = 4 /\ head[3] = 2 /\ head[4] = 2 /\ head[5] = 4
      /\ head[6] = V(5) /\ head[7] = 2
  <2>1. head \in [1..7 -> Nat]
    OBVIOUS
  <2>2. head \in Seq(Nat)
    BY ONLY <2>1
  <2> QED
    BY <2>2
<1>2. twos \in Seq(Nat) /\ Len(twos) = 4 * V(7) + 1 /\ \A k \in 1..4 * V(7) + 1 : twos[k] = 2
  OBVIOUS
<1>3. CodeReads = head \o twos
  BY DEF CodeReads
<1>7. PICK h \in Nat : h = V(7)
  OBVIOUS
<1> HIDE DEF head, twos
<1>4. /\ head \o twos \in Seq(Nat) /\ Len(head \o twos) = Len(head) + Len(twos)
      /\ \A i \in 1..Len(head) : (head \o twos)[i] = head[i]
      /\ \A i \in 1..Len(twos) : (head \o twos)[Len(head) + i] = twos[i]
  <2>1. head \in Seq(Nat) /\ twos \in Seq(Nat)
    BY ONLY <1>1, <1>2
  <2> QED
    BY ONLY <2>1, Together
<1>5. Len(head \o twos) = 8 + 4 * h
  BY ONLY <1>1, <1>2, <1>4, <1>7
<1>6. DOMAIN (head \o twos) = 1..Len(head \o twos)
  BY ONLY <1>4, LenProperties
<1>8. ASSUME NEW k \in 8..8 + 4 * h PROVE (head \o twos)[k] = 2
  <2>1. PICK j : j = k - 7
    OBVIOUS
  <2>2. j \in 1..4 * h + 1 /\ 7 + j = k
    BY ONLY <1>7, <1>8, <2>1
  <2>3. (head \o twos)[7 + j] = twos[j] /\ twos[j] = 2
    BY ONLY <1>1, <1>2, <1>4, <1>7, <2>2
  <2> QED
    BY ONLY <2>2, <2>3
<1>9. \A i \in 1..7 : (head \o twos)[i] = head[i]
  BY ONLY <1>1, <1>4
<1> DEFINE reads == head \o twos
<1>10. /\ Len(reads) = 8 + 4 * h /\ DOMAIN reads = 1..8 + 4 * h
       /\ \A k \in 8..8 + 4 * h : reads[k] = 2
       /\ \A i \in {1, 2, 3, 4, 5, 6, 7} : reads[i] = head[i]
  <2>1. \A i \in {1, 2, 3, 4, 5, 6, 7} : i \in 1..7
    OBVIOUS
  <2>2. \A i \in {1, 2, 3, 4, 5, 6, 7} : reads[i] = head[i]
    BY ONLY <1>9, <2>1
  <2> QED
    BY ONLY <1>5, <1>6, <1>8, <2>2
<1> HIDE DEF reads
<1>11. /\ reads[1] = 2 /\ reads[2] = 4 /\ reads[3] = 2 /\ reads[4] = 2 /\ reads[5] = 4
       /\ reads[6] = V(5) /\ reads[7] = 2
  BY ONLY <1>1, <1>10
<1>12. CodeReads = reads
  BY <1>3 DEF reads
<1> QED
  BY ONLY <1>7, <1>10, <1>11, <1>12

\* Whatever attribute it is, its name and its length are read first.
LEMMA AttributeReads ==
    ASSUME RestInv, MoreAttributes, table # "header"
    PROVE  /\ 1 \in DOMAIN Expected /\ Expected[1] = 2 /\ 2 \in DOMAIN Expected /\ Expected[2] = 4
           /\ Attribute(ConstantValueName) => DOMAIN Expected = 1..3 /\ Expected[3] = 2
           /\ ~Attribute(CodeName) /\ ~Attribute(ConstantValueName) => DOMAIN Expected = 1..2
           /\ Attribute(CodeName) => Expected = CodeReads
<1>1. CASE Attribute(CodeName)
  <2>1. Expected = CodeReads /\ V(5) \in Nat /\ V(7) \in Nat /\ ~Attribute(ConstantValueName)
    BY <1>1, ExpectedIs, NumberRead, NamesAssumption DEF Attribute
  <2>2. 1 \in 1..8 + 4 * V(7) /\ 2 \in 1..8 + 4 * V(7)
    BY <2>1
  <2> QED
    BY <1>1, <2>1, <2>2, CodeReadsOf
<1>2. CASE Attribute(ConstantValueName)
  <2>1. Expected = <<2, 4, 2>> /\ ~Attribute(CodeName)
    BY <1>2, ExpectedIs, NamesAssumption DEF Attribute
  <2>2. /\ 1 \in DOMAIN Expected /\ Expected[1] = 2 /\ 2 \in DOMAIN Expected /\ Expected[2] = 4
        /\ DOMAIN Expected = 1..3 /\ Expected[3] = 2
    BY ONLY <2>1
  <2> QED
    BY ONLY <1>2, <2>1, <2>2
<1>3. CASE ~Attribute(CodeName) /\ ~Attribute(ConstantValueName)
  <2>1. Expected = <<2, 4>>
    BY <1>3, ExpectedIs
  <2> QED
    BY <1>3, <2>1
<1> QED
  BY <1>1, <1>2, <1>3

LEMMA NameSeen ==
    ASSUME NEW cf, Reader(cf), MoreAttributes, table # "header", NamesRead(cf),
           NEW p \in Nat, CursorAt(cf, p), NEW name, NameAt(cf, name, p), Whole \/ Reads
    PROVE  /\ V(1) = name /\ Get(V(1)).tag = Utf8 /\ Text(1) = TextOf(cf, name)
           /\ V(2) = cf.items[p + 2].v /\ ReadAt(1) /\ ReadAt(2)
           /\ \A n : Attribute(n) <=> TextOf(cf, name) = n
<1>1. /\ 1 \in DOMAIN Expected /\ Expected[1] = 2 /\ 2 \in DOMAIN Expected /\ Expected[2] = 4
  BY AttributeReads DEF Reader, TypeInv
<1>2. Number(cf, p + 1, 2) /\ cf.items[p + 1].v = name /\ Number(cf, p + 2, 4) /\ IsText(cf, name)
  BY DEF NameAt, Holds
<1>3. (Whole \/ 1 <= Len(rest)) /\ (Whole \/ 2 <= Len(rest))
  BY <1>1, Present
<1>4. 1 <= Len(rest) /\ Width(1) = 2 /\ rest[1].kind = "number" /\ V(1) = name
  BY <1>2, <1>3, Seen, 1 \in Nat \ {0}
<1>5. Width(2) = 4 /\ rest[2].kind = "number" /\ V(2) = cf.items[p + 2].v
  BY <1>2, <1>3, Seen, 2 \in Nat \ {0}
<1>6. Get(V(1)).tag = Utf8 /\ Text(1) = TextOf(cf, name)
  BY <1>2, <1>4, Resolved DEF Reader, NamesRead, Text
<1>7. ReadAs(1) = "number" /\ ReadAs(2) = "number"
  BY DEF ReadAs
<1>8. ReadAt(1) /\ ReadAt(2)
  BY <1>1, <1>4, <1>5, <1>7 DEF ReadAt
<1>9. Len(rest) > 0
  BY <1>4, RestLength DEF Reader, TypeInv
<1> QED
  BY <1>4, <1>5, <1>6, <1>8, <1>9 DEF Attribute

\* An attribute that is not code.
LEMMA PlainSeen ==
    ASSUME NEW cf, Reader(cf), MoreAttributes, table # "header", NamesRead(cf),
           NEW p \in Nat, CursorAt(cf, p), NEW name, PlainAt(cf, name, p), Whole \/ Reads
    PROVE  /\ Reads /\ Get(V(1)).tag = Utf8 /\ Text(1) = TextOf(cf, name) /\ ~Attribute(CodeName)
           /\ ~Attribute(ConstantValueName) => Width(3) \in {-1, V(2)}
           /\ p + 3 <= Len(cf.items)
<1>1. NameAt(cf, name, p) /\ TextOf(cf, name) # CodeName
  BY DEF PlainAt
<1>2. /\ V(1) = name /\ Get(V(1)).tag = Utf8 /\ Text(1) = TextOf(cf, name)
      /\ V(2) = cf.items[p + 2].v /\ ReadAt(1) /\ ReadAt(2)
      /\ \A n : Attribute(n) <=> TextOf(cf, name) = n
  BY <1>1, NameSeen
<1>3. ~Attribute(CodeName)
  BY <1>1, <1>2
<1>4. CASE TextOf(cf, name) = ConstantValueName
  <2>1. Number(cf, p + 3, 2)
    BY <1>4 DEF PlainAt
  <2>2. Attribute(ConstantValueName)
    BY <1>2, <1>4
  <2>3. DOMAIN Expected = 1..3 /\ Expected[3] = 2
    BY <2>2, AttributeReads DEF Reader, TypeInv
  <2>4. Whole \/ 3 <= Len(rest)
    BY <2>3, Present
  <2>5. Width(3) = 2 /\ rest[3].kind = "number"
    BY <2>1, <2>4, Seen, 3 \in Nat \ {0}
  <2>6. ReadAs(3) = "number"
    BY <1>3 DEF ReadAs, More, InTable, MoreAttributes
  <2>7. ReadAt(3)
    BY <2>3, <2>5, <2>6 DEF ReadAt
  <2>8. \A k \in 1..3 : k = 1 \/ k = 2 \/ k = 3
    OBVIOUS
  <2> QED
    BY <1>2, <1>3, <2>1, <2>2, <2>3, <2>7, <2>8 DEF Reads, Number
<1>5. CASE TextOf(cf, name) # ConstantValueName
  <2>1. p + 3 <= Len(cf.items) /\ cf.items[p + 3].w = cf.items[p + 2].v
    BY <1>5 DEF PlainAt
  <2>2. ~Attribute(ConstantValueName)
    BY <1>2, <1>5
  <2>3. DOMAIN Expected = 1..2
    BY <1>3, <2>2, AttributeReads DEF Reader, TypeInv
  <2>4. \A k \in 1..2 : k = 1 \/ k = 2
    OBVIOUS
  <2>5. Reads
    BY <1>2, <2>3, <2>4 DEF Reads
  <2>6. 3 <= Len(rest) => Width(3) = cf.items[p + 3].w
    BY <2>1, There, 3 \in Nat \ {0}
  <2>7. Width(3) \in {-1, V(2)}
    BY <1>2, <2>1, <2>6 DEF Width
  <2> QED
    BY <1>2, <1>3, <2>1, <2>5, <2>7
<1> QED
  BY <1>4, <1>5

\* The counts when an attribute is read.
LEMMA Fewer ==
    ASSUME NEW s \in Seq(Nat), Len(s) \in {1, 2}, Head(s) > 0, NEW t,
           t = <<Head(s) - 1>> \o Tail(s)
    PROVE  /\ t \in Seq(Nat) /\ t # <<>> /\ Len(t) = Len(s) /\ s[1] \in Nat /\ s[1] > 0
           /\ t[1] = s[1] - 1 /\ (Len(s) = 2 => t[2] = s[2])
<1> DEFINE u == <<Head(s) - 1>>
           v == Tail(s)
<1>1. s # <<>> /\ Head(s) = s[1] /\ Head(s) \in Nat
  BY HeadTailProperties
<1>2. v \in Seq(Nat) /\ Len(v) = Len(s) - 1 /\ (Len(s) = 2 => v[1] = s[2])
  BY <1>1, HeadTailProperties
<1>3. u \in Seq(Nat) /\ Len(u) = 1 /\ u[1] = s[1] - 1
  BY <1>1
<1>4. t = u \o v
  OBVIOUS
<1> HIDE DEF u, v
<1>5. u \in Seq(Nat) /\ v \in Seq(Nat)
  BY ONLY <1>2, <1>3
<1>6. /\ t \in Seq(Nat) /\ Len(t) = Len(u) + Len(v)
      /\ \A i \in 1..Len(u) : t[i] = u[i] /\ \A j \in 1..Len(v) : t[Len(u) + j] = v[j]
  BY ONLY <1>4, <1>5, Together
<1>7. Len(t) = Len(s)
  BY ONLY <1>2, <1>3, <1>6, Len(s) \in {1, 2}
<1>8. t[1] = s[1] - 1
  BY ONLY <1>3, <1>6
<1>9. Len(s) = 2 => t[2] = s[2]
  BY ONLY <1>2, <1>3, <1>6
<1> QED
  BY <1>1, <1>6, <1>7, <1>8, <1>9

LEMMA SameParts ==
    ASSUME NEW cf, UNCHANGED pool, class'.this = class.this, class'.super = class.super,
           class'.interfaces = class.interfaces, class'.fields = class.fields,
           class'.methods = class.methods
    PROVE  MembersRead(cf) => MembersRead(cf)'
<1>1. NamesRead(cf) => NamesRead(cf)'
  BY DEF NamesRead, PoolUpTo
<1>2. HeadRead(cf) => HeadRead(cf)'
  BY <1>1 DEF HeadRead, InterfacesUpTo
<1>3. \A k : FieldsUpTo(cf, k) => FieldsUpTo(cf, k)'
  BY DEF FieldsUpTo
<1>4. \A k : MethodsUpTo(cf, k) => MethodsUpTo(cf, k)'
  BY DEF MethodsUpTo
<1> QED
  BY <1>2, <1>3, <1>4 DEF MembersRead

\* A step from an attribute to an attribute.
LEMMA AttributeKept ==
    ASSUME NEW cf, Reader(cf), Mark(cf), inner # <<>>,
           NEW attributes, NEW at, Owner(cf, attributes, at),
           UNCHANGED <<table, left, pool, file, outcome>>,
           AtAttribute(cf, attributes, at)',
           DOMAIN member' = MemberParts, member'.name = member.name,
           member'.text = member.text, member'.fd = member.fd,
           IF table = "attributes"
           THEN class' = [class EXCEPT
                    !.attributes = NamesUpTo(cf, attributes, Len(attributes) - LeftOver')]
           ELSE class' = class,
           table # "attributes" =>
              CodeUpTo(cf, attributes, member'.code, Len(attributes) - LeftOver')
    PROVE  GoesOn(cf)
<1>1. CASE table = "attributes" /\ attributes = cf.attributes /\ at = cf.attributesAt
  <2>1. AtAttributes(cf) /\ DOMAIN class = ClassParts
    BY <1>1 DEF Mark
  <2>2. /\ DOMAIN class' = ClassParts /\ class'.this = class.this /\ class'.super = class.super
        /\ class'.interfaces = class.interfaces /\ class'.fields = class.fields
        /\ class'.methods = class.methods
        /\ class'.attributes = NamesUpTo(cf, attributes, Len(attributes) - LeftOver')
    BY <1>1, <2>1 DEF ClassParts
  <2>3. MembersRead(cf)'
    BY <2>1, <2>2, SameParts DEF AtAttributes
  <2>4. AtAttributes(cf)'
    BY <1>1, <2>2, <2>3 DEF AtAttributes
  <2> QED
    BY <1>1, <2>2, <2>4 DEF GoesOn, Mark, Reader, Reading
<1>2. ASSUME NEW members, NEW places, InMembers(cf, members, places),
             NEW k, k = Len(members) - left,
             attributes = members[k + 1].attributes, at = members[k + 1].attributesAt
      PROVE  GoesOn(cf)
  <2>1. table # "attributes"
    BY <1>2 DEF InMembers
  <2>2. left > 0 /\ left' = left /\ inner' # <<>> /\ table' = table
    BY <2>1 DEF Reader, TypeInv, ReaderTypeOK, AtAttribute
  <2>3. AtMember(cf, members, places)
    BY <1>2, <2>2, MembersLaidOut
  <2>4. AtMember(cf, members, places)'
    BY <1>2, <2>1, <2>2, <2>3 DEF AtMember
  <2>5. UNCHANGED <<table, left, pool, class, file, outcome>>
    BY <2>1
  <2> QED
    BY <1>2, <2>4, <2>5, MemberKept
<1> QED
  BY <1>1, <1>2 DEF Owner

LEMMA PlainStep ==
    ASSUME NEW cf, Reader(cf), Mark(cf), SkipAttribute \/ ReadConstantValue
    PROVE  GoesOn(cf)
<1>1. /\ MoreAttributes /\ Reads /\ inner # <<>> /\ ~Attribute(CodeName) /\ table # "header"
      /\ inner \in Seq(Nat) /\ Head(inner) > 0
  BY NamesAssumption
     DEF SkipAttribute, ReadConstantValue, Attribute, MoreAttributes, Reader, TypeInv, ReaderTypeOK
<1>2. PICK attributes, at : Owner(cf, attributes, at)
  BY <1>1, Owned
<1>3. /\ NamesRead(cf) /\ Len(inner) \in {1, 2} /\ Len(attributes) \in Nat /\ LeftOver \in Nat
      /\ table = "attributes" => attributes = cf.attributes
      /\ table # "attributes" => CodeUpTo(cf, attributes, member.code, Len(attributes) - LeftOver)
  BY <1>1, <1>2, OwnerLaidOut
<1>4. DOMAIN class = ClassParts /\ DOMAIN member = MemberParts
  BY DEF Mark
\* What the step does at an attribute that is not code.
<1>5. ASSUME NEW p \in Nat, NEW name, CursorAt(cf, p), PlainAt(cf, name, p)
      PROVE  /\ AddAttribute /\ Text(1) = TextOf(cf, name) /\ CursorAt(cf, p + 3)'
             /\ inner' = <<Head(inner) - 1>> \o Tail(inner)
             /\ UNCHANGED <<table, left, pool, file, outcome>>
  <2>1. /\ Get(V(1)).tag = Utf8 /\ Text(1) = TextOf(cf, name)
        /\ ~Attribute(ConstantValueName) => Width(3) \in {-1, V(2)}
        /\ p + 3 <= Len(cf.items)
    BY <1>1, <1>3, <1>5, PlainSeen
  <2>2. AddAttribute /\ AttributeRead /\ Pass(3) /\ UNCHANGED <<table, left, pool>>
    BY <2>1 DEF SkipAttribute, ReadConstantValue
  <2>3. CursorAt(cf, p + 3)' /\ outcome' = outcome /\ file' = file
    BY <1>5, <2>1, <2>2, Moved, 3 \in Nat
  <2> QED
    BY <2>1, <2>2, <2>3 DEF AttributeRead
<1>6. CASE Len(inner) = 1
  <2>1. PICK k : k = Len(attributes) - LeftOver
    OBVIOUS
  <2>2. PICK a : a = attributes[k + 1]
    OBVIOUS
  <2>3. PICK p : p = at[k + 1]
    OBVIOUS
  <2>4. /\ k \in Nat /\ k + 1 \in 1..Len(attributes) /\ p \in Nat /\ CursorAt(cf, p)
        /\ LeftOver > 0 /\ LeftOver = inner[1]
        /\ IF IsCode(cf, a) THEN CodeAt(cf, a, p) ELSE PlainAt(cf, a.name, p)
        /\ at[k + 1 + 1] = p + AttributeSize(cf, a)
    BY <1>1, <1>2, <1>6, <2>1, <2>2, <2>3, OuterAttribute
  <2>5. ~IsCode(cf, a)
    <3>1. ASSUME IsCode(cf, a) PROVE FALSE
      <4>1. NameAt(cf, a.name, p)
        BY <2>4, <3>1 DEF CodeAt
      <4>2. \A n : Attribute(n) <=> TextOf(cf, a.name) = n
        BY <1>1, <1>3, <2>4, <4>1, NameSeen
      <4> QED
        BY <1>1, <3>1, <4>2 DEF IsCode
    <3> QED
      BY <3>1
  <2>6. /\ AddAttribute /\ Text(1) = TextOf(cf, a.name) /\ CursorAt(cf, p + 3)'
        /\ inner' = <<Head(inner) - 1>> \o Tail(inner)
        /\ UNCHANGED <<table, left, pool, file, outcome>>
    BY <1>5, <2>4, <2>5
  <2>7. inner' # <<>> /\ Len(inner') = 1 /\ inner'[1] = inner[1] - 1
    BY <1>1, <1>3, <1>6, <2>6, Fewer
  <2>8. LeftOver' = LeftOver - 1
    BY <2>4, <2>7 DEF LeftOver
  <2>9. Len(attributes) - LeftOver' = k + 1 /\ LeftOver' <= Len(attributes)
    <3>1. PICK n \in Nat, y \in Nat : n = Len(attributes) /\ y = LeftOver
      BY <1>3
    <3>2. y > 0 /\ k = n - y /\ k \in Nat /\ LeftOver' = y - 1
      BY <2>1, <2>4, <2>8, <3>1
    <3>3. n - (y - 1) = k + 1 /\ y - 1 <= n
      BY ONLY <3>1, <3>2
    <3> QED
      BY <3>1, <3>2, <3>3
  <2>10. at[k + 1 + 1] = p + 3
    BY <2>4, <2>5 DEF AttributeSize
  <2>11. AtAttribute(cf, attributes, at)'
    BY <2>6, <2>7, <2>9, <2>10 DEF AtAttribute
  <2>12. CASE table = "attributes"
    <3>1. class' = [class EXCEPT !.attributes = class.attributes \cup {TextOf(cf, a.name)}]
      BY <1>6, <2>6, <2>12 DEF AddAttribute
    <3>2. member' = member
      BY <2>6, <2>12 DEF AddAttribute
    <3>3. class.attributes = NamesUpTo(cf, attributes, k)
      BY <1>3, <2>1, <2>12 DEF Mark, AtAttributes
    <3>4. NamesUpTo(cf, attributes, k + 1) = NamesUpTo(cf, attributes, k) \cup {TextOf(cf, a.name)}
      <4>1. 1..k + 1 = (1..k) \cup {k + 1}
        BY <2>4
      <4> QED
        BY <2>2, <4>1 DEF NamesUpTo
    <3>5. class' = [class EXCEPT !.attributes = NamesUpTo(cf, attributes, Len(attributes) - LeftOver')]
      BY <2>9, <3>1, <3>3, <3>4
    <3> QED
      BY <1>1, <1>2, <1>4, <2>6, <2>11, <2>12, <3>2, <3>5, AttributeKept
  <2>13. CASE table # "attributes"
    <3>1. class' = class /\ member' = [member EXCEPT !.attributes = @ \cup {Text(1)}]
      BY <1>6, <2>6, <2>13 DEF AddAttribute
    <3>2. /\ DOMAIN member' = MemberParts /\ member'.name = member.name /\ member'.text = member.text
          /\ member'.fd = member.fd /\ member'.code = member.code
      BY <1>4, <3>1 DEF MemberParts
    <3>3. CodeUpTo(cf, attributes, member'.code, Len(attributes) - LeftOver')
      <4>1. CodeUpTo(cf, attributes, member'.code, k)
        BY <1>3, <2>1, <2>13, <3>2
      <4>2. \A i \in 1..k + 1 : i \in 1..k \/ i = k + 1
        BY <2>4
      <4> QED
        BY <2>2, <2>5, <2>9, <4>1, <4>2 DEF CodeUpTo
    <3> QED
      BY <1>1, <1>2, <2>6, <2>11, <2>13, <3>1, <3>2, <3>3, AttributeKept
  <2> QED
    BY <2>12, <2>13
<1>7. CASE Len(inner) = 2
  <2>1. PICK j : j = Len(attributes) - LeftOver
    OBVIOUS
  <2>2. PICK a : a = attributes[j]
    OBVIOUS
  <2>3. PICK i : i = Len(a.inner) - inner[1]
    OBVIOUS
  <2>4. PICK p : p = InnerAt(a, at[j]) + 3 * i
    OBVIOUS
  <2>5. /\ j \in 1..Len(attributes) /\ IsCode(cf, a) /\ i \in Nat /\ Len(a.inner) \in Nat
        /\ InnerAt(a, at[j]) \in Nat /\ p \in Nat /\ CursorAt(cf, p) /\ inner[1] \in Nat
        /\ inner[1] > 0 => PlainAt(cf, a.inner[i + 1], p)
    <3>1. inner # <<>> /\ Len(inner) = 2 /\ Reader(cf) /\ Mark(cf) /\ Owner(cf, attributes, at)
      BY <1>1, <1>2, <1>7
    <3>2. /\ j \in 1..Len(attributes) /\ IsCode(cf, a) /\ CodeAt(cf, a, at[j])
          /\ i \in Nat /\ inner[1] \in Nat /\ Len(a.inner) \in Nat
          /\ InnerAt(a, at[j]) \in Nat /\ p \in Nat /\ CursorAt(cf, p)
          /\ at[j + 1] = at[j] + AttributeSize(cf, a) /\ at[j] \in Nat
          /\ inner[1] > 0 => i + 1 \in 1..Len(a.inner) /\ PlainAt(cf, a.inner[i + 1], p)
      BY ONLY <3>1, <2>1, <2>2, <2>3, <2>4, InnerAttribute, SMTT(60)
    <3> QED
      BY ONLY <3>2
  <2>6. inner[1] > 0
    BY <1>1, <1>3, HeadTailProperties
  <2>7. /\ AddAttribute /\ CursorAt(cf, p + 3)' /\ inner' = <<Head(inner) - 1>> \o Tail(inner)
        /\ UNCHANGED <<table, left, pool, file, outcome>>
    BY <1>5, <2>5, <2>6
  <2>8. inner' # <<>> /\ Len(inner') = 2 /\ inner'[1] = inner[1] - 1 /\ inner'[2] = inner[2]
    BY <1>1, <1>3, <1>7, <2>7, Fewer
  <2>9. LeftOver' = LeftOver
    BY <1>7, <2>8 DEF LeftOver
  <2>10. PICK q \in Nat, n \in Nat, y \in Nat : q = InnerAt(a, at[j]) /\ n = Len(a.inner) /\ y = inner[1]
    BY <2>5
  <2>11. q + 3 * (n - (y - 1)) = p + 3 /\ y - 1 <= n
    <3>1. i = n - y /\ p = q + 3 * i /\ y > 0 /\ i \in Nat /\ n \in Nat /\ y \in Nat /\ q \in Nat
      BY <2>3, <2>4, <2>5, <2>6, <2>10
    <3> QED
      BY ONLY <3>1
  <2>12. CursorAt(cf, InnerAt(a, at[j]) + 3 * (Len(a.inner) - inner[1]))' /\ inner'[1] <= Len(a.inner)
    <3>1. PICK z : z = y - 1
      OBVIOUS
    <3>2. inner'[1] = z
      BY <2>8, <2>10, <3>1
    <3>3. InnerAt(a, at[j]) + 3 * (Len(a.inner) - z) = p + 3 /\ z <= Len(a.inner)
      BY <2>10, <2>11, <3>1
    <3> QED
      BY <2>7, <3>2, <3>3
  <2>13. AtAttribute(cf, attributes, at)'
    <3>0. PICK all \in Nat, over \in Nat : all = Len(attributes) /\ over = LeftOver
      BY <1>3
    <3>1. Len(attributes) - LeftOver' = j /\ LeftOver' <= Len(attributes) /\ j >= 1
      BY <2>1, <2>5, <2>9, <3>0
    <3> QED
      BY <2>2, <2>5, <2>8, <2>12, <3>1 DEF AtAttribute
  <2>14. member' = member /\ class' = class
    BY <1>7, <2>7 DEF AddAttribute
  <2>15. table = "attributes" => class' = [class EXCEPT
            !.attributes = NamesUpTo(cf, attributes, Len(attributes) - LeftOver')]
    <3>1. table = "attributes" => NoCode(cf, attributes)
      BY <1>1, <1>2, OwnerLaidOut
    <3> QED
      BY <2>2, <2>5, <3>1 DEF NoCode, Indices
  <2>16. table # "attributes" =>
            CodeUpTo(cf, attributes, member'.code, Len(attributes) - LeftOver')
    BY <1>3, <2>9, <2>14
  <2> QED
    BY <1>1, <1>2, <1>4, <2>7, <2>13, <2>14, <2>15, <2>16, AttributeKept
<1> QED
  BY <1>3, <1>6, <1>7

\* A Code attribute, up to the attributes inside it.
LEMMA CodeSeen ==
    ASSUME NEW cf, Reader(cf), MoreAttributes, table # "header", NamesRead(cf),
           NEW p \in Nat, CursorAt(cf, p), NEW a, IsCode(cf, a), CodeAt(cf, a, p), Whole \/ Reads
    PROVE  /\ Reads /\ Attribute(CodeName) /\ Block(6) = a.code
           /\ Len(Expected) \in Nat /\ V(Len(Expected)) = Len(a.inner)
           /\ InnerAt(a, p) = p + Len(Expected) /\ InnerAt(a, p) <= Len(cf.items)
<1>1. ReadAt(1) /\ ReadAt(2) /\ Attribute(CodeName)
  <2>1. NameAt(cf, a.name, p)
    BY DEF CodeAt
  <2> QED
    BY <2>1, NameSeen DEF IsCode
<1>2. Expected = CodeReads /\ V(5) \in Nat /\ V(7) \in Nat
  BY <1>1, AttributeReads, NumberRead DEF Reader, TypeInv
<1>3. PICK h \in Nat : h = V(7)
  BY <1>2
<1>4. /\ Len(Expected) = 8 + 4 * h /\ DOMAIN Expected = 1..8 + 4 * h
      /\ Expected[3] = 2 /\ Expected[4] = 2 /\ Expected[5] = 4 /\ Expected[6] = V(5)
      /\ Expected[7] = 2 /\ \A k \in 8..8 + 4 * h : Expected[k] = 2
  BY <1>2, <1>3, CodeReadsOf
<1>5. \A k \in DOMAIN Expected : Expected[k] \in Nat => Whole \/ k <= Len(rest)
  BY Present
<1>6. /\ \A k \in Nat \ {0} : k # 6 => ReadAs(k) = "number"
      /\ ReadAs(6) = "bytes"
  BY <1>1 DEF ReadAs, More, InTable, MoreAttributes
<1>7. {3, 4, 5, 6, 7} \subseteq DOMAIN Expected
  BY ONLY <1>4
\* A number where one is expected.
<1>8. ASSUME NEW k \in DOMAIN Expected, k # 6, Number(cf, p + k, Expected[k]), Expected[k] \in Nat
      PROVE  ReadAt(k) /\ V(k) = cf.items[p + k].v
  <2>1. k \in Nat \ {0}
    BY <1>3, <1>4, <1>8
  <2>2. Width(k) = Expected[k] /\ rest[k].kind = "number" /\ V(k) = cf.items[p + k].v
    BY <1>5, <1>8, <2>1, Seen
  <2> QED
    BY <1>6, <1>8, <2>1, <2>2 DEF ReadAt
<1>9. /\ Number(cf, p + 3, 2) /\ Number(cf, p + 4, 2) /\ Holds(cf, p + 5, 4, Len(a.code))
      /\ BlockAt(cf, p + 6, a.code, "bytes") /\ a.handlers \in Nat
      /\ Holds(cf, p + 7, 2, a.handlers)
      /\ \A j \in 1..4 * a.handlers : Number(cf, p + 7 + j, 2)
      /\ Holds(cf, InnerAt(a, p), 2, Len(a.inner))
  BY DEF CodeAt
<1>20. \A k \in {3, 4, 5, 7} :
         /\ k \in DOMAIN Expected /\ k # 6 /\ Expected[k] \in Nat
         /\ Number(cf, p + k, Expected[k])
  <2>1. /\ Number(cf, p + 3, Expected[3]) /\ Number(cf, p + 4, Expected[4])
        /\ Number(cf, p + 5, Expected[5]) /\ Number(cf, p + 7, Expected[7])
    BY <1>4, <1>9 DEF Holds
  <2> QED
    BY ONLY <1>4, <1>7, <2>1
<1>21. \A k \in {3, 4, 5, 7} : ReadAt(k) /\ V(k) = cf.items[p + k].v
  BY ONLY <1>8, <1>20
<1>10. ReadAt(3) /\ ReadAt(4) /\ ReadAt(5) /\ V(5) = Len(a.code)
  <2>1. ReadAt(3) /\ ReadAt(4) /\ ReadAt(5) /\ V(5) = cf.items[p + 5].v
    BY ONLY <1>21
  <2> QED
    BY ONLY <1>9, <2>1 DEF Holds
<1>11. ReadAt(7) /\ h = a.handlers
  <2>1. ReadAt(7) /\ V(7) = cf.items[p + 7].v
    BY ONLY <1>21
  <2> QED
    BY ONLY <1>3, <1>9, <2>1 DEF Holds
<1>12. ReadAt(6) /\ Block(6) = a.code
  <2>1. Whole \/ 6 <= Len(rest)
    BY <1>2, <1>4, <1>5, <1>7
  <2>2. p + 6 <= Len(cf.items) /\ cf.items[p + 6] = [w |-> Len(a.code), v |-> a.code, kind |-> "bytes"]
    BY <1>9 DEF BlockAt
  <2>3. rest[6] = cf.items[p + 6] /\ Width(6) = cf.items[p + 6].w
    BY <2>1, <2>2, There, 6 \in Nat \ {0}
  <2> QED
    BY <1>4, <1>6, <1>10, <2>2, <2>3 DEF ReadAt, Block
<1>13. InnerAt(a, p) = p + (8 + 4 * h)
  <2>1. InnerAt(a, p) = p + 8 + 4 * h
    BY <1>11 DEF InnerAt
  <2> QED
    BY ONLY <2>1, <1>3, p \in Nat
<1>14. ASSUME NEW k \in 8..8 + 4 * h
       PROVE  Number(cf, p + k, 2)
  <2>1. CASE k = 8 + 4 * h
    BY <1>9, <1>13, <2>1 DEF Holds
  <2>2. CASE k # 8 + 4 * h
    <3>1. PICK j : j = k - 7
      OBVIOUS
    <3>2. j \in 1..4 * h /\ p + 7 + j = p + k
      BY ONLY <1>3, <1>14, <2>2, <3>1, p \in Nat
    <3> QED
      BY <1>9, <1>11, <3>2
  <2> QED
    BY <2>1, <2>2
<1>15. \A k \in 8..8 + 4 * h : k \in DOMAIN Expected /\ k # 6
  BY ONLY <1>3, <1>4
<1>16. ASSUME NEW k \in 8..8 + 4 * h
       PROVE  ReadAt(k) /\ V(k) = cf.items[p + k].v
  <2>1. k \in DOMAIN Expected /\ k # 6 /\ Expected[k] = 2 /\ Expected[k] \in Nat
    BY <1>4, <1>15
  <2>2. Number(cf, p + k, Expected[k])
    BY <1>14, <2>1
  <2> QED
    BY ONLY <1>8, <2>1, <2>2
<1>17. Reads
  <2>1. \A k \in 1..8 + 4 * h : k \in {1, 2, 3, 4, 5, 6, 7} \/ k \in 8..8 + 4 * h
    BY ONLY <1>3
  <2> QED
    BY <1>1, <1>4, <1>10, <1>11, <1>12, <1>16, <2>1 DEF Reads
<1>18. V(8 + 4 * h) = Len(a.inner)
  <2>1. 8 + 4 * h \in 8..8 + 4 * h
    BY ONLY <1>3
  <2> QED
    BY <1>9, <1>13, <1>16, <2>1 DEF Holds
<1>19. InnerAt(a, p) <= Len(cf.items)
  BY <1>9 DEF Holds, Number
<1> QED
  BY <1>1, <1>3, <1>4, <1>12, <1>13, <1>17, <1>18, <1>19

\* The count of the attributes inside a Code attribute in front of the others.
LEMMA Deeper ==
    ASSUME NEW n \in Nat, NEW k \in Nat, NEW w \in Seq(Nat), Len(w) = 0, NEW t,
           t = <<n>> \o <<k>> \o w
    PROVE  t # <<>> /\ Len(t) = 2 /\ t[1] = n /\ t[2] = k
<1> DEFINE u == <<n>>
           v == <<k>>
<1>2. u \in Seq(Nat) /\ Len(u) = 1 /\ u[1] = n /\ v \in Seq(Nat) /\ Len(v) = 1 /\ v[1] = k
  OBVIOUS
<1>3. w \in Seq(Nat) /\ Len(w) = 0 /\ t = (u \o v) \o w
  OBVIOUS
<1> HIDE DEF u, v
<1>4. u \in Seq(Nat) /\ v \in Seq(Nat) /\ w \in Seq(Nat)
  BY ONLY <1>2, <1>3
<1>5. /\ u \o v \in Seq(Nat) /\ Len(u \o v) = Len(u) + Len(v)
      /\ \A i \in 1..Len(u) : (u \o v)[i] = u[i]
      /\ \A i \in 1..Len(v) : (u \o v)[Len(u) + i] = v[i]
  BY ONLY <1>4, Together
<1> DEFINE x == u \o v
<1>6. x \in Seq(Nat) /\ Len(x) = 2 /\ x[1] = n /\ x[2] = k
  <2>1. 1 \in 1..Len(u) /\ 1 \in 1..Len(v) /\ Len(u) + 1 = 2
    BY ONLY <1>2
  <2> QED
    BY ONLY <1>2, <1>5, <2>1
<1>7. t = x \o w
  BY ONLY <1>3
<1> HIDE DEF x
<1>9. x \in Seq(Nat) /\ w \in Seq(Nat)
  BY ONLY <1>4, <1>6
<1>8. /\ t \in Seq(Nat) /\ Len(t) = Len(x) + Len(w) /\ \A i \in 1..Len(x) : t[i] = x[i]
  BY ONLY <1>7, <1>9, Together
<1> QED
  BY ONLY <1>3, <1>6, <1>8

\* Code is found in methods only, and once in each.
LEMMA CodeOfMethod ==
    ASSUME NEW cf, Reader(cf), Mark(cf), inner # <<>>, NEW attributes, NEW at,
           Owner(cf, attributes, at), table # "attributes",
           NEW i \in 1..Len(attributes), IsCode(cf, attributes[i])
    PROVE  /\ \A j \in 1..Len(attributes) : IsCode(cf, attributes[j]) => j = i
           /\ \E k \in Indices(cf.methods) : attributes[i] \in CodesOf(cf, cf.methods[k])
<1>1. PICK members, places : /\ InMembers(cf, members, places)
                             /\ \E k : /\ k = Len(members) - left
                                       /\ attributes = members[k + 1].attributes
  BY DEF Owner
<1>2. PICK k : k = Len(members) - left /\ attributes = members[k + 1].attributes
  BY <1>1
<1>3. left > 0
  BY DEF Reader, TypeInv, ReaderTypeOK
<1>4. k + 1 \in 1..Len(members)
  BY <1>1, <1>2, <1>3, MembersLaidOut
<1>5. table = "methods" /\ members = cf.methods
  <2>1. CASE table = "fields" /\ members = cf.fields
    <3>1. NoCode(cf, attributes)
      BY <1>2, <1>4, <2>1 DEF Reader, ClassFile, FieldsAt, Indices
    <3> QED
      BY <3>1 DEF NoCode, Indices
  <2> QED
    BY <1>1, <2>1 DEF InMembers
<1>6. \A j \in 1..Len(attributes) : IsCode(cf, attributes[j]) => j = i
  <2>1. k + 1 \in Indices(cf.methods) /\ attributes = cf.methods[k + 1].attributes
    BY <1>2, <1>4, <1>5 DEF Indices
  <2>2. \A j, l \in Indices(attributes) :
           IsCode(cf, attributes[j]) /\ IsCode(cf, attributes[l]) => j = l
    BY <2>1 DEF Reader, ClassFile, MethodsAt
  <2> QED
    BY <2>2 DEF Indices
<1>7. attributes[i] \in CodesOf(cf, cf.methods[k + 1])
  <2>1. attributes[i] \in ToSet(attributes)
    <3>1. attributes \in Seq(ToSet(attributes))
      BY OwnerLaidOut DEF AttributesAt, IsSequence
    <3> QED
      BY <3>1, ElementOfSeq
  <2> QED
    BY <1>2, <1>5, <2>1 DEF CodesOf
<1> QED
  BY <1>4, <1>5, <1>6, <1>7 DEF Indices

Undecoded(cf) ==
    \E k \in Indices(cf.methods) : \E a \in CodesOf(cf, cf.methods[k]) :
        B!Decode(a.code).is # "value"

LEMMA CodeStep ==
    ASSUME NEW cf, Reader(cf), Mark(cf), ReadCode
    PROVE  GoesOn(cf) \/ (Undecoded(cf) /\ \E how \in {"error", "panic"} : Stop(how))
<1>1. /\ MoreAttributes /\ Reads /\ inner # <<>> /\ Attribute(CodeName) /\ table # "header"
      /\ inner \in Seq(Nat) /\ Head(inner) > 0
  BY DEF ReadCode, Attribute, MoreAttributes, Reader, TypeInv, ReaderTypeOK
<1>2. PICK attributes, at : Owner(cf, attributes, at)
  BY <1>1, Owned
<1>3. /\ NamesRead(cf) /\ Len(inner) \in {1, 2} /\ Len(attributes) \in Nat /\ LeftOver \in Nat
      /\ table = "attributes" => NoCode(cf, attributes)
      /\ table # "attributes" => CodeUpTo(cf, attributes, member.code, Len(attributes) - LeftOver)
  BY <1>1, <1>2, OwnerLaidOut
<1>4. DOMAIN member = MemberParts
  BY DEF Mark
\* What is plain is not code.
<1>5. ASSUME NEW p \in Nat, NEW name, CursorAt(cf, p), PlainAt(cf, name, p)
      PROVE  FALSE
  BY <1>1, <1>3, <1>5, PlainSeen
<1>6. Len(inner) = 1
  <2>1. CASE Len(inner) = 2
    <3>1. PICK j : j = Len(attributes) - LeftOver
      OBVIOUS
    <3>2. PICK a : a = attributes[j]
      OBVIOUS
    <3>3. PICK i : i = Len(a.inner) - inner[1]
      OBVIOUS
    <3>4. PICK p : p = InnerAt(a, at[j]) + 3 * i
      OBVIOUS
    <3>5. inner # <<>> /\ Len(inner) = 2 /\ Reader(cf) /\ Mark(cf) /\ Owner(cf, attributes, at)
      BY <1>1, <1>2, <2>1
    <3>6. /\ j \in 1..Len(attributes) /\ IsCode(cf, a) /\ CodeAt(cf, a, at[j])
          /\ i \in Nat /\ inner[1] \in Nat /\ Len(a.inner) \in Nat
          /\ InnerAt(a, at[j]) \in Nat /\ p \in Nat /\ CursorAt(cf, p)
          /\ at[j + 1] = at[j] + AttributeSize(cf, a) /\ at[j] \in Nat
          /\ inner[1] > 0 => i + 1 \in 1..Len(a.inner) /\ PlainAt(cf, a.inner[i + 1], p)
      BY ONLY <3>1, <3>2, <3>3, <3>4, <3>5, InnerAttribute, SMTT(60)
    <3>7. inner[1] > 0
      BY <1>1, <2>1, HeadTailProperties
    <3> QED
      BY <1>5, <3>6, <3>7
  <2> QED
    BY <1>3, <2>1
<1>7. PICK k : k = Len(attributes) - LeftOver
  OBVIOUS
<1>8. PICK a : a = attributes[k + 1]
  OBVIOUS
<1>9. PICK p : p = at[k + 1]
  OBVIOUS
<1>10. /\ k \in Nat /\ k + 1 \in 1..Len(attributes) /\ p \in Nat /\ CursorAt(cf, p)
       /\ LeftOver > 0 /\ LeftOver = inner[1]
       /\ IF IsCode(cf, a) THEN CodeAt(cf, a, p) ELSE PlainAt(cf, a.name, p)
       /\ at[k + 1 + 1] = p + AttributeSize(cf, a)
  BY <1>1, <1>2, <1>6, <1>7, <1>8, <1>9, OuterAttribute
<1>11. IsCode(cf, a) /\ CodeAt(cf, a, p)
  BY <1>5, <1>10
<1>12. table # "attributes"
  BY <1>3, <1>8, <1>10, <1>11 DEF NoCode, Indices
<1>13. PICK n : n = Len(Expected)
  OBVIOUS
<1>14. /\ Block(6) = a.code /\ n \in Nat /\ V(n) = Len(a.inner)
       /\ InnerAt(a, p) = p + n /\ InnerAt(a, p) <= Len(cf.items)
  BY <1>1, <1>3, <1>10, <1>11, <1>13, CodeSeen
<1>15. Len(a.inner) \in Nat
  BY <1>11, LenProperties DEF CodeAt, IsSequence
<1>16. a.code \in Seq(Byte)
  BY <1>11 DEF CodeAt, Byte
<1>17. CASE B!Decode(a.code).is = "value"
  <2>1. /\ class' = class /\ Pass(n) /\ UNCHANGED <<table, left, pool>>
        /\ member' = [member EXCEPT !.attributes = @ \cup {CodeName}, !.code = B!Decode(a.code).val]
        /\ inner' = <<V(n)>> \o <<Head(inner) - 1>> \o Tail(inner)
    BY <1>13, <1>14, <1>17 DEF ReadCode
  <2>2. CursorAt(cf, p + n)' /\ outcome' = outcome /\ file' = file
    BY <1>10, <1>14, <2>1, Moved
  <2>3. inner' # <<>> /\ Len(inner') = 2 /\ inner'[1] = Len(a.inner) /\ inner'[2] = inner[1] - 1
    <3>1. V(n) \in Nat /\ Len(a.inner) = V(n)
      BY <1>14, <1>15
    <3>2. PICK y \in Nat : y = V(n)
      BY ONLY <3>1
    <3>3. PICK x \in Nat, w \in Seq(Nat) :
             x = Head(inner) - 1 /\ w = Tail(inner) /\ x = inner[1] - 1 /\ Len(w) = 0
      <4>1. /\ Head(inner) = inner[1] /\ Head(inner) \in Nat
            /\ Tail(inner) \in Seq(Nat) /\ Len(Tail(inner)) = Len(inner) - 1
        BY ONLY <1>1, HeadTailProperties
      <4>2. Head(inner) - 1 \in Nat /\ Len(Tail(inner)) = 0
        BY ONLY <1>1, <1>6, <4>1
      <4> QED
        BY ONLY <4>1, <4>2
    <3>4. inner' = <<y>> \o <<x>> \o w
      BY <2>1, <3>2, <3>3
    <3>5. inner' # <<>> /\ Len(inner') = 2 /\ inner'[1] = y /\ inner'[2] = x
      BY ONLY <3>3, <3>4, Deeper
    <3> QED
      BY ONLY <3>1, <3>2, <3>3, <3>5
  <2>4. LeftOver' = LeftOver - 1
    BY <1>10, <2>3 DEF LeftOver
  <2>5. Len(attributes) - LeftOver' = k + 1 /\ LeftOver' <= Len(attributes)
    <3>1. PICK all \in Nat, y \in Nat : all = Len(attributes) /\ y = LeftOver
      BY <1>3
    <3>2. y > 0 /\ k = all - y /\ k \in Nat /\ LeftOver' = y - 1
      BY <1>7, <1>10, <2>4, <3>1
    <3>3. all - (y - 1) = k + 1 /\ y - 1 <= all
      BY ONLY <3>1, <3>2
    <3> QED
      BY <3>1, <3>2, <3>3
  <2>6. CursorAt(cf, InnerAt(a, at[k + 1]) + 3 * (Len(a.inner) - inner[1]))'
    <3>1. PICK z \in Nat : z = Len(a.inner)
      BY <1>15
    <3>2. PICK q : q = InnerAt(a, p)
      OBVIOUS
    <3>3. q = p + n /\ q + 3 * (z - z) = q
      <4>1. q = p + n /\ q \in Nat
        BY <1>10, <1>14, <3>2
      <4> QED
        BY ONLY <3>1, <4>1
    <3>4. inner'[1] = z
      BY <2>3, <3>1
    <3> QED
      BY <1>9, <2>2, <3>1, <3>2, <3>3, <3>4
  <2>7. AtAttribute(cf, attributes, at)'
    <3>1. k + 1 >= 1 /\ inner'[1] <= Len(a.inner)
      BY <1>10, <1>15, <2>3
    <3> QED
      BY <1>8, <1>11, <2>3, <2>5, <2>6, <3>1 DEF AtAttribute
  <2>8. /\ DOMAIN member' = MemberParts /\ member'.name = member.name /\ member'.text = member.text
        /\ member'.fd = member.fd /\ member'.code = B!Decode(a.code).val
    BY <1>4, <2>1 DEF MemberParts
  <2>9. CodeUpTo(cf, attributes, member'.code, k + 1)
    <3>1. \A i \in 1..k : ~IsCode(cf, attributes[i])
      <4>1. \A i \in 1..Len(attributes) : IsCode(cf, attributes[i]) => i = k + 1
        BY <1>1, <1>2, <1>8, <1>10, <1>11, <1>12, CodeOfMethod
      <4>2. \A i \in 1..k : i \in 1..Len(attributes) /\ i # k + 1
        BY <1>3, <1>10
      <4> QED
        BY <1>8, <1>10, <1>11, <4>1, <4>2
    <3>2. \A i \in 1..k + 1 : i \in 1..k \/ i = k + 1
      BY <1>10
    <3> QED
      BY <1>8, <1>17, <2>8, <3>1, <3>2 DEF CodeUpTo
  <2>10. GoesOn(cf)
    BY <1>1, <1>2, <1>12, <2>1, <2>2, <2>5, <2>7, <2>8, <2>9, AttributeKept
  <2> QED
    BY <2>10
<1>18. CASE B!Decode(a.code).is # "value"
  <2>1. \E how \in {"error", "panic"} : Stop(how)
    <3>1. Stop(B!Decode(a.code).is)
      BY <1>14, <1>18 DEF ReadCode
    <3>2. B!Decode(a.code).is \in {"error", "panic"}
      BY <1>16, <1>18, DecodeEnds
    <3> QED
      BY <3>1, <3>2
  <2>2. Undecoded(cf)
    BY <1>1, <1>2, <1>8, <1>10, <1>11, <1>12, <1>18, CodeOfMethod DEF Undecoded
  <2> QED
    BY <2>1, <2>2
<1> QED
  BY <1>17, <1>18

-----------------------------------------------------------------------------
(***************************************************************************)
(* The end of the attributes.                                              *)
(***************************************************************************)

LEMMA StillAt ==
    ASSUME NEW cf, NEW p, CursorAt(cf, p), UNCHANGED <<rest, file>>
    PROVE  CursorAt(cf, p)'
  BY DEF CursorAt, Whole

LEMMA EndCodeStep ==
    ASSUME NEW cf, Reader(cf), Mark(cf), EndCode
    PROVE  GoesOn(cf)
<1>1. /\ inner # <<>> /\ Head(inner) = 0 /\ Len(inner) > 1 /\ inner' = Tail(inner)
      /\ UNCHANGED <<file, rest, table, left, pool, class, member, outcome>>
      /\ inner \in Seq(Nat)
  BY DEF EndCode, NoMoreAttributes, Reader, TypeInv, ReaderTypeOK
<1>2. PICK attributes, at : Owner(cf, attributes, at)
  BY <1>1, Owned
<1>3. /\ Len(inner) \in {1, 2} /\ Len(attributes) \in Nat /\ LeftOver \in Nat
      /\ table = "attributes" => NoCode(cf, attributes)
      /\ table # "attributes" => CodeUpTo(cf, attributes, member.code, Len(attributes) - LeftOver)
  BY <1>1, <1>2, OwnerLaidOut
<1>4. /\ Len(inner) = 2 /\ inner[1] = 0 /\ inner' # <<>> /\ Len(inner') = 1
      /\ inner'[1] = inner[2]
  <2>1. Len(inner) = 2
    BY <1>1, <1>3
  <2>2. /\ Head(inner) = inner[1] /\ Len(Tail(inner)) = Len(inner) - 1
        /\ Tail(inner) \in Seq(Nat) /\ \A i \in 1..Len(Tail(inner)) : Tail(inner)[i] = inner[i + 1]
    BY ONLY <1>1, HeadTailProperties
  <2>3. PICK w : w = Tail(inner)
    OBVIOUS
  <2>4. w \in Seq(Nat) /\ Len(w) = 1 /\ \A i \in 1..Len(w) : w[i] = inner[i + 1]
    BY ONLY <2>1, <2>2, <2>3
  <2>5. w[1] = inner[2] /\ w # <<>>
    BY ONLY <2>4
  <2> QED
    BY ONLY <1>1, <2>1, <2>2, <2>3, <2>4, <2>5
<1>5. LeftOver' = LeftOver
  BY <1>4 DEF LeftOver
<1>6. PICK j : j = Len(attributes) - LeftOver
  OBVIOUS
<1>7. PICK a : a = attributes[j]
  OBVIOUS
<1>8. PICK i : i = Len(a.inner) - inner[1]
  OBVIOUS
<1>9. PICK p : p = InnerAt(a, at[j]) + 3 * i
  OBVIOUS
<1>10. /\ j \in 1..Len(attributes) /\ IsCode(cf, a) /\ CodeAt(cf, a, at[j])
       /\ i \in Nat /\ inner[1] \in Nat /\ Len(a.inner) \in Nat
       /\ InnerAt(a, at[j]) \in Nat /\ p \in Nat /\ CursorAt(cf, p)
       /\ at[j + 1] = at[j] + AttributeSize(cf, a) /\ at[j] \in Nat
       /\ inner[1] > 0 => i + 1 \in 1..Len(a.inner) /\ PlainAt(cf, a.inner[i + 1], p)
  BY ONLY <1>1, <1>2, <1>4, <1>6, <1>7, <1>8, <1>9, Reader(cf), Mark(cf), InnerAttribute, SMTT(60)
<1>11. at[j + 1] = p
  <2>1. PICK h \in Nat, n \in Nat, q \in Nat : h = a.handlers /\ n = Len(a.inner) /\ q = at[j]
    BY <1>10 DEF CodeAt
  <2>2. i = n /\ p = q + 8 + 4 * h + 3 * i /\ at[j + 1] = q + (8 + 4 * h + 3 * n)
    BY <1>4, <1>8, <1>9, <1>10, <2>1 DEF InnerAt, AttributeSize
  <2>3. PICK y : y = at[j + 1]
    OBVIOUS
  <2>4. y = p
    <3>1. y = q + (8 + 4 * h + 3 * n) /\ p = q + 8 + 4 * h + 3 * n
      BY ONLY <2>2, <2>3
    <3>2. q \in Nat /\ h \in Nat /\ n \in Nat
      OBVIOUS
    <3> QED
      BY ONLY <3>1, <3>2
  <2> QED
    BY ONLY <2>3, <2>4
<1>12. CursorAt(cf, p)'
  BY <1>1, <1>10, StillAt
<1>13. Len(attributes) - LeftOver' = j /\ LeftOver' <= Len(attributes)
  <2>1. LeftOver <= Len(attributes)
    BY <1>3, <1>6, <1>10
  <2> QED
    BY <1>5, <1>6, <2>1
<1>14. AtAttribute(cf, attributes, at)'
  BY <1>4, <1>11, <1>12, <1>13 DEF AtAttribute
<1>15. table # "attributes"
  BY <1>3, <1>7, <1>10 DEF NoCode, Indices
<1>16. CodeUpTo(cf, attributes, member'.code, Len(attributes) - LeftOver')
  BY <1>1, <1>3, <1>5, <1>15
<1>17. DOMAIN member' = MemberParts
  BY <1>1 DEF Mark
<1> QED
  BY <1>1, <1>2, <1>14, <1>15, <1>16, <1>17, AttributeKept

LEMMA AttributesOver ==
    ASSUME NEW cf, Reader(cf), Mark(cf), NoMoreAttributes, Len(inner) = 1,
           NEW attributes, NEW at, Owner(cf, attributes, at)
    PROVE  /\ LeftOver = 0 /\ Len(attributes) \in Nat /\ Len(attributes) - LeftOver = Len(attributes)
           /\ CursorAt(cf, at[Len(attributes) + 1])
<1>1. AtAttribute(cf, attributes, at) /\ Len(attributes) \in Nat
  BY OwnerLaidOut DEF NoMoreAttributes
<1>2. LeftOver = 0
  BY DEF LeftOver, NoMoreAttributes
<1>3. Len(attributes) - LeftOver = Len(attributes)
  BY <1>1, <1>2
<1> QED
  BY <1>1, <1>2, <1>3 DEF AtAttribute

\* The end of a member: the entry is complete, and behind it is the next.
LEMMA MemberOver ==
    ASSUME NEW cf, Reader(cf), Mark(cf), NoMoreAttributes, Len(inner) = 1,
           NEW members, NEW places, InMembers(cf, members, places),
           NEW k, k = Len(members) - left, NEW m, m = members[k + 1]
    PROVE  /\ k \in Nat /\ k + 1 \in 1..Len(members) /\ left \in Nat /\ left > 0
           /\ Len(members) \in Nat /\ Len(members) - (left - 1) = k + 1
           /\ member.name = TextOf(cf, m.name) /\ member.text = TextOf(cf, m.text)
           /\ table = "fields" => member.fd = m.type
           /\ CodeUpTo(cf, m.attributes, member.code, Len(m.attributes))
           /\ CursorAt(cf, places[k + 1 + 1])
<1>1. table # "attributes" /\ inner # <<>>
  BY DEF InMembers, NoMoreAttributes
<1>2. left > 0
  BY <1>1 DEF Reader, TypeInv, ReaderTypeOK
<1>3. /\ AtMember(cf, members, places) /\ Len(members) \in Nat /\ left \in Nat /\ k \in Nat
      /\ k + 1 \in 1..Len(members) /\ MemberAt(cf, m, places[k + 1], places[k + 1 + 1])
  BY <1>2, MembersLaidOut
<1>4. Owner(cf, m.attributes, m.attributesAt)
  BY DEF Owner
<1>5. /\ CursorAt(cf, m.attributesAt[Len(m.attributes) + 1])
      /\ Len(m.attributes) - LeftOver = Len(m.attributes)
  BY <1>4, AttributesOver
<1>6. m.attributesAt[Len(m.attributes) + 1] = places[k + 1 + 1]
  BY <1>3 DEF MemberAt
<1>7. Len(members) - (left - 1) = k + 1
  BY <1>3
<1> QED
  BY <1>1, <1>2, <1>3, <1>5, <1>6, <1>7 DEF AtMember

LEMMA EndFieldStep ==
    ASSUME NEW cf, Reader(cf), Mark(cf), EndField
    PROVE  GoesOn(cf)
<1>1. /\ NoMoreAttributes /\ Len(inner) = 1 /\ table = "fields" /\ left' = left - 1 /\ inner' = <<>>
      /\ UNCHANGED <<file, rest, table, pool, member, outcome>>
  BY DEF EndField
<1>2. PICK new :
         /\ new = [name |-> member.name, fd |-> member.fd, offset |-> oldOffset]
         /\ class' = [class EXCEPT !.heapSize = @ + SizeOf(member.fd),
                          !.fields = {f \in @ : f.name # member.name} \cup {new}]
  BY DEF EndField
<1>3. PICK k : k = Len(cf.fields) - left
  OBVIOUS
<1>4. PICK m : m = cf.fields[k + 1]
  OBVIOUS
<1>5. InMembers(cf, cf.fields, cf.fieldsAt)
  BY <1>1 DEF InMembers
<1>6. /\ k \in Nat /\ k + 1 \in 1..Len(cf.fields) /\ left \in Nat /\ left > 0
      /\ Len(cf.fields) \in Nat /\ Len(cf.fields) - (left - 1) = k + 1
      /\ member.name = TextOf(cf, m.name) /\ member.fd = m.type
      /\ CursorAt(cf, cf.fieldsAt[k + 1 + 1])
  BY ONLY Reader(cf), Mark(cf), <1>1, <1>3, <1>4, <1>5, MemberOver, SMTT(30)
<1>7. AtFields(cf) /\ DOMAIN class = ClassParts /\ DOMAIN member = MemberParts
  BY <1>1 DEF Mark
<1>8. /\ DOMAIN class' = ClassParts /\ class'.this = class.this /\ class'.super = class.super
      /\ class'.interfaces = class.interfaces /\ class'.methods = class.methods
      /\ class'.attributes = class.attributes
      /\ class'.fields = {f \in class.fields : f.name # member.name} \cup {new}
  BY <1>2, <1>7 DEF ClassParts
<1>9. HeadRead(cf)'
  BY <1>1, <1>7, <1>8 DEF AtFields, HeadRead, NamesRead, PoolUpTo, InterfacesUpTo
<1>10. FieldName(cf, k + 1) = member.name /\ IsField(new, cf, k + 1)
  BY <1>2, <1>4, <1>6 DEF FieldName, IsField
<1>11. FieldsUpTo(cf, k)
  BY <1>3, <1>7 DEF AtFields
<1>12. ASSUME NEW f \in class'.fields
       PROVE  \E i \in 1..k + 1 : LastOfName(cf, i, k + 1) /\ IsField(f, cf, i)
  <2>1. CASE f = new
    <3>1. k + 1 \in 1..k + 1 /\ LastOfName(cf, k + 1, k + 1)
      BY <1>6 DEF LastOfName
    <3> QED
      BY <1>10, <2>1, <3>1
  <2>2. CASE f \in class.fields /\ f.name # member.name
    <3>1. PICK i \in 1..k : LastOfName(cf, i, k) /\ IsField(f, cf, i)
      BY <1>11, <2>2 DEF FieldsUpTo
    <3>2. FieldName(cf, k + 1) # FieldName(cf, i)
      BY <1>10, <2>2, <3>1 DEF IsField
    <3>3. i \in 1..k + 1 /\ \A j \in i + 1..k + 1 : j \in i + 1..k \/ j = k + 1
      BY <1>6
    <3> QED
      BY <3>1, <3>2, <3>3 DEF LastOfName
  <2> QED
    BY <1>8, <2>1, <2>2
<1>13. ASSUME NEW i \in 1..k + 1, LastOfName(cf, i, k + 1)
       PROVE  \E f \in class'.fields : IsField(f, cf, i)
  <2>1. CASE i = k + 1
    BY <1>8, <1>10, <2>1
  <2>2. CASE i # k + 1
    <3>1. i \in 1..k /\ k + 1 \in i + 1..k + 1 /\ \A j \in i + 1..k : j \in i + 1..k + 1
      BY <1>6, <2>2
    <3>2. LastOfName(cf, i, k) /\ FieldName(cf, k + 1) # FieldName(cf, i)
      BY <1>13, <3>1 DEF LastOfName
    <3>3. PICK f \in class.fields : IsField(f, cf, i)
      BY <1>11, <3>1, <3>2 DEF FieldsUpTo
    <3>4. f.name # member.name
      BY <1>10, <3>2, <3>3 DEF IsField
    <3> QED
      BY <1>8, <3>3, <3>4
  <2> QED
    BY <2>1, <2>2
<1>14. FieldsUpTo(cf, k + 1)'
  BY <1>12, <1>13 DEF FieldsUpTo
<1>15. Len(cf.fields) - left' = k + 1 /\ left' <= Len(cf.fields)
  BY <1>1, <1>6
<1>16. CursorAt(cf, cf.fieldsAt[k + 1 + 1])'
  BY <1>1, <1>6, StillAt
<1>17. AtMember(cf, cf.fields, cf.fieldsAt)'
  BY <1>1, <1>15, <1>16 DEF AtMember
<1>18. AtFields(cf)'
  BY <1>7, <1>8, <1>9, <1>14, <1>15, <1>17 DEF AtFields
<1> QED
  BY <1>1, <1>7, <1>8, <1>18 DEF GoesOn, Mark, Reader, Reading

LEMMA EndMethodStep ==
    ASSUME NEW cf, Reader(cf), Mark(cf), EndMethod
    PROVE  GoesOn(cf)
<1>1. /\ NoMoreAttributes /\ Len(inner) = 1 /\ table = "methods" /\ left' = left - 1 /\ inner' = <<>>
      /\ UNCHANGED <<file, rest, table, pool, member, outcome>>
  BY DEF EndMethod
<1>2. PICK new :
         /\ new = [name |-> member.name, text |-> member.text, code |-> member.code]
         /\ class' = [class EXCEPT
                !.methods = {m \in @ : m.name # new.name \/ m.text # new.text} \cup {new}]
  BY DEF EndMethod
<1>3. PICK k : k = Len(cf.methods) - left
  OBVIOUS
<1>4. PICK m : m = cf.methods[k + 1]
  OBVIOUS
<1>5. InMembers(cf, cf.methods, cf.methodsAt)
  BY <1>1 DEF InMembers
<1>6. /\ k \in Nat /\ k + 1 \in 1..Len(cf.methods) /\ left \in Nat /\ left > 0
      /\ Len(cf.methods) \in Nat /\ Len(cf.methods) - (left - 1) = k + 1
      /\ member.name = TextOf(cf, m.name) /\ member.text = TextOf(cf, m.text)
      /\ CodeUpTo(cf, m.attributes, member.code, Len(m.attributes))
      /\ CursorAt(cf, cf.methodsAt[k + 1 + 1])
  BY ONLY Reader(cf), Mark(cf), <1>1, <1>3, <1>4, <1>5, MemberOver, SMTT(30)
<1>7. AtMethods(cf) /\ DOMAIN class = ClassParts /\ DOMAIN member = MemberParts
  BY <1>1 DEF Mark
<1>8. /\ DOMAIN class' = ClassParts /\ class'.this = class.this /\ class'.super = class.super
      /\ class'.interfaces = class.interfaces /\ class'.fields = class.fields
      /\ class'.attributes = class.attributes
      /\ class'.methods = {x \in class.methods : x.name # new.name \/ x.text # new.text} \cup {new}
  BY <1>2, <1>7 DEF ClassParts
<1>9. HeadRead(cf)' /\ FieldsUpTo(cf, Len(cf.fields))'
  BY <1>1, <1>7, <1>8 DEF AtMethods, HeadRead, NamesRead, PoolUpTo, InterfacesUpTo, FieldsUpTo
<1>10. MethodRead(new, cf, k + 1)
  BY <1>2, <1>4, <1>6 DEF MethodRead, IsMethod
<1>11. MethodsUpTo(cf, k)
  BY <1>3, <1>7 DEF AtMethods
<1>12. ASSUME NEW x \in class'.methods PROVE \E i \in 1..k + 1 : MethodRead(x, cf, i)
  <2>1. CASE x = new
    <3>1. k + 1 \in 1..k + 1
      BY <1>6
    <3> QED
      BY <1>10, <2>1, <3>1
  <2>2. CASE x \in class.methods
    <3>1. \A i \in 1..k : i \in 1..k + 1
      BY <1>6
    <3> QED
      BY <1>11, <2>2, <3>1 DEF MethodsUpTo
  <2> QED
    BY <1>8, <2>1, <2>2
<1>13. ASSUME NEW i \in 1..k + 1 PROVE \E x \in class'.methods : MethodRead(x, cf, i)
  <2>1. CASE i = k + 1
    BY <1>8, <1>10, <2>1
  <2>2. CASE i # k + 1
    <3>1. i \in 1..k
      BY <1>6, <2>2
    <3>2. PICK x \in class.methods : MethodRead(x, cf, i)
      BY <1>11, <3>1 DEF MethodsUpTo
    <3>3. x.name # new.name \/ x.text # new.text
      <4>1. ASSUME x.name = new.name, x.text = new.text PROVE FALSE
        <5>1. SameMethod(cf, cf.methods[i], cf.methods[k + 1])
          BY <1>10, <3>2, <4>1 DEF MethodRead, IsMethod, SameMethod
        <5>2. i \in Indices(cf.methods) /\ k + 1 \in Indices(cf.methods)
          BY <1>6, <3>1 DEF Indices
        <5> QED
          BY <2>2, <5>1, <5>2 DEF Reader, ClassFile, MethodsAt
      <4> QED
        BY <4>1
    <3> QED
      BY <1>8, <3>2, <3>3
  <2> QED
    BY <2>1, <2>2
<1>14. MethodsUpTo(cf, k + 1)'
  BY <1>12, <1>13 DEF MethodsUpTo
<1>15. Len(cf.methods) - left' = k + 1 /\ left' <= Len(cf.methods)
  BY <1>1, <1>6
<1>16. CursorAt(cf, cf.methodsAt[k + 1 + 1])'
  BY <1>1, <1>6, StillAt
<1>17. AtMember(cf, cf.methods, cf.methodsAt)'
  BY <1>1, <1>15, <1>16 DEF AtMember
<1>18. AtMethods(cf)'
  BY <1>7, <1>8, <1>9, <1>14, <1>15, <1>17 DEF AtMethods
<1> QED
  BY <1>1, <1>7, <1>8, <1>18 DEF GoesOn, Mark, Reader, Reading

LEMMA FinishStep ==
    ASSUME NEW cf, Reader(cf), Mark(cf), Finish
    PROVE  AllRead(cf)' /\ outcome' = "done" /\ file' = file
<1>1. NoMoreAttributes /\ Len(inner) = 1 /\ table = "attributes" /\ Stop("done")
  BY DEF Finish
<1>2. Owner(cf, cf.attributes, cf.attributesAt) /\ AtAttributes(cf)
  BY <1>1 DEF Owner, Mark
<1>3. Len(cf.attributes) - LeftOver = Len(cf.attributes)
  BY <1>1, <1>2, AttributesOver
<1>4. AllRead(cf)
  BY <1>2, <1>3 DEF AtAttributes, AllRead
<1>5. UNCHANGED <<class, pool, file>> /\ outcome' = "done"
  BY <1>1 DEF Stop
<1>6. MembersRead(cf)'
  BY <1>4, <1>5, SameParts DEF AllRead
<1> QED
  BY <1>4, <1>5, <1>6 DEF AllRead

\* A read that does not find what it expects is behind the end of a file that
\* was cut short.
LEMMA WholeReads ==
    ASSUME NEW cf, Reader(cf), Mark(cf), ~NoMoreAttributes, Whole
    PROVE  Reads
<1>1. /\ table \in TableNames /\ left \in Nat /\ inner \in Seq(Nat) /\ Reading
      /\ inner # <<>> => table # "header"
  BY DEF Reader, TypeInv, ReaderTypeOK
<1>2. CASE inner # <<>>
  <2>1. MoreAttributes /\ table # "header"
    <3>1. Head(inner) \in Nat
      BY <1>1, <1>2, HeadTailProperties
    <3> QED
      BY <1>1, <1>2, <3>1 DEF MoreAttributes, NoMoreAttributes
  <2>2. PICK attributes, at : Owner(cf, attributes, at)
    BY <1>2, Owned
  <2>3. NamesRead(cf) /\ Len(inner) \in {1, 2}
    BY <1>2, <2>2, OwnerLaidOut
  <2>4. CASE Len(inner) = 1
    <3>1. PICK k : k = Len(attributes) - LeftOver
      OBVIOUS
    <3>2. PICK a : a = attributes[k + 1]
      OBVIOUS
    <3>3. PICK p : p = at[k + 1]
      OBVIOUS
    <3>4. /\ p \in Nat /\ CursorAt(cf, p)
          /\ IF IsCode(cf, a) THEN CodeAt(cf, a, p) ELSE PlainAt(cf, a.name, p)
      BY <2>1, <2>2, <2>4, <3>1, <3>2, <3>3, OuterAttribute
    <3> QED
      BY <2>1, <2>3, <3>4, CodeSeen, PlainSeen
  <2>5. CASE Len(inner) = 2
    <3>1. PICK j : j = Len(attributes) - LeftOver
      OBVIOUS
    <3>2. PICK a : a = attributes[j]
      OBVIOUS
    <3>3. PICK i : i = Len(a.inner) - inner[1]
      OBVIOUS
    <3>4. PICK p : p = InnerAt(a, at[j]) + 3 * i
      OBVIOUS
    <3>6. /\ j \in 1..Len(attributes) /\ IsCode(cf, a) /\ CodeAt(cf, a, at[j])
          /\ i \in Nat /\ inner[1] \in Nat /\ Len(a.inner) \in Nat
          /\ InnerAt(a, at[j]) \in Nat /\ p \in Nat /\ CursorAt(cf, p)
          /\ at[j + 1] = at[j] + AttributeSize(cf, a) /\ at[j] \in Nat
          /\ inner[1] > 0 => i + 1 \in 1..Len(a.inner) /\ PlainAt(cf, a.inner[i + 1], p)
      BY ONLY <3>1, <3>2, <3>3, <3>4, <1>2, <2>5, <2>2, Reader(cf), Mark(cf), InnerAttribute, SMTT(60)
    <3>7. inner[1] > 0
      BY <1>1, <1>2, <2>1, HeadTailProperties DEF MoreAttributes
    <3> QED
      BY <2>1, <2>3, <3>6, <3>7, PlainSeen
  <2> QED
    BY <2>3, <2>4, <2>5
<1>3. CASE inner = <<>>
  <2>1. table # "attributes"
    BY <1>3 DEF Mark, AtAttributes, AtAttribute
  <2>2. CASE table = "header"
    BY <2>2, HeaderSeen DEF Mark
  <2>3. CASE table = "constants"
    <3>1. More("constants") \/ Over("constants")
      BY <1>1, <1>3, <2>3 DEF More, Over, InTable
    <3> QED
      BY <2>3, <3>1, ConstantSeen, NamesSeen DEF Mark
  <2>4. CASE table = "interfaces"
    <3>1. More("interfaces") \/ Over("interfaces")
      BY <1>1, <1>3, <2>4 DEF More, Over, InTable
    <3>2. AtInterfaces(cf)
      BY <2>4 DEF Mark
    <3>3. CASE More("interfaces")
      <4>1. PICK k : k = Len(cf.interfaces) - left
        OBVIOUS
      <4> QED
        BY <3>2, <3>3, <4>1, InterfaceSeen
    <3> QED
      BY <3>1, <3>3, CountSeen
  <2>5. CASE table \in {"fields", "methods"}
    <3>1. MoreMembers \/ Over("fields") \/ Over("methods")
      BY <1>1, <1>3, <2>5 DEF MoreMembers, More, Over, InTable
    <3>2. CASE MoreMembers
      <4>1. PICK members, at : InMembers(cf, members, at)
        BY <2>5 DEF InMembers
      <4>2. PICK k : k = Len(members) - left
        OBVIOUS
      <4> QED
        BY <3>2, <4>1, <4>2, MemberSeen
    <3> QED
      BY <3>1, <3>2, CountSeen
  <2> QED
    BY <1>1, <2>1, <2>2, <2>3, <2>4, <2>5 DEF TableNames
<1> QED
  BY <1>2, <1>3

-----------------------------------------------------------------------------
(***************************************************************************)
(* Code that lies end to end is decoded in step.                           *)
(***************************************************************************)

\* The variants that stand for several opcodes.
LEMMA VariantIs ==
    ASSUME NEW op \in (0..201) \ Misread
    PROVE  B!Variant(op) = FirstOpcode(op)
<1>1. ASSUME NEW f \in B!Families, op \in f[1]..f[2]
      PROVE  B!Variant(op) = f[1] /\ FirstOpcode(op) = f[1]
  <2>1. f \in B!FamilyOf(op)
    BY <1>1 DEF B!FamilyOf
  <2>2. PICK g : g = CHOOSE x \in B!FamilyOf(op) : TRUE
    OBVIOUS
  <2>3. g \in B!FamilyOf(op) /\ B!Variant(op) = g[1]
    BY <2>1, <2>2 DEF B!Variant
  <2>4. g \in B!Families /\ op \in g[1]..g[2] /\ op \in Int
    BY <2>3 DEF B!FamilyOf
  <2>5. g[1] = f[1]
    BY ONLY <1>1, <2>4 DEF B!Families
  <2>6. FirstOpcode(op) = f[1]
    <3>1. op \in Int
      BY <2>4
    <3>2. CASE f[1] \in {2, 9, 11, 14}
      BY ONLY <1>1, <3>1, <3>2 DEF B!Families, FirstOpcode
    <3>3. CASE f[1] \in {26, 30, 34, 38, 42}
      <4>1. op \in 26..45 /\ op - ((op - 26) % 4) = f[1]
        BY ONLY <1>1, <3>1, <3>3 DEF B!Families
      <4>2. op \notin 2..8 /\ op \notin 9..10 /\ op \notin 11..13 /\ op \notin 14..15
        BY ONLY <4>1
      <4> QED
        BY ONLY <4>1, <4>2 DEF FirstOpcode
    <3>4. CASE f[1] \in {59, 63, 67, 71, 75}
      <4>1. op \in 59..78 /\ op - ((op - 59) % 4) = f[1]
        BY ONLY <1>1, <3>1, <3>4 DEF B!Families
      <4>2. /\ op \notin 2..8 /\ op \notin 9..10 /\ op \notin 11..13 /\ op \notin 14..15
            /\ op \notin 26..45
        BY ONLY <4>1
      <4> QED
        BY ONLY <4>1, <4>2 DEF FirstOpcode
    <3> QED
      BY ONLY <1>1, <3>2, <3>3, <3>4 DEF B!Families
  <2> QED
    BY <2>3, <2>5, <2>6
<1>2. ASSUME B!FamilyOf(op) = {}
      PROVE  B!Variant(op) = op /\ FirstOpcode(op) = op
  <2>1. \A f \in B!Families : op \notin f[1]..f[2]
    BY <1>2 DEF B!FamilyOf
  <2>2. op \notin 2..15 \cup 26..45 \cup 59..78 /\ op \in Int
    BY ONLY <2>1, op \in (0..201) \ Misread DEF B!Families
  <2>3. FirstOpcode(op) = op
    BY ONLY <2>2 DEF FirstOpcode
  <2> QED
    BY <1>2, <2>3 DEF B!Variant
<1> QED
  BY <1>1, <1>2 DEF B!FamilyOf

LEMMA Opcodes ==
    ASSUME NEW op \in (0..201) \ Misread
    PROVE  /\ op \notin B!NoArm /\ op # B!Lookupswitch /\ Zeros(op) \in {0, 1, 2}
           /\ B!OperandBytes(op) \in Nat /\ JvmsOperands(op) = B!OperandBytes(op) + Zeros(op)
<1>1. op \notin B!NoArm /\ op # B!Lookupswitch
  BY DEF B!NoArm, B!Lookupswitch, Misread
<1>2. Zeros(op) \in {0, 1, 2}
  BY DEF Zeros
<1>3. B!OperandBytes(op) \in Nat
  BY DEF B!OperandBytes
<1>4. JvmsOperands(op) = B!OperandBytes(op) + Zeros(op)
  BY DEF JvmsOperands, B!OperandBytes, Zeros, Misread
<1> QED
  BY <1>1, <1>2, <1>3, <1>4

\* The positions that are decoded: those of the instructions, and of the zeros
\* behind some of them.
Reached(code, starts) ==
    starts \cup {q \in 0..Len(code) - 1 :
                    \E p \in starts : \E z \in 1..Zeros(code[p + 1]) : q = InstrBehind(code, p) - z}

LEMMA StraightOn ==
    ASSUME NEW code \in Seq(Byte), NEW starts, Straight(code, starts), NEW p \in starts
    PROVE  /\ Len(code) \in Nat /\ p \in 0..Len(code) - 1 /\ Zeros(code[p + 1]) \in {0, 1, 2}
           /\ code[p + 1] \in (0..201) \ Misread /\ code[p + 1] \notin B!NoArm
           /\ B!NextAt(code, p) = p + 1 + B!SizeAt(code, p).head
           /\ InstrBehind(code, p) = B!NextAt(code, p) + Zeros(code[p + 1])
           /\ B!NextAt(code, p) \in p + 1..Len(code) /\ InstrBehind(code, p) <= Len(code)
           /\ InstrBehind(code, p) = Len(code) \/ InstrBehind(code, p) \in starts
           /\ \A z \in 1..Zeros(code[p + 1]) :
                 /\ InstrBehind(code, p) - z \in Reached(code, starts)
                 /\ code[InstrBehind(code, p) - z + 1] = 0
<1>1. Len(code) \in Nat
  BY LenProperties
<1>2. PICK op : op = code[p + 1]
  OBVIOUS
<1>3. /\ p \in 0..Len(code) - 1 /\ op \in (0..201) \ Misread /\ InstrBehind(code, p) <= Len(code)
      /\ \A z \in 0..Zeros(op) - 1 : code[InstrBehind(code, p) - z] = 0
      /\ InstrBehind(code, p) = Len(code) \/ InstrBehind(code, p) \in starts
  BY <1>2 DEF Straight
<1>4. /\ op \notin B!NoArm /\ op # B!Lookupswitch /\ Zeros(op) \in {0, 1, 2}
      /\ B!OperandBytes(op) \in Nat /\ JvmsOperands(op) = B!OperandBytes(op) + Zeros(op)
  BY <1>3, Opcodes
<1>5. PICK b \in Nat, z \in {0, 1, 2}, n \in Nat, y \in Nat :
         b = B!OperandBytes(op) /\ z = Zeros(op) /\ n = B!NextAt(code, p) /\ y = InstrBehind(code, p)
         /\ n = p + 1 + b /\ B!SizeAt(code, p).head = b /\ y = p + 1 + (b + z)
  <2>1. B!SizeAt(code, p).head = B!OperandBytes(op) /\ B!NextAt(code, p) = p + 1 + B!OperandBytes(op)
    BY <1>2, <1>4 DEF B!SizeAt, B!NextAt
  <2>2. InstrBehind(code, p) = p + 1 + (B!OperandBytes(op) + Zeros(op))
    BY <1>2, <1>4 DEF InstrBehind
  <2>3. B!NextAt(code, p) \in Nat /\ InstrBehind(code, p) \in Nat
    <3>1. \A u \in Nat, v \in Nat, w \in {0, 1, 2} : u + 1 + v \in Nat /\ u + 1 + (v + w) \in Nat
      OBVIOUS
    <3> QED
      BY <1>3, <1>4, <2>1, <2>2, <3>1
  <2> QED
    BY <1>4, <2>1, <2>2, <2>3
<1>6. y <= Len(code)
  BY <1>3, <1>5
<1>7. /\ y = n + z /\ n \in p + 1..Len(code) /\ n = p + 1 + b
      /\ \A x \in 1..z : y - x \in 0..Len(code) - 1 /\ x - 1 \in 0..z - 1 /\ y - (x - 1) = y - x + 1
  <2>1. b \in Nat /\ z \in {0, 1, 2} /\ n = p + 1 + b /\ y = p + 1 + (b + z) /\ p \in Nat
    BY <1>3, <1>5
  <2> QED
    BY ONLY <1>1, <1>6, <2>1
<1>8. ASSUME NEW x \in 1..z PROVE y - x \in Reached(code, starts) /\ code[y - x + 1] = 0
  <2>1. y - x \in 0..Len(code) - 1
    BY <1>7
  <2>2. code[y - (x - 1)] = 0
    BY <1>3, <1>5, <1>7
  <2>3. code[y - x + 1] = 0
    BY <1>7, <2>2
  <2>4. y - x \in Reached(code, starts)
    BY ONLY <1>2, <1>5, <2>1, p \in starts DEF Reached
  <2> QED
    BY <2>3, <2>4
<1>9. \A x \in 1..Zeros(code[p + 1]) :
         /\ InstrBehind(code, p) - x \in Reached(code, starts)
         /\ code[InstrBehind(code, p) - x + 1] = 0
  <2>1. \A x \in 1..z : y - x \in Reached(code, starts) /\ code[y - x + 1] = 0
    BY <1>8
  <2> QED
    BY ONLY <1>2, <1>5, <2>1
<1>10. /\ B!NextAt(code, p) = p + 1 + B!SizeAt(code, p).head
       /\ InstrBehind(code, p) = B!NextAt(code, p) + Zeros(code[p + 1])
       /\ B!NextAt(code, p) \in p + 1..Len(code)
  BY ONLY <1>2, <1>5, <1>7
<1> QED
  BY ONLY <1>1, <1>2, <1>3, <1>4, <1>9, <1>10

\* Behind a position that is decoded is one that is decoded, or the end.
LEMMA ReachedOn ==
    ASSUME NEW code \in Seq(Byte), NEW starts, Straight(code, starts),
           NEW q \in Reached(code, starts)
    PROVE  /\ q \in 0..Len(code) - 1 /\ code[q + 1] \notin B!NoArm
           /\ B!NextAt(code, q) = q + 1 + B!SizeAt(code, q).head
           /\ B!NextAt(code, q) \in q + 1..Len(code)
           /\ B!NextAt(code, q) = Len(code) \/ B!NextAt(code, q) \in Reached(code, starts)
           /\ q \in starts \/ code[q + 1] = 0
<1>1. CASE q \in starts
  <2>1. PICK n, z, y : n = B!NextAt(code, q) /\ z = Zeros(code[q + 1]) /\ y = InstrBehind(code, q)
    OBVIOUS
  <2>2. /\ z \in {0, 1, 2} /\ y = n + z /\ n \in q + 1..Len(code) /\ q \in 0..Len(code) - 1
        /\ y = Len(code) \/ y \in starts
        /\ \A x \in 1..z : y - x \in Reached(code, starts)
        /\ code[q + 1] \notin B!NoArm /\ n = q + 1 + B!SizeAt(code, q).head
    BY <1>1, <2>1, StraightOn
  <2>3. n = Len(code) \/ n \in Reached(code, starts)
    <3>1. CASE z = 0
      <4>1. y = n
        BY <2>2, <3>1
      <4> QED
        BY <2>2, <4>1 DEF Reached
    <3>2. CASE z # 0
      <4>1. z \in 1..z /\ y - z = n
        BY <2>2, <3>2
      <4> QED
        BY <2>2, <4>1
    <3> QED
      BY <3>1, <3>2
  <2> QED
    BY <1>1, <2>1, <2>2, <2>3
<1>2. CASE q \notin starts
  <2>1. PICK p \in starts : \E x \in 1..Zeros(code[p + 1]) : q = InstrBehind(code, p) - x
    BY <1>2 DEF Reached
  <2>2. PICK x \in 1..Zeros(code[p + 1]) : q = InstrBehind(code, p) - x
    BY <2>1
  <2>3. PICK n, z, y : n = B!NextAt(code, p) /\ z = Zeros(code[p + 1]) /\ y = InstrBehind(code, p)
    OBVIOUS
  <2>4. /\ z \in {0, 1, 2} /\ y = n + z /\ n \in p + 1..Len(code) /\ p \in 0..Len(code) - 1
        /\ y <= Len(code) /\ Len(code) \in Nat /\ (y = Len(code) \/ y \in starts)
        /\ \A v \in 1..z : y - v \in Reached(code, starts) /\ code[y - v + 1] = 0
    BY <2>3, StraightOn
  <2>5. x \in 1..z /\ q = y - x
    BY <2>2, <2>3
  <2>6. code[q + 1] = 0 /\ q \in 0..Len(code) - 1
    BY <1>2, <2>4, <2>5 DEF Reached
  <2>7. code[q + 1] \notin B!NoArm /\ B!SizeAt(code, q).head = 0 /\ B!NextAt(code, q) = q + 1
    BY <2>6 DEF B!NoArm, B!SizeAt, B!Lookupswitch, B!OperandBytes, B!NextAt
  <2>8. q + 1 = Len(code) \/ q + 1 \in Reached(code, starts)
    <3>1. CASE x = 1
      <4>1. q + 1 = y
        <5>1. y \in Int
          BY <2>4
        <5> QED
          BY ONLY <2>5, <3>1, <5>1
      <4> QED
        BY <2>4, <4>1 DEF Reached
    <3>2. CASE x # 1
      <4>1. x - 1 \in 1..z /\ y - (x - 1) = q + 1
        <5>1. y \in Int /\ z \in Int
          BY <2>4
        <5> QED
          BY ONLY <2>5, <3>2, <5>1
      <4> QED
        BY <2>4, <4>1
    <3> QED
      BY <3>1, <3>2
  <2>9. q + 1 \in q + 1..Len(code) /\ q + 1 = q + 1 + 0
    BY <2>4, <2>6
  <2> QED
    BY <2>6, <2>7, <2>8, <2>9
<1> QED
  BY <1>1, <1>2

LEMMA StraightDecodes ==
    ASSUME NEW code \in Seq(Byte), NEW starts, Straight(code, starts)
    PROVE  B!Decode(code).is = "value"
<1> DEFINE C == 0..Len(code)
           level == [p \in C |-> Len(code) - p]
<1>1. PICK from \in [C -> Decoding(code)] :
         B!Decode(code) = from[0] /\ \A p \in C : from[p] = DecodeStep(code, p, from)
  BY DecodeDef
<1>2. Len(code) \in Nat
  BY LenProperties
<1>3. Levels(C, level)
  <2>1. level \in [C -> Nat] /\ \A p \in C : level[p] <= Len(code)
    BY <1>2
  <2> HIDE DEF C, level
  <2> QED
    BY ONLY <1>2, <2>1 DEF Levels
<1> DEFINE G == {p \in C : p \in Reached(code, starts) \cup {Len(code)} => from[p].is = "value"}
<1>4. ASSUME NEW p \in C, \A q \in C : level[q] < level[p] => q \in G,
             p \in Reached(code, starts) \cup {Len(code)}
      PROVE  from[p].is = "value"
  <2>1. CASE p = Len(code)
    <3>1. DecodeStep(code, p, from) = B!Ends("value")
      BY ONLY <2>1 DEF DecodeStep
    <3>2. from[p] = B!Ends("value")
      BY ONLY <1>1, <3>1, p \in C
    <3> QED
      BY ONLY <3>2 DEF B!Ends
  <2>2. CASE p # Len(code)
    <3>1. PICK next : next = B!NextAt(code, p)
      OBVIOUS
    <3>2. /\ code[p + 1] \notin B!NoArm /\ next = p + 1 + B!SizeAt(code, p).head
          /\ next \in p + 1..Len(code)
          /\ next = Len(code) \/ next \in Reached(code, starts)
      BY <1>4, <2>2, <3>1, ReachedOn
    <3>3. next \in C /\ level[next] < level[p] /\ ~(next > Len(code))
      BY <1>2, <1>4, <3>2
    <3>4. from[next].is = "value"
      BY <1>4, <3>2, <3>3
    <3>5. ~(p + 1 + B!SizeAt(code, p).head > Len(code))
      BY <3>2, <3>3
    <3>6. DecodeStep(code, p, from).is = "value"
      BY ONLY <2>2, <3>1, <3>2, <3>3, <3>4, <3>5 DEF DecodeStep
    <3> QED
      BY <1>1, <3>6
  <2> QED
    BY <2>1, <2>2
<1>5. C \subseteq G
  <2> HIDE DEF C, level
  <2>1. ASSUME NEW p \in C, \A q \in C : level[q] < level[p] => q \in G
        PROVE  p \in G
    BY <1>4, <2>1
  <2> HIDE DEF G
  <2>2. Hereditary(C, level, G)
    BY ONLY <2>1 DEF Hereditary
  <2> QED
    BY ONLY <1>3, <2>2, LevelInduction, Zenon
<1>6. 0 \in C /\ 0 \in Reached(code, starts) \cup {Len(code)}
  <2>1. 0 \in starts \/ 0 = Len(code)
    BY DEF Straight
  <2> QED
    BY <1>2, <2>1 DEF Reached
<1>7. from[0].is = "value"
  BY <1>5, <1>6
<1> QED
  BY <1>1, <1>7

\* A byte of zero is a nop.
LEMMA NopAt ==
    ASSUME NEW code, NEW q \in Nat, code[q + 1] = 0
    PROVE  B!NextAt(code, q) = q + 1 /\ B!Variant(0) = 0
<1>1. B!SizeAt(code, q).all = 0
  BY DEF B!SizeAt, B!Lookupswitch, B!OperandBytes
<1>2. B!NextAt(code, q) = q + 1
  BY <1>1 DEF B!NextAt
<1>3. B!FamilyOf(0) = {}
  BY DEF B!FamilyOf, B!Families
<1> QED
  BY <1>2, <1>3 DEF B!Variant

LEMMA StraightInStep ==
    ASSUME NEW code \in Seq(Byte), NEW starts, Straight(code, starts),
           NEW d \in Seq(PlacedIn(code)), EndToEnd(code, 0, d)
    PROVE  InStep(ToSet(d), code, starts)
<1> DEFINE At == {d[k].at : k \in 1..Len(d)}
<1>1. Len(d) \in Nat /\ Len(code) \in Nat /\ DOMAIN d = 1..Len(d)
  BY LenProperties
<1>2. \A k \in 1..Len(d) :
         /\ d[k].at \in 0..Len(code) - 1 /\ d[k] = Placed(code, d[k].at)
         /\ Behind(code, d, k) = B!NextAt(code, d[k].at)
  BY DEF EndToEnd
<1>3. 0 \in starts \/ 0 = Len(code)
  BY DEF Straight
<1>4. 1 \in 1..Len(d) => d[1].at = 0 /\ 0 \in starts
  <2>1. 1 \in 1..Len(d) => d # <<>>
    BY <1>1, EmptySeq
  <2>2. 1 \in 1..Len(d) => 0 # Len(code)
    BY <1>1, <1>2
  <2> QED
    BY <1>3, <2>1, <2>2 DEF EndToEnd
<1>5. \A k \in 1..Len(d) : d[k].at \in Reached(code, starts)
  <2> DEFINE A == {n \in Nat : n < Len(d) => d[n + 1].at \in Reached(code, starts)}
  <2>1. 0 \in A
    BY <1>1, <1>4 DEF Reached
  <2>2. ASSUME NEW n \in A PROVE n + 1 \in A
    <3> SUFFICES ASSUME n + 1 < Len(d) PROVE d[n + 1 + 1].at \in Reached(code, starts)
      BY <2>2
    <3>1. n + 1 \in 1..Len(d) /\ n + 1 + 1 \in 1..Len(d) /\ n < Len(d)
      BY <1>1, <2>2
    <3>2. PICK q : q = d[n + 1].at
      OBVIOUS
    <3>3. q \in Reached(code, starts) /\ d[n + 1 + 1].at = B!NextAt(code, q)
      BY <1>2, <2>2, <3>1, <3>2 DEF Behind
    <3>4. d[n + 1 + 1].at # Len(code)
      BY <1>1, <1>2, <3>1
    <3> QED
      BY <3>3, <3>4, ReachedOn
  <2>3. A = Nat
    <3> HIDE DEF A
    <3>1. A \in SUBSET Nat
      BY DEF A
    <3> QED
      BY <2>1, <2>2, <3>1, SetInduction
  <2>4. ASSUME NEW k \in 1..Len(d) PROVE d[k].at \in Reached(code, starts)
    <3>1. PICK n \in Nat : n = k - 1
      OBVIOUS
    <3>2. n < Len(d) /\ n + 1 = k
      BY <1>1, <3>1
    <3> QED
      BY <2>3, <3>2
  <2> QED
    BY <2>4
<1>6. ASSUME NEW q \in At
      PROVE  q \in Reached(code, starts) /\ (B!NextAt(code, q) = Len(code) \/ B!NextAt(code, q) \in At)
  <2>1. PICK k \in 1..Len(d) : q = d[k].at
    OBVIOUS
  <2>2. k < Len(d) => k + 1 \in 1..Len(d)
    BY <1>1
  <2>3. B!NextAt(code, q) = IF k < Len(d) THEN d[k + 1].at ELSE Len(code)
    BY <1>2, <2>1 DEF Behind
  <2> QED
    BY <1>5, <2>1, <2>2, <2>3
<1>7. ASSUME NEW q \in At, code[q + 1] = 0, q + 1 # Len(code)
      PROVE  q + 1 \in At
  <2>1. q \in Nat
    BY <1>2
  <2> HIDE DEF At
  <2> QED
    BY <1>6, <1>7, <2>1, NopAt
<1>8. ASSUME NEW p1 \in starts, p1 \in At, InstrBehind(code, p1) # Len(code)
      PROVE  InstrBehind(code, p1) \in At
  <2>1. PICK n, z, y : n = B!NextAt(code, p1) /\ z = Zeros(code[p1 + 1]) /\ y = InstrBehind(code, p1)
    OBVIOUS
  <2>2. /\ z \in {0, 1, 2} /\ y = n + z /\ n \in p1 + 1..Len(code) /\ p1 \in 0..Len(code) - 1
        /\ y <= Len(code) /\ y # Len(code)
        /\ \A v \in 1..z : code[y - v + 1] = 0
    BY <1>8, <2>1, StraightOn
  <2>3. y \in Nat /\ n \in Nat
    BY <2>2
  <2> HIDE DEF At
  <2>4. n \in At
    <3>1. n # Len(code)
      BY ONLY <1>1, <2>2, <2>3
    <3> QED
      BY <1>6, <1>8, <2>1, <3>1
  <2>5. CASE z = 0
    <3>1. y = n
      BY ONLY <2>2, <2>3, <2>5
    <3> QED
      BY <2>1, <2>4, <3>1
  <2>6. CASE z = 1
    <3>1. y = n + 1 /\ y - 1 = n /\ 1 \in 1..z
      BY ONLY <2>2, <2>3, <2>6
    <3>2. code[n + 1] = 0 /\ n + 1 # Len(code)
      BY <2>2, <3>1
    <3> QED
      BY <1>7, <2>1, <2>4, <3>1, <3>2
  <2>7. CASE z = 2
    <3>1. y = n + 1 + 1 /\ y - 2 = n /\ y - 1 = n + 1 /\ 1 \in 1..z /\ 2 \in 1..z /\ n + 1 # Len(code)
      BY ONLY <1>1, <2>2, <2>3, <2>7
    <3>2. code[n + 1] = 0 /\ code[n + 1 + 1] = 0 /\ n + 1 + 1 # Len(code)
      BY <2>2, <3>1
    <3>3. n + 1 \in At
      BY <1>7, <2>4, <3>1, <3>2
    <3> QED
      BY <1>7, <2>1, <3>1, <3>2, <3>3
  <2> QED
    BY <2>2, <2>5, <2>6, <2>7
<1>9. starts \subseteq At
  <2> DEFINE level == [p \in starts |-> p]
  <2>1. starts \subseteq 0..Len(code) - 1
    BY DEF Straight
  <2>2. Levels(starts, level)
    <3>1. level \in [starts -> Nat] /\ \A p \in starts : level[p] <= Len(code)
      BY <1>1, <2>1
    <3> HIDE DEF level
    <3> QED
      BY ONLY <1>1, <3>1 DEF Levels
  <2>3. ASSUME NEW p \in starts, \A q \in starts : level[q] < level[p] => q \in At
        PROVE  p \in At
    <3>1. p = 0 \/ \E q \in starts : p = InstrBehind(code, q)
      BY DEF Straight
    <3>2. CASE p = 0
      <4>1. 1 \in 1..Len(d)
        <5>1. d # <<>>
          BY <1>1, <2>1, <3>2 DEF EndToEnd
        <5> QED
          BY <1>1, <5>1, EmptySeq
      <4> QED
        BY <1>4, <3>2, <4>1
    <3>3. CASE \E q \in starts : p = InstrBehind(code, q)
      <4>1. PICK q \in starts : p = InstrBehind(code, q)
        BY <3>3
      <4>2. q < p /\ p # Len(code)
        <5>1. PICK n, z : n = B!NextAt(code, q) /\ z = Zeros(code[q + 1])
          OBVIOUS
        <5>2. z \in {0, 1, 2} /\ p = n + z /\ n \in q + 1..Len(code) /\ q \in 0..Len(code) - 1
          BY <4>1, <5>1, StraightOn
        <5>3. p \in 0..Len(code) - 1
          BY <2>1
        <5> QED
          BY ONLY <1>1, <5>2, <5>3
      <4>3. q \in At
        <5>1. level[q] < level[p]
          BY <4>2
        <5> QED
          BY <2>3, <5>1
      <4> QED
        BY <1>8, <4>1, <4>2, <4>3
    <3> QED
      BY <3>1, <3>2, <3>3
  <2>4. Hereditary(starts, level, At)
    <3> HIDE DEF level, At
    <3> QED
      BY ONLY <2>3 DEF Hereditary
  <2> QED
    BY ONLY <2>2, <2>4, LevelInduction, Zenon
<1>10. ASSUME NEW p \in starts
       PROVE  \E e \in ToSet(d) :
                 /\ e.at = p /\ e.ins.op = FirstOpcode(code[p + 1])
                 /\ e.ins.args = SubSeq(code, p + 2, InstrBehind(code, p) - Zeros(code[p + 1]))
  <2>1. PICK k \in 1..Len(d) : d[k].at = p
    BY <1>9
  <2>2. d[k] \in ToSet(d) /\ d[k] = Placed(code, p)
    BY <1>1, <1>2, <2>1 DEF ToSet
  <2>3. code[p + 1] \in (0..201) \ Misread /\ B!Variant(code[p + 1]) = FirstOpcode(code[p + 1])
    BY StraightOn, VariantIs
  <2>4. InstrBehind(code, p) - Zeros(code[p + 1]) = B!NextAt(code, p)
    <3>1. PICK n, z, y : n = B!NextAt(code, p) /\ z = Zeros(code[p + 1]) /\ y = InstrBehind(code, p)
      OBVIOUS
    <3>2. z \in {0, 1, 2} /\ y = n + z /\ n \in p + 1..Len(code) /\ p \in 0..Len(code) - 1
      BY <3>1, StraightOn
    <3>3. y - z = n
      BY ONLY <3>2
    <3> QED
      BY <3>1, <3>3
  <2> QED
    BY <2>1, <2>2, <2>3, <2>4 DEF Placed, B!InstrAt, B!Instr
<1>11. ASSUME NEW e \in ToSet(d)
       PROVE  e.at \in starts \/ e.ins.op = 0
  <2>1. PICK k \in 1..Len(d) : e = d[k]
    BY <1>1 DEF ToSet
  <2>2. e.at \in starts \/ code[e.at + 1] = 0
    BY <1>5, <2>1, ReachedOn
  <2>3. e = Placed(code, e.at) /\ e.at \in Nat
    BY <1>2, <2>1
  <2>4. e.ins.op = B!Variant(code[e.at + 1])
    BY <2>3 DEF Placed, B!InstrAt, B!Instr
  <2> QED
    BY <2>2, <2>3, <2>4, NopAt
<1> QED
  BY <1>10, <1>11 DEF InStep

-----------------------------------------------------------------------------
(***************************************************************************)
(* Every step of a reader of a written file.                               *)
(***************************************************************************)

LEMMA CodeBytes ==
    ASSUME NEW cf, ClassFile(cf), NEW k \in Indices(cf.methods), NEW a \in CodesOf(cf, cf.methods[k])
    PROVE  a.code \in Seq(Byte)
<1>1. AttributesAt(cf, cf.methods[k].attributes, cf.methods[k].attributesAt)
  BY DEF ClassFile, MethodsAt, MembersAt, MemberAt
<1>2. PICK i \in Indices(cf.methods[k].attributes) : a = cf.methods[k].attributes[i]
  <2>1. PICK s : s = cf.methods[k].attributes
    OBVIOUS
  <2>2. s \in Seq(ToSet(s)) /\ a \in ToSet(s)
    BY <1>1, <2>1 DEF AttributesAt, IsSequence, CodesOf
  <2>3. DOMAIN s = 1..Len(s)
    BY <2>2, LenProperties
  <2> QED
    BY <2>1, <2>2, <2>3 DEF ToSet, Indices
<1>3. IsCode(cf, a)
  BY DEF CodesOf
<1>4. CodeAt(cf, a, cf.methods[k].attributesAt[i])
  BY <1>1, <1>2, <1>3 DEF AttributesAt
<1> QED
  BY <1>4 DEF CodeAt, Byte

LEMMA StraightIsDecoded ==
    ASSUME NEW cf, ClassFile(cf), AllStraight(cf)
    PROVE  ~Undecoded(cf)
<1> SUFFICES ASSUME NEW k \in Indices(cf.methods), NEW a \in CodesOf(cf, cf.methods[k])
             PROVE  B!Decode(a.code).is = "value"
  BY DEF Undecoded
<1>1. a.code \in Seq(Byte)
  BY CodeBytes
<1>2. Straight(a.code, a.starts)
  BY DEF AllStraight
<1> QED
  BY <1>1, <1>2, StraightDecodes

\* load_class fails on a file that was cut short or has code that cannot be
\* decoded, and only then.
Fails(cf) ==
    /\ outcome' \in {"error", "panic", "garbled"} /\ file' = file
    /\ ~Whole \/ Undecoded(cf)
Ends(cf) == AllRead(cf)' /\ outcome' = "done" /\ file' = file

LEMMA FailStep ==
    ASSUME NEW cf, Reader(cf), Mark(cf), FailRead
    PROVE  Fails(cf)
<1>1. ~Whole
  BY WholeReads DEF FailRead
<1>2. outcome' \in {"error", "panic", "garbled"} /\ file' = file
  BY DEF FailRead, Stop
<1> QED
  BY <1>1, <1>2 DEF Fails

LEMMA NextStep ==
    ASSUME NEW cf, Reader(cf), Mark(cf), Next
    PROVE  GoesOn(cf) \/ Ends(cf) \/ Fails(cf)
<1>1. CASE ReadCode
  <2>1. GoesOn(cf) \/ (Undecoded(cf) /\ \E how \in {"error", "panic"} : Stop(how))
    BY <1>1, CodeStep
  <2> QED
    BY <2>1 DEF Fails, Stop
<1>2. CASE ReadHeader \/ ReadConstant \/ ReadNames \/ ReadInterface \/ ReadCount \/ ReadMember
  BY <1>2, HeaderStep, ConstantStep, NamesStep, InterfaceStep, CountStep, MemberStep
<1>3. CASE SkipAttribute \/ ReadConstantValue
  BY <1>3, PlainStep
<1>4. CASE EndCode \/ EndField \/ EndMethod
  BY <1>4, EndCodeStep, EndFieldStep, EndMethodStep
<1>5. CASE Finish
  BY <1>5, FinishStep DEF Ends
<1>6. CASE FailRead
  BY <1>6, FailStep
<1> QED
  BY <1>1, <1>2, <1>3, <1>4, <1>5, <1>6 DEF Next

\* A step is taken while the reader reads, and never to another file.
LEMMA NextReads ==
    ASSUME Next
    PROVE  Reading /\ file' = file
<1>1. CASE ReadHeader \/ ReadConstant \/ ReadNames \/ ReadInterface \/ ReadCount \/ ReadMember
  BY <1>1 DEF ReadHeader, ReadConstant, ReadNames, ReadInterface, ReadCount, ReadMember,
              InTable, More, Over, MoreMembers, Pass, Stop
<1>2. CASE SkipAttribute \/ ReadConstantValue \/ ReadCode
  BY <1>2 DEF SkipAttribute, ReadConstantValue, ReadCode, Attribute, MoreAttributes, Pass, Stop
<1>3. CASE EndCode \/ EndField \/ EndMethod \/ Finish \/ FailRead
  BY <1>3 DEF EndCode, EndField, EndMethod, Finish, FailRead, NoMoreAttributes, Stop
<1> QED
  BY <1>1, <1>2, <1>3 DEF Next

LEMMA AttributePlaceKept ==
    ASSUME NEW cf, NEW attributes, NEW at, AtAttribute(cf, attributes, at),
           UNCHANGED <<file, rest, inner>>
    PROVE  AtAttribute(cf, attributes, at)' /\ LeftOver' = LeftOver
<1>1. LeftOver' = LeftOver
  BY DEF LeftOver
<1>2. \A p : CursorAt(cf, p) => CursorAt(cf, p)'
  BY StillAt
<1>3. PICK j : j = Len(attributes) - LeftOver
  OBVIOUS
<1>4. PICK a : a = attributes[j]
  OBVIOUS
<1>5. /\ inner # <<>> /\ LeftOver <= Len(attributes)
      /\ \/ Len(inner) = 1 /\ CursorAt(cf, at[j + 1])
         \/ /\ Len(inner) = 2 /\ j >= 1 /\ IsCode(cf, a) /\ inner[1] <= Len(a.inner)
            /\ CursorAt(cf, InnerAt(a, at[j]) + 3 * (Len(a.inner) - inner[1]))
  BY <1>3, <1>4 DEF AtAttribute
<1>6. PICK x : x = inner[1]
  OBVIOUS
<1>7. \/ Len(inner) = 1 /\ CursorAt(cf, at[j + 1])'
      \/ /\ Len(inner) = 2 /\ j >= 1 /\ IsCode(cf, a) /\ x <= Len(a.inner)
         /\ CursorAt(cf, InnerAt(a, at[j]) + 3 * (Len(a.inner) - x))'
  BY <1>2, <1>5, <1>6
<1>8. inner' # <<>> /\ LeftOver' <= Len(attributes) /\ inner'[1] = x
  BY <1>1, <1>5, <1>6
<1> QED
  BY <1>1, <1>3, <1>4, <1>6, <1>7, <1>8 DEF AtAttribute

LEMMA MemberPlaceKept ==
    ASSUME NEW cf, NEW members, NEW at, AtMember(cf, members, at),
           UNCHANGED <<file, rest, table, left, inner, member>>
    PROVE  AtMember(cf, members, at)'
<1>1. PICK k : k = Len(members) - left
  OBVIOUS
<1>2. PICK m : m = members[k + 1]
  OBVIOUS
<1>3. inner = <<>> => CursorAt(cf, at[k + 1])'
  BY <1>1, StillAt DEF AtMember
<1>4. inner # <<>> => AtAttribute(cf, m.attributes, m.attributesAt)' /\ LeftOver' = LeftOver
  BY <1>1, <1>2, AttributePlaceKept DEF AtMember
<1>5. PICK code, l : code = member.code /\ l = LeftOver
  OBVIOUS
<1>6. inner # <<>> => CodeUpTo(cf, m.attributes, code, Len(m.attributes) - l)
  BY <1>1, <1>2, <1>5 DEF AtMember
<1> QED
  BY <1>1, <1>2, <1>3, <1>4, <1>5, <1>6 DEF AtMember

LEMMA MarkKept ==
    ASSUME NEW cf, Mark(cf), UNCHANGED vars
    PROVE  Mark(cf)'
<1>1. UNCHANGED <<file, rest, table, left, inner, pool, class, member>>
  BY DEF vars
<1>2. \A p : CursorAt(cf, p) => CursorAt(cf, p)'
  BY <1>1, StillAt
<1>3. /\ NamesRead(cf) => NamesRead(cf)'
      /\ HeadRead(cf) => HeadRead(cf)'
      /\ \A k : FieldsUpTo(cf, k) => FieldsUpTo(cf, k)'
      /\ \A k : MethodsUpTo(cf, k) => MethodsUpTo(cf, k)'
  BY <1>1, SameClass
<1>4. DOMAIN class' = ClassParts /\ DOMAIN member' = MemberParts
  BY <1>1 DEF Mark
<1>5. CASE table = "header"
  <2>1. AtHeader(cf)'
    BY <1>1, <1>2, <1>5 DEF Mark, AtHeader
  <2> QED
    BY <1>1, <1>4, <1>5, <2>1 DEF Mark
<1>6. CASE table = "constants"
  <2>1. PICK k : k = Len(cf.constants) - left
    OBVIOUS
  <2>2. PoolUpTo(cf, k)' /\ CursorAt(cf, cf.constantsAt[k + 1])'
    BY <1>1, <1>2, <1>6, <2>1 DEF Mark, AtConstants, PoolUpTo
  <2>3. AtConstants(cf)'
    BY <1>1, <1>6, <2>1, <2>2 DEF Mark, AtConstants
  <2> QED
    BY <1>1, <1>4, <1>6, <2>3 DEF Mark
<1>7. CASE table = "interfaces"
  <2>1. PICK k : k = Len(cf.interfaces) - left
    OBVIOUS
  <2>2. InterfacesUpTo(cf, k)' /\ CursorAt(cf, cf.constantsAt[Len(cf.constants) + 1] + 4 + k)'
    BY <1>1, <1>2, <1>7, <2>1 DEF Mark, AtInterfaces, InterfacesUpTo
  <2>3. AtInterfaces(cf)'
    BY <1>1, <1>3, <1>7, <2>1, <2>2 DEF Mark, AtInterfaces
  <2> QED
    BY <1>1, <1>4, <1>7, <2>3 DEF Mark
<1>8. CASE table = "fields"
  <2>1. PICK k : k = Len(cf.fields) - left
    OBVIOUS
  <2>2. FieldsUpTo(cf, k)' /\ HeadRead(cf)' /\ AtMember(cf, cf.fields, cf.fieldsAt)'
    BY <1>1, <1>3, <1>8, <2>1, MemberPlaceKept DEF Mark, AtFields
  <2>3. AtFields(cf)'
    BY <1>1, <1>8, <2>1, <2>2 DEF Mark, AtFields
  <2> QED
    BY <1>1, <1>4, <1>8, <2>3 DEF Mark
<1>9. CASE table = "methods"
  <2>1. PICK k, n : k = Len(cf.methods) - left /\ n = Len(cf.fields)
    OBVIOUS
  <2>2. /\ MethodsUpTo(cf, k)' /\ HeadRead(cf)' /\ FieldsUpTo(cf, n)'
        /\ AtMember(cf, cf.methods, cf.methodsAt)'
    BY <1>1, <1>3, <1>9, <2>1, MemberPlaceKept DEF Mark, AtMethods
  <2>3. AtMethods(cf)'
    BY <1>1, <1>9, <2>1, <2>2 DEF Mark, AtMethods
  <2> QED
    BY <1>1, <1>4, <1>9, <2>3 DEF Mark
<1>10. CASE table = "attributes"
  <2>1. MembersRead(cf)'
    BY <1>1, <1>10, SameParts DEF Mark, AtAttributes
  <2>2. AtAttribute(cf, cf.attributes, cf.attributesAt)' /\ LeftOver' = LeftOver
    BY <1>1, <1>10, AttributePlaceKept DEF Mark, AtAttributes
  <2>3. AtAttributes(cf)'
    BY <1>1, <1>10, <2>1, <2>2 DEF Mark, AtAttributes, NamesUpTo
  <2> QED
    BY <1>1, <1>4, <1>10, <2>3 DEF Mark
<1>11. CASE table \notin TableNames
  BY <1>1, <1>4, <1>11 DEF Mark, TableNames
<1> QED
  BY <1>5, <1>6, <1>7, <1>8, <1>9, <1>10, <1>11 DEF TableNames

\* The inductive step.
LEMMA WrittenKept ==
    ASSUME TypeInv, WrittenInv, file \in Files, [Next]_vars
    PROVE  WrittenInv' /\ (file \in Files)'
<1>1. file' = file
  BY NextReads DEF vars
<1>2. CASE ~file.written
  BY <1>1, <1>2 DEF WrittenInv
<1>3. CASE file.written
  <2>1. PICK cf : cf = file.src
    OBVIOUS
  <2>2. ClassFile(cf) /\ file'.src = cf /\ Whole' = Whole
    BY <1>1, <1>3, <2>1, WrittenAssumption DEF Whole
  <2>3. /\ Reading => Mark(cf)
        /\ Done => AllRead(cf)
        /\ Whole /\ AllStraight(cf) => outcome \in {"reading", "done"}
    BY <1>3, <2>1 DEF WrittenInv
  <2>4. CASE Next
    <3>1. Reader(cf) /\ Mark(cf)
      BY <2>1, <2>2, <2>3, <2>4, NextReads DEF Reader
    <3>2. CASE GoesOn(cf)
      BY <2>2, <3>2 DEF GoesOn, WrittenInv, Reading, Done
    <3>3. CASE Ends(cf)
      BY <2>2, <3>3 DEF Ends, WrittenInv, Reading, Done
    <3>4. CASE Fails(cf)
      <4>1. ~(Whole /\ AllStraight(cf))
        BY <2>2, <3>4, StraightIsDecoded DEF Fails
      <4>2. outcome' # "reading" /\ outcome' # "done"
        BY <3>4 DEF Fails
      <4> QED
        BY <1>1, <2>2, <4>1, <4>2 DEF WrittenInv, Reading, Done
    <3> QED
      BY <2>4, <3>1, <3>2, <3>3, <3>4, NextStep
  <2>5. CASE UNCHANGED vars
    <3>1. UNCHANGED <<class, pool, outcome>>
      BY <2>5 DEF vars
    <3>2. Mark(cf) => Mark(cf)'
      BY <2>5, MarkKept
    <3>3. AllRead(cf) => AllRead(cf)'
      <4>1. MembersRead(cf) => MembersRead(cf)'
        BY <3>1, SameParts
      <4> QED
        BY <3>1, <4>1 DEF AllRead, NamesUpTo
    <3> QED
      BY <1>1, <2>2, <2>3, <3>1, <3>2, <3>3 DEF WrittenInv, Reading, Done
  <2> QED
    BY <2>4, <2>5
<1> QED
  BY <1>1, <1>2, <1>3

LEMMA InitWritten ==
    ASSUME Init
    PROVE  WrittenInv /\ file \in Files
<1>1. file \in Files /\ rest = file.items /\ inner = <<>> /\ table = "header"
  BY DEF Init
<1>2. ASSUME file.written PROVE Mark(file.src)
  <2>1. PICK cf : cf = file.src
    OBVIOUS
  <2>2. \A k \in 1..Len(rest) : rest[k] = cf.items[k]
    BY <1>1, <1>2, <2>1, WrittenAssumption DEF Indices
  <2>3. Len(cf.items) \in Nat
    BY <1>1, <1>2, <2>1, WrittenAssumption DEF ClassFile
  <2>4. CursorAt(cf, 0)
    <3>1. Len(rest) \in Nat
      BY <1>1, FilesAssumption
    <3>2. \A k \in 1..Len(rest) : 0 + k = k
      BY <3>1
    <3>3. Whole => Len(rest) = Len(cf.items) - 0
      BY <1>1, <2>1, <2>3 DEF Whole
    <3> QED
      BY <2>2, <3>2, <3>3 DEF CursorAt
  <2>5. DOMAIN class = ClassParts /\ DOMAIN member = MemberParts /\ class = NoClass
    BY DEF Init, NoClass, NoMember, ClassParts, MemberParts
  <2> QED
    BY <1>1, <2>1, <2>4, <2>5 DEF Mark, AtHeader
<1>3. outcome = "reading"
  BY DEF Init
<1> QED
  BY <1>1, <1>2, <1>3 DEF WrittenInv, Done

LEMMA SpecWritten == Spec => [](TypeInv /\ WrittenInv /\ file \in Files)
<1>1. Init => IInv /\ TypeInv /\ WrittenInv /\ file \in Files
  BY InitTypes, InitWritten
<1>2. IInv /\ TypeInv /\ WrittenInv /\ file \in Files /\ [Next]_vars
        => IInv' /\ TypeInv' /\ WrittenInv' /\ (file \in Files)'
  BY NextKeepsIInv, TypesKept, WrittenKept
<1> QED
  BY <1>1, <1>2, PTL DEF Spec

-----------------------------------------------------------------------------
(***************************************************************************)
(* What was read is what was written.                                      *)
(***************************************************************************)

LEMMA Elements ==
    ASSUME NEW s, IsSequence(s)
    PROVE  ToSet(s) = {s[i] : i \in Indices(s)}
<1>1. DOMAIN s = Indices(s)
  BY LenProperties DEF IsSequence, Indices
<1> QED
  BY <1>1 DEF ToSet

\* A reference is resolved to the class, the name and the descriptor it names.
LEMMA RefersTo ==
    ASSUME NEW cf, ClassFile(cf), PoolUpTo(cf, Len(cf.constants)),
           NEW i \in Indices(cf.constants), IsReference(cf, i)
    PROVE  RefInfo(i) = <<Reference(cf, i)>>
<1>1. RefersRight(cf, i)
  BY DEF ClassFile, ConstantAt
<1>2. /\ Get(i) = cf.constants[i] /\ Get(cf.constants[i].args[2]) = NameAndType(cf, i)
      /\ NameAndType(cf, i).tag = 12
      /\ ClassInfo(cf.constants[i].args[1]) = <<NameOf(cf, cf.constants[i].args[1])>>
  BY <1>1, Resolved DEF RefersRight, Indices, NameAndType
<1>3. \A k \in {1, 2} :
         /\ Get(NameAndType(cf, i).args[k]).tag = Utf8
         /\ Get(NameAndType(cf, i).args[k]).text = TextOf(cf, NameAndType(cf, i).args[k])
  BY <1>1, Resolved DEF RefersRight
<1>4. cf.constants[i].tag \in {9, 10, 11}
  BY DEF IsReference
<1>5. 1..2 = {1, 2}
  OBVIOUS
<1>6. ClassInfo(cf.constants[i].args[1]) # <<>>
  BY <1>2
<1> QED
  BY ONLY <1>2, <1>3, <1>4, <1>5, <1>6 DEF RefInfo, Reference

LEMMA AllReadIsClassOf ==
    ASSUME NEW cf, ClassFile(cf), AllRead(cf)
    PROVE  IsClassOf(cf)
<1>1. /\ PoolUpTo(cf, Len(cf.constants))
      /\ class.this = NameOf(cf, cf.this)
      /\ class.super = IF cf.super = 0 THEN <<>> ELSE <<NameOf(cf, cf.super)>>
      /\ InterfacesUpTo(cf, Len(cf.interfaces)) /\ FieldsUpTo(cf, Len(cf.fields))
      /\ MethodsUpTo(cf, Len(cf.methods))
      /\ class.attributes = NamesUpTo(cf, cf.attributes, Len(cf.attributes))
  BY DEF AllRead, MembersRead, HeadRead, NamesRead
<1>2. /\ Len(class.interfaces) = Len(cf.interfaces)
      /\ \A k \in Indices(cf.interfaces) :
            ClassInfo(class.interfaces[k]) = <<NameOf(cf, cf.interfaces[k])>>
  <2>1. \A k \in Indices(cf.interfaces) : IsClass(cf, cf.interfaces[k])
    BY DEF ClassFile, NamesAt, Indices
  <2> QED
    BY <1>1, <2>1, Resolved DEF InterfacesUpTo, Indices
<1>3. {[name |-> f.name, fd |-> f.fd] : f \in class.fields}
          = {[name |-> TextOf(cf, cf.fields[k].name), fd |-> cf.fields[k].type] :
                k \in {k \in Indices(cf.fields) :
                          \A j \in k + 1..Len(cf.fields) :
                              TextOf(cf, cf.fields[j].name) # TextOf(cf, cf.fields[k].name)}}
  <2> DEFINE kept == {k \in Indices(cf.fields) : LastOfName(cf, k, Len(cf.fields))}
  <2>1. kept = {k \in Indices(cf.fields) :
                   \A j \in k + 1..Len(cf.fields) :
                       TextOf(cf, cf.fields[j].name) # TextOf(cf, cf.fields[k].name)}
    BY DEF LastOfName, FieldName
  <2>2. /\ \A f \in class.fields : \E k \in kept :
              f.name = TextOf(cf, cf.fields[k].name) /\ f.fd = cf.fields[k].type
        /\ \A k \in kept : \E f \in class.fields :
              f.name = TextOf(cf, cf.fields[k].name) /\ f.fd = cf.fields[k].type
    BY <1>1 DEF FieldsUpTo, IsField, FieldName, Indices
  <2> HIDE DEF kept
  <2>3. {[name |-> f.name, fd |-> f.fd] : f \in class.fields}
            = {[name |-> TextOf(cf, cf.fields[k].name), fd |-> cf.fields[k].type] : k \in kept}
    BY ONLY <2>2
  <2> QED
    BY ONLY <2>1, <2>3
<1>4. /\ \A k \in Indices(cf.methods) : \E m \in class.methods : IsMethod(m, cf, k)
      /\ \A m \in class.methods : \E k \in Indices(cf.methods) : IsMethod(m, cf, k)
  BY <1>1 DEF MethodsUpTo, MethodRead, Indices
<1>5. class.attributes = {TextOf(cf, a.name) : a \in ToSet(cf.attributes)}
  <2>1. ToSet(cf.attributes) = {cf.attributes[i] : i \in Indices(cf.attributes)}
    BY Elements DEF ClassFile, ClassAttributesAt, AttributesAt
  <2>2. {TextOf(cf, a.name) : a \in {cf.attributes[i] : i \in Indices(cf.attributes)}}
            = {TextOf(cf, cf.attributes[i].name) : i \in Indices(cf.attributes)}
    OBVIOUS
  <2> QED
    BY <1>1, <2>1, <2>2 DEF NamesUpTo, Indices
<1>6. \A i \in Indices(cf.constants) : IsReference(cf, i) => RefInfo(i) = <<Reference(cf, i)>>
  BY <1>1, RefersTo
<1> QED
  BY <1>1, <1>2, <1>3, <1>4, <1>5, <1>6 DEF IsClassOf

\* load_class reads every file that is laid out as JVMS chapter 4 says, of
\* whatever constants, members and attributes, to its end, and hands out the
\* class that was written; cut short anywhere, the file is refused or the
\* class is still that one.
THEOREM SpecReadsBack == Spec => []ReadsBack
<1>1. TypeInv /\ WrittenInv /\ file \in Files => ReadsBack
  BY WrittenAssumption, AllReadIsClassOf DEF WrittenInv, ReadsBack
<1> QED
  BY <1>1, SpecWritten, PTL

-----------------------------------------------------------------------------
(***************************************************************************)
(* What is made of the code, the constants and the descriptors.            *)
(***************************************************************************)

\* The code of a method lies end to end over its Code attribute.
LEMMA MethodCode ==
    ASSUME NEW cf, ClassFile(cf), AllRead(cf), NEW m \in class.methods
    PROVE  \E k \in Indices(cf.methods) :
              /\ IsMethod(m, cf, k)
              /\ \A a \in CodesOf(cf, cf.methods[k]) :
                    /\ a.code \in Seq(Byte) /\ m.code \in Seq(PlacedIn(a.code))
                    /\ EndToEnd(a.code, 0, m.code)
<1>1. PICK k \in Indices(cf.methods) : MethodRead(m, cf, k)
  BY DEF AllRead, MembersRead, MethodsUpTo, Indices
<1>2. PICK attributes : attributes = cf.methods[k].attributes
  OBVIOUS
<1>3. IsSequence(attributes)
  BY <1>2 DEF ClassFile, MethodsAt, MembersAt, MemberAt, AttributesAt
<1>4. ASSUME NEW a \in CodesOf(cf, cf.methods[k])
      PROVE  /\ a.code \in Seq(Byte) /\ m.code \in Seq(PlacedIn(a.code))
             /\ EndToEnd(a.code, 0, m.code)
  <2>1. PICK i \in 1..Len(attributes) : a = attributes[i]
    BY <1>2, <1>3, Elements DEF CodesOf, Indices
  <2>2. IsCode(cf, attributes[i])
    BY <2>1 DEF CodesOf
  <2>3. B!Decode(a.code).is = "value" /\ m.code = B!Decode(a.code).val
    BY <1>1, <1>2, <2>1, <2>2 DEF MethodRead, CodeUpTo
  <2>4. a.code \in Seq(Byte)
    BY CodeBytes
  <2> QED
    BY <2>3, <2>4, DecodedEndToEnd
<1> QED
  BY <1>1, <1>4 DEF MethodRead

\* The decoder stays in step with every code of instructions it knows.
THEOREM SpecCodeInStep == Spec => []CodeInStep
<1>1. ASSUME TypeInv, WrittenInv, file \in Files, Done, file.written,
             NEW m \in class.methods
      PROVE  \E k \in Indices(file.src.methods) :
                /\ IsMethod(m, file.src, k)
                /\ \A a \in CodesOf(file.src, file.src.methods[k]) :
                      Straight(a.code, a.starts) => InStep(ToSet(m.code), a.code, a.starts)
  <2>1. PICK cf : cf = file.src
    OBVIOUS
  <2>2. ClassFile(cf) /\ AllRead(cf)
    BY <1>1, <2>1, WrittenAssumption DEF WrittenInv
  <2>3. PICK k \in Indices(cf.methods) :
           /\ IsMethod(m, cf, k)
           /\ \A a \in CodesOf(cf, cf.methods[k]) :
                 /\ a.code \in Seq(Byte) /\ m.code \in Seq(PlacedIn(a.code))
                 /\ EndToEnd(a.code, 0, m.code)
    BY <2>2, MethodCode
  <2>4. \A a \in CodesOf(cf, cf.methods[k]) :
           Straight(a.code, a.starts) => InStep(ToSet(m.code), a.code, a.starts)
    BY <2>3, StraightInStep
  <2> QED
    BY <2>1, <2>3, <2>4
<1>2. TypeInv /\ WrittenInv /\ file \in Files => CodeInStep
  BY <1>1 DEF CodeInStep
<1> QED
  BY <1>2, SpecWritten, PTL

\* What is decoded at a place is encoded to the bytes there.
LEMMA EncodedAgain ==
    ASSUME NEW code \in Seq(Byte), NEW s \in Seq(PlacedIn(code)), EndToEnd(code, 0, s),
           NEW d \in ToSet(s)
    PROVE  EncodesTo(d, code)
<1>1. Len(s) \in Nat /\ Len(code) \in Nat /\ DOMAIN s = 1..Len(s)
  BY LenProperties
<1>2. PICK k \in 1..Len(s) : d = s[k]
  BY <1>1 DEF ToSet
<1>3. PICK p, next : p = d.at /\ next = Behind(code, s, k)
  OBVIOUS
<1>4. /\ p \in 0..Len(code) - 1 /\ d = Placed(code, p)
      /\ next \in p + 1..Len(code) /\ next = B!NextAt(code, p)
  BY <1>2, <1>3 DEF EndToEnd
<1>5. d.ins = B!InstrAt(code, p) /\ d.ins.args = SubSeq(code, p + 2, next)
  BY <1>4 DEF Placed, B!InstrAt, B!Instr
<1>6. /\ p \in Nat /\ next \in Nat /\ p + 1 <= next /\ next <= Len(code)
      /\ p + 2 \in Nat /\ p + 1 \in Nat
  BY <1>1, <1>4
<1>7. \A i \in 1..Len(code) : code[i] \in Byte
  BY ElementOfSeq
<1>8. Len(d.ins.args) = next - (p + 1)
  <2>1. \A i \in p + 2..next : code[i] \in Byte
    BY <1>1, <1>6, <1>7
  <2>2. Len(SubSeq(code, p + 2, next)) = IF p + 2 <= next THEN next - (p + 2) + 1 ELSE 0
    BY ONLY <1>6, <2>1, SubSeqProperties
  <2>3. (IF p + 2 <= next THEN next - (p + 2) + 1 ELSE 0) = next - (p + 1)
    BY ONLY <1>6
  <2> QED
    BY <1>5, <2>2, <2>3
<1>9. d.at + 1 = p + 1 /\ d.at + 1 + Len(d.ins.args) = next
  <2>1. p + 1 + (next - (p + 1)) = next
    BY ONLY <1>6
  <2> QED
    BY <1>3, <1>8, <2>1
<1>10. Len(SubSeq(code, p + 1, next)) = next - p
  <2>1. \A i \in p + 1..next : code[i] \in Byte
    BY <1>1, <1>6, <1>7
  <2>2. PICK q \in Nat : q = p + 1
    BY ONLY <1>6
  <2>3. Len(SubSeq(code, q, next)) = IF q <= next THEN next - q + 1 ELSE 0
    BY ONLY <1>6, <2>1, <2>2, SubSeqProperties
  <2>4. q <= next /\ next - q + 1 = next - p
    BY ONLY <1>6, <2>2
  <2>5. Len(SubSeq(code, q, next)) = next - p
    BY ONLY <2>3, <2>4, Zenon
  <2> QED
    BY <2>2, <2>5
<1>11. Written(d.ins.op) =>
          /\ B!Encode(d.ins) = SubSeq(code, p + 1, next)
          /\ Sized(d.ins.op) => B!InstrSize(d.ins) = next - p
  BY <1>4, <1>5, InstrReadsBack
<1>12. d.ins.op \notin {2, 14, 182, 183, 184, 186, 193, 197} \cup B!NotEncoded => Written(d.ins.op)
  BY DEF Written, B!EncodedBare
<1> QED
  BY <1>9, <1>10, <1>11, <1>12 DEF EncodesTo, Sized

\* A constant is written as the items it was read from.
LEMMA ConstantAgain ==
    ASSUME NEW cf, ClassFile(cf), PoolUpTo(cf, Len(cf.constants)),
           NEW i \in Indices(cf.constants), pool[i + 1].tag # Utf8,
           NEW j \in Indices(ConstantItems(pool[i + 1]))
    PROVE  LET written == cf.items[cf.constantsAt[i] + j]
           IN  ConstantItems(pool[i + 1])[j] = Item(written.w, written.v)
<1>1. PICK c : c = cf.constants[i]
  OBVIOUS
<1>2. PICK ops, n, p : ops = Operands(c.tag) /\ n = Len(ops) /\ p = cf.constantsAt[i]
  OBVIOUS
<1>3. pool[i + 1] = c /\ c.tag # Utf8
  BY <1>1 DEF PoolUpTo, Indices
<1>4. ConstantAt(cf, i)
  BY DEF ClassFile
<1>5. /\ Holds(cf, p + 1, 1, c.tag) /\ c = Constant(c.tag, [k \in 1..n |-> c.args[k]], <<>>)
      /\ \A k \in 1..n : Holds(cf, p + 1 + k, ops[k], c.args[k])
  BY <1>1, <1>2, <1>3, <1>4 DEF ConstantAt
<1>6. p \in Nat /\ n \in {0, 1, 2}
  <2>1. i \in 1..Len(cf.constants) + 1
    BY Counts DEF Indices
  <2>2. p \in Nat
    BY <1>2, <2>1 DEF ClassFile, Positions
  <2>3. ops \in {<<2>>, <<4>>, <<8>>, <<2, 2>>, <<1, 2>>, <<>>}
    BY <1>2 DEF Operands
  <2>4. n \in {0, 1, 2}
    BY ONLY <1>2, <2>3
  <2> QED
    BY <2>2, <2>4
<1>7. DOMAIN c.args = 1..n
  <2>1. c.args = [k \in 1..n |-> c.args[k]]
    BY <1>5 DEF Constant
  <2> QED
    BY ONLY <2>1
<1> DEFINE first == Item(1, c.tag)
           tail == [k \in 1..n |-> Item(ops[k], c.args[k])]
           S == {first} \cup {tail[k] : k \in 1..n}
<1>8. ConstantItems(c) = <<first>> \o tail
  <2>1. [k \in DOMAIN c.args |-> Item(Operands(c.tag)[k], c.args[k])] = tail
    BY <1>2, <1>7
  <2> HIDE DEF tail
  <2> QED
    BY <1>3, <2>1 DEF ConstantItems
<1>9. first \in S /\ tail \in Seq(S) /\ Len(tail) = n
  <2>1. n \in Nat /\ \A k \in 1..n : tail[k] \in S
    BY <1>6
  <2>2. tail = [k \in 1..n |-> tail[k]]
    OBVIOUS
  <2>3. first \in S
    OBVIOUS
  <2> HIDE DEF tail, S
  <2> QED
    BY ONLY <2>1, <2>2, <2>3
<1> HIDE DEF S
<1>10. \A k \in 1..n : tail[k] = Item(ops[k], c.args[k])
  OBVIOUS
<1> HIDE DEF first, tail
<1>11. /\ Len(<<first>> \o tail) = n + 1 /\ (<<first>> \o tail)[1] = first
       /\ \A k \in 1..n : (<<first>> \o tail)[k + 1] = tail[k]
  BY ONLY <1>9, InFront
<1>12. j \in 1..n + 1
  BY <1>3, <1>8, <1>11 DEF Indices
<1>13. CASE j = 1
  <2>1. cf.items[p + j].w = 1 /\ cf.items[p + j].v = c.tag
    BY <1>5, <1>13 DEF Holds, Number
  <2> QED
    BY <1>2, <1>3, <1>8, <1>11, <1>13, <2>1 DEF first
<1>14. CASE j # 1
  <2>1. PICK k \in 1..n : j = k + 1
    <3>1. j - 1 \in 1..n /\ j = (j - 1) + 1
      BY ONLY <1>6, <1>12, <1>14
    <3> QED
      BY <3>1
  <2>2. p + j = p + 1 + k
    BY ONLY <1>6, <2>1
  <2>3. cf.items[p + j].w = ops[k] /\ cf.items[p + j].v = c.args[k]
    BY <1>5, <2>2 DEF Holds, Number
  <2> QED
    BY <1>2, <1>3, <1>8, <1>10, <1>11, <2>1, <2>3
<1> QED
  BY <1>13, <1>14

\* What load_class made of a file is written back as the bytes it was made
\* from: the instructions of every method, and the constants.
THEOREM SpecCodecAgrees == Spec => []CodecAgrees
<1>1. ASSUME TypeInv, WrittenInv, file \in Files, Done, file.written
      PROVE  CodecAgrees
  <2>1. PICK cf : cf = file.src
    OBVIOUS
  <2>2. ClassFile(cf) /\ AllRead(cf) /\ PoolUpTo(cf, Len(cf.constants))
    BY <1>1, <2>1, WrittenAssumption DEF WrittenInv, AllRead, MembersRead, HeadRead, NamesRead
  <2>3. ASSUME NEW m \in class.methods
        PROVE  \E k \in Indices(cf.methods) :
                  /\ IsMethod(m, cf, k)
                  /\ \A a \in CodesOf(cf, cf.methods[k]) : \A d \in ToSet(m.code) : EncodesTo(d, a.code)
    BY <2>2, MethodCode, EncodedAgain
  <2>4. ASSUME NEW i \in Indices(cf.constants), pool[i + 1].tag # Utf8,
               NEW j \in Indices(ConstantItems(pool[i + 1]))
        PROVE  LET written == cf.items[cf.constantsAt[i] + j]
               IN  ConstantItems(pool[i + 1])[j] = Item(written.w, written.v)
    BY <2>2, <2>4, ConstantAgain
  <2> QED
    BY <2>1, <2>3, <2>4 DEF CodecAgrees
<1>2. TypeInv /\ WrittenInv /\ file \in Files => CodecAgrees
  BY <1>1 DEF CodecAgrees
<1> QED
  BY <1>2, SpecWritten, PTL

\* A descriptor of some letters is one of more letters.
LEMMA MoreLetters ==
    ASSUME NEW fd, FieldType(fd), NEW letters, ToSet(fd.name) \subseteq letters
    PROVE  fd \in FieldDescriptors(letters)
<1>1. fd = Field(fd.dims, fd.elem, fd.name) /\ fd.dims \in Dimensions
  BY DEF FieldType
<1>2. CASE fd.elem \in Base /\ fd.name = <<>>
  BY <1>1, <1>2 DEF FieldDescriptors
<1>3. CASE fd.elem = "L" /\ IsSequence(fd.name)
  <2>1. PICK name : name = fd.name
    OBVIOUS
  <2>2. name \in Seq(ToSet(name)) /\ ToSet(name) \subseteq letters
    BY <1>3, <2>1 DEF IsSequence
  <2>3. name \in Seq(letters)
    <3>1. PICK S : S = ToSet(name)
      OBVIOUS
    <3>2. name \in [1..Len(name) -> S] /\ Len(name) \in Nat
      BY <2>2, <3>1, LenProperties
    <3>3. name \in [1..Len(name) -> letters]
      BY ONLY <2>2, <3>1, <3>2
    <3> QED
      BY ONLY <3>2, <3>3
  <2> QED
    BY <1>1, <1>3, <2>1, <2>3 DEF FieldDescriptors
<1> QED
  BY <1>2, <1>3 DEF FieldType

LEMMA MethodParsed ==
    ASSUME NEW d, MethodType(d), Sought(d.ret),
           \A i \in Indices(d.params) :
              Sought(d.params[i]) /\ (d.params[i].dims = 0 \/ d.params[i].elem = "L")
    PROVE  ParseMethod(PrintMethod(d)) = Value(d)
<1> DEFINE letters == ToSet(d.ret.name) \cup UNION {ToSet(d.params[i].name) : i \in Indices(d.params)}
<1>1. Semicolon \notin letters /\ ")" \notin letters
  BY DEF Sought
<1>2. /\ d = [params |-> d.params, ret |-> d.ret] /\ IsSequence(d.params)
      /\ \A i \in Indices(d.params) : FieldType(d.params[i])
      /\ d.ret = Void \/ FieldType(d.ret)
  BY DEF MethodType
<1>3. /\ \A i \in Indices(d.params) : ToSet(d.params[i].name) \subseteq letters
      /\ ToSet(d.ret.name) \subseteq letters
  OBVIOUS
<1> HIDE DEF letters
<1>4. d.ret \in FieldDescriptors(letters) \cup {Void}
  BY <1>2, <1>3, MoreLetters
<1>5. d.params \in Seq(FieldDescriptors(letters))
  <2>1. PICK ps : ps = d.params
    OBVIOUS
  <2>2. \A i \in Indices(ps) : ps[i] \in FieldDescriptors(letters)
    BY <1>2, <1>3, <2>1, MoreLetters
  <2>3. ps \in [1..Len(ps) -> ToSet(ps)] /\ Len(ps) \in Nat
    BY <1>2, <2>1, LenProperties DEF IsSequence
  <2>4. ps \in [1..Len(ps) -> FieldDescriptors(letters)]
    BY ONLY <2>2, <2>3 DEF Indices
  <2>5. ps \in Seq(FieldDescriptors(letters))
    BY ONLY <2>3, <2>4
  <2> QED
    BY <2>1, <2>5
<1>6. d \in MethodDescriptors(letters)
  BY <1>2, <1>4, <1>5 DEF MethodDescriptors
<1>7. \A i \in DOMAIN d.params : Findable(d.params[i])
  <2>1. DOMAIN d.params = Indices(d.params)
    BY <1>2, LenProperties DEF IsSequence, Indices
  <2> QED
    BY <2>1 DEF Findable
<1> QED
  BY <1>1, <1>6, <1>7, MethodReadsBack

\* Of every written method the class has one whose descriptor parses to the
\* signature it was printed from, where the parser can find the ends.
THEOREM SpecDescriptorsReadBack == Spec => []DescriptorsReadBack
<1>1. ASSUME TypeInv, WrittenInv, file \in Files, Done, file.written,
             NEW k \in Indices(file.src.methods), NEW d, d = file.src.methods[k].type,
             Sought(d.ret),
             \A i \in Indices(d.params) :
                Sought(d.params[i]) /\ (d.params[i].dims = 0 \/ d.params[i].elem = "L")
      PROVE  \E m \in class.methods : IsMethod(m, file.src, k) /\ ParseMethod(m.text) = Value(d)
  <2>1. PICK cf : cf = file.src
    OBVIOUS
  <2>2. ClassFile(cf) /\ AllRead(cf)
    BY <1>1, <2>1, WrittenAssumption DEF WrittenInv
  <2>3. MethodType(d) /\ TextOf(cf, cf.methods[k].text) = PrintMethod(d)
    BY <1>1, <2>1, <2>2 DEF ClassFile, MethodsAt
  <2>4. PICK m \in class.methods : IsMethod(m, cf, k)
    BY <2>1, <2>2 DEF AllRead, MembersRead, MethodsUpTo, MethodRead, Indices
  <2>5. ParseMethod(m.text) = Value(d)
    BY <1>1, <2>3, <2>4, MethodParsed DEF IsMethod
  <2> QED
    BY <2>1, <2>4, <2>5
<1>2. TypeInv /\ WrittenInv /\ file \in Files => DescriptorsReadBack
  BY <1>1 DEF DescriptorsReadBack
<1> QED
  BY <1>2, SpecWritten, PTL
=============================================================================
