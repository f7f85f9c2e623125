------------------------- MODULE ClassReaderProofs -------------------------
(***************************************************************************)
(* The class reader, for every set of files: the layout of the fields and  *)
(* the types.  Then what the codec and the descriptors it is built from    *)
(* compute, for every input: what was written is read back.                *)
(***************************************************************************)
EXTENDS ClassReader, Recursion, SequenceTheorems

FieldSize == {1, 2, 4, 8}

\* A field between its name and its end has a descriptor with a size.
MemberInv ==
    /\ "fd" \in DOMAIN member
    /\ table = "fields" /\ inner # <<>> => SizeOf(member.fd) \in FieldSize

\* Both offsets are the size so far, and the fields lie below it.
LayoutInv ==
    /\ {"fields", "heapSize"} \subseteq DOMAIN class
    /\ class.heapSize \in Nat
    /\ oldOffset = class.heapSize /\ newOffset = class.heapSize
    /\ \A f \in class.fields : f.offset \in Nat /\ SizeOf(f.fd) \in FieldSize

IInv == MemberInv /\ LayoutInv /\ FieldsDisjoint

-----------------------------------------------------------------------------

\* Every field descriptor has one of four sizes.
LEMMA SizesOfFields ==
    ASSUME NEW fd, fd.elem \in Base \cup {"L"}
    PROVE  SizeOf(fd) \in FieldSize
<1>1. CASE fd.dims > 0 \/ fd.elem = "L"
  BY <1>1 DEF SizeOf, FieldSize
<1>2. CASE ~(fd.dims > 0 \/ fd.elem = "L")
  <2>1. fd.elem \in {"B", "C", "D", "F", "I", "J", "S", "Z"}
    BY <1>2 DEF Base
  <2> QED
    BY <1>2, <2>1 DEF SizeOf, FieldSize
<1> QED
  BY <1>1, <1>2

\* What FieldDescriptor::parse accepts has a size.
LEMMA ParsedHasSize ==
    ASSUME NEW s, ParseField(s).is = "value"
    PROVE  SizeOf(ParseField(s).val) \in FieldSize
<1> DEFINE plain == {i \in DOMAIN s : s[i] # "["}
           at    == CHOOSE i \in plain : \A j \in plain : i <= j
<1>1. ParseField(s).val.elem \in Base \cup {"L"}
  BY DEF ParseField, Value, Error, Panic, Field
<1> QED
  BY <1>1, SizesOfFields

-----------------------------------------------------------------------------

LEMMA InitIInv == ASSUME Init PROVE IInv
BY DEF Init, IInv, MemberInv, LayoutInv, FieldsDisjoint, NoMember, NoClass

\* A step that leaves the layout and the field being read alone.
LEMMA LayoutKept ==
    ASSUME IInv, UNCHANGED <<oldOffset, newOffset>>,
           {"fields", "heapSize"} \subseteq DOMAIN class',
           class'.fields = class.fields, class'.heapSize = class.heapSize
    PROVE  LayoutInv' /\ FieldsDisjoint'
BY DEF IInv, LayoutInv, FieldsDisjoint

\* The member is kept when an attribute is added to it, and so is the class.
LEMMA AttributeAdded ==
    ASSUME IInv, AddAttribute
    PROVE  /\ "fd" \in DOMAIN member' /\ member'.fd = member.fd
           /\ {"fields", "heapSize"} \subseteq DOMAIN class'
           /\ class'.fields = class.fields /\ class'.heapSize = class.heapSize
BY DEF IInv, MemberInv, LayoutInv, AddAttribute

\* The layout: the new field begins where all others have ended.
LEMMA EndFieldKeeps == ASSUME IInv, EndField PROVE IInv'
<1> DEFINE size  == SizeOf(member.fd)
           field == [name |-> member.name, fd |-> member.fd, offset |-> oldOffset]
           kept  == {f \in class.fields : f.name # member.name}
<1>1. size \in FieldSize /\ size \in Nat
  BY DEF IInv, MemberInv, EndField, NoMoreAttributes, FieldSize
<1>2. /\ {"fields", "heapSize"} \subseteq DOMAIN class'
      /\ class'.fields = kept \cup {field} /\ class'.heapSize = class.heapSize + size
      /\ oldOffset' = newOffset + size /\ newOffset' = newOffset + size
      /\ inner' = <<>> /\ member' = member
  BY DEF IInv, LayoutInv, EndField
<1>3. field.fd = member.fd /\ field.offset = oldOffset
  OBVIOUS
<1>4. LayoutInv'
  BY <1>1, <1>2, <1>3 DEF IInv, LayoutInv
<1>5. MemberInv'
  BY <1>2 DEF IInv, MemberInv
<1>6. \A f \in kept : f.offset + SizeOf(f.fd) <= field.offset
  BY <1>3 DEF IInv, LayoutInv, FieldsDisjoint
<1>7. FieldsDisjoint'
  <2> HIDE DEF size, field
  <2>1. \A f \in class.fields : f.offset \in Nat /\ SizeOf(f.fd) \in Nat
    BY DEF IInv, LayoutInv, FieldSize
  <2>2. field.offset + SizeOf(field.fd) = class'.heapSize /\ class.heapSize <= class'.heapSize
    BY <1>1, <1>2, <1>3 DEF IInv, LayoutInv, size
  <2>3. \A f \in class'.fields : f.offset + SizeOf(f.fd) <= class'.heapSize
    BY <1>1, <1>2, <2>1, <2>2 DEF IInv, LayoutInv, FieldsDisjoint
  <2>4. ASSUME NEW f \in class'.fields, NEW g \in class'.fields, f # g
        PROVE  \/ f.offset + SizeOf(f.fd) <= g.offset
               \/ g.offset + SizeOf(g.fd) <= f.offset
    BY <1>2, <1>6, <2>4 DEF IInv, FieldsDisjoint
  <2> QED
    BY <2>3, <2>4 DEF FieldsDisjoint
<1> QED
  BY <1>4, <1>5, <1>7 DEF IInv

LEMMA NextKeepsIInv == ASSUME IInv, [Next]_vars PROVE IInv'
<1> USE DEF Pass, Stop
<1>1. ASSUME ReadHeader \/ ReadConstant \/ ReadInterface \/ ReadNames PROVE IInv'
  <2>1. UNCHANGED member /\ UNCHANGED inner
    BY <1>1 DEF ReadHeader, ReadConstant, ReadInterface, ReadNames
  <2>2. table' # "fields" \/ UNCHANGED table
    BY <1>1 DEF ReadHeader, ReadConstant, ReadInterface, ReadNames
  <2>3. /\ {"fields", "heapSize"} \subseteq DOMAIN class'
        /\ class'.fields = class.fields /\ class'.heapSize = class.heapSize
        /\ UNCHANGED <<oldOffset, newOffset>>
    BY <1>1 DEF ReadHeader, ReadConstant, ReadInterface, ReadNames, IInv, LayoutInv
  <2> QED
    BY <2>1, <2>2, <2>3, LayoutKept DEF IInv, MemberInv
<1>2. ASSUME ReadCount PROVE IInv'
  <2>1. table' = "fields" => inner' = <<>>
    BY <1>2 DEF ReadCount, Over, InTable
  <2> QED
    BY <1>2, <2>1, LayoutKept DEF ReadCount, IInv, MemberInv, LayoutInv
<1>3. ASSUME ReadMember PROVE IInv'
  <2>1. CASE member' = member /\ UNCHANGED <<table, inner, class, oldOffset, newOffset>>
    BY <2>1, LayoutKept DEF IInv, MemberInv, LayoutInv
  <2>2. CASE member' # member \/ ~UNCHANGED <<table, inner, class, oldOffset, newOffset>>
    <3> DEFINE text == Get(V(3))
               fd   == IF table = "fields" /\ text.tag = Utf8 THEN ParseField(text.text)
                       ELSE Value(Void)
    <3>1. /\ text.tag = Utf8 /\ fd.is = "value"
          /\ "fd" \in DOMAIN member' /\ member'.fd = fd.val
          /\ UNCHANGED <<table, class, oldOffset, newOffset>>
      BY <1>3, <2>2 DEF ReadMember
    <3>2. table = "fields" => SizeOf(member'.fd) \in FieldSize
      BY <3>1, ParsedHasSize
    <3> QED
      BY <3>1, <3>2, LayoutKept DEF IInv, MemberInv, LayoutInv
  <2> QED
    BY <2>1, <2>2
<1>4. ASSUME SkipAttribute \/ ReadConstantValue \/ ReadCode PROVE IInv'
  <2>1. inner # <<>> /\ UNCHANGED <<table, oldOffset, newOffset>>
    BY <1>4 DEF SkipAttribute, ReadConstantValue, ReadCode, Attribute, MoreAttributes
  <2>2. /\ "fd" \in DOMAIN member' /\ member'.fd = member.fd
        /\ {"fields", "heapSize"} \subseteq DOMAIN class'
        /\ class'.fields = class.fields /\ class'.heapSize = class.heapSize
    BY <1>4, AttributeAdded DEF SkipAttribute, ReadConstantValue, ReadCode, IInv, MemberInv, LayoutInv
  <2> QED
    BY <2>1, <2>2, LayoutKept DEF IInv, MemberInv
<1>5. ASSUME EndCode PROVE IInv'
  <2>1. inner # <<>> /\ UNCHANGED <<table, member, class, oldOffset, newOffset>>
    BY <1>5 DEF EndCode, NoMoreAttributes
  <2> QED
    BY <2>1, LayoutKept DEF IInv, MemberInv, LayoutInv
<1>6. ASSUME EndMethod PROVE IInv'
  <2>1. /\ UNCHANGED <<table, member, oldOffset, newOffset>> /\ inner' = <<>>
        /\ {"fields", "heapSize"} \subseteq DOMAIN class'
        /\ class'.fields = class.fields /\ class'.heapSize = class.heapSize
    BY <1>6 DEF EndMethod, IInv, LayoutInv
  <2> QED
    BY <2>1, LayoutKept DEF IInv, MemberInv
<1>7. ASSUME Finish \/ FailRead \/ UNCHANGED vars PROVE IInv'
  <2>1. UNCHANGED <<table, inner, member, class, oldOffset, newOffset>>
    BY <1>7 DEF Finish, FailRead, vars
  <2> QED
    BY <2>1, LayoutKept DEF IInv, MemberInv, LayoutInv
<1> QED
  BY <1>1, <1>2, <1>3, <1>4, <1>5, <1>6, <1>7, EndFieldKeeps DEF Next

\* Whatever file is read, and wherever it ends, load_class gives no two fields
\* of a class a byte in common, and every field ends inside heap_size.
THEOREM SpecFieldsDisjoint == Spec => []FieldsDisjoint
<1>1. Init => IInv
  BY InitIInv
<1>2. IInv /\ [Next]_vars => IInv'
  BY NextKeepsIInv
<1>3. IInv => FieldsDisjoint
  BY DEF IInv
<1> QED
  BY <1>1, <1>2, <1>3, PTL DEF Spec

-----------------------------------------------------------------------------
(***************************************************************************)
(* Types: no count runs below zero, whatever the file says.                *)
(***************************************************************************)

ItemOK(i) ==
    /\ i.w \in Nat
    /\ \/ i.kind = "number" /\ i.v \in Nat
       \/ i.kind = "text"   /\ i.v \in Seq(ToSet(i.v))
       \/ i.kind = "bytes"  /\ i.v \in Seq(0..255)

\* What is left of the file are items of it, and texts in the pool are texts.
RestInv == \E S : rest \in Seq(S) /\ \A i \in S : ItemOK(i)
PoolInv == \E S : pool \in Seq(S) /\ \A c \in S : c.text \in Seq(ToSet(c.text))
TypeInv == ReaderTypeOK /\ RestInv /\ PoolInv

\* What FieldDescriptor::parse accepts has a number of dimensions and an element.
LEMMA ParsedHasType ==
    ASSUME NEW S, NEW s \in Seq(S), ParseField(s).is = "value"
    PROVE  ParseField(s).val.dims \in Nat /\ ParseField(s).val.elem \in Elems
<1> DEFINE plain == {i \in DOMAIN s : s[i] # "["}
           at    == CHOOSE i \in plain : \A j \in plain : i <= j
           level == [i \in plain |-> i]
<1>1. plain \subseteq Nat \ {0}
  BY LenProperties
<1>2. plain # {}
  BY DEF ParseField, Value, Error, Panic
<1>3. \E i \in plain : \A j \in plain : i <= j
  <2>1. \A i \in plain : level[i] \in Nat /\ level[i] = i
    BY <1>1
  <2>2. \E i \in plain : \A j \in plain : level[i] <= level[j]
    <3> HIDE DEF plain, level
    <3> QED
      BY ONLY <1>2, <2>1, LeastLevel, Zenon
  <2> QED
    BY <2>1, <2>2
<1>4. at \in Nat \ {0}
  <2> HIDE DEF plain
  <2>1. at \in plain
    BY ONLY <1>3
  <2> QED
    BY <1>1, <2>1
<1>5. /\ ParseField(s).val.dims = at - 1
      /\ ParseField(s).val.elem \in Base \cup {"L"}
  BY DEF ParseField, Value, Error, Panic, Field
<1> QED
  BY <1>4, <1>5 DEF Elems

\* A number that is read is a number, and a constant's text a text.
LEMMA NumberRead ==
    ASSUME RestInv, NEW k \in Nat \ {0}
    PROVE  V(k) \in Nat
<1>1. PICK S : rest \in Seq(S) /\ \A i \in S : ItemOK(i)
  BY DEF RestInv
<1>2. k <= Len(rest) => rest[k] \in S
  BY <1>1, ElementOfSeq, LenProperties
<1> QED
  BY <1>1, <1>2 DEF V, ItemOK

LEMMA TextRead ==
    ASSUME PoolInv, NEW i \in Nat
    PROVE  Get(i).text \in Seq(ToSet(Get(i).text))
<1>1. PICK S : pool \in Seq(S) /\ \A c \in S : c.text \in Seq(ToSet(c.text))
  BY DEF PoolInv
<1>2. CASE i < Len(pool)
  <2>1. i + 1 \in 1..Len(pool)
    BY <1>1, <1>2, LenProperties
  <2>2. pool[i + 1] \in S
    BY <1>1, <2>1, ElementOfSeq
  <2> QED
    BY <1>1, <1>2, <2>2 DEF Get
<1>3. CASE ~(i < Len(pool))
  BY <1>3, EmptySeq DEF Get, NoConstant, Constant
<1> QED
  BY <1>2, <1>3

\* Behind the items that were read there are items.
LEMMA Passed ==
    ASSUME RestInv, NEW n \in Nat, Pass(n)
    PROVE  RestInv'
<1>1. PICK S : rest \in Seq(S) /\ \A i \in S : ItemOK(i)
  BY DEF RestInv
<1>2. \A i \in (n + 1)..Len(rest) : rest[i] \in S
  BY <1>1, ElementOfSeq, LenProperties
<1>3. Len(rest) \in Int /\ n + 1 \in Int
  BY <1>1, LenProperties
<1>4. SubSeq(rest, n + 1, Len(rest)) \in Seq(S)
  BY ONLY <1>2, <1>3, SubSeqProperties
<1> QED
  BY <1>1, <1>4 DEF Pass, RestInv

\* One attribute fewer.
LEMMA CountDown ==
    ASSUME NEW s \in Seq(Nat), s # <<>>, Head(s) > 0
    PROVE  <<Head(s) - 1>> \o Tail(s) \in Seq(Nat) /\ <<Head(s) - 1>> \o Tail(s) # <<>>
<1>1. Head(s) - 1 \in Nat /\ Tail(s) \in Seq(Nat)
  BY HeadTailProperties
<1> QED
  BY <1>1

\* The reads of a constant: a tag and its operands, and a text's own bytes.
LEMMA ConstantReadsDef ==
    ASSUME V(1) \in Nat, V(2) \in Nat
    PROVE  /\ Len(ConstantReads) \in Nat
           /\ V(1) = Utf8 => DOMAIN ConstantReads = 1..3 /\ ConstantReads[3] = V(2)
<1> DEFINE ops == Operands(V(1))
<1>1. ops \in {<<2>>, <<4>>, <<8>>, <<2, 2>>, <<1, 2>>, <<>>}
  BY DEF Operands
<1>2. V(1) = Utf8 => ops = <<2>>
  BY DEF Operands, Utf8
<1>3. ConstantReads = <<1>> \o ops \o (IF V(1) = Utf8 THEN <<V(2)>> ELSE <<>>)
  BY DEF ConstantReads
<1> HIDE DEF ops
<1>4. ops \in Seq(Nat)
  <2>1. /\ <<2>> \in Seq(Nat) /\ <<4>> \in Seq(Nat) /\ <<8>> \in Seq(Nat)
        /\ <<>> \in Seq(Nat)
    OBVIOUS
  <2>2. ASSUME NEW a \in Nat, NEW b \in Nat PROVE <<a, b>> \in Seq(Nat)
    <3>1. <<a, b>> \in [1..2 -> Nat]
      OBVIOUS
    <3> QED
      BY <3>1
  <2>3. <<2, 2>> \in Seq(Nat) /\ <<1, 2>> \in Seq(Nat)
    BY <2>2
  <2> QED
    BY <1>1, <2>1, <2>2, <2>3
<1>5. CASE V(1) = Utf8
  <2> DEFINE o == <<1>>
             x == <<V(2)>>
             u == o \o ops
  <2>1. o \in Seq(Nat) /\ x \in Seq(Nat) /\ Len(o) = 1 /\ Len(x) = 1 /\ x[1] = V(2)
    OBVIOUS
  <2>2. ops \in Seq(Nat) /\ Len(ops) = 1
    BY <1>2, <1>4, <1>5
  <2>3. ConstantReads = u \o x
    BY <1>3, <1>5
  <2> HIDE DEF o, x
  <2>4. u \in Seq(Nat) /\ Len(u) = 2
    <3>1. o \in Seq(Nat) /\ ops \in Seq(Nat)
      BY ONLY <2>1, <2>2
    <3> HIDE DEF ops
    <3>2. u \in Seq(Nat) /\ Len(u) = Len(o) + Len(ops)
      BY ONLY <3>1, ConcatProperties
    <3> QED
      BY ONLY <2>1, <2>2, <3>2
  <2> HIDE DEF u
  <2>5. u \o x \in Seq(Nat) /\ Len(u \o x) = 3 /\ (u \o x)[3] = x[1]
    <3>1. u \o x \in Seq(Nat) /\ Len(u \o x) = Len(u) + Len(x)
          /\ \A i \in 1..(Len(u) + Len(x)) : (u \o x)[i] = IF i <= Len(u) THEN u[i] ELSE x[i - Len(u)]
      BY ONLY <2>1, <2>4, ConcatProperties
    <3>2. 3 \in 1..(Len(u) + Len(x)) /\ ~(3 <= Len(u)) /\ 3 - Len(u) = 1 /\ Len(u) + Len(x) = 3
      BY <2>1, <2>4
    <3> QED
      BY <3>1, <3>2
  <2> QED
    BY <2>1, <2>3, <2>5, LenProperties
<1>6. CASE V(1) # Utf8
  <2>1. ConstantReads = <<1>> \o ops \o <<>>
    BY <1>3, <1>6
  <2>2. <<1>> \in Seq(Nat) /\ <<>> \in Seq(Nat)
    OBVIOUS
  <2>3. ConstantReads \in Seq(Nat)
    BY <1>4, <2>1, <2>2, ConcatProperties
  <2> QED
    BY <1>6, <2>3, LenProperties
<1> QED
  BY <1>5, <1>6

-----------------------------------------------------------------------------
(***************************************************************************)
(* The decoder moves on with every instruction, so it comes to an end.     *)
(***************************************************************************)

Byte == 0..255

\* Behind an instruction whose head is there lies the next one.
LEMMA NextIsAhead ==
    ASSUME NEW bytes \in Seq(Byte), NEW p \in 0..Len(bytes) - 1
    PROVE  /\ B!SizeAt(bytes, p).head \in Nat
           /\ p + 1 + B!SizeAt(bytes, p).head <= Len(bytes)
                => B!NextAt(bytes, p) \in Nat /\ B!NextAt(bytes, p) > p
<1> DEFINE op   == bytes[p + 1]
           pad  == (4 - ((p + 5) % 4)) % 4
           head == 4 + pad + 8
           n    == B!U4At(bytes, p + 1 + head - 4)
           size == B!SizeAt(bytes, p)
<1>0. \A i \in Byte : i \in Int
  BY DEF Byte
<1>1. Len(bytes) \in Nat /\ p \in Nat
  BY LenProperties
<1>2. CASE op # B!Lookupswitch
  <2>1. B!OperandBytes(op) \in {0, 1, 2, 3, 4}
    BY DEF B!OperandBytes
  <2>2. size.head = B!OperandBytes(op) /\ size.all = B!OperandBytes(op)
    BY <1>2 DEF B!SizeAt
  <2> QED
    BY <1>1, <2>1, <2>2 DEF B!NextAt
<1>3. CASE op = B!Lookupswitch
  <2>1. pad \in 0..3
    BY <1>1
  <2>2. /\ size.head = head
        /\ size.all = IF p + 1 + head > Len(bytes) THEN head
                      ELSE head + 8 * (IF n > 0 THEN n ELSE 0)
    BY <1>3 DEF B!SizeAt, B!SwitchBytes
  <2> HIDE DEF pad
  <2>3. head \in Nat
    BY <2>1
  <2>4. ASSUME p + 1 + head <= Len(bytes) PROVE n \in Int
    <3> DEFINE q == p + 1 + head - 4
               b == SubSeq(bytes, q + 1, q + 4)
    <3>1. q \in Nat /\ q + 4 <= Len(bytes) /\ q + 1 \in Int /\ q + 4 \in Int
      BY <1>1, <2>1, <2>4
    <3> HIDE DEF q
    <3>2. \A i \in q + 1..q + 4 : bytes[i] \in Byte
      <4>1. \A i \in 1..Len(bytes) : bytes[i] \in Byte
        BY ElementOfSeq
      <4> QED
        BY ONLY <1>1, <3>1, <4>1
    <3>3. /\ b \in Seq(Byte)
          /\ Len(b) = IF q + 1 <= q + 4 THEN q + 4 - (q + 1) + 1 ELSE 0
      BY ONLY <3>1, <3>2, SubSeqProperties
    <3>4. Len(b) = 4
      BY <3>1, <3>3
    <3> HIDE DEF b
    <3>5. b[1] \in Byte /\ b[2] \in Byte /\ b[3] \in Byte /\ b[4] \in Byte
      <4>1. \A i \in 1..Len(b) : b[i] \in Byte
        BY ONLY <3>3, ElementOfSeq
      <4> QED
        BY ONLY <3>4, <4>1
    <3> DEFINE high == IF b[1] >= 128 THEN b[1] - 256 ELSE b[1]
    <3>6. B!U4At(bytes, q) = ((high * 256 + b[2]) * 256 + b[3]) * 256 + b[4]
      BY ONLY DEF B!U4At, b, high
    <3>7. b[1] \in Int /\ b[2] \in Int /\ b[3] \in Int /\ b[4] \in Int
      BY ONLY <1>0, <3>5
    <3>8. high \in Int
      BY ONLY <3>7
    <3> HIDE DEF high
    <3>9. B!U4At(bytes, q) \in Int
      <4> DEFINE two == high * 256 + b[2]
                 three == two * 256 + b[3]
      <4>1. two \in Int
        BY ONLY <3>7, <3>8
      <4> HIDE DEF two
      <4>2. three \in Int
        BY ONLY <3>7, <4>1
      <4> HIDE DEF three
      <4>3. three * 256 + b[4] \in Int
        BY ONLY <3>7, <4>2
      <4>4. B!U4At(bytes, q) = three * 256 + b[4]
        BY ONLY <3>6 DEF two, three
      <4> QED
        BY ONLY <4>3, <4>4
    <3> QED
      BY ONLY <3>9 DEF q
  <2> HIDE DEF head, n
  <2>5. ASSUME p + 1 + head <= Len(bytes) PROVE size.all \in Nat
    <3> DEFINE pairs == IF n > 0 THEN n ELSE 0
    <3>1. pairs \in Nat
      BY ONLY <2>4, <2>5
    <3>2. size.all = head + 8 * pairs
      BY ONLY <1>1, <2>2, <2>3, <2>5
    <3> HIDE DEF size, pairs
    <3>3. head + 8 * pairs \in Nat
      BY ONLY <2>3, <3>1
    <3> QED
      BY ONLY <3>2, <3>3
  <2> QED
    BY <1>1, <2>2, <2>3, <2>5 DEF B!NextAt
<1> QED
  BY <1>2, <1>3

\* The instructions of a code with their positions, and what a decoding ends with.
Placed(bytes, p) == [at |-> p, ins |-> B!InstrAt(bytes, p)]
PlacedIn(bytes) == {Placed(bytes, p) : p \in 0..Len(bytes) - 1}
Decoding(bytes) == [is : {"value", "error", "panic"}, val : Seq(PlacedIn(bytes))]
DecodeStep(bytes, p, from) ==
    IF p = Len(bytes) THEN B!Ends("value")
    ELSE IF bytes[p + 1] \in B!NoArm THEN B!Ends("panic")
    ELSE IF p + 1 + B!SizeAt(bytes, p).head > Len(bytes) THEN B!Ends("error")
    ELSE IF B!NextAt(bytes, p) > Len(bytes) THEN B!Ends("panic")
    ELSE LET later == from[B!NextAt(bytes, p)]
         IN  IF later.is # "value" THEN later
             ELSE [is |-> "value",
                   val |-> <<[at |-> p, ins |-> B!InstrAt(bytes, p)]>> \o later.val]

\* The recursive function of Decode exists: every position is decoded from
\* what lies behind it.
LEMMA DecodeDef ==
    ASSUME NEW bytes \in Seq(Byte)
    PROVE  \E from \in [0..Len(bytes) -> Decoding(bytes)] :
              /\ B!Decode(bytes) = from[0]
              /\ \A p \in 0..Len(bytes) : from[p] = DecodeStep(bytes, p, from)
<1> DEFINE C == 0..Len(bytes)
           T == Decoding(bytes)
           level == [p \in C |-> Len(bytes) - p]
           step == [x \in C \X [C -> T] |-> DecodeStep(bytes, x[1], x[2])]
           from[p \in C] == DecodeStep(bytes, p, from)
<1>1. Len(bytes) \in Nat /\ level \in [C -> Nat] /\ \A p \in C : level[p] = Len(bytes) - p
  BY LenProperties
<1>2. \A how \in {"value", "error", "panic"} : B!Ends(how) \in T
  BY EmptySeq DEF B!Ends, Decoding
<1>3. \A p \in C : level[p] \in Nat /\ level[p] <= Len(bytes)
  BY <1>1
<1> DEFINE goes(p) == /\ p # Len(bytes) /\ bytes[p + 1] \notin B!NoArm
                      /\ ~(p + 1 + B!SizeAt(bytes, p).head > Len(bytes))
                      /\ ~(B!NextAt(bytes, p) > Len(bytes))
           on(p, r) == IF r.is # "value" THEN r
                       ELSE [is |-> "value", val |-> <<Placed(bytes, p)>> \o r.val]
<1>4. ASSUME NEW p \in C, goes(p)
      PROVE  p \in 0..Len(bytes) - 1 /\ B!NextAt(bytes, p) \in C /\ level[B!NextAt(bytes, p)] < level[p]
  <2>1. p \in 0..Len(bytes) - 1
    BY <1>1, <1>4
  <2>2. B!SizeAt(bytes, p).head \in Nat
    BY <2>1, NextIsAhead
  <2>3. B!NextAt(bytes, p) \in Nat /\ B!NextAt(bytes, p) > p
    BY <1>1, <1>4, <2>1, <2>2, NextIsAhead
  <2> QED
    BY <1>1, <1>4, <2>1, <2>3
<1>5. ASSUME NEW p \in C, NEW f
      PROVE  /\ goes(p) => DecodeStep(bytes, p, f) = on(p, f[B!NextAt(bytes, p)])
             /\ ~goes(p) => DecodeStep(bytes, p, f)
                               \in {B!Ends("value"), B!Ends("panic"), B!Ends("error")}
  BY DEF DecodeStep, Placed
<1>6. ASSUME NEW p \in 0..Len(bytes) - 1, NEW r \in T PROVE on(p, r) \in T
  <2>1. Placed(bytes, p) \in PlacedIn(bytes)
    BY DEF PlacedIn
  <2>2. r.val \in Seq(PlacedIn(bytes))
    BY DEF Decoding
  <2>3. <<Placed(bytes, p)>> \in Seq(PlacedIn(bytes))
    BY <2>1
  <2>4. <<Placed(bytes, p)>> \o r.val \in Seq(PlacedIn(bytes))
    BY ONLY <2>2, <2>3, ConcatProperties
  <2>5. [is |-> "value", val |-> <<Placed(bytes, p)>> \o r.val] \in T
    BY ONLY <2>4 DEF Decoding
  <2> QED
    BY <2>5
<1>7. ASSUME NEW p \in C, NEW f \in [C -> T] PROVE DecodeStep(bytes, p, f) \in T
  <2> HIDE DEF C, T, on, goes
  <2>1. CASE goes(p)
    <3>1. f[B!NextAt(bytes, p)] \in T
      BY <1>4, <2>1
    <3> QED
      BY <1>4, <1>5, <1>6, <2>1, <3>1
  <2>2. CASE ~goes(p)
    BY <1>2, <1>5, <2>2
  <2> QED
    BY <2>1, <2>2
<1>8. step \in [C \X [C -> T] -> T]
  <2> HIDE DEF C, T
  <2> QED
    BY <1>7
<1>9. Levels(C, level)
  <2> HIDE DEF C, level
  <2> QED
    BY ONLY <1>1, <1>3 DEF Levels
<1>10. LooksDown(C, T, level, step)
  <2>1. T # {}
    BY <1>2
  <2> SUFFICES ASSUME NEW p \in C, NEW f \in [C -> T], NEW g \in [C -> T],
                      \A q \in C : level[q] < level[p] => f[q] = g[q]
               PROVE  step[<<p, f>>] = step[<<p, g>>]
    <3> HIDE DEF C, T, step, level
    <3> QED
      BY <1>8, <2>1 DEF LooksDown
  <2>2. step[<<p, f>>] = DecodeStep(bytes, p, f) /\ step[<<p, g>>] = DecodeStep(bytes, p, g)
    <3> HIDE DEF C, T
    <3> QED
      OBVIOUS
  <2>3. DecodeStep(bytes, p, f) = DecodeStep(bytes, p, g)
    <3> HIDE DEF C, T, level, goes, on
    <3>1. CASE goes(p)
      BY <1>4, <1>5, <3>1
    <3>2. CASE ~goes(p)
      BY <3>2 DEF DecodeStep, goes
    <3> QED
      BY <3>1, <3>2
  <2> QED
    BY <2>2, <2>3
<1>11. PICK f \in [C -> T] : \A p \in C : f[p] = step[<<p, f>>]
  <2> HIDE DEF C, T, level, step
  <2>1. Solvable(C, T, step)
    BY ONLY <1>9, <1>10, RecursiveFunction, Zenon
  <2> QED
    BY ONLY <2>1 DEF Solvable
<1>12. \A p \in C : f[p] = DecodeStep(bytes, p, f)
  <2> HIDE DEF C, T
  <2> QED
    BY <1>11
<1>13. f = [p \in C |-> DecodeStep(bytes, p, f)]
  <2> HIDE DEF C, T
  <2> QED
    BY <1>11, <1>12
<1>14. from = [p \in C |-> DecodeStep(bytes, p, from)]
  BY ONLY <1>13, Zenon
<1>15. B!Decode(bytes) = from[0]
  BY DEF B!Decode, DecodeStep
<1> HIDE DEF from
<1>16. \A p \in C : from[p] = DecodeStep(bytes, p, from)
  <2> HIDE DEF C
  <2> QED
    BY ONLY <1>14
<1>17. from \in [C -> T]
  <2> DEFINE G == {p \in C : from[p] \in T}
  <2>1. ASSUME NEW p \in C, \A q \in C : level[q] < level[p] => q \in G
        PROVE  p \in G
    <3> HIDE DEF C, T, level, goes, on
    <3>1. CASE goes(p)
      <4>1. from[B!NextAt(bytes, p)] \in T
        BY <1>4, <2>1, <3>1
      <4> QED
        BY <1>4, <1>5, <1>6, <1>16, <3>1, <4>1
    <3>2. CASE ~goes(p)
      BY <1>2, <1>5, <1>16, <3>2
    <3> QED
      BY <3>1, <3>2
  <2>2. C \subseteq G
    <3> HIDE DEF C, G, level
    <3>1. Hereditary(C, level, G)
      BY ONLY <2>1 DEF Hereditary
    <3> QED
      BY ONLY <1>9, <3>1, LevelInduction, Zenon
  <2> HIDE DEF C, T
  <2> QED
    BY <1>14, <2>2
<1> QED
  BY ONLY <1>15, <1>16, <1>17, Zenon

\* The reads of a Code attribute up to the count of its attributes.
LEMMA CodeReadsDef ==
    ASSUME V(5) \in Nat, V(7) \in Nat
    PROVE  /\ DOMAIN CodeReads = 1..8 + 4 * V(7) /\ Len(CodeReads) = 8 + 4 * V(7)
           /\ CodeReads[6] = V(5)
<1> DEFINE head  == <<2, 4, 2, 2, 4, V(5), 2>>
           table7 == [k \in 1..4 * V(7) + 1 |-> 2]
<1>1. head \in Seq(Nat) /\ Len(head) = 7 /\ head[6] = V(5)
  <2>1. head \in [1..7 -> Nat]
    OBVIOUS
  <2>2. head \in Seq(Nat)
    BY ONLY <2>1
  <2> QED
    BY <2>2
<1>2. table7 \in Seq(Nat) /\ Len(table7) = 4 * V(7) + 1
  OBVIOUS
<1>3. CodeReads = head \o table7
  BY DEF CodeReads
<1> HIDE DEF head, table7
<1>4. /\ head \o table7 \in Seq(Nat) /\ Len(head \o table7) = Len(head) + Len(table7)
      /\ \A i \in 1..Len(head) + Len(table7) : (head \o table7)[i] =
             IF i <= Len(head) THEN head[i] ELSE table7[i - Len(head)]
  BY ONLY <1>1, <1>2, ConcatProperties
<1>5. Len(head \o table7) = 8 + 4 * V(7) /\ 6 \in 1..Len(head) + Len(table7)
  BY ONLY <1>1, <1>2, <1>4, V(7) \in Nat
<1>6. DOMAIN (head \o table7) = 1..Len(head \o table7)
  BY ONLY <1>4, LenProperties
<1> QED
  BY <1>1, <1>3, <1>4, <1>5, <1>6

\* The block of a method's code that is read is a sequence of bytes.
LEMMA CodeRead ==
    ASSUME RestInv, Attribute(CodeName), table # "header", table \in TableNames, Reads,
           inner # <<>> => table = "attributes" \/ (table \in {"fields", "methods"} /\ left > 0)
    PROVE  Len(Expected) \in Nat /\ V(Len(Expected)) \in Nat /\ Block(6) \in Seq(Byte)
<1>1. V(5) \in Nat /\ V(7) \in Nat
  BY NumberRead
<1>2. inner # <<>>
  BY DEF Attribute, MoreAttributes
<1>3. Expected = CodeReads
  <2>1. ~More("constants") /\ ~Over("constants") /\ ~MoreMembers
    BY <1>2 DEF More, Over, InTable, MoreMembers
  <2> QED
    <3>1. Attribute(CodeName) /\ ~Attribute(ConstantValueName)
      BY NamesAssumption DEF Attribute
    <3> QED
      BY ONLY <2>1, <3>1, table # "header" DEF Expected
<1>4. Len(Expected) \in Nat \ {0} /\ 6 \in DOMAIN Expected /\ Expected[6] = V(5)
  BY <1>1, <1>3, CodeReadsDef
<1>5. Width(6) = V(5) /\ rest[6].kind = "bytes"
  <2>1. ReadAt(6)
    BY ONLY <1>4, Reads DEF Reads
  <2>2. ReadAs(6) = "bytes"
    BY <1>2 DEF ReadAs, More, InTable
  <2> QED
    BY <1>4, <2>1, <2>2 DEF ReadAt
<1>6. PICK S : rest \in Seq(S) /\ \A i \in S : ItemOK(i)
  BY DEF RestInv
<1>7. 6 <= Len(rest)
  BY <1>1, <1>5 DEF Width
<1>8. rest[6] \in S
  BY <1>6, <1>7, ElementOfSeq, LenProperties
<1>9. Block(6) \in Seq(Byte)
  BY <1>5, <1>6, <1>8 DEF ItemOK, Block, Byte
<1> QED
  BY <1>4, <1>9, NumberRead

\* A decoding ends with instructions, an error or a panic.
LEMMA DecodeEnds ==
    ASSUME NEW bytes \in Seq(Byte)
    PROVE  B!Decode(bytes).is \in {"value", "error", "panic"}
<1>1. PICK from \in [0..Len(bytes) -> Decoding(bytes)] : B!Decode(bytes) = from[0]
  BY DecodeDef
<1>2. 0 \in 0..Len(bytes)
  BY LenProperties
<1>3. from[0] \in Decoding(bytes)
  BY ONLY <1>1, <1>2
<1> QED
  BY ONLY <1>1, <1>3 DEF Decoding

\* Every step keeps the types; the offsets are numbers by LayoutInv.
LEMMA TypesKept ==
    ASSUME IInv, TypeInv, IInv', [Next]_vars
    PROVE  TypeInv'
<1>1. oldOffset' \in Nat /\ newOffset' \in Nat
  BY DEF IInv, LayoutInv
<1>2. /\ left \in Nat /\ inner \in Seq(Nat) /\ table \in TableNames /\ outcome \in Outcomes
      /\ inner # <<>> => table = "attributes" \/ (table \in {"fields", "methods"} /\ left > 0)
      /\ (inner # <<>> /\ table = "fields") => member.fd.dims \in Nat /\ member.fd.elem \in Elems
      /\ RestInv /\ PoolInv
  BY DEF TypeInv, ReaderTypeOK
<1>3. \A k \in {1, 2, 3, 4} : V(k) \in Nat
  BY <1>2, NumberRead
<1>4. \A n \in Nat : Pass(n) => RestInv' /\ outcome' = outcome
  BY <1>2, Passed DEF Pass
<1>5. ASSUME NEW how \in Outcomes, Stop(how) PROVE TypeInv'
  BY <1>1, <1>2, <1>5 DEF Stop, TypeInv, ReaderTypeOK, RestInv, PoolInv
<1>6. \A c : Missing(c) \in Outcomes
  BY DEF Missing, Outcomes
<1>7. {"error", "panic", "garbled", "done"} \subseteq Outcomes
  BY DEF Outcomes
<1>8. ASSUME UNCHANGED pool PROVE PoolInv'
  BY <1>2, <1>8 DEF PoolInv
<1>9. 1 \in Nat /\ 3 \in Nat /\ 4 \in Nat /\ <<>> \in Seq(Nat)
  BY EmptySeq
<1>10. CASE ReadHeader
  <2>1. CASE V(1) # Magic \/ V(2) > 51
    BY <1>5, <1>7, <1>10, <2>1 DEF ReadHeader
  <2>2. CASE ~(V(1) # Magic \/ V(2) > 51)
    <3> DEFINE c == Constant(Utf8, <<>>, <<>>)
    <3>1. /\ pool' = <<c>> /\ table' = "constants" /\ Pass(4)
          /\ left' = (IF V(4) = 0 THEN 0 ELSE V(4) - 1) /\ inner' = <<>>
      BY <1>10, <2>2 DEF ReadHeader, InTable
    <3>2. PoolInv'
      <4>1. c.text \in Seq(ToSet(c.text))
        BY EmptySeq DEF Constant
      <4> HIDE DEF c
      <4>2. pool' \in Seq({c})
        BY <3>1
      <4> QED
        BY <4>1, <4>2 DEF PoolInv
    <3>3. left' \in Nat
      BY <1>3, <3>1
    <3> QED
      BY <1>1, <1>2, <1>4, <1>9, <3>1, <3>2, <3>3 DEF TypeInv, ReaderTypeOK, TableNames
  <2> QED
    BY <2>1, <2>2
<1>11. CASE ReadConstant
  <2> DEFINE ops == Operands(V(1))
             c == IF V(1) = Utf8 THEN Constant(Utf8, <<>>, Block(3))
                  ELSE Constant(V(1), [k \in DOMAIN ops |-> V(k + 1)], <<>>)
  <2>1. CASE ops = <<>>
    BY <1>5, <1>7, <1>11, <2>1 DEF ReadConstant
  <2>2. CASE ops # <<>>
    <3>1. /\ pool' = Append(pool, c) /\ left' = left - 1 /\ left > 0 /\ Pass(Len(Expected))
          /\ UNCHANGED <<table, inner, member>> /\ Reads /\ More("constants") /\ inner = <<>>
      BY <1>11, <2>2 DEF ReadConstant, More, InTable
    <3>2. Expected = ConstantReads
      <4>1. table # "header" /\ More("constants")
        BY <3>1 DEF More, InTable
      <4>2. ~Over("constants") /\ ~MoreMembers /\ ~MoreAttributes
        BY <1>2, <3>1 DEF More, Over, InTable, MoreMembers, MoreAttributes
      <4>3. ~Attribute(CodeName) /\ ~Attribute(ConstantValueName)
        BY <4>2 DEF Attribute
      <4> QED
        BY ONLY <4>1, <4>2, <4>3 DEF Expected
    <3>3. Len(Expected) \in Nat /\ (V(1) = Utf8 => DOMAIN Expected = 1..3 /\ Expected[3] = V(2))
      BY <1>3, <3>2, ConstantReadsDef
    <3>4. V(1) = Utf8 => Block(3) \in Seq(ToSet(Block(3)))
      <4> SUFFICES ASSUME V(1) = Utf8 PROVE Block(3) \in Seq(ToSet(Block(3)))
        OBVIOUS
      <4>1. PICK S : rest \in Seq(S) /\ \A i \in S : ItemOK(i)
        BY <1>2 DEF RestInv
      <4>2. 3 \in DOMAIN Expected
        <5> HIDE DEF ops
        <5> QED
          BY <3>3
      <4>3. ReadAt(3)
        BY <3>1, <4>2 DEF Reads
      <4>4. Width(3) = V(2) /\ rest[3].kind = "text"
        BY <3>1, <3>3, <4>3 DEF ReadAt, ReadAs
      <4>5. 3 <= Len(rest)
        BY <1>3, <4>4 DEF Width
      <4>6. rest[3] \in S
        BY <4>1, <4>5, ElementOfSeq, LenProperties
      <4> QED
        BY <4>1, <4>4, <4>6 DEF ItemOK, Block
    <3>5. PoolInv'
      <4>1. PICK S : pool \in Seq(S) /\ \A d \in S : d.text \in Seq(ToSet(d.text))
        BY <1>2 DEF PoolInv
      <4>2. c.text \in Seq(ToSet(c.text))
        BY <3>4, EmptySeq DEF Constant
      <4> HIDE DEF c
      <4>3. pool' \in Seq(S \cup {c})
        BY <3>1, <4>1
      <4> QED
        BY <4>1, <4>2, <4>3 DEF PoolInv
    <3>6. RestInv' /\ outcome' = outcome
      BY <1>4, <3>1, <3>3
    <3> QED
      BY <1>1, <1>2, <3>1, <3>5, <3>6 DEF TypeInv, ReaderTypeOK
  <2> QED
    BY <2>1, <2>2
<1>12. CASE ReadNames
  <2>1. CASE UNCHANGED <<file, rest, table, left, inner, pool, class, member, oldOffset, newOffset>>
             /\ outcome' \in {"error", "panic"}
    BY <1>5, <1>7, <2>1 DEF Stop
  <2>2. CASE /\ table' = "interfaces" /\ left' = V(4) /\ Pass(4)
             /\ UNCHANGED <<inner, pool, member, oldOffset, newOffset>>
    <3>1. inner = <<>>
      BY <1>12 DEF ReadNames, Over, InTable
    <3> QED
      BY <1>1, <1>2, <1>3, <1>4, <1>8, <1>9, <2>2, <3>1 DEF TypeInv, ReaderTypeOK, TableNames
  <2> QED
    BY <1>12, <2>1, <2>2 DEF ReadNames, Stop
<1>13. CASE ReadInterface
  <2>1. /\ left' = left - 1 /\ left > 0 /\ Pass(1) /\ inner = <<>>
        /\ UNCHANGED <<table, inner, pool, member>>
    BY <1>13 DEF ReadInterface, More, InTable
  <2> QED
    BY <1>1, <1>2, <1>4, <1>8, <1>9, <2>1 DEF TypeInv, ReaderTypeOK
<1>14. CASE ReadCount
  <2>1. /\ table \in {"interfaces", "fields", "methods"}
        /\ table' = [interfaces |-> "fields", fields |-> "methods", methods |-> "attributes"][table]
        /\ left'  = (IF table = "methods" THEN 0 ELSE V(1))
        /\ inner' = (IF table = "methods" THEN <<V(1)>> ELSE <<>>)
        /\ Pass(1) /\ UNCHANGED <<pool, member>>
    BY <1>14 DEF ReadCount, Over, InTable
  <2>2. left' \in Nat /\ inner' \in Seq(Nat)
    BY <1>3, <1>9, <2>1
  <2>3. table' \in {"fields", "methods", "attributes"} /\ (inner' # <<>> => table' = "attributes")
    BY <2>1
  <2> QED
    BY <1>1, <1>2, <1>4, <1>8, <1>9, <2>1, <2>2, <2>3 DEF TypeInv, ReaderTypeOK, TableNames
<1>15. CASE ReadMember
  <2> DEFINE text == Get(V(3))
             fd   == IF table = "fields" /\ text.tag = Utf8 THEN ParseField(text.text)
                     ELSE Value(Void)
  <2>1. fd.is \in {"value", "error", "panic"}
    BY DEF ParseField, Value, Error, Panic
  <2>2. CASE \E how \in Outcomes : Stop(how)
    BY <1>5, <2>2
  <2>3. CASE ~\E how \in Outcomes : Stop(how)
    <3>1. /\ text.tag = Utf8 /\ fd.is = "value" /\ member'.fd = fd.val
          /\ inner' = <<V(4)>> /\ Pass(4) /\ UNCHANGED <<table, left, pool>> /\ MoreMembers
      <4>1. Get(V(2)).tag = Utf8 /\ text.tag = Utf8
        BY <1>6, <1>15, <2>3 DEF ReadMember
      <4>2. fd.is = "value"
        BY <1>7, <1>15, <2>1, <2>3, <4>1 DEF ReadMember
      <4> QED
        BY <1>15, <4>1, <4>2 DEF ReadMember
    <3>2. table \in {"fields", "methods"} /\ left > 0
      BY <3>1 DEF MoreMembers, More, InTable
    <3>3. inner' \in Seq(Nat)
      BY <1>3, <3>1
    <3>4. table = "fields" => member'.fd.dims \in Nat /\ member'.fd.elem \in Elems
      <4>1. text.text \in Seq(ToSet(text.text))
        BY <1>2, <1>3, TextRead
      <4> QED
        BY <3>1, <4>1, ParsedHasType
    <3> HIDE DEF fd, text
    <3> QED
      BY <1>1, <1>2, <1>4, <1>8, <1>9, <3>1, <3>2, <3>3, <3>4 DEF TypeInv, ReaderTypeOK
  <2> QED
    BY <2>2, <2>3
<1>16. ASSUME AddAttribute, inner # <<>>, inner' # <<>>, inner' \in Seq(Nat),
              UNCHANGED <<table, left, pool>>, RestInv', outcome' = outcome
       PROVE  TypeInv'
  <2>1. member'.fd = member.fd
    BY <1>16, AttributeAdded
  <2> QED
    BY <1>1, <1>2, <1>8, <1>16, <2>1 DEF TypeInv, ReaderTypeOK
<1>17. ASSUME MoreAttributes, AttributeRead
       PROVE  inner # <<>> /\ inner' # <<>> /\ inner' \in Seq(Nat)
  BY <1>2, <1>17, CountDown DEF MoreAttributes, AttributeRead
<1>18. CASE SkipAttribute
  <2>1. CASE \E how \in Outcomes : Stop(how)
    BY <1>5, <2>1
  <2>2. CASE ~\E how \in Outcomes : Stop(how)
    <3>1. /\ AddAttribute /\ MoreAttributes /\ AttributeRead /\ Pass(3)
          /\ UNCHANGED <<table, left, pool>>
      BY <1>6, <1>7, <1>18, <2>2 DEF SkipAttribute
    <3> QED
      BY <1>4, <1>9, <1>16, <1>17, <3>1
  <2> QED
    BY <2>1, <2>2
<1>19. CASE ReadConstantValue
  <2>1. /\ AddAttribute /\ MoreAttributes /\ AttributeRead /\ Pass(3)
        /\ UNCHANGED <<table, left, pool>>
    BY <1>19 DEF ReadConstantValue, Attribute
  <2> QED
    BY <1>4, <1>9, <1>16, <1>17, <2>1
<1>20. CASE ReadCode
  <2> DEFINE code == B!Decode(Block(6))
             n    == Len(Expected)
             fewer == <<Head(inner) - 1>> \o Tail(inner)
  <2>1. Attribute(CodeName) /\ Reads /\ MoreAttributes /\ inner # <<>>
    BY <1>20 DEF ReadCode, Attribute, MoreAttributes
  <2>2. n \in Nat /\ V(n) \in Nat /\ Block(6) \in Seq(Byte)
    BY <1>2, <2>1, CodeRead
  <2>3. code.is \in {"value", "error", "panic"}
    BY <2>2, DecodeEnds
  <2>4. CASE code.is # "value"
    <3>1. Stop(code.is) /\ code.is \in Outcomes
      BY <1>7, <1>20, <2>3, <2>4 DEF ReadCode
    <3> QED
      BY <1>5, <3>1
  <2>5. CASE code.is = "value"
    <3>1. /\ member' = [member EXCEPT !.attributes = @ \cup {CodeName}, !.code = code.val]
          /\ inner' = <<V(n)>> \o <<Head(inner) - 1>> \o Tail(inner)
          /\ Pass(n) /\ UNCHANGED <<table, left, pool>>
      BY <1>20, <2>5 DEF ReadCode
    <3>2. member'.fd = member.fd
      BY <3>1 DEF IInv, MemberInv
    <3>3. inner' \in Seq(Nat)
      BY ONLY <1>2, <2>1, <2>2, <3>1, CountDown, ConcatProperties DEF MoreAttributes
    <3>4. RestInv' /\ outcome' = outcome
      BY <1>4, <2>2, <3>1
    <3> QED
      BY <1>1, <1>2, <1>8, <2>1, <3>1, <3>2, <3>3, <3>4 DEF TypeInv, ReaderTypeOK
  <2> QED
    BY <2>4, <2>5
<1>21. CASE EndCode
  <2>1. /\ inner' = Tail(inner) /\ inner # <<>>
        /\ UNCHANGED <<rest, table, left, pool, member, outcome>>
    BY <1>21 DEF EndCode, NoMoreAttributes
  <2>2. inner' \in Seq(Nat)
    BY <1>2, <2>1, HeadTailProperties
  <2> QED
    BY <1>1, <1>2, <1>8, <2>1, <2>2 DEF TypeInv, ReaderTypeOK, RestInv
<1>22. CASE EndField \/ EndMethod
  <2>1. /\ left' = left - 1 /\ left > 0 /\ inner' = <<>>
        /\ UNCHANGED <<rest, table, pool, outcome>>
    BY <1>2, <1>22 DEF EndField, EndMethod, NoMoreAttributes
  <2> QED
    BY <1>1, <1>2, <1>8, <1>9, <2>1 DEF TypeInv, ReaderTypeOK, RestInv
<1>23. CASE Finish
  BY <1>5, <1>7, <1>23 DEF Finish
<1>24. CASE FailRead
  <2>1. \E how \in {"garbled", "panic", "error"} : Stop(how)
    BY <1>24 DEF FailRead
  <2> QED
    BY <1>5, <1>7, <2>1
<1>25. CASE UNCHANGED vars
  BY <1>1, <1>2, <1>8, <1>25 DEF vars, TypeInv, ReaderTypeOK, RestInv
<1> QED
  BY <1>10, <1>11, <1>12, <1>13, <1>14, <1>15, <1>18, <1>19, <1>20, <1>21, <1>22, <1>23,
     <1>24, <1>25 DEF Next

LEMMA InitTypes ==
    ASSUME Init
    PROVE  IInv /\ TypeInv
<1>1. IInv
  BY InitIInv
<1>2. RestInv
  <2> DEFINE S == {rest[k] : k \in 1..Len(rest)}
  <2>1. Len(rest) \in Nat /\ rest = [k \in 1..Len(rest) |-> rest[k]]
    BY FilesAssumption DEF Init
  <2>2. rest \in Seq(S)
    <3>1. \A k \in 1..Len(rest) : rest[k] \in S
      OBVIOUS
    <3> HIDE DEF S
    <3>2. rest \in [1..Len(rest) -> S]
      BY ONLY <2>1, <3>1
    <3> QED
      BY ONLY <2>1, <3>2
  <2>3. \A i \in S : ItemOK(i)
    <3>1. file \in Files /\ rest = file.items
      BY DEF Init
    <3>2. ASSUME NEW k \in 1..Len(file.items) PROVE ItemOK(file.items[k])
      BY <3>1, FilesAssumption DEF ItemOK
    <3> QED
      BY <3>1, <3>2
  <2> HIDE DEF S
  <2> QED
    BY ONLY <2>2, <2>3 DEF RestInv
<1>3. PoolInv
  <2>1. <<>> \in Seq({}) /\ \A c \in {} : c.text \in Seq(ToSet(c.text))
    BY EmptySeq
  <2> QED
    BY ONLY Init, <2>1 DEF Init, PoolInv
<1>4. ReaderTypeOK
  BY EmptySeq DEF Init, ReaderTypeOK, TableNames, Outcomes
<1> QED
  BY <1>1, <1>2, <1>3, <1>4 DEF TypeInv

\* Whatever the files say, load_class never counts below zero, reads a member
\* only while one is left, and gives a field that it reads a field's type.
THEOREM ReaderTyped == Spec => []ReaderTypeOK
<1>1. Init => IInv /\ TypeInv
  BY InitTypes
<1>2. IInv /\ TypeInv /\ [Next]_vars => IInv' /\ TypeInv'
  BY NextKeepsIInv, TypesKept
<1>3. TypeInv => ReaderTypeOK
  BY DEF TypeInv
<1> QED
  BY <1>1, <1>2, <1>3, PTL DEF Spec

-----------------------------------------------------------------------------
(***************************************************************************)
(* What is decoded: instructions that lie end to end, and encode to the    *)
(* bytes they were decoded from.                                           *)
(***************************************************************************)

\* The position behind the k-th instruction.
Behind(bytes, d, k) == IF k < Len(d) THEN d[k + 1].at ELSE Len(bytes)

\* Instructions that lie end to end from p to the end of the code.
EndToEnd(bytes, p, d) ==
    /\ d = <<>> <=> p = Len(bytes)
    /\ d # <<>> => d[1].at = p
    /\ \A k \in 1..Len(d) :
          /\ d[k].at \in 0..Len(bytes) - 1 /\ d[k] = Placed(bytes, d[k].at)
          /\ Behind(bytes, d, k) \in d[k].at + 1..Len(bytes)
          /\ Behind(bytes, d, k) = B!NextAt(bytes, d[k].at)

LEMMA InFront ==
    ASSUME NEW S, NEW x \in S, NEW s \in Seq(S)
    PROVE  /\ <<x>> \o s \in Seq(S) /\ Len(<<x>> \o s) = Len(s) + 1 /\ (<<x>> \o s)[1] = x
           /\ \A k \in 1..Len(s) : (<<x>> \o s)[k + 1] = s[k]
<1> DEFINE t == <<x>>
<1>1. t \in Seq(S) /\ Len(t) = 1 /\ t[1] = x
  OBVIOUS
<1> HIDE DEF t
<1>2. /\ t \o s \in Seq(S) /\ Len(t \o s) = Len(t) + Len(s)
      /\ \A i \in 1..Len(t) + Len(s) : (t \o s)[i] = IF i <= Len(t) THEN t[i] ELSE s[i - Len(t)]
  BY ONLY <1>1, s \in Seq(S), ConcatProperties
<1>3. Len(s) \in Nat
  BY LenProperties
<1>4. Len(t \o s) = Len(s) + 1 /\ (t \o s)[1] = x
  BY ONLY <1>1, <1>2, <1>3
<1>5. ASSUME NEW k \in 1..Len(s) PROVE (t \o s)[k + 1] = s[k]
  <2>1. k + 1 \in 1..Len(t) + Len(s) /\ ~(k + 1 <= Len(t)) /\ k + 1 - Len(t) = k
    BY ONLY <1>1, <1>3, k \in 1..Len(s)
  <2> QED
    BY ONLY <1>2, <2>1
<1> QED
  BY ONLY <1>2, <1>4, <1>5 DEF t

\* One instruction, and what is decoded behind it.
LEMMA DecodedOn ==
    ASSUME NEW bytes \in Seq(Byte), NEW p \in 0..Len(bytes) - 1,
           NEW from \in [0..Len(bytes) -> Decoding(bytes)],
           from[p] = DecodeStep(bytes, p, from), from[p].is = "value"
    PROVE  LET next == B!NextAt(bytes, p)
           IN  /\ next \in p + 1..Len(bytes) /\ from[next].is = "value"
               /\ from[p].val = <<Placed(bytes, p)>> \o from[next].val
<1> DEFINE next == B!NextAt(bytes, p)
<1>1. Len(bytes) \in Nat /\ p \in Nat /\ p # Len(bytes)
  BY LenProperties
<1>2. B!Ends("panic").is # "value" /\ B!Ends("error").is # "value"
  BY DEF B!Ends
<1>3. /\ ~(p + 1 + B!SizeAt(bytes, p).head > Len(bytes)) /\ ~(next > Len(bytes))
      /\ from[p] = IF from[next].is # "value" THEN from[next]
                   ELSE [is |-> "value", val |-> <<Placed(bytes, p)>> \o from[next].val]
  BY <1>1, <1>2 DEF DecodeStep, Placed
<1>4. next \in p + 1..Len(bytes)
  <2>1. B!SizeAt(bytes, p).head \in Nat
    BY NextIsAhead
  <2>2. next \in Nat /\ next > p
    BY <1>1, <1>3, <2>1, NextIsAhead
  <2> HIDE DEF next
  <2> QED
    BY ONLY <1>1, <1>3, <2>2
<1> QED
  BY ONLY <1>3, <1>4, from[p].is = "value"

LEMMA DecodedEndToEnd ==
    ASSUME NEW bytes \in Seq(Byte), B!Decode(bytes).is = "value"
    PROVE  /\ B!Decode(bytes).val \in Seq(PlacedIn(bytes))
           /\ EndToEnd(bytes, 0, B!Decode(bytes).val)
<1> DEFINE C == 0..Len(bytes)
           level == [p \in C |-> Len(bytes) - p]
<1>1. PICK from \in [C -> Decoding(bytes)] :
         B!Decode(bytes) = from[0] /\ \A p \in C : from[p] = DecodeStep(bytes, p, from)
  BY DecodeDef
<1>2. Len(bytes) \in Nat
  BY LenProperties
<1>3. Levels(C, level)
  <2>1. level \in [C -> Nat] /\ \A p \in C : level[p] <= Len(bytes)
    BY <1>2
  <2> HIDE DEF C, level
  <2> QED
    BY ONLY <1>2, <2>1 DEF Levels
<1>4. \A p \in C : from[p].val \in Seq(PlacedIn(bytes))
  BY DEF Decoding
<1> DEFINE G == {p \in C : from[p].is = "value" => EndToEnd(bytes, p, from[p].val)}
<1>5. ASSUME NEW p \in C, \A q \in C : level[q] < level[p] => q \in G, from[p].is = "value"
      PROVE  EndToEnd(bytes, p, from[p].val)
  <2>1. CASE p = Len(bytes)
    <3>1. from[p].val = <<>>
      <4>1. DecodeStep(bytes, p, from) = B!Ends("value")
        BY ONLY <2>1 DEF DecodeStep
      <4>2. from[p] = B!Ends("value")
        BY ONLY <1>1, <4>1, p \in C
      <4> QED
        BY ONLY <4>2 DEF B!Ends
    <3> QED
      BY <2>1, <3>1 DEF EndToEnd
  <2>2. CASE p # Len(bytes)
    <3> DEFINE next == B!NextAt(bytes, p)
               d == from[next].val
               e == from[p].val
    <3>1. p \in 0..Len(bytes) - 1
      BY <1>2, <2>2
    <3>2. /\ next \in p + 1..Len(bytes) /\ from[next].is = "value"
          /\ e = <<Placed(bytes, p)>> \o d
      BY <1>1, <1>5, <3>1, DecodedOn
    <3> HIDE DEF next
    <3>3. next \in C /\ level[next] < level[p] /\ next \in Nat /\ p \in Nat
      BY <1>2, <3>1, <3>2
    <3>4. EndToEnd(bytes, next, d) /\ d \in Seq(PlacedIn(bytes))
      <4> HIDE DEF C, level
      <4> QED
        BY <1>4, <1>5, <3>2, <3>3
    <3> HIDE DEF d, e
    <3>5. Placed(bytes, p) \in PlacedIn(bytes) /\ Placed(bytes, p).at = p
      BY <3>1 DEF PlacedIn, Placed
    <3>6. /\ Len(e) = Len(d) + 1 /\ e[1] = Placed(bytes, p) /\ e \in Seq(PlacedIn(bytes))
          /\ \A k \in 1..Len(d) : e[k + 1] = d[k]
      BY ONLY <3>2, <3>4, <3>5, InFront
    <3>7. Len(d) \in Nat /\ e # <<>> /\ (d = <<>> <=> Len(d) = 0)
      BY <3>4, <3>6, LenProperties, EmptySeq
    <3>8. Behind(bytes, e, 1) = next
      BY <3>4, <3>6, <3>7 DEF Behind, EndToEnd
    <3>9. ASSUME NEW k \in 1..Len(d) PROVE Behind(bytes, e, k + 1) = Behind(bytes, d, k)
      <4>1. k + 1 < Len(e) <=> k < Len(d)
        BY <3>6, <3>7
      <4>2. k < Len(d) => k + 1 \in 1..Len(d)
        BY <3>7
      <4> QED
        BY ONLY <3>6, <4>1, <4>2 DEF Behind
    <3>10. ASSUME NEW k \in 1..Len(e)
           PROVE  /\ e[k].at \in 0..Len(bytes) - 1 /\ e[k] = Placed(bytes, e[k].at)
                  /\ Behind(bytes, e, k) \in e[k].at + 1..Len(bytes)
                  /\ Behind(bytes, e, k) = B!NextAt(bytes, e[k].at)
      <4>1. CASE k = 1
        <5>1. e[k] = Placed(bytes, p) /\ e[k].at = p /\ Behind(bytes, e, k) = next
          BY <3>5, <3>6, <3>8, <4>1
        <5>2. next = B!NextAt(bytes, p)
          BY DEF next
        <5> QED
          BY ONLY <1>2, <3>1, <3>2, <5>1, <5>2
      <4>2. CASE k # 1
        <5> DEFINE j == k - 1
        <5>1. j \in 1..Len(d) /\ k = j + 1
          BY <3>6, <3>7, <4>2
        <5> HIDE DEF j
        <5>2. e[k] = d[j] /\ Behind(bytes, e, k) = Behind(bytes, d, j)
          BY <3>6, <3>9, <5>1
        <5> QED
          BY ONLY <3>4, <5>1, <5>2 DEF EndToEnd
      <4> QED
        BY <4>1, <4>2
    <3>11. e[1].at = p
      BY <3>5, <3>6
    <3> QED
      BY ONLY <2>2, <3>7, <3>10, <3>11 DEF EndToEnd, e
  <2> QED
    BY <2>1, <2>2
<1>6. C \subseteq G
  <2> HIDE DEF C, level
  <2>1. ASSUME NEW p \in C, \A q \in C : level[q] < level[p] => q \in G
        PROVE  p \in G
    BY <1>5, <2>1
  <2> HIDE DEF G
  <2>2. Hereditary(C, level, G)
    BY ONLY <2>1 DEF Hereditary
  <2> QED
    BY ONLY <1>3, <2>2, LevelInduction, Zenon
<1>7. 0 \in G
  BY <1>2, <1>6
<1> QED
  BY <1>1, <1>2, <1>4, <1>7

\* An instruction that bytecode_to_bytes writes in full gives back its bytes;
\* and size_of, where it counts them all, their number.
Written(op) == op \notin {2, 14} \cup B!EncodedBare \cup B!NotEncoded
Sized(op) == op \notin {17, 54, 170, 179, 181, 185}

LEMMA InstrReadsBack ==
    ASSUME NEW bytes \in Seq(Byte), NEW p \in 0..Len(bytes) - 1,
           NEW next \in p + 1..Len(bytes), next = B!NextAt(bytes, p),
           NEW i, i = B!InstrAt(bytes, p), Written(i.op)
    PROVE  /\ B!Encode(i) = SubSeq(bytes, p + 1, next)
           /\ Sized(i.op) => B!InstrSize(i) = next - p
<1> DEFINE b == bytes[p + 1]
           fs == B!FamilyOf(b)
           f  == CHOOSE x \in fs : TRUE
<1>1. Len(bytes) \in Nat /\ p \in Nat /\ p + 1 \in 1..Len(bytes)
  BY LenProperties
<1>2. b \in Nat /\ b < 256
  <2>1. b \in Byte
    BY ONLY <1>1, bytes \in Seq(Byte), ElementOfSeq
  <2> HIDE DEF b
  <2> QED
    BY ONLY <2>1 DEF Byte
<1>3. i.op = B!Variant(b) /\ i.n = B!ConstantOf(b) /\ i.args = SubSeq(bytes, p + 2, next)
  BY DEF B!InstrAt, B!Instr
<1> HIDE DEF b
<1>4. i.op \in Int /\ i.op + i.n = b /\ (fs = {} => i.op = b) /\ (fs # {} => f \in fs /\ i.op = f[1])
  <2>1. CASE fs = {}
    BY <1>2, <1>3, <2>1 DEF B!Variant, B!ConstantOf
  <2>2. CASE fs # {}
    <3>1. f \in fs
      BY <2>2
    <3>2. f \in B!Families
      BY <3>1 DEF B!FamilyOf
    <3>3. f[1] \in Int
      <4>1. ASSUME NEW x \in B!Families PROVE x[1] \in Int
        BY ONLY <4>1 DEF B!Families
      <4> QED
        BY ONLY <3>2, <4>1
    <3>4. B!Variant(b) = f[1] /\ f[1] \notin {2, 14}
      BY <1>3, <2>2 DEF B!Variant, Written
    <3>5. B!ConstantOf(b) = b - f[1]
      BY <2>2, <3>4 DEF B!ConstantOf
    <3> HIDE DEF f, fs
    <3> QED
      BY <1>2, <1>3, <2>2, <3>1, <3>3, <3>4, <3>5
  <2> QED
    BY <2>1, <2>2
<1>5. B!Encode(i) = <<b>> \o SubSeq(bytes, p + 2, next)
  <2>1. i.op \notin B!EncodedBare /\ b % 256 = b
    BY <1>2 DEF Written
  <2> QED
    BY ONLY <1>3, <1>4, <2>1 DEF B!Encode
<1>6. B!Encode(i) = SubSeq(bytes, p + 1, next)
  <2>1. next \in p + 1..Len(bytes) /\ p + 2 = (p + 1) + 1
    BY <1>1
  <2> QED
    BY ONLY <1>1, <1>5, <2>1, bytes \in Seq(Byte), SubSeqRecursiveFirst DEF b
<1>7. ASSUME Sized(i.op) PROVE B!InstrSize(i) = next - p
  <2>1. B!OperandBytes(i.op) = B!OperandBytes(b)
    <3>1. CASE fs = {}
      BY <1>4, <3>1
    <3>2. CASE fs # {}
      <4>1. f \in B!Families /\ b \in f[1]..f[2]
        BY <1>4, <3>2 DEF B!FamilyOf
      <4> HIDE DEF f, fs
      <4>2. /\ f[1] \in 2..15 \cup 26..45 \cup 59..78
            /\ b \in 2..15 \cup 26..45 \cup 59..78
        BY ONLY <1>2, <4>1 DEF B!Families
      <4>3. ASSUME NEW x \in 2..15 \cup 26..45 \cup 59..78 PROVE B!OperandBytes(x) = 0
        BY ONLY <4>3 DEF B!OperandBytes
      <4> QED
        BY <1>4, <3>2, <4>2, <4>3
    <3> QED
      BY <3>1, <3>2
  <2>2. b # B!Lookupswitch
    <3> SUFFICES ASSUME b = B!Lookupswitch PROVE FALSE
      OBVIOUS
    <3>1. fs = {}
      BY DEF B!FamilyOf, B!Families, B!Lookupswitch
    <3> QED
      BY <1>4, <3>1 DEF Written, B!NotEncoded, B!Lookupswitch
  <2>3. next = p + 1 + B!OperandBytes(b)
    BY <2>2 DEF B!NextAt, B!SizeAt, b
  <2>4. B!OperandBytes(b) \in {0, 1, 2, 3, 4}
    BY DEF B!OperandBytes
  <2>5. B!InstrSize(i) = 1 + B!OperandBytes(i.op)
    BY <1>7 DEF Written, Sized, B!EncodedBare, B!InstrSize
  <2> QED
    BY ONLY <1>1, <2>1, <2>3, <2>4, <2>5
<1> QED
  BY <1>6, <1>7

\* bytecode::from_bytes_with_indices, bytecode_to_bytes and size_of agree on
\* every code that is decoded to its end: the instructions lie end to end over
\* all of it, each takes at least a byte, and each encodes to exactly its
\* bytes.  The excepted opcodes are those of arms that say something else.
THEOREM CodeReadsBack ==
    ASSUME NEW bytes \in Seq(0..255)
    PROVE  LET code == B!Decode(bytes)
               d    == code.val
           IN  /\ code.is \in {"value", "error", "panic"}
               /\ code.is = "value" =>
                    /\ d = <<>> <=> bytes = <<>>
                    /\ d # <<>> => d[1].at = 0
                    /\ \A k \in 1..Len(d) :
                          LET at   == d[k].at
                              ins  == d[k].ins
                              next == IF k < Len(d) THEN d[k + 1].at ELSE Len(bytes)
                          IN  /\ at < next /\ next <= Len(bytes)
                              /\ ins.op \notin {2, 14} \cup B!EncodedBare \cup B!NotEncoded =>
                                    /\ B!Encode(ins) = SubSeq(bytes, at + 1, next)
                                    /\ ins.op \notin {17, 54, 170, 179, 181, 185} =>
                                          B!InstrSize(ins) = next - at
<1> DEFINE code == B!Decode(bytes)
           d    == code.val
<1>1. bytes \in Seq(Byte)
  BY DEF Byte
<1>2. code.is \in {"value", "error", "panic"}
  BY <1>1, DecodeEnds
<1>3. ASSUME code.is = "value"
      PROVE  EndToEnd(bytes, 0, d)
  BY <1>1, <1>3, DecodedEndToEnd
<1>4. bytes = <<>> <=> 0 = Len(bytes)
  BY EmptySeq, LenProperties
<1>5. ASSUME code.is = "value", NEW k \in 1..Len(d), NEW at, at = d[k].at,
             NEW ins, ins = d[k].ins, NEW next, next = Behind(bytes, d, k)
      PROVE  /\ at < next /\ next <= Len(bytes)
             /\ Written(ins.op) => /\ B!Encode(ins) = SubSeq(bytes, at + 1, next)
                                   /\ Sized(ins.op) => B!InstrSize(ins) = next - at
  <2>1. /\ at \in 0..Len(bytes) - 1 /\ d[k] = Placed(bytes, at)
        /\ next \in at + 1..Len(bytes) /\ next = B!NextAt(bytes, at)
    BY <1>3, <1>5 DEF EndToEnd
  <2>2. ins = B!InstrAt(bytes, at)
    BY <1>5, <2>1 DEF Placed
  <2>3. at < next /\ next <= Len(bytes)
    <3>1. Len(bytes) \in Nat
      BY <1>1, LenProperties
    <3> QED
      BY ONLY <2>1, <3>1
  <2> HIDE DEF d, code
  <2>4. Written(ins.op) => /\ B!Encode(ins) = SubSeq(bytes, at + 1, next)
                           /\ Sized(ins.op) => B!InstrSize(ins) = next - at
    BY ONLY <1>1, <2>1, <2>2, InstrReadsBack
  <2> QED
    BY <2>3, <2>4
<1>6. code.is = "value" => (d = <<>> <=> bytes = <<>>) /\ (d # <<>> => d[1].at = 0)
  BY <1>3, <1>4 DEF EndToEnd
<1>7. ASSUME code.is = "value", NEW k \in 1..Len(d)
      PROVE  LET at   == d[k].at
                 ins  == d[k].ins
                 next == IF k < Len(d) THEN d[k + 1].at ELSE Len(bytes)
             IN  /\ at < next /\ next <= Len(bytes)
                 /\ ins.op \notin {2, 14} \cup B!EncodedBare \cup B!NotEncoded =>
                       /\ B!Encode(ins) = SubSeq(bytes, at + 1, next)
                       /\ ins.op \notin {17, 54, 170, 179, 181, 185} =>
                             B!InstrSize(ins) = next - at
  <2> DEFINE at == d[k].at
             ins == d[k].ins
             next == Behind(bytes, d, k)
  <2> HIDE DEF at, ins, next
  <2>1. /\ at < next /\ next <= Len(bytes)
        /\ Written(ins.op) => /\ B!Encode(ins) = SubSeq(bytes, at + 1, next)
                              /\ Sized(ins.op) => B!InstrSize(ins) = next - at
    BY <1>5, <1>7 DEF at, ins, next
  <2> QED
    BY ONLY <2>1 DEF at, ins, next, Behind, Written, Sized
<1> QED
  BY <1>2, <1>6, <1>7

-----------------------------------------------------------------------------
(***************************************************************************)
(* Descriptors: what is printed is parsed back.                            *)
(***************************************************************************)

\* The descriptors of fields whose class names are of some letters, the signs
\* they are printed with, and what their texts look like.
FieldDescriptors(letters) ==
    {Field(dims, elem, <<>>) : dims \in Dimensions, elem \in Base}
        \cup {Field(dims, "L", name) : dims \in Dimensions, name \in Seq(letters)}
Signs == Base \cup {"[", "L", Semicolon, "(", ")", "V"}
Alphabet(letters) == letters \cup Signs
Printed(s, fd, letters) ==
    /\ s \in Seq(Alphabet(letters))
    /\ Len(s) = fd.dims + (IF fd.elem = "L" THEN Len(fd.name) + 2 ELSE 1)
    /\ \A i \in 1..fd.dims : s[i] = "["
    /\ s[fd.dims + 1] = fd.elem
    /\ fd.elem = "L" =>
          /\ s[Len(s)] = Semicolon
          /\ \A i \in 1..Len(fd.name) : s[fd.dims + 1 + i] = fd.name[i]

\* Where the elements of two sequences lie in both together.
LEMMA Together ==
    ASSUME NEW S, NEW u \in Seq(S), NEW v \in Seq(S)
    PROVE  /\ u \o v \in Seq(S) /\ Len(u \o v) = Len(u) + Len(v)
           /\ \A i \in 1..Len(u) : (u \o v)[i] = u[i]
           /\ \A i \in 1..Len(v) : (u \o v)[Len(u) + i] = v[i]
<1>1. /\ u \o v \in Seq(S) /\ Len(u \o v) = Len(u) + Len(v)
      /\ \A i \in 1..Len(u) + Len(v) : (u \o v)[i] = IF i <= Len(u) THEN u[i] ELSE v[i - Len(u)]
  BY ConcatProperties
<1>2. Len(u) \in Nat /\ Len(v) \in Nat
  BY LenProperties
<1>3. ASSUME NEW i \in 1..Len(v) PROVE (u \o v)[Len(u) + i] = v[i]
  <2> DEFINE j == Len(u) + i
  <2>1. j \in 1..Len(u) + Len(v) /\ ~(j <= Len(u)) /\ j - Len(u) = i
    BY ONLY <1>2, <1>3
  <2> HIDE DEF j
  <2>2. (u \o v)[j] = v[i]
    BY ONLY <1>1, <2>1
  <2> QED
    BY ONLY <2>2 DEF j
<1>4. ASSUME NEW i \in 1..Len(u) PROVE (u \o v)[i] = u[i]
  <2>1. i \in 1..Len(u) + Len(v) /\ i <= Len(u)
    BY ONLY <1>2, <1>4
  <2> QED
    BY ONLY <1>1, <2>1
<1> QED
  BY ONLY <1>1, <1>3, <1>4

LEMMA FieldParts ==
    ASSUME NEW letters, NEW fd \in FieldDescriptors(letters)
    PROVE  /\ fd.dims \in Nat /\ fd.elem \in Base \cup {"L"} /\ fd.name \in Seq(letters)
           /\ fd.elem \in Base => fd.name = <<>> /\ fd.elem # "L"
           /\ fd = Field(fd.dims, fd.elem, fd.name)
<1>0. Dimensions \subseteq Nat
  BY DEF Dimensions
<1>1. CASE fd \in {Field(dims, elem, <<>>) : dims \in Dimensions, elem \in Base}
  <2>1. PICK dims \in Dimensions, elem \in Base : fd = Field(dims, elem, <<>>)
    BY <1>1
  <2>2. fd.dims = dims /\ fd.elem = elem /\ fd.name = <<>> /\ dims \in Nat
    BY <1>0, <2>1 DEF Field
  <2>3. elem # "L"
    BY DEF Base
  <2> QED
    BY <2>1, <2>2, <2>3, EmptySeq
<1>2. CASE fd \in {Field(dims, "L", name) : dims \in Dimensions, name \in Seq(letters)}
  <2>1. PICK dims \in Dimensions, name \in Seq(letters) : fd = Field(dims, "L", name)
    BY <1>2
  <2>2. fd.dims = dims /\ fd.elem = "L" /\ fd.name = name /\ dims \in Nat
    BY <1>0, <2>1 DEF Field
  <2>3. "L" \notin Base
    BY DEF Base
  <2> QED
    BY <2>1, <2>2, <2>3
<1> QED
  BY <1>1, <1>2 DEF FieldDescriptors

LEMMA PrintedField ==
    ASSUME NEW letters, NEW fd \in FieldDescriptors(letters)
    PROVE  Printed(PrintField(fd), fd, letters)
<1> DEFINE dims == fd.dims
           front == [i \in 1..dims |-> "["]
           back == IF fd.elem = "L" THEN <<"L">> \o fd.name \o <<Semicolon>> ELSE <<fd.elem>>
           n == Len(fd.name)
<1>1. dims \in Nat /\ fd.elem \in Base \cup {"L"} /\ fd.name \in Seq(letters) /\ n \in Nat
  BY FieldParts, LenProperties
<1> DEFINE T == Alphabet(letters)
<1>0. /\ {"[", "L", Semicolon} \cup Base \subseteq T
      /\ fd.name \in Seq(T)
  <2>1. letters \subseteq T
    BY DEF Alphabet
  <2>2. fd.name \in Seq(T)
    BY ONLY <1>1, <2>1, SeqMonotonic
  <2> QED
    BY <2>2 DEF Alphabet, Signs
<1> HIDE DEF T
<1>2. front \in Seq(T) /\ Len(front) = dims /\ \A i \in 1..dims : front[i] = "["
  <2>1. front \in [1..dims -> T]
    BY <1>0
  <2> QED
    BY <1>1, <2>1
<1>3. /\ back \in Seq(T) /\ back[1] = fd.elem
      /\ Len(back) = (IF fd.elem = "L" THEN n + 2 ELSE 1)
      /\ fd.elem = "L" => back[Len(back)] = Semicolon /\ \A i \in 1..n : back[i + 1] = fd.name[i]
  <2>1. CASE fd.elem = "L"
    <3> DEFINE u == <<"L">> \o fd.name
               v == <<Semicolon>>
    <3>1. "L" \in T /\ v \in Seq(T) /\ Len(v) = 1 /\ v[1] = Semicolon
      BY <1>0
    <3>2. u \in Seq(T) /\ Len(u) = n + 1 /\ u[1] = "L" /\ \A i \in 1..n : u[i + 1] = fd.name[i]
      BY ONLY <1>0, <3>1, InFront DEF n
    <3> HIDE DEF u, v
    <3>3. /\ u \o v \in Seq(T) /\ Len(u \o v) = Len(u) + Len(v)
          /\ \A i \in 1..Len(u) : (u \o v)[i] = u[i]
          /\ \A i \in 1..Len(v) : (u \o v)[Len(u) + i] = v[i]
      <4>1. u \in Seq(T) /\ v \in Seq(T)
        BY ONLY <3>1, <3>2
      <4> QED
        BY ONLY <4>1, Together
    <3> HIDE DEF n
    <3>4. /\ Len(u \o v) = n + 2 /\ (u \o v)[1] = "L" /\ (u \o v)[n + 2] = Semicolon
          /\ \A i \in 1..n : (u \o v)[i + 1] = fd.name[i]
      <4>1. Len(u \o v) = n + 2 /\ n + 2 = Len(u) + 1 /\ 1 \in 1..Len(v) /\ 1 \in 1..Len(u)
        BY ONLY <1>1, <3>1, <3>2, <3>3
      <4>2. \A i \in 1..n : i + 1 \in 1..Len(u)
        BY ONLY <1>1, <3>2
      <4>3. (u \o v)[n + 2] = v[1]
        BY ONLY <3>3, <4>1
      <4>4. (u \o v)[1] = u[1] /\ \A i \in 1..n : (u \o v)[i + 1] = u[i + 1]
        BY ONLY <3>3, <4>1, <4>2
      <4> QED
        BY ONLY <3>1, <3>2, <4>1, <4>3, <4>4
    <3>5. back = u \o v
      BY <2>1 DEF u, v
    <3> QED
      BY ONLY <2>1, <3>3, <3>4, <3>5
  <2>2. CASE fd.elem # "L"
    <3>1. fd.elem \in T
      BY <1>0, <1>1, <2>2
    <3> QED
      BY <2>2, <3>1
  <2> QED
    BY <2>1, <2>2
<1>4. PrintField(fd) = front \o back
  BY DEF PrintField
<1> HIDE DEF front, back, n, dims
<1>5. /\ front \o back \in Seq(T) /\ Len(front \o back) = Len(front) + Len(back)
      /\ \A i \in 1..Len(front) : (front \o back)[i] = front[i]
      /\ \A i \in 1..Len(back) : (front \o back)[Len(front) + i] = back[i]
  <2>1. front \in Seq(T) /\ back \in Seq(T)
    BY ONLY <1>2, <1>3
  <2> QED
    BY ONLY <2>1, Together
<1>6. Len(back) \in Nat /\ Len(back) >= 1
  BY ONLY <1>1, <1>3
<1>7. \A i \in 1..dims : (front \o back)[i] = "["
  BY ONLY <1>2, <1>5
<1>8. \A j \in 1..Len(back) : (front \o back)[dims + j] = back[j]
  BY ONLY <1>2, <1>5
<1>9. (front \o back)[dims + 1] = fd.elem
  <2>1. 1 \in 1..Len(back)
    BY ONLY <1>6
  <2> QED
    BY ONLY <1>3, <1>8, <2>1
<1>10. Len(front \o back) = dims + (IF fd.elem = "L" THEN n + 2 ELSE 1)
  BY ONLY <1>1, <1>2, <1>3, <1>5
<1>11. ASSUME fd.elem = "L"
       PROVE  /\ (front \o back)[Len(front \o back)] = Semicolon
              /\ \A i \in 1..n : (front \o back)[dims + 1 + i] = fd.name[i]
  <2>1. Len(back) = n + 2 /\ Len(front \o back) = dims + (n + 2)
    BY ONLY <1>3, <1>10, <1>11
  <2>2. (front \o back)[dims + (n + 2)] = back[n + 2]
    BY ONLY <1>1, <1>8, <2>1
  <2>3. ASSUME NEW i \in 1..n PROVE (front \o back)[dims + 1 + i] = fd.name[i]
    <3>1. i + 1 \in 1..Len(back) /\ dims + 1 + i = dims + (i + 1)
      BY ONLY <1>1, <2>1, <2>3
    <3>2. (front \o back)[dims + 1 + i] = back[i + 1]
      BY ONLY <1>8, <3>1
    <3> QED
      BY ONLY <1>3, <1>11, <2>3, <3>2
  <2> QED
    BY ONLY <1>3, <1>11, <2>1, <2>2, <2>3
<1> QED
  BY ONLY <1>4, <1>5, <1>7, <1>9, <1>10, <1>11 DEF Printed, n, dims, T

\* The first element of a set of positions, by its bounds.
LEMMA FirstOf ==
    ASSUME NEW S \in SUBSET Int, NEW m \in S, \A j \in S : m <= j
    PROVE  (CHOOSE i \in S : \A j \in S : i <= j) = m
<1>1. \A i \in S : (\A j \in S : i <= j) => i = m
  OBVIOUS
<1> QED
  BY <1>1

\* FieldDescriptor::parse gives back every descriptor that was printed.
LEMMA FieldParsed ==
    ASSUME NEW letters, NEW fd \in FieldDescriptors(letters), NEW s, Printed(s, fd, letters)
    PROVE  ParseField(s) = Value(fd)
<1> DEFINE dims  == fd.dims
           plain == {i \in DOMAIN s : s[i] # "["}
           at    == CHOOSE i \in plain : \A j \in plain : i <= j
           n     == Len(fd.name)
<1>1. /\ dims \in Nat /\ fd.elem \in Base \cup {"L"} /\ fd.name \in Seq(letters) /\ n \in Nat
      /\ fd = Field(dims, fd.elem, fd.name) /\ (fd.elem \in Base => fd.name = <<>> /\ fd.elem # "L")
  BY FieldParts, LenProperties
<1>2. DOMAIN s = 1..Len(s) /\ Len(s) \in Nat /\ Len(s) >= dims + 1
  BY <1>1, LenProperties DEF Printed
<1>3. dims + 1 \in plain
  <2>1. fd.elem # "["
    BY <1>1 DEF Base
  <2> QED
    BY <1>1, <1>2, <2>1 DEF Printed
<1>4. \A j \in plain : dims + 1 <= j
  BY <1>1, <1>2 DEF Printed
<1>5. plain \in SUBSET Int
  BY <1>2
<1>6. at = dims + 1
  <2> HIDE DEF plain, dims
  <2> QED
    BY ONLY <1>3, <1>4, <1>5, FirstOf, Zenon
<1>7. /\ plain # {}
      /\ ParseField(s) = IF s[at] \in Base THEN Value(Field(at - 1, s[at], <<>>))
                         ELSE IF s[at] # "L" THEN Error
                         ELSE IF at = Len(s) THEN Panic
                         ELSE Value(Field(at - 1, "L", SubSeq(s, at + 1, Len(s) - 1)))
  BY <1>3 DEF ParseField
<1> HIDE DEF plain, at
<1>8. at - 1 = dims /\ s[at] = fd.elem
  BY <1>1, <1>6 DEF Printed
<1>9. CASE fd.elem \in Base
  BY <1>1, <1>7, <1>8, <1>9
<1>10. CASE fd.elem = "L"
  <2>1. Len(s) = dims + n + 2 /\ Len(s) - 1 = dims + 1 + n /\ at # Len(s) /\ at + 1 = dims + 2
    <3>1. Len(s) = dims + (n + 2)
      BY ONLY <1>10, Printed(s, fd, letters) DEF Printed
    <3>2. dims \in Nat /\ n \in Nat
      BY ONLY <1>1
    <3> HIDE DEF dims, n
    <3> QED
      BY ONLY <1>6, <3>1, <3>2
  <2>2. \A i \in 1..n : s[dims + 1 + i] = fd.name[i]
    BY <1>10 DEF Printed
  <2> DEFINE a == dims + 2
             b == dims + 1 + n
             sub == SubSeq(s, a, b)
  <2>3. a \in Int /\ b \in Int /\ b - a + 1 = n /\ a \in Nat
    <3>1. dims \in Nat /\ n \in Nat
      BY ONLY <1>1
    <3> HIDE DEF dims, n
    <3> QED
      BY ONLY <3>1
  <2>4. \A i \in a..b : s[i] \in Alphabet(letters)
    <3>1. s \in Seq(Alphabet(letters))
      BY DEF Printed
    <3>2. \A i \in 1..Len(s) : s[i] \in Alphabet(letters)
      BY ONLY <3>1, ElementOfSeq
    <3> QED
      BY <1>1, <2>1, <3>2
  <2> HIDE DEF a, b
  <2>5. /\ sub \in Seq(Alphabet(letters)) /\ Len(sub) = (IF a <= b THEN b - a + 1 ELSE 0)
        /\ \A i \in 1..b - a + 1 : sub[i] = s[a + i - 1]
    BY ONLY <2>3, <2>4, SubSeqProperties
  <2>6. Len(sub) = n
    BY ONLY <1>1, <2>3, <2>5
  <2>7. ASSUME NEW i \in 1..n PROVE sub[i] = fd.name[i]
    <3>1. sub[i] = s[a + i - 1]
      BY ONLY <2>3, <2>5, <2>7
    <3>2. a + i - 1 = dims + 1 + i
      BY ONLY <1>1, <2>7 DEF a
    <3> QED
      BY ONLY <2>2, <2>7, <3>1, <3>2
  <2>8. sub = fd.name
    <3>1. fd.name \in Seq(Alphabet(letters))
      <4>1. letters \subseteq Alphabet(letters)
        BY DEF Alphabet
      <4> QED
        BY ONLY <1>1, <4>1, SeqMonotonic
    <3>2. Len(sub) = Len(fd.name) /\ \A i \in 1..Len(sub) : sub[i] = fd.name[i]
      BY ONLY <2>6, <2>7 DEF n
    <3>3. sub \in Seq(Alphabet(letters))
      BY ONLY <2>5
    <3> HIDE DEF sub
    <3> QED
      BY ONLY <3>1, <3>2, <3>3, SeqEqual
  <2>9. SubSeq(s, at + 1, Len(s) - 1) = fd.name
    BY ONLY <2>1, <2>8 DEF a, b
  <2>10. "L" \notin Base
    BY DEF Base
  <2> QED
    BY ONLY <1>1, <1>7, <1>8, <1>10, <2>1, <2>9, <2>10
<1> QED
  BY <1>1, <1>9, <1>10

\* Where the parts of a text lie in it: part k behind at[k - 1] characters.
PartsOf(parts, n, S) == parts \in [1..n -> Seq(S)]
LiesIn(parts, n, at, S, text) ==
    /\ at \in [0..n -> Nat] /\ at[0] = 0 /\ \A k \in 1..n : at[k] = at[k - 1] + Len(parts[k])
    /\ text \in Seq(S) /\ Len(text) = at[n]
    /\ \A k \in 1..n : \A j \in 1..Len(parts[k]) :
          at[k - 1] + j \in 1..at[n] /\ text[at[k - 1] + j] = parts[k][j]
LEMMA Flattened ==
    ASSUME NEW S, NEW n \in Nat, NEW parts, PartsOf(parts, n, S)
    PROVE  \E at : LiesIn(parts, n, at, S, FlattenSeq(parts))
<1> SUFFICES ASSUME parts \in [1..n -> Seq(S)]
             PROVE  \E at \in [0..n -> Nat] :
                       /\ at[0] = 0 /\ \A k \in 1..n : at[k] = at[k - 1] + Len(parts[k])
                       /\ FlattenSeq(parts) \in Seq(S) /\ Len(FlattenSeq(parts)) = at[n]
                       /\ \A k \in 1..n : \A j \in 1..Len(parts[k]) :
                             /\ at[k - 1] + j \in 1..at[n]
                             /\ FlattenSeq(parts)[at[k - 1] + j] = parts[k][j]
  <2> QED
    BY DEF PartsOf, LiesIn
<1>1. Len(parts) = n /\ parts \in Seq(Seq(S))
  OBVIOUS
<1>2. CASE n = 0
  <2> DEFINE at == [k \in 0..0 |-> 0]
  <2>1. FlattenSeq(parts) = parts /\ parts = <<>>
    BY <1>1, <1>2 DEF FlattenSeq
  <2>2. <<>> \in Seq(S) /\ Len(<<>>) = 0
    BY EmptySeq
  <2>3. at \in [0..n -> Nat] /\ at[0] = 0 /\ 1..n = {}
    BY <1>2
  <2> HIDE DEF at
  <2> QED
    BY <1>2, <2>1, <2>2, <2>3
<1>3. CASE n # 0
  <2> DEFINE C == 1..n
             T == Seq(S)
             level == [k \in C |-> k]
             next(k, f) == IF k = 1 THEN parts[k] ELSE f[k - 1] \o parts[k]
             step == [x \in C \X [C -> T] |-> next(x[1], x[2])]
             flatten[k \in 1..Len(parts)] == IF k = 1 THEN parts[k] ELSE flatten[k - 1] \o parts[k]
  <2>1. level \in [C -> Nat] /\ \A k \in C : level[k] = k /\ level[k] <= n
    OBVIOUS
  <2>2. ASSUME NEW k \in C, k # 1 PROVE k - 1 \in C /\ level[k - 1] < level[k]
    BY <2>2
  <2>3. ASSUME NEW k \in C, NEW f \in [C -> T] PROVE next(k, f) \in T
    <3>1. parts[k] \in T
      OBVIOUS
    <3>2. CASE k = 1
      BY <3>1, <3>2
    <3>3. CASE k # 1
      <4>1. f[k - 1] \in T
        BY <2>2, <3>3
      <4> QED
        BY <3>1, <3>3, <4>1, ConcatProperties
    <3> QED
      BY <3>2, <3>3
  <2>4. Levels(C, level)
    <3> HIDE DEF C, level
    <3> QED
      BY ONLY <2>1, n \in Nat DEF Levels
  <2>5. step \in [C \X [C -> T] -> T]
    <3> HIDE DEF C, T, next
    <3> QED
      BY <2>3
  <2>6. LooksDown(C, T, level, step)
    <3>1. T # {}
      BY EmptySeq
    <3> SUFFICES ASSUME NEW k \in C, NEW f \in [C -> T], NEW g \in [C -> T],
                        \A q \in C : level[q] < level[k] => f[q] = g[q]
                 PROVE  step[<<k, f>>] = step[<<k, g>>]
      <4> HIDE DEF C, T, step, level
      <4> QED
        BY <2>5, <3>1 DEF LooksDown
    <3>2. step[<<k, f>>] = next(k, f) /\ step[<<k, g>>] = next(k, g)
      <4> HIDE DEF C, T, next
      <4> QED
        OBVIOUS
    <3>3. k # 1 => f[k - 1] = g[k - 1]
      BY <2>2
    <3>4. next(k, f) = next(k, g)
      BY ONLY <3>3
    <3> HIDE DEF next, step
    <3> QED
      BY <3>2, <3>4
  <2>7. PICK f \in [C -> T] : \A k \in C : f[k] = step[<<k, f>>]
    <3> HIDE DEF C, T, level, step
    <3>1. Solvable(C, T, step)
      BY ONLY <2>4, <2>6, RecursiveFunction, Zenon
    <3> QED
      BY ONLY <3>1 DEF Solvable
  <2>8. \A k \in C : f[k] = next(k, f)
    <3> HIDE DEF C, T, next
    <3> QED
      BY <2>7
  <2>9. f = [k \in 1..Len(parts) |-> IF k = 1 THEN parts[k] ELSE f[k - 1] \o parts[k]]
    <3> HIDE DEF T
    <3> QED
      BY <1>1, <2>7, <2>8
  <2>10. flatten = [k \in 1..Len(parts) |-> IF k = 1 THEN parts[k] ELSE flatten[k - 1] \o parts[k]]
    BY ONLY <2>9, Zenon
  <2>11. FlattenSeq(parts) = flatten[n]
    BY <1>1, <1>3 DEF FlattenSeq
  <2> HIDE DEF flatten
  <2>12. \A k \in C : flatten[k] = IF k = 1 THEN parts[k] ELSE flatten[k - 1] \o parts[k]
    BY ONLY <1>1, <2>10
  <2> DEFINE at == [k \in 0..n |-> IF k = 0 THEN 0 ELSE Len(flatten[k])]
             lies(k) == \A m \in 1..k : \A j \in 1..Len(parts[m]) :
                            /\ at[m - 1] + j \in 1..at[k]
                            /\ flatten[k][at[m - 1] + j] = parts[m][j]
             good(k) == flatten[k] \in T /\ at[k] = at[k - 1] + Len(parts[k]) /\ lies(k)
             G == {k \in C : good(k)}
  <2>13. at[0] = 0 /\ \A k \in C : at[k] = Len(flatten[k])
    OBVIOUS
  <2>14. \A k \in C : parts[k] \in T /\ Len(parts[k]) \in Nat
    <3>1. \A s \in Seq(S) : Len(s) \in Nat
      BY LenProperties
    <3> QED
      BY <3>1
  <2> HIDE DEF at
  <2>15. good(1)
    <3>1. 1 \in C /\ 1 - 1 = 0
      BY <1>3
    <3>2. flatten[1] = parts[1] /\ at[1] = Len(parts[1])
      BY <2>12, <2>13, <3>1
    <3>3. lies(1)
      BY <2>13, <2>14, <3>1, <3>2
    <3> QED
      BY <2>13, <2>14, <3>1, <3>2, <3>3
  <2>16. ASSUME NEW k \in C, k # 1, good(k - 1) PROVE good(k)
    <3> DEFINE h == k - 1
               u == flatten[h]
               v == parts[k]
    <3>1. h \in C /\ flatten[k] = u \o v /\ u \in T /\ v \in T /\ lies(h)
      <4>1. h \in C
        BY <2>2, <2>16
      <4>2. flatten[k] = u \o v
        BY <2>12, <2>16
      <4>3. v \in T
        BY <2>14
      <4> HIDE DEF v, C
      <4> QED
        BY ONLY <2>16, <4>1, <4>2, <4>3
    <3>2. at[h] = Len(u) /\ at[k] = Len(flatten[k]) /\ Len(v) \in Nat /\ Len(u) \in Nat
      BY <2>13, <2>14, <3>1, LenProperties
    <3> HIDE DEF u, v
    <3>3. /\ u \o v \in T /\ Len(u \o v) = Len(u) + Len(v)
          /\ \A i \in 1..Len(u) : (u \o v)[i] = u[i]
          /\ \A i \in 1..Len(v) : (u \o v)[Len(u) + i] = v[i]
      BY ONLY <3>1, Together
    <3>4. at[k] = at[h] + Len(v)
      BY ONLY <3>1, <3>2, <3>3
    <3>5. ASSUME NEW m \in 1..k, NEW j \in 1..Len(parts[m])
          PROVE  at[m - 1] + j \in 1..at[k] /\ flatten[k][at[m - 1] + j] = parts[m][j]
      <4>1. CASE m = k
        <5>1. m - 1 = h /\ parts[m] = v
          BY <4>1 DEF v
        <5>2. j \in 1..Len(v) /\ at[m - 1] + j = Len(u) + j
          BY ONLY <3>2, <3>5, <5>1
        <5>3. flatten[k][Len(u) + j] = v[j]
          BY ONLY <3>1, <3>3, <5>2
        <5>4. Len(u) + j \in 1..at[k]
          BY ONLY <3>2, <3>4, <5>2
        <5> QED
          BY ONLY <5>1, <5>2, <5>3, <5>4
      <4>2. CASE m # k
        <5>1. m \in 1..h
          BY <4>2
        <5>2. at[m - 1] + j \in 1..at[h] /\ u[at[m - 1] + j] = parts[m][j]
          BY <3>1, <3>5, <5>1 DEF u
        <5> DEFINE i == at[m - 1] + j
        <5>3. i \in 1..Len(u) /\ u[i] = parts[m][j]
          BY ONLY <3>2, <5>2
        <5> HIDE DEF i
        <5>4. (u \o v)[i] = parts[m][j] /\ i \in 1..at[k]
          BY ONLY <3>2, <3>3, <3>4, <5>3
        <5> QED
          BY ONLY <3>1, <5>4 DEF i
      <4> QED
        BY ONLY <4>1, <4>2
    <3> QED
      BY ONLY <3>1, <3>3, <3>4, <3>5 DEF h, v
  <2>17. C \subseteq G
    <3>1. ASSUME NEW k \in C, \A q \in C : level[q] < level[k] => q \in G
          PROVE  k \in G
      <4>1. CASE k = 1
        BY <2>15, <4>1
      <4>2. CASE k # 1
        <5>1. k - 1 \in C /\ level[k - 1] < level[k]
          BY <2>2, <4>2
        <5>2. k - 1 \in G
          <6> HIDE DEF C, G, level
          <6> QED
            BY <3>1, <5>1
        <5>3. good(k - 1)
          <6> HIDE DEF good
          <6> QED
            BY <5>2
        <5>4. good(k)
          <6> HIDE DEF good, C
          <6> QED
            BY <2>16, <4>2, <5>3
        <5> HIDE DEF good
        <5> QED
          BY <5>4
      <4> QED
        BY <4>1, <4>2
    <3> HIDE DEF C, G, level
    <3>2. Hereditary(C, level, G)
      BY ONLY <3>1 DEF Hereditary
    <3> QED
      BY ONLY <2>4, <3>2, LevelInduction, Zenon
  <2>18. \A k \in C : good(k)
    <3> HIDE DEF good
    <3> QED
      BY <2>17
  <2>19. n \in C
    BY <1>3
  <2>20. at \in [0..n -> Nat]
    <3>1. \A k \in C : Len(flatten[k]) \in Nat
      <4>1. \A s \in Seq(S) : Len(s) \in Nat
        BY LenProperties
      <4> QED
        BY <2>18, <4>1
    <3> QED
      BY <3>1 DEF at
  <2>21. /\ flatten[n] \in Seq(S) /\ Len(flatten[n]) = at[n]
         /\ \A k \in C : at[k] = at[k - 1] + Len(parts[k])
         /\ \A k \in 1..n : \A j \in 1..Len(parts[k]) :
               at[k - 1] + j \in 1..at[n] /\ flatten[n][at[k - 1] + j] = parts[k][j]
    BY <2>13, <2>18, <2>19
  <2> QED
    BY <2>11, <2>13, <2>20, <2>21
<1> QED
  BY <1>2, <1>3

\* str::find gives the first position, and only from p on.
LEMMA FindFirst ==
    ASSUME NEW c, NEW s, NEW p \in Nat, NEW m \in p..Len(s), s[m] = c,
           \A i \in p..m - 1 : s[i] # c
    PROVE  Find(c, s, p) = m
<1> DEFINE found == {i \in p..Len(s) : s[i] = c}
<1>1. found \in SUBSET Int /\ m \in found /\ \A j \in found : m <= j
  OBVIOUS
<1>2. Find(c, s, p) = CHOOSE i \in found : \A j \in found : i <= j
  BY <1>1 DEF Find
<1> HIDE DEF found
<1>3. (CHOOSE i \in found : \A j \in found : i <= j) = m
  BY ONLY <1>1, FirstOf, Zenon
<1> QED
  BY ONLY <1>2, <1>3

LEMMA FindAhead ==
    ASSUME NEW c, NEW s, NEW p \in Nat, Find(c, s, p) > 0
    PROVE  Find(c, s, p) \in p..Len(s)
<1> DEFINE found == {i \in p..Len(s) : s[i] = c}
           level == [i \in found |-> i]
           at    == CHOOSE i \in found : \A j \in found : i <= j
<1>1. found # {} /\ Find(c, s, p) = at
  BY DEF Find
<1>2. \A i \in found : level[i] \in Nat /\ level[i] = i
  OBVIOUS
<1>3. \E i \in found : \A j \in found : i <= j
  <2>1. \E i \in found : \A j \in found : level[i] <= level[j]
    <3> HIDE DEF found, level
    <3> QED
      BY ONLY <1>1, <1>2, LeastLevel, Zenon
  <2> QED
    BY <1>2, <2>1
<1>4. at \in found
  <2> HIDE DEF found
  <2> QED
    BY ONLY <1>3
<1> HIDE DEF at
<1> QED
  BY <1>1, <1>4

\* A parameter of a method that MethodDescriptor::parse finds the end of: not
\* an array of a base type.  Its text ends where the parser looks for the end.
Findable(fd) == fd.dims = 0 \/ fd.elem = "L"
EndsWhereSought(x) ==
    /\ Len(x) \in Nat \ {0}
    /\ \A i \in 1..Len(x) : x[i] # ")"
    /\ x[1] \in Base => Len(x) = 1
    /\ x[1] \notin Base => x[Len(x)] = Semicolon /\ \A i \in 1..Len(x) - 1 : x[i] # Semicolon

LEMMA ParameterText ==
    ASSUME NEW letters, NEW fd \in FieldDescriptors(letters), NEW x, Printed(x, fd, letters),
           Findable(fd), Semicolon \notin letters, ")" \notin letters
    PROVE  EndsWhereSought(x)
<1> DEFINE dims == fd.dims
           n    == Len(fd.name)
<1>1. /\ dims \in Nat /\ fd.elem \in Base \cup {"L"} /\ fd.name \in Seq(letters) /\ n \in Nat
      /\ fd.elem \in Base => fd.elem # "L"
  BY FieldParts, LenProperties
<1>2. /\ Semicolon # "[" /\ Semicolon # "L" /\ Semicolon # ")"
  BY Zenon DEF Semicolon
<1>3. "[" \notin Base /\ "L" \notin Base /\ ")" \notin Base
  BY DEF Base
<1>4. CASE fd.elem \in Base
  <2>1. dims = 0 /\ Len(x) = 1 /\ x[1] = fd.elem
    BY <1>1, <1>4 DEF Findable, Printed
  <2> QED
    BY <1>3, <1>4, <2>1 DEF EndsWhereSought
<1>5. CASE fd.elem = "L"
  <2>1. /\ Len(x) = dims + (n + 2) /\ x[Len(x)] = Semicolon /\ x[dims + 1] = "L"
        /\ \A i \in 1..dims : x[i] = "["
        /\ \A i \in 1..n : x[dims + 1 + i] = fd.name[i]
    BY <1>5 DEF Printed
  <2>2. \A i \in 1..n : fd.name[i] \in letters
    BY <1>1, ElementOfSeq
  <2> HIDE DEF dims, n
  <2>3. ASSUME NEW i \in 1..Len(x) - 1 PROVE x[i] \in letters \cup {"[", "L"}
    <3>1. CASE i <= dims
      BY ONLY <1>1, <2>1, <2>3, <3>1
    <3>2. CASE i = dims + 1
      BY ONLY <2>1, <3>2
    <3>3. CASE i > dims + 1
      <4> DEFINE j == i - (dims + 1)
      <4>1. j \in 1..n /\ i = dims + 1 + j
        BY ONLY <1>1, <2>1, <2>3, <3>3
      <4> HIDE DEF j
      <4> QED
        BY ONLY <2>1, <2>2, <4>1
    <3> QED
      BY ONLY <1>1, <2>1, <2>3, <3>1, <3>2, <3>3
  <2>4. x[1] \notin Base
    <3>1. CASE dims = 0
      BY ONLY <1>3, <2>1, <3>1
    <3>2. CASE dims # 0
      BY ONLY <1>1, <1>3, <2>1, <3>2
    <3> QED
      BY ONLY <3>1, <3>2
  <2>5. Len(x) \in Nat \ {0}
    BY ONLY <1>1, <2>1
  <2>6. \A i \in 1..Len(x) - 1 : x[i] # Semicolon /\ x[i] # ")"
    BY <1>2, <2>3
  <2>7. \A i \in 1..Len(x) : x[i] # ")"
    BY ONLY <1>2, <2>1, <2>5, <2>6
  <2> QED
    BY ONLY <2>1, <2>4, <2>5, <2>6, <2>7 DEF EndsWhereSought
<1> QED
  BY <1>1, <1>4, <1>5

\* The loop of MethodDescriptor::parse: where it looks for the end of a
\* parameter, and what it makes of the parameters from each position on.
EndFrom(s, close, p) ==
    IF s[p] \in Base THEN p
    ELSE IF Find(Semicolon, s, p) > 0 THEN Find(Semicolon, s, p)
    ELSE p + close - 1
ParamsStep(s, close, p, params) ==
    IF p > Len(s) \/ p = close THEN Value(<<>>)
    ELSE IF EndFrom(s, close, p) > Len(s) THEN Panic
    ELSE LET first == ParseField(SubSeq(s, p, EndFrom(s, close, p)))
             later == params[EndFrom(s, close, p) + 1]
         IN  IF first.is # "value" THEN first
             ELSE IF later.is # "value" THEN later
             ELSE Value(<<first.val>> \o later.val)

LEMMA EndIsAhead ==
    ASSUME NEW s, NEW close \in Nat \ {0}, NEW p \in Nat \ {0}
    PROVE  EndFrom(s, close, p) \in Nat /\ EndFrom(s, close, p) >= p
<1>1. CASE s[p] \in Base
  BY <1>1 DEF EndFrom
<1>2. CASE s[p] \notin Base /\ Find(Semicolon, s, p) > 0
  <2>1. Find(Semicolon, s, p) \in p..Len(s)
    BY <1>2, FindAhead
  <2> QED
    BY <1>2, <2>1 DEF EndFrom
<1>3. CASE s[p] \notin Base /\ ~(Find(Semicolon, s, p) > 0)
  BY <1>3 DEF EndFrom
<1> QED
  BY <1>1, <1>2, <1>3

\* The recursive function of ParseParams exists.
LEMMA ParamsDef ==
    ASSUME NEW S, NEW s \in Seq(S), Len(s) >= 2, NEW close \in Nat \ {0}
    PROVE  \E params :
              /\ ParseParams(s, close) = params[2]
              /\ \A p \in 2..2 * Len(s) : params[p] = ParamsStep(s, close, p, params)
<1> DEFINE Ends == 1..Len(s)
           One(p, q) == ParseField(SubSeq(s, p, q))
           Vals == {One(p, q).val : p \in Ends, q \in Ends}
           Fails == {One(p, q) : p \in Ends, q \in Ends}
           T == {Value(v) : v \in Seq(Vals)} \cup {x \in Fails : x.is # "value"} \cup {Panic}
           C == 2..2 * Len(s)
           level == [p \in C |-> 2 * Len(s) - p]
           step == [x \in C \X [C -> T] |-> ParamsStep(s, close, x[1], x[2])]
           goes(p) == p <= Len(s) /\ p # close /\ EndFrom(s, close, p) <= Len(s)
           next(p) == EndFrom(s, close, p) + 1
           on(first, later) ==
               IF first.is # "value" THEN first
               ELSE IF later.is # "value" THEN later
               ELSE Value(<<first.val>> \o later.val)
           params[p \in 2..2 * Len(s)] == ParamsStep(s, close, p, params)
<1>1. Len(s) \in Nat
  BY LenProperties
<1>2. level \in [C -> Nat] /\ \A p \in C : level[p] = 2 * Len(s) - p /\ level[p] <= 2 * Len(s)
  BY <1>1
<1>3. 2 * Len(s) \in Nat
  BY <1>1
<1>4. ASSUME NEW p \in C
      PROVE  /\ EndFrom(s, close, p) \in Nat /\ EndFrom(s, close, p) >= p
             /\ p \in Nat
  BY EndIsAhead
<1>5. ASSUME NEW p \in C, goes(p)
      PROVE  /\ next(p) \in C /\ level[next(p)] < level[p]
             /\ p \in Ends /\ EndFrom(s, close, p) \in Ends
  <2>1. EndFrom(s, close, p) \in Nat /\ EndFrom(s, close, p) >= p /\ p >= 2
    BY <1>4
  <2> QED
    BY <1>1, <1>2, <1>5, <2>1
<1>6. ASSUME NEW p \in C, NEW f
      PROVE  /\ goes(p) => ParamsStep(s, close, p, f)
                               = on(One(p, EndFrom(s, close, p)), f[next(p)])
             /\ ~goes(p) => \/ ParamsStep(s, close, p, f) = Value(<<>>)
                            \/ ParamsStep(s, close, p, f) = Panic
  <2>1. EndFrom(s, close, p) \in Nat /\ p \in Nat
    BY <1>4
  <2> QED
    BY <1>1, <2>1 DEF ParamsStep
<1>7. Value(<<>>) \in T /\ Panic \in T
  <2>1. <<>> \in Seq(Vals)
    BY EmptySeq
  <2> HIDE DEF Vals, Fails
  <2> QED
    BY <2>1
<1>8. ASSUME NEW first, first \in Fails, first.is = "value" => first.val \in Vals, NEW later \in T
      PROVE  on(first, later) \in T
  <2> HIDE DEF Vals, Fails
  <2>1. CASE first.is # "value"
    BY <1>8, <2>1
  <2>2. CASE first.is = "value" /\ later.is # "value"
    BY <2>2
  <2>3. CASE first.is = "value" /\ later.is = "value"
    <3>1. PICK v \in Seq(Vals) : later = Value(v)
      BY <2>3 DEF Panic
    <3>2. later.val = v
      BY <3>1 DEF Value
    <3>3. <<first.val>> \o v \in Seq(Vals)
      BY ONLY <1>8, <2>3, v \in Seq(Vals), InFront
    <3> QED
      BY <2>3, <3>2, <3>3
  <2> QED
    BY <2>1, <2>2, <2>3
<1>9. ASSUME NEW p \in C, goes(p)
      PROVE  /\ One(p, EndFrom(s, close, p)) \in Fails
             /\ One(p, EndFrom(s, close, p)).val \in Vals
  <2>1. ASSUME NEW a \in Ends, NEW b \in Ends PROVE One(a, b) \in Fails /\ One(a, b).val \in Vals
    <3> HIDE DEF One, Ends
    <3> QED
      OBVIOUS
  <2> HIDE DEF One, Ends, Vals, Fails
  <2> QED
    BY <1>5, <1>9, <2>1
<1> HIDE DEF goes, next, on, One, Vals, Fails, T
<1>10. ASSUME NEW p \in C, NEW f, goes(p) => f[next(p)] \in T
       PROVE  ParamsStep(s, close, p, f) \in T
  <2>1. CASE goes(p)
    BY <1>6, <1>8, <1>9, <1>10, <2>1
  <2>2. CASE ~goes(p)
    BY <1>6, <1>7, <2>2
  <2> QED
    BY <2>1, <2>2
<1>11. step \in [C \X [C -> T] -> T]
  <2>1. ASSUME NEW p \in C, NEW f \in [C -> T] PROVE ParamsStep(s, close, p, f) \in T
    BY <1>5, <1>10
  <2> HIDE DEF C
  <2> QED
    BY <2>1
<1>12. Levels(C, level)
  <2> HIDE DEF C, level
  <2> QED
    BY ONLY <1>2, <1>3 DEF Levels
<1>13. LooksDown(C, T, level, step)
  <2>1. T # {}
    BY <1>7
  <2> SUFFICES ASSUME NEW p \in C, NEW f \in [C -> T], NEW g \in [C -> T],
                      \A q \in C : level[q] < level[p] => f[q] = g[q]
               PROVE  step[<<p, f>>] = step[<<p, g>>]
    <3> HIDE DEF C, step, level
    <3> QED
      BY <1>11, <2>1 DEF LooksDown
  <2>2. step[<<p, f>>] = ParamsStep(s, close, p, f) /\ step[<<p, g>>] = ParamsStep(s, close, p, g)
    <3> HIDE DEF C
    <3> QED
      OBVIOUS
  <2>3. ParamsStep(s, close, p, f) = ParamsStep(s, close, p, g)
    <3> HIDE DEF C, level
    <3>1. CASE goes(p)
      BY <1>5, <1>6, <3>1
    <3>2. CASE ~goes(p)
      <4>1. EndFrom(s, close, p) \in Nat /\ p \in Nat
        BY <1>4
      <4> QED
        BY <1>1, <3>2, <4>1 DEF ParamsStep, goes
    <3> QED
      BY <3>1, <3>2
  <2> QED
    BY <2>2, <2>3
<1>14. PICK f \in [C -> T] : \A p \in C : f[p] = step[<<p, f>>]
  <2> HIDE DEF C, level, step
  <2>1. Solvable(C, T, step)
    BY ONLY <1>12, <1>13, RecursiveFunction, Zenon
  <2> QED
    BY ONLY <2>1 DEF Solvable
<1>15. f = [p \in 2..2 * Len(s) |-> ParamsStep(s, close, p, f)]
  <2>1. \A p \in C : f[p] = ParamsStep(s, close, p, f)
    <3> HIDE DEF C
    <3> QED
      BY <1>14
  <2> QED
    BY <1>14, <2>1
<1>16. params = [p \in 2..2 * Len(s) |-> ParamsStep(s, close, p, params)]
  BY ONLY <1>15, Zenon
<1>17. ParseParams(s, close) = params[2]
  BY DEF ParseParams, ParamsStep, EndFrom
<1> HIDE DEF params
<1>18. \A p \in 2..2 * Len(s) : params[p] = ParamsStep(s, close, p, params)
  BY ONLY <1>16
<1> QED
  BY ONLY <1>17, <1>18, Zenon

\* A parameter that lies in the text from p on is found and parsed.
LiesAt(x, s, p) ==
    /\ p - 1 + Len(x) <= Len(s)
    /\ \A i \in 1..Len(x) : s[p - 1 + i] = x[i]
    /\ SubSeq(s, p, p - 1 + Len(x)) = x
LEMMA ParameterFound ==
    ASSUME NEW letters, NEW s, Len(s) \in Nat, NEW close \in Nat \ {0},
           NEW fd \in FieldDescriptors(letters), NEW x, Printed(x, fd, letters), EndsWhereSought(x),
           NEW p \in Nat \ {0}, LiesAt(x, s, p)
    PROVE  /\ EndFrom(s, close, p) = p - 1 + Len(x)
           /\ ParseField(SubSeq(s, p, EndFrom(s, close, p))) = Value(fd)
<1> DEFINE q == p - 1 + Len(x)
<1> USE DEF LiesAt
<1>1. Len(x) \in Nat \ {0} /\ p - 1 + 1 = p /\ q \in p..Len(s)
  BY DEF EndsWhereSought
<1>2. s[p] = x[1] /\ s[q] = x[Len(x)]
  <2>1. 1 \in 1..Len(x) /\ Len(x) \in 1..Len(x)
    BY ONLY <1>1
  <2>2. s[p - 1 + 1] = x[1] /\ s[q] = x[Len(x)]
    BY <2>1
  <2> QED
    BY ONLY <1>1, <2>2
<1>3. ASSUME x[1] \in Base PROVE EndFrom(s, close, p) = q
  <2>1. q = p
    BY <1>1, <1>3 DEF EndsWhereSought
  <2> HIDE DEF q
  <2> QED
    BY ONLY <1>2, <1>3, <2>1 DEF EndFrom
<1>4. ASSUME x[1] \notin Base PROVE EndFrom(s, close, p) = q
  <2>1. s[q] = Semicolon
    BY <1>2, <1>4 DEF EndsWhereSought
  <2>2. ASSUME NEW i \in p..q - 1 PROVE s[i] # Semicolon
    <3> DEFINE j == i - p + 1
    <3>1. j \in 1..Len(x) - 1 /\ p - 1 + j = i
      BY ONLY <1>1, <2>2, p \in Nat \ {0}
    <3>2. j \in 1..Len(x)
      BY ONLY <1>1, <3>1
    <3> HIDE DEF j, q
    <3>3. x[j] # Semicolon
      BY <1>4, <3>1 DEF EndsWhereSought
    <3>4. s[p - 1 + j] = x[j]
      BY <3>2
    <3> QED
      BY ONLY <3>1, <3>3, <3>4
  <2> HIDE DEF q
  <2>3. Find(Semicolon, s, p) = q
    BY ONLY <1>1, <2>1, <2>2, p \in Nat \ {0}, FindFirst
  <2>4. q > 0
    BY ONLY <1>1, p \in Nat \ {0}
  <2> QED
    BY ONLY <1>2, <1>4, <2>3, <2>4 DEF EndFrom
<1>5. EndFrom(s, close, p) = q
  BY <1>3, <1>4
<1>6. SubSeq(s, p, q) = x
  OBVIOUS
<1> HIDE DEF q
<1>7. ParseField(SubSeq(s, p, EndFrom(s, close, p))) = Value(fd)
  BY ONLY <1>5, <1>6, FieldParsed, fd \in FieldDescriptors(letters), Printed(x, fd, letters)
<1> QED
  BY ONLY <1>5, <1>7 DEF q

\* A text that lies in another from p on is the part of it.
LEMMA PartOf ==
    ASSUME NEW S, NEW s \in Seq(S), NEW x \in Seq(S), NEW p \in Nat \ {0},
           p - 1 + Len(x) <= Len(s), \A i \in 1..Len(x) : s[p - 1 + i] = x[i]
    PROVE  SubSeq(s, p, p - 1 + Len(x)) = x
<1> DEFINE q == p - 1 + Len(x)
           sub == SubSeq(s, p, q)
<1>1. Len(s) \in Nat /\ Len(x) \in Nat /\ p \in Int /\ q \in Int /\ q - p + 1 = Len(x)
  BY LenProperties
<1>2. \A i \in p..q : s[i] \in S
  <2>1. \A i \in 1..Len(s) : s[i] \in S
    BY ElementOfSeq
  <2> QED
    BY <1>1, <2>1
<1> HIDE DEF q
<1>3. /\ sub \in Seq(S) /\ Len(sub) = (IF p <= q THEN q - p + 1 ELSE 0)
      /\ \A i \in 1..q - p + 1 : sub[i] = s[p + i - 1]
  BY ONLY <1>1, <1>2, SubSeqProperties
<1>4. Len(sub) = Len(x)
  BY ONLY <1>1, <1>3
<1>5. ASSUME NEW i \in 1..Len(x) PROVE sub[i] = x[i]
  <2>1. sub[i] = s[p + i - 1]
    BY ONLY <1>1, <1>3, <1>5
  <2>2. p + i - 1 = p - 1 + i
    BY ONLY <1>1, <1>5
  <2>3. s[p - 1 + i] = x[i]
    BY <1>5
  <2> QED
    BY ONLY <2>1, <2>2, <2>3
<1> HIDE DEF sub
<1>6. sub = x
  <2>1. \A i \in 1..Len(sub) : sub[i] = x[i]
    BY ONLY <1>4, <1>5
  <2> QED
    BY ONLY <1>3, <1>4, <2>1, x \in Seq(S), SeqEqual
<1> QED
  BY ONLY <1>6 DEF sub, q

\* The parts of a method descriptor's text.
LEMMA MethodText ==
    ASSUME NEW S, "(" \in S, ")" \in S, NEW F \in Seq(S), NEW R \in Seq(S),
           NEW s, s = <<"(">> \o F \o <<")">> \o R
    PROVE  /\ s \in Seq(S) /\ Len(s) = Len(F) + 2 + Len(R)
           /\ s[1] = "(" /\ s[Len(F) + 2] = ")"
           /\ \A i \in 1..Len(F) : s[i + 1] = F[i]
           /\ \A i \in 1..Len(R) : s[Len(F) + 2 + i] = R[i]
<1> DEFINE g == <<"(">> \o F
           c == <<")">>
           h == g \o c
           m == Len(F)
<1>1. m \in Nat /\ Len(R) \in Nat
  BY LenProperties
<1>2. c \in Seq(S) /\ Len(c) = 1 /\ c[1] = ")"
  OBVIOUS
<1>3. /\ g \in Seq(S) /\ Len(g) = m + 1 /\ g[1] = "("
      /\ \A k \in 1..m : g[k + 1] = F[k]
  BY InFront
<1> HIDE DEF g, c, m
<1>4. /\ h \in Seq(S) /\ Len(h) = Len(g) + Len(c)
      /\ \A i \in 1..Len(g) : h[i] = g[i]
      /\ \A i \in 1..Len(c) : h[Len(g) + i] = c[i]
  <2>1. g \in Seq(S) /\ c \in Seq(S)
    BY ONLY <1>2, <1>3
  <2> QED
    BY ONLY <2>1, Together
<1>5. /\ Len(h) = m + 2 /\ h[1] = "(" /\ h[m + 2] = ")" /\ \A k \in 1..m : h[k + 1] = F[k]
  <2>1. Len(h) = m + 2 /\ Len(g) + 1 = m + 2 /\ 1 \in 1..Len(c) /\ 1 \in 1..Len(g)
    BY ONLY <1>1, <1>2, <1>3, <1>4
  <2>2. \A k \in 1..m : k + 1 \in 1..Len(g)
    BY ONLY <1>1, <1>3
  <2>3. h[m + 2] = c[1]
    BY ONLY <1>4, <2>1
  <2>4. h[1] = g[1] /\ \A k \in 1..m : h[k + 1] = g[k + 1]
    BY ONLY <1>4, <2>1, <2>2
  <2> QED
    BY ONLY <1>2, <1>3, <2>1, <2>3, <2>4
<1> HIDE DEF h
<1>6. s = h \o R
  BY DEF h, g, c
<1>7. /\ h \o R \in Seq(S) /\ Len(h \o R) = Len(h) + Len(R)
      /\ \A i \in 1..Len(h) : (h \o R)[i] = h[i]
      /\ \A i \in 1..Len(R) : (h \o R)[Len(h) + i] = R[i]
  <2>1. h \in Seq(S) /\ R \in Seq(S)
    BY <1>4
  <2> QED
    BY ONLY <2>1, Together
<1>8. 1 \in 1..Len(h) /\ m + 2 \in 1..Len(h) /\ \A k \in 1..m : k + 1 \in 1..Len(h)
  BY ONLY <1>1, <1>5
<1>9. s[1] = "(" /\ s[m + 2] = ")" /\ \A k \in 1..m : s[k + 1] = F[k]
  BY ONLY <1>5, <1>6, <1>7, <1>8
<1> QED
  BY ONLY <1>5, <1>6, <1>7, <1>9 DEF m

\* The end of the text of a field, which is never a V.
LEMMA NotVoid ==
    ASSUME NEW letters, NEW fd \in FieldDescriptors(letters), NEW x, Printed(x, fd, letters)
    PROVE  Len(x) \in Nat \ {0} /\ x[Len(x)] # "V"
<1>1. /\ fd.dims \in Nat /\ fd.elem \in Base \cup {"L"} /\ Len(fd.name) \in Nat
      /\ fd.elem \in Base => fd.elem # "L"
  BY FieldParts, LenProperties
<1>2. Semicolon # "V"
  BY Zenon DEF Semicolon
<1>3. "V" \notin Base
  BY DEF Base
<1>4. CASE fd.elem = "L"
  <2>1. Len(x) = fd.dims + (Len(fd.name) + 2) /\ x[Len(x)] = Semicolon
    BY <1>4 DEF Printed
  <2> QED
    BY ONLY <1>1, <1>2, <2>1
<1>5. CASE fd.elem \in Base
  <2>1. Len(x) = fd.dims + 1 /\ x[fd.dims + 1] = fd.elem
    BY <1>1, <1>5 DEF Printed
  <2> QED
    BY ONLY <1>1, <1>3, <1>5, <2>1
<1> QED
  BY <1>1, <1>4, <1>5

\* FieldDescriptor::parse gives back every descriptor of a field that was
\* printed, of up to 255 dimensions and whatever the name of its class.
THEOREM FieldReadsBack ==
    ASSUME NEW letters, NEW fd \in FieldDescriptors(letters)
    PROVE  ParseField(PrintField(fd)) = Value(fd)
BY PrintedField, FieldParsed

\* The parameters that lie end to end in a text are parsed from the last one to
\* the first: from the start of parameter k + 1 on, the parser finds the rest.
TextsOf(x, ds, letters) ==
    \A k \in 1..Len(ds) : Printed(x[k], ds[k], letters) /\ EndsWhereSought(x[k])
LieBehind(x, n, at, s, close) ==
    /\ at \in [0..n -> Nat] /\ at[0] = 0 /\ \A k \in 1..n : at[k] = at[k - 1] + Len(x[k])
    /\ \A k \in 1..n : \A j \in 1..Len(x[k]) :
          at[k - 1] + j \in 1..at[n] /\ s[at[k - 1] + j + 1] = x[k][j]
    /\ close = at[n] + 2 /\ close <= Len(s)
Parses(params, s, close) ==
    \A p \in 2..2 * Len(s) : params[p] = ParamsStep(s, close, p, params)
LEMMA ParametersParsed ==
    ASSUME NEW letters, NEW ds \in Seq(FieldDescriptors(letters)),
           NEW s \in Seq(Alphabet(letters)), NEW x, TextsOf(x, ds, letters),
           NEW at, NEW close, LieBehind(x, Len(ds), at, s, close),
           NEW params, Parses(params, s, close)
    PROVE  params[2] = Value(ds)
<1> SUFFICES ASSUME NEW n \in Nat, Len(ds) = n, at \in [0..n -> Nat], at[0] = 0,
                    close = at[n] + 2, close <= Len(s),
                    \A k \in 1..n : at[k] = at[k - 1] + Len(x[k]),
                    \A k \in 1..n : Printed(x[k], ds[k], letters) /\ EndsWhereSought(x[k]),
                    \A k \in 1..n : \A j \in 1..Len(x[k]) :
                       at[k - 1] + j \in 1..at[n] /\ s[at[k - 1] + j + 1] = x[k][j],
                    \A p \in 2..2 * Len(s) : params[p] = ParamsStep(s, close, p, params)
             PROVE  params[2] = Value(ds)
  BY LenProperties DEF TextsOf, LieBehind, Parses
<1> DEFINE C == 0..n
           level == [k \in C |-> n - k]
           G == {k \in C : params[at[k] + 2] = Value(SubSeq(ds, k + 1, n))}
<1>1. Len(s) \in Nat /\ close \in Nat \ {0} /\ \A k \in C : at[k] \in Nat
  BY LenProperties
<1>2. Levels(C, level)
  <2>1. level \in [C -> Nat] /\ \A k \in C : level[k] <= n
    OBVIOUS
  <2> HIDE DEF C, level
  <2> QED
    BY ONLY <2>1, n \in Nat DEF Levels
<1>3. n \in G
  <2>1. at[n] + 2 \in 2..2 * Len(s) /\ at[n] + 2 = close
    BY <1>1
  <2>2. params[at[n] + 2] = Value(<<>>)
    BY <2>1 DEF ParamsStep
  <2>3. SubSeq(ds, n + 1, n) = <<>>
    BY SubSeqEmpty
  <2>4. n \in C
    OBVIOUS
  <2> HIDE DEF C
  <2> QED
    BY ONLY <2>2, <2>3, <2>4, Zenon
<1>4. ASSUME NEW k \in C, k # n, k + 1 \in G PROVE k \in G
  <2> DEFINE h == k + 1
             y == x[h]
             fd == ds[h]
             p == at[k] + 2
  <2>1. h \in 1..n /\ h - 1 = k
    BY <1>4
  <2>2. /\ Printed(y, fd, letters) /\ EndsWhereSought(y) /\ fd \in FieldDescriptors(letters)
        /\ y \in Seq(Alphabet(letters)) /\ Len(y) \in Nat \ {0}
    BY <2>1, ElementOfSeq DEF Printed, EndsWhereSought
  <2>3. at[h] = at[k] + Len(y)
    BY <2>1
  <2>4. \A j \in 1..Len(y) : at[k] + j \in 1..at[n] /\ s[at[k] + j + 1] = y[j]
    BY <2>1
  <2>5. params[at[h] + 2] = Value(SubSeq(ds, h + 1, n))
    BY <1>4
  <2>6. at[k] \in Nat
    BY <1>1, <1>4
  <2> HIDE DEF h, y, fd
  <2>7. at[k] + Len(y) \in 1..at[n]
    BY <2>2, <2>4
  <2>8. /\ p \in Nat \ {0} /\ p \in 2..2 * Len(s) /\ p # close /\ p <= Len(s)
        /\ p - 1 + Len(y) <= Len(s) /\ p - 1 + Len(y) + 1 = at[h] + 2
    <3> DEFINE from == at[k]
               end == at[n]
               size == Len(y)
               all == Len(s)
    <3>1. end \in Nat /\ close = end + 2 /\ close <= all /\ all \in Nat
      BY <1>1
    <3>2. /\ from \in Nat /\ size \in Nat \ {0} /\ from + size \in 1..end
          /\ at[h] = from + size /\ p = from + 2
      BY ONLY <2>2, <2>3, <2>6, <2>7
    <3> HIDE DEF from, end, size, p
    <3>3. /\ p \in Nat \ {0} /\ p \in 2..2 * all /\ p # close /\ p <= all
          /\ p - 1 + size <= all /\ p - 1 + size + 1 = at[h] + 2
      <4> HIDE DEF all
      <4> QED
        BY ONLY <3>1, <3>2
    <3> QED
      BY ONLY <3>3 DEF size
  <2>9. \A j \in 1..Len(y) : s[p - 1 + j] = y[j]
    <3> SUFFICES ASSUME NEW j \in 1..Len(y) PROVE s[p - 1 + j] = y[j]
      OBVIOUS
    <3>1. p - 1 + j = at[k] + j + 1
      BY <2>6
    <3> QED
      BY ONLY <2>4, <3>1, j \in 1..Len(y)
  <2> HIDE DEF p
  <2>10. SubSeq(s, p, p - 1 + Len(y)) = y
    BY <2>2, <2>8, <2>9, PartOf
  <2>11. /\ EndFrom(s, close, p) = p - 1 + Len(y)
         /\ ParseField(SubSeq(s, p, EndFrom(s, close, p))) = Value(fd)
    <3>1. Len(s) \in Nat /\ close \in Nat \ {0} /\ p \in Nat \ {0}
      BY <1>1, <2>8
    <3>2. fd \in FieldDescriptors(letters) /\ Printed(y, fd, letters) /\ EndsWhereSought(y)
      BY <2>2
    <3>3. LiesAt(y, s, p)
      BY ONLY <2>8, <2>9, <2>10 DEF LiesAt
    <3> QED
      BY ONLY <3>2, <3>3, <3>1, ParameterFound
  <2>12. params[p] = ParamsStep(s, close, p, params)
    BY <2>8
  <2>13. params[p] = Value(<<fd>> \o SubSeq(ds, h + 1, n))
    <3>1. params[EndFrom(s, close, p) + 1] = Value(SubSeq(ds, h + 1, n))
      BY ONLY <2>5, <2>8, <2>11
    <3>2. EndFrom(s, close, p) <= Len(s) /\ ~(p > Len(s)) /\ p # close
      BY ONLY <1>1, <2>8, <2>11
    <3>3. \A v : Value(v).is = "value" /\ Value(v).val = v
      BY DEF Value
    <3>4. ~(EndFrom(s, close, p) > Len(s)) /\ ~(p > Len(s) \/ p = close)
      BY ONLY <1>1, <2>2, <2>8, <2>11, <3>2
    <3> QED
      BY ONLY <2>11, <2>12, <3>1, <3>3, <3>4, Zenon DEF ParamsStep
  <2>14. SubSeq(ds, h, n) = <<fd>> \o SubSeq(ds, h + 1, n)
    <3>1. h \in 1..Len(ds) /\ n \in h..Len(ds)
      BY <2>1
    <3> QED
      BY <3>1, SubSeqRecursiveFirst DEF fd
  <2> QED
    BY <1>4, <2>13, <2>14 DEF p, h
<1>5. Hereditary(C, level, G)
  <2> SUFFICES ASSUME NEW k \in C, \A i \in C : level[i] < level[k] => i \in G
               PROVE  k \in G
    <3> HIDE DEF C, level, G
    <3> QED
      BY DEF Hereditary
  <2>1. CASE k = n
    BY <1>3, <2>1
  <2>2. CASE k # n
    <3>1. k + 1 \in C /\ level[k + 1] < level[k]
      BY <2>2
    <3>2. k + 1 \in G
      <4> HIDE DEF C, level, G
      <4> QED
        BY <3>1
    <3> HIDE DEF C, level, G
    <3> QED
      BY <1>4, <2>2, <3>2
  <2> QED
    BY <2>1, <2>2
<1>6. 0 \in G
  <2>1. 0 \in C
    OBVIOUS
  <2> HIDE DEF C, level, G
  <2>2. C \subseteq G
    BY ONLY <1>2, <1>5, LevelInduction
  <2> QED
    BY ONLY <2>1, <2>2
<1>7. SubSeq(ds, 1, n) = ds
  BY SubSeqFull
<1>8. params[at[0] + 2] = Value(SubSeq(ds, 0 + 1, n)) /\ at[0] + 2 = 2 /\ 0 + 1 = 1
  BY <1>6
<1> QED
  BY ONLY <1>7, <1>8

\* The text of the return type, which is all that is behind the parenthesis.
LEMMA ReturnFound ==
    ASSUME NEW letters, NEW ret \in FieldDescriptors(letters) \cup {Void}
    PROVE  /\ PrintField(ret) \in Seq(Alphabet(letters)) /\ Len(PrintField(ret)) \in Nat \ {0}
           /\ IF PrintField(ret)[Len(PrintField(ret))] = "V" THEN ret = Void
              ELSE ParseField(PrintField(ret)) = Value(ret)
<1> DEFINE R == PrintField(ret)
<1>1. CASE ret \in FieldDescriptors(letters)
  <2>1. Printed(R, ret, letters)
    BY <1>1, PrintedField
  <2>2. ParseField(R) = Value(ret)
    BY <1>1, FieldReadsBack
  <2> HIDE DEF R
  <2>3. Len(R) \in Nat \ {0} /\ R[Len(R)] # "V"
    BY <1>1, <2>1, NotVoid
  <2>4. R \in Seq(Alphabet(letters))
    BY <2>1 DEF Printed
  <2> QED
    BY <2>2, <2>3, <2>4 DEF R
<1>2. CASE ret = Void
  <2> DEFINE front == [i \in 1..0 |-> "["]
             back == <<"V">>
  <2>1. "V" \in Alphabet(letters)
    BY DEF Alphabet, Signs
  <2>2. front \in Seq(Alphabet(letters)) /\ Len(front) = 0
    OBVIOUS
  <2>3. back \in Seq(Alphabet(letters)) /\ Len(back) = 1 /\ back[1] = "V"
    BY <2>1
  <2>4. R = front \o back
    BY <1>2 DEF PrintField, Void, Field
  <2> HIDE DEF front, back, R
  <2>5. /\ front \o back \in Seq(Alphabet(letters)) /\ Len(front \o back) = Len(front) + Len(back)
        /\ \A i \in 1..Len(back) : (front \o back)[Len(front) + i] = back[i]
    <3>1. front \in Seq(Alphabet(letters)) /\ back \in Seq(Alphabet(letters))
      BY ONLY <2>2, <2>3
    <3> QED
      BY ONLY <3>1, Together
  <2>6. R \in Seq(Alphabet(letters)) /\ Len(R) = 1 /\ R[1] = "V"
    <3>1. 1 \in 1..Len(back) /\ Len(front) + 1 = 1
      BY ONLY <2>2, <2>3
    <3> QED
      BY ONLY <2>2, <2>3, <2>4, <2>5, <3>1
  <2> QED
    BY <1>2, <2>6 DEF R
<1> QED
  BY <1>1, <1>2

\* MethodDescriptor::parse gives back every descriptor of a method that was
\* printed, but for the parameters it cannot find the end of: arrays of base
\* types (names hold neither a semicolon nor a parenthesis).
MethodDescriptors(letters) ==
    [params : Seq(FieldDescriptors(letters)), ret : FieldDescriptors(letters) \cup {Void}]
THEOREM MethodReadsBack ==
    ASSUME NEW letters, Semicolon \notin letters, ")" \notin letters,
           NEW d \in MethodDescriptors(letters), \A k \in DOMAIN d.params : Findable(d.params[k])
    PROVE  ParseMethod(PrintMethod(d)) = Value(d)
<1> DEFINE T == Alphabet(letters)
           ds == d.params
           n == Len(ds)
           x == [k \in DOMAIN ds |-> PrintField(ds[k])]
           F == FlattenSeq(x)
           R == PrintField(d.ret)
           s == PrintMethod(d)
           N == T \ {")"}
<1>1. /\ ds \in Seq(FieldDescriptors(letters)) /\ n \in Nat /\ DOMAIN ds = 1..n
      /\ \A k \in 1..n : ds[k] \in FieldDescriptors(letters)
  <2>1. ds \in Seq(FieldDescriptors(letters))
    BY DEF MethodDescriptors
  <2> QED
    BY <2>1, LenProperties, ElementOfSeq
<1>2. \A k \in 1..n : Printed(x[k], ds[k], letters) /\ EndsWhereSought(x[k])
  <2> SUFFICES ASSUME NEW k \in 1..n PROVE Printed(x[k], ds[k], letters) /\ EndsWhereSought(x[k])
    OBVIOUS
  <2>1. x[k] = PrintField(ds[k])
    BY <1>1
  <2>2. Printed(x[k], ds[k], letters)
    BY <1>1, <2>1, PrintedField
  <2>3. Findable(ds[k])
    BY <1>1
  <2> HIDE DEF x, ds
  <2> QED
    BY <1>1, <2>2, <2>3, ParameterText
<1>3. x \in [1..n -> Seq(N)]
  <2>1. ASSUME NEW k \in 1..n PROVE x[k] \in Seq(N)
    <3> DEFINE y == x[k]
    <3>1. y \in Seq(T) /\ \A i \in 1..Len(y) : y[i] # ")"
      BY <1>2 DEF Printed, EndsWhereSought
    <3> HIDE DEF y, T
    <3>2. y \in [1..Len(y) -> N] /\ Len(y) \in Nat
      BY <3>1
    <3> HIDE DEF N
    <3>3. y \in Seq(N)
      BY ONLY <3>2
    <3> QED
      BY <3>3 DEF y
  <2>2. x = [k \in 1..n |-> x[k]]
    BY <1>1
  <2> HIDE DEF x, N
  <2> QED
    BY ONLY <2>1, <2>2
<1> HIDE DEF x, ds, n
<1>4. PICK at :
         /\ at \in [0..n -> Nat] /\ at[0] = 0 /\ \A k \in 1..n : at[k] = at[k - 1] + Len(x[k])
         /\ F \in Seq(N) /\ Len(F) = at[n]
         /\ \A k \in 1..n : \A j \in 1..Len(x[k]) :
               at[k - 1] + j \in 1..at[n] /\ F[at[k - 1] + j] = x[k][j]
  <2> HIDE DEF N
  <2>1. PartsOf(x, n, N) /\ n \in Nat
    BY ONLY <1>1, <1>3 DEF PartsOf
  <2>2. \E at : LiesIn(x, n, at, N, FlattenSeq(x))
    BY ONLY <2>1, Flattened
  <2> QED
    BY ONLY <2>2 DEF LiesIn
<1>5. /\ R \in Seq(T) /\ Len(R) \in Nat \ {0}
      /\ IF R[Len(R)] = "V" THEN d.ret = Void ELSE ParseField(R) = Value(d.ret)
  <2>1. d.ret \in FieldDescriptors(letters) \cup {Void}
    BY DEF MethodDescriptors
  <2> QED
    BY <2>1, ReturnFound
<1>6. "(" \in T /\ ")" \in T
  BY DEF Alphabet, Signs
<1>7. s = <<"(">> \o F \o <<")">> \o R
  BY DEF PrintMethod, x, ds
<1> DEFINE m == Len(F)
           close == m + 2
<1>8. F \in Seq(T) /\ m \in Nat /\ \A i \in 1..m : F[i] # ")"
  <2>1. F \in Seq(T)
    BY <1>4, SeqMonotonic
  <2>2. \A i \in 1..m : F[i] \in N
    BY <1>4, ElementOfSeq
  <2> QED
    BY <2>1, <2>2, LenProperties
<1> HIDE DEF T, F, R, s
<1>9. /\ s \in Seq(T) /\ Len(s) = m + 2 + Len(R)
      /\ s[1] = "(" /\ s[close] = ")"
      /\ \A i \in 1..m : s[i + 1] = F[i]
      /\ \A i \in 1..Len(R) : s[close + i] = R[i]
  <2>1. F \in Seq(T) /\ R \in Seq(T)
    BY ONLY <1>5, <1>8
  <2> QED
    BY ONLY <1>6, <1>7, <2>1, MethodText
<1> HIDE DEF m
<1>10. close \in Nat \ {0} /\ close <= Len(s) /\ Len(s) >= 2 /\ Len(s) \in Nat
  BY ONLY <1>5, <1>8, <1>9
<1>11. Find(")", s, 1) = close
  <2>1. ASSUME NEW i \in 1..close - 1 PROVE s[i] # ")"
    <3>1. CASE i = 1
      BY ONLY <1>9, <3>1
    <3>2. CASE i # 1
      <4> DEFINE j == i - 1
      <4>1. j \in 1..m /\ j + 1 = i
        BY ONLY <1>8, <2>1, <3>2
      <4> HIDE DEF j
      <4> QED
        BY ONLY <1>8, <1>9, <4>1
    <3> QED
      BY <3>1, <3>2
  <2>2. close \in 1..Len(s) /\ 1 \in Nat
    BY ONLY <1>10
  <2>3. s[close] = ")"
    BY <1>9
  <2> HIDE DEF close
  <2> QED
    BY ONLY <2>1, <2>2, <2>3, FindFirst
<1>12. ParseParams(s, close) = Value(ds)
  <2> HIDE DEF close
  <2>1. PICK params : /\ ParseParams(s, close) = params[2]
                      /\ \A p \in 2..2 * Len(s) : params[p] = ParamsStep(s, close, p, params)
    BY ONLY <1>9, <1>10, ParamsDef
  <2>2. LieBehind(x, n, at, s, close)
    <3>1. \A k \in 1..n : \A j \in 1..Len(x[k]) :
              at[k - 1] + j \in 1..at[n] /\ s[at[k - 1] + j + 1] = x[k][j]
      BY ONLY <1>4, <1>9 DEF m
    <3>2. close = at[n] + 2
      BY ONLY <1>4 DEF close, m
    <3> QED
      BY ONLY <1>4, <1>10, <3>1, <3>2 DEF LieBehind
  <2>3. TextsOf(x, ds, letters)
    BY ONLY <1>2 DEF TextsOf, n
  <2>4. params[2] = Value(ds)
    <3>1. ds \in Seq(FieldDescriptors(letters))
      BY ONLY <1>1
    <3>2. s \in Seq(Alphabet(letters))
      BY ONLY <1>9 DEF T
    <3>3. Parses(params, s, close)
      BY ONLY <2>1 DEF Parses
    <3>4. LieBehind(x, Len(ds), at, s, close)
      BY ONLY <2>2 DEF n
    <3> QED
      BY ONLY <2>3, <3>1, <3>2, <3>3, <3>4, ParametersParsed
  <2> QED
    BY ONLY <2>1, <2>4
<1>13. SubSeq(s, close + 1, Len(s)) = R
  <2> DEFINE p == close + 1
  <2>1. p \in Nat \ {0} /\ p - 1 + Len(R) = Len(s) /\ p - 1 + Len(R) <= Len(s)
    BY ONLY <1>5, <1>8, <1>9
  <2>2. \A i \in 1..Len(R) : s[p - 1 + i] = R[i]
    BY ONLY <1>8, <1>9
  <2> HIDE DEF p
  <2>3. SubSeq(s, p, p - 1 + Len(R)) = R
    BY ONLY <1>5, <1>9, <2>1, <2>2, PartOf
  <2> QED
    BY ONLY <2>1, <2>3 DEF p
<1>14. s[Len(s)] = R[Len(R)]
  <2>1. Len(R) \in 1..Len(R) /\ close + Len(R) = Len(s)
    BY ONLY <1>5, <1>8, <1>9
  <2> QED
    BY ONLY <1>9, <2>1
<1> DEFINE ret == IF s[Len(s)] = "V" THEN Value(Void) ELSE ParseField(SubSeq(s, close + 1, Len(s)))
<1>15. ret = Value(d.ret)
  BY ONLY <1>5, <1>13, <1>14
<1>16. close # 0
  BY ONLY <1>10
<1> HIDE DEF close, ret
<1>17. ParseMethod(s) = Value([params |-> ds, ret |-> d.ret])
  <2>1. \A v : Value(v).is = "value" /\ Value(v).val = v
    BY DEF Value
  <2>2. ParseMethod(s) = IF close = 0 THEN Error
                         ELSE IF ParseParams(s, close).is # "value" THEN ParseParams(s, close)
                         ELSE IF ret.is # "value" THEN ret
                         ELSE Value([params |-> ParseParams(s, close).val, ret |-> ret.val])
    BY ONLY <1>11, Zenon DEF ParseMethod, ret
  <2> QED
    BY ONLY <1>12, <1>15, <1>16, <2>1, <2>2
<1>18. d = [params |-> ds, ret |-> d.ret]
  BY DEF MethodDescriptors, ds
<1> QED
  BY ONLY <1>17, <1>18 DEF s

=============================================================================
