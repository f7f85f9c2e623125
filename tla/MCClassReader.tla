--------------------------- MODULE MCClassReader ---------------------------
(***************************************************************************)
(* A writer of class files: small classes are given constants, positions   *)
(* and items.  The reader is run on whole files, on files cut short after  *)
(* any item or inside the code of a method, and on files with one number   *)
(* replaced.                                                               *)
(***************************************************************************)
EXTENDS ClassFile, TLC

MagicNumber  == 51966
LObject      == <<"O", "b", "j">>
CodeText     == <<"Code">>
ConstantText == <<"ConstantValue">>

-----------------------------------------------------------------------------
(***************************************************************************)
(* Sources.                                                                *)
(***************************************************************************)

Prim(c)   == Field(0, c, <<>>)
Ref(name) == Field(0, "L", name)
Array(fd) == [fd EXCEPT !.dims = @ + 1]
Var(name, fd, const) == [name |-> name, fd |-> fd, const |-> const]
Sig(params, ret) == [params |-> params, ret |-> ret]
Method(name, sig, code) == [name |-> name, sig |-> sig, code |-> code]
Class(name, super, fields, methods, refs, long) ==
    [this |-> name, super |-> super, fields |-> fields, methods |-> methods, refs |-> refs,
     long |-> long]

\* The elements of a set in some order.
Listed(S) == FoldSet(LAMBDA x, s : Append(s, x), <<>>, S)

Return == <<177>>
Run    == <<"r">>
Plain  == Sig(<<>>, Void)
Named  == <<"A", "I">>

\* java/lang/Object; a class with fields of every size, two of them of one
\* byte, with overloaded methods and references of the three kinds.
ObjectClass == Class(LObject, <<>>, <<>>, <<Method(Run, Plain, Return)>>, <<>>, FALSE)
RichClass ==
    Class(Named, LObject,
          <<Var(<<"x">>, Prim("I"), TRUE), Var(<<"y">>, Prim("B"), FALSE),
            Var(<<"z">>, Array(Prim("J")), FALSE)>>,
          <<Method(Run, Plain, <<3, 60, 177>>),
            Method(Run, Sig(<<Prim("I")>>, Prim("I")), <<16, 200, 172>>)>>,
          <<[tag |-> 10, class |-> Named, name |-> Run, text |-> PrintMethod(Plain)],
            [tag |-> 9, class |-> LObject, name |-> <<"x">>, text |-> <<"I">>],
            [tag |-> 11, class |-> Named, name |-> Run, text |-> <<"I">>]>>, FALSE)

\* Two fields of every pair of types, and two of one name.
Elements == {Prim(c) : c \in Base} \cup {Ref(Named), Array(Prim("B")), Array(Array(Ref(LObject)))}
FieldClasses ==
    {Class(Named, LObject, <<Var(<<"x">>, f, FALSE), Var(<<"y">>, g, FALSE)>>, <<>>, <<>>, FALSE) :
        f \in Elements, g \in Elements}
    \cup {Class(Named, LObject, <<Var(<<"x">>, Prim("J"), FALSE), Var(<<"x">>, Prim("B"), FALSE)>>,
                <<>>, <<>>, FALSE)}

\* A method of every signature of up to two parameters of five types.
Types == {Prim("I"), Prim("J"), Ref(Named), Array(Prim("I")), Array(Ref(Named))}
Signatures ==
    {Sig(ps, ret) : ps \in UNION {[1..n -> Types] : n \in 0..2}, ret \in Types \cup {Void}}
SignatureClasses ==
    {Class(Named, LObject, <<>>, <<Method(Run, s, Return)>>, <<>>, FALSE) : s \in Signatures}

OperandsOf(op) ==
    [k \in 1..JvmsOperands(op) |-> IF k > JvmsOperands(op) - Zeros(op) THEN 0 ELSE 1]

\* A method for every two opcodes in turn, in files of ten methods; and a
\* file for dup_x1 and wide, and for a lookupswitch that ends early.
OpName(op) == <<"m", ToString(op)>>
CodeOf(op) == <<op>> \o OperandsOf(op)
OpMethod(op) ==
    Method(OpName(op), Plain, CodeOf(op) \o CodeOf((op * 7 + 3) % 55) \o Return)
OpcodeClasses ==
    {Class(Named, LObject, <<>>,
           Listed({OpMethod(op) : op \in ((10 * k)..(10 * k + 9)) \ (Misread \cup 202..209)}),
           <<>>, FALSE) : k \in 0..20}
BadOpcodeClasses ==
    {Class(Named, LObject, <<>>, <<Method(Run, Plain, c \o Return)>>, <<>>, FALSE) :
        c \in {<<90>>, <<196>>, <<171, 0, 0, 0>>}}

LongClass == Class(Named, LObject, <<>>, <<Method(Run, Plain, <<20, 0, 9, 177>>)>>, <<>>, TRUE)

-----------------------------------------------------------------------------
(***************************************************************************)
(* Writing.                                                                *)
(***************************************************************************)

U(w, v) == [w |-> w, v |-> v, kind |-> "number"]
U2(v)   == U(2, v)
Chars(v) == [w |-> Len(v), v |-> v, kind |-> "text"]
Data(v) == [w |-> Len(v), v |-> v, kind |-> "bytes"]
Bytes(n) == [w |-> n, v |-> <<>>, kind |-> "bytes"]

\* What is written for every entry of a table, and the positions of the entries
\* of a table that begins at p.
Parts(f(_), s) == [k \in DOMAIN s |-> f(s[k])]
Offsets(parts, p) ==
    [k \in 1..Len(parts) + 1 |-> p + Len(FlattenSeq(SubSeq(parts, 1, k - 1)))]
Behind(s) == s[Len(s)]

Texts(src) == Listed(
    {src.this, src.super, CodeText, ConstantText, <<"LineNumberTable">>, <<"SourceFile">>, LObject}
        \cup UNION {{v.name, PrintField(v.fd)} : v \in ToSet(src.fields)}
        \cup UNION {{m.name, PrintMethod(m.sig)} : m \in ToSet(src.methods)}
        \cup UNION {{r.class, r.name, r.text} : r \in ToSet(src.refs)})
Names(src) == Listed(({src.this, src.super, LObject} \ {<<>>})
                           \cup {r.class : r \in ToSet(src.refs)})

At(x, s)         == CHOOSE i \in DOMAIN s : s[i] = x
TextAt(src, t)   == At(t, Texts(src))
ClassAt(src, c)  == IF c = <<>> THEN 0 ELSE Len(Texts(src)) + At(c, Names(src))
\* A long constant takes two indices; an int stands before the references.
RefAt(src, k) ==
    Len(Texts(src)) + Len(Names(src)) + (IF src.long THEN 3 ELSE 1) + 2 * k

IntConstant == Constant(3, <<1>>, <<>>)
Constants(src) ==
    [i \in DOMAIN Texts(src) |-> Constant(Utf8, <<>>, Texts(src)[i])]
    \o [i \in DOMAIN Names(src) |-> Constant(7, <<TextAt(src, Names(src)[i])>>, <<>>)]
    \o (IF src.long THEN <<Constant(5, <<1>>, <<>>)>> ELSE <<>>)
    \o <<IntConstant>>
    \o FlattenSeq([k \in DOMAIN src.refs |->
            LET r == src.refs[k]
            IN  <<Constant(12, <<TextAt(src, r.name), TextAt(src, r.text)>>, <<>>),
                  Constant(r.tag, <<ClassAt(src, r.class), RefAt(src, k) - 1>>, <<>>)>>])
WrittenConstant(c) ==
    IF c.tag = Utf8 THEN <<U(1, 1), U2(Len(c.text)), Chars(c.text)>>
    ELSE <<U(1, c.tag)>> \o [k \in DOMAIN c.args |-> U(Operands(c.tag)[k], c.args[k])]

\* The instructions of a code that is not misread.
StartsOf(code) ==
    LET from[p \in 0..Len(code)] ==
            IF p >= Len(code) THEN {} ELSE {p} \cup from[InstrBehind(code, p)]
    IN  IF \E op \in Misread : op = code[1] THEN {} ELSE from[0]

Unknown(src, name) ==
    [name |-> TextAt(src, name), code |-> <<>>, starts |-> {}, handlers |-> 0, inner |-> <<>>]
\* One exception handler and one attribute inside the code.
CodeAttribute(src, code) ==
    [Unknown(src, CodeText) EXCEPT !.code = code, !.starts = StartsOf(code), !.handlers = 1,
                                  !.inner = <<TextAt(src, <<"LineNumberTable">>)>>]
WrittenPlain(constants, name) ==
    <<U2(name)>>
        \o (IF constants[name].text = ConstantText THEN <<U(4, 2), U2(At(IntConstant, constants))>>
            ELSE <<U(4, 6), Bytes(6)>>)
WrittenAttribute(constants, a) ==
    IF constants[a.name].text # CodeText THEN WrittenPlain(constants, a.name)
    ELSE <<U2(a.name), U(4, 32 + Len(a.code)), U2(2), U2(1), U(4, Len(a.code)), Data(a.code), U2(1),
           U2(0), U2(1), U2(0), U2(0), U2(1)>> \o WrittenPlain(constants, a.inner[1])

Member(src, name, type, text, attributes) ==
    [name |-> TextAt(src, name), text |-> TextAt(src, text), type |-> type,
     attributes |-> attributes, attributesAt |-> <<>>]
Fields(src) ==
    [k \in DOMAIN src.fields |->
        LET v == src.fields[k]
        IN  Member(src, v.name, v.fd, PrintField(v.fd),
                   IF v.const THEN <<Unknown(src, ConstantText)>> ELSE <<>>)]
Methods(src) ==
    [k \in DOMAIN src.methods |->
        LET m == src.methods[k]
        IN  Member(src, m.name, m.sig, PrintMethod(m.sig), <<CodeAttribute(src, m.code)>>)]
WrittenAttributes(constants, attributes) ==
    Parts(LAMBDA a : WrittenAttribute(constants, a), attributes)
WrittenMember(constants, m) ==
    <<U2(1), U2(m.name), U2(m.text), U2(Len(m.attributes))>>
        \o FlattenSeq(WrittenAttributes(constants, m.attributes))
WrittenMembers(constants, members) == Parts(LAMBDA m : WrittenMember(constants, m), members)
Placed(constants, members, at) ==
    [k \in DOMAIN members |->
        [members[k] EXCEPT
            !.attributesAt =
                Offsets(WrittenAttributes(constants, members[k].attributes), at[k] + 4)]]

Structure(src, constants, fields, methods, attributes) ==
    LET interfaces == <<ClassAt(src, LObject)>>
        written     == Parts(WrittenConstant, constants)
        constantsAt == Offsets(written, 4)
        fieldsAt  == Offsets(WrittenMembers(constants, fields), Behind(constantsAt) + 6)
        methodsAt == Offsets(WrittenMembers(constants, methods), Behind(fieldsAt) + 1)
        othersAt  == Offsets(WrittenAttributes(constants, attributes), Behind(methodsAt) + 1)
    IN  [items |->
            <<U(4, MagicNumber), U2(0), U2(51), U2(RefAt(src, Len(src.refs)) + 1)>>
            \o FlattenSeq(written)
            \o <<U2(33), U2(ClassAt(src, src.this)), U2(ClassAt(src, src.super)), U2(1)>>
            \o <<U2(interfaces[1]), U2(Len(fields))>>
            \o FlattenSeq(WrittenMembers(constants, fields))
            \o <<U2(Len(methods))>> \o FlattenSeq(WrittenMembers(constants, methods))
            \o <<U2(Len(attributes))>> \o FlattenSeq(WrittenAttributes(constants, attributes)),
         constants |-> constants, constantsAt |-> constantsAt,
         this |-> ClassAt(src, src.this), super |-> ClassAt(src, src.super),
         interfaces |-> interfaces,
         fields |-> Placed(constants, fields, fieldsAt), fieldsAt |-> fieldsAt,
         methods |-> Placed(constants, methods, methodsAt), methodsAt |-> methodsAt,
         attributes |-> attributes, attributesAt |-> othersAt]
Structures(sources) ==
    UNION {{Structure(src, constants, fields, methods, <<Unknown(src, <<"SourceFile">>)>>) :
               constants \in {Constants(src)}, fields \in {Fields(src)}, methods \in {Methods(src)}} :
           src \in sources}

\* A file with a long constant is none that ClassFile describes.
File(cf, items, written) == [items |-> items, src |-> cf, written |-> written]
WholeFiles(sources) ==
    {File(cf, cf.items, \A c \in ToSet(cf.constants) : c.tag # 5) : cf \in Structures(sources)}
CutFiles(sources) ==
    UNION {{File(cf, SubSeq(cf.items, 1, n), TRUE) : n \in 0..Len(cf.items) - 1} :
           cf \in Structures(sources)}
\* Files that end inside the code of a method.
CutCodeFiles(sources) ==
    UNION {UNION {{File(cf, Append(SubSeq(cf.items, 1, n - 1), Data(SubSeq(cf.items[n].v, 1, m))), FALSE) :
                       m \in 1..Len(cf.items[n].v) - 1} :
                   n \in {i \in DOMAIN cf.items : cf.items[i].kind = "bytes"}} :
           cf \in Structures(sources)}
DamagedFiles(sources) ==
    UNION {{File(cf, [cf.items EXCEPT ![n].v = v], FALSE) :
               n \in {n \in DOMAIN cf.items : cf.items[n].kind = "number"}, v \in {0, 99}} :
           cf \in Structures(sources)}

AllFiles ==
    WholeFiles({ObjectClass, RichClass} \cup FieldClasses \cup SignatureClasses
                   \cup OpcodeClasses \cup BadOpcodeClasses)
        \cup CutFiles({RichClass}) \cup CutCodeFiles({RichClass}) \cup DamagedFiles({RichClass})
LongFiles == WholeFiles({LongClass})

-----------------------------------------------------------------------------

\* README.md:16 says that Java 7 classes are deserialised: a whole file of a
\* class is read to its end.
LegalClassesRead == outcome \in {"reading", "done"}

=============================================================================
