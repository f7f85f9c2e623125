------------------------------ MODULE MCInterp ------------------------------
(***************************************************************************)
(* Hierarchies for Interp.  On six of them programs are run; on the       *)
(* others, which cover the ways three classes in a chain may declare and   *)
(* override one method, only the walks of the loader are asked.            *)
(***************************************************************************)
EXTENDS Interp, TLC

CONSTANTS Str, A, B, C, Face, OneText

Prim(c) == Field(0, c, <<>>)
Ref     == Field(0, "L", OneText)

\* The methods: constructors, virtual methods of no, one and two parameters,
\* static ones.
MCParams(m) ==
    CASE m \in {"init", "get", "run"} -> <<>>
      [] m = "set"  -> <<Prim("I")>>
      [] m = "keep" -> <<Ref>>
      [] m = "put"  -> <<Prim("I"), Prim("I")>>
      [] m = "at"   -> <<Prim("I"), Ref>>
      [] m = "wide" -> <<Prim("J")>>
      [] m = "char" -> <<Prim("C")>>
      [] m = "same" -> <<Ref>>
      [] m = "sub"  -> <<Prim("I"), Prim("I")>>
MCRet(m) == CASE m \in {"get", "sub"} -> "I" [] m = "same" -> "L" [] OTHER -> "V"
MCIsStatic(m) == m \in {"run", "same", "sub"}
MCIsInit(m)   == m = "init"

Native(params, out) == [params |-> params, out |-> out]
MCNatives ==
    {Native(<<>>, "panic"), Native(<<>>, "int"), Native(<<>>, "long"),
     Native(<<Prim("I")>>, "none"), Native(<<Prim("J")>>, "none"), Native(<<Ref>>, "none")}

\* Fields and statics by what they hold.
MCKind(f) == CASE f = "num" -> "Int" [] f = "big" -> "Long" [] f = "obj" -> "Reference"

Const(op, n) == [op |-> op, n |-> n]
One   == Const("iconst", 1)
Null1 == Const("aconst_null", 0)

-----------------------------------------------------------------------------

\* Object <- A <- B <- C, Object <- Str, and an interface that B implements.
Chain == [c \in Classes |-> CASE c = Object -> NoSuper [] c = B -> A [] c = C -> B [] OTHER -> Object]
Hierarchy(access, package) ==
    [super |-> Chain, package |-> package, access |-> access,
     interfaces |-> [c \in Classes |-> IF c = B THEN {Face} ELSE {}],
     isInterface |-> [c \in Classes |-> c = Face]]
OnePackage == [c \in Classes |-> 1]
Program(access, main, names, fields, constants, clinits, fuel) ==
    Hierarchy(access, OnePackage) @@
        [main |-> main, names |-> names, fields |-> fields, constants |-> constants,
         clinits |-> clinits, fuel |-> fuel]

\* Everything in D[m] declares m, publicly.
Open(D) == [c \in Classes |-> [m \in Methods |-> IF c \in D[m] THEN "public" ELSE "none"]]
Of(ms, cs) == [m \in Methods |-> IF m \in ms THEN cs ELSE {}]

Programs ==
    {\* static methods and every kind of constant
     Program(Open(Of({"run", "same", "sub"}, {A})), A, {A, B}, {},
        {One, Const("bipush", 3), Const("bipush", 200), Const("lconst", 1), Const("fconst", 1),
         Const("dconst", 1), Null1, Const("ldc_string", 0), Const("ldc_class", 0)},
        {<<A>>}, 4),
     \* floats of the constant pool: 1.5, -1, 2 and 4
     Program(Open(Of({"same"}, {A})), A, {A}, {},
        {Const("ldc_float", 3), Const("ldc_float", -2), Const("ldc_float", 4), Const("ldc_float", 8)}, {<<A>>}, 3),
     \* constructors, virtual methods that are overridden, super calls past a class
     Program(Open(Of({"init", "get", "set"}, {Object, A, C})), C, {A, C}, {}, {One, Null1}, {<<A, C>>}, 5),
     Program(Open(Of({"get", "keep", "put", "char"}, {A, B})), B, {A, B, Face}, {}, {One, Null1}, {<<B>>}, 5),
     \* super calls with two arguments
     Program(Open(Of({"put", "wide", "at"}, {A})), C, {A, C}, {},
        {One, Const("iconst", -1), Const("lconst", 1)}, {<<A>>}, 5),
     \* fields and statics of numbers, longs and objects, of classes to initialise
     Program(Open(Of({"init"}, {A})), A, {A}, {"num", "big", "obj"},
        {Const("lconst", 1), Null1}, {<<A>>}, 5)}

\* How strongly a declaration shows: an override is not weaker.
Strength == [none |-> 0, private |-> 1, package |-> 2, protected |-> 3, public |-> 4]
Small ==
    {Hierarchy([c \in Classes |-> [m \in Methods |->
                   IF m # "get" THEN "none"
                   ELSE CASE c = A -> a [] c = B -> b [] c = C -> d [] c = Object -> o [] OTHER -> "none"]],
               [c \in Classes |-> IF c \in far THEN 2 ELSE 1]) :
        o \in {"none", "public"},
        a, b, d \in {"none", "private", "package", "protected", "public"},
        far \in SUBSET {A, B, C}}
Compiles(k) ==
    \A c, s \in Classes : (c # s /\ Subtype(k, c, s) /\ Declares(k, c, "get") /\ Declares(k, s, "get"))
        => Strength[k.access[c]["get"]] >= Strength[k.access[s]["get"]]
Chains ==
    {k @@ [main |-> A, names |-> {}, fields |-> {}, constants |-> {}, clinits |-> {}, fuel |-> 0] :
        k \in {n \in Small : Compiles(n)}}

MCHierarchies == Programs \cup Chains

=============================================================================
