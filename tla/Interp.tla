------------------------------- MODULE Interp -------------------------------
(***************************************************************************)
(* The interpreter of one thread (thread.rs: create_frame, init_static!,   *)
(* step; lib.rs: Operand, LocalVariableMap) on operand stacks, local       *)
(* variables and frames.  Beside it runs the machine of JVMS 7 on the same *)
(* instructions.                                                           *)
(*                                                                         *)
(* The code of a method is not fixed: a frame fetches any instruction the  *)
(* verifier would accept in the state of the machine.  No branch is ever   *)
(* taken by step, so an instruction is fetched once, but for one that      *)
(* init_static! parks.  An instruction on which step is known to deviate   *)
(* sets `odd`, and the run ends with it.  What a field or a static holds,  *)
(* getfield and arrays are in Heap, the order of class initialisation is   *)
(* in ClassInit.                                                           *)
(***************************************************************************)
EXTENDS Dispatch, Descriptor, FiniteSets

CONSTANTS
    Hierarchies,    \* the hierarchies to run on, see below
    Params(_),      \* parameter descriptors of a method
    Ret(_),         \* its result: "V", "I" or "L"
    IsStatic(_), IsInit(_),
    Natives,        \* native methods the interpreter knows: [params, out]
    Kind(_),        \* what a field holds: an operand type, or "Reference"
    NoMethod,       \* no method: what new and checkcast name
    Text,           \* java/lang/String
    MaxWord,        \* usize::MAX
    MaxFrames, MaxStack, MaxLocal   \* bounds

\* Beside the fields Dispatch reads, a hierarchy says what its code may use:
\* the class its first frame belongs to (main), the classes its constant pools
\* name (names), the instructions that push a constant (constants), the
\* classes init_static! may have to initialise, in turn (clinits), the fields
\* and statics its code names (fields), and how many instructions are fetched on
\* it (fuel, a bound).

ASSUME ClassesAssumption ==
    IsFiniteSet(Classes) /\ {Object, Text} \subseteq Classes /\ NoSuper \notin Classes
ASSUME BoundsAssumption ==
    MaxFrames \in Nat /\ MaxStack \in Nat /\ MaxLocal \in Nat /\ MaxWord \in Nat

\* What the loader has linked: a superclass for all but Object, no circles.
Linkable(k) ==
    /\ k.super \in [Classes -> Classes \cup {NoSuper}] /\ k.interfaces \in [Classes -> SUBSET Classes]
    /\ \A c \in Classes \ {Object} : k.super[c] \in Classes
Layered(super, interfaces) ==
    \E level \in [Classes -> 0..Cardinality(Classes)] :
        \A c \in Classes : /\ c # Object => level[super[c]] < level[c]
                          /\ \A i \in interfaces[c] : level[i] < level[c]
\* What javac writes: an interface extends Object, and a method is not less
\* accessible than one it overrides (JVMS 7, 4.1; JLS 7, 8.4.8.3).
Accesses == {"none", "private", "package", "protected", "public"}
Compiled(k) ==
    /\ k.isInterface \in [Classes -> BOOLEAN] /\ ~k.isInterface[Object]
    /\ \A c \in Classes : k.isInterface[c] => k.super[c] = Object
    /\ \A c \in Classes : \A i \in k.interfaces[c] : k.isInterface[i]
    /\ k.access \in [Classes -> [Methods -> Accesses]]
    /\ \A c \in Classes, m \in Methods : k.access[c][m] = "private" /\ ~IsInit(m) =>
          ~\E s \in Classes \ {c} :
              /\ \/ k.access[s][m] \in {"public", "protected"}
                 \/ k.access[s][m] = "package" /\ Siblings(k, c, s)
              /\ Subtype(k, c, s)
ASSUME HierarchiesAssumption ==
    /\ \A k \in Hierarchies : Linkable(k) /\ Compiled(k)
    /\ \A s \in {<<k.super, k.interfaces>> : k \in Hierarchies} : Layered(s[1], s[2])

\* The code on a hierarchy.
ConstantOps ==
    {"bipush", "dconst", "ldc_class", "ldc_string", "aconst_null", "iconst", "sipush", "ldc_int",
     "lconst", "fconst", "ldc_float"}
ASSUME CodeAssumption ==
    \A k \in Hierarchies :
        /\ k.main \in Classes /\ k.names \subseteq Classes /\ k.fuel \in Nat
        /\ \A c \in k.constants : c.op \in ConstantOps /\ c.n \in Int
        /\ \A cs \in k.clinits : cs \in Seq(Classes)
        /\ \A f \in k.fields : Kind(f) \in {"Int", "Float", "Long", "Double", "Reference"}
\* Descriptors are those the parser yields, and the arguments of a call fit the
\* bound; a native method has one parameter at most.
ASSUME MethodsAssumption ==
    \A m \in Methods :
        /\ Params(m) \in Seq(ToSet(Params(m))) /\ Len(Params(m)) <= MaxLocal + 2
        /\ \A i \in DOMAIN Params(m) : /\ Params(m)[i].dims \in Nat
                                      /\ Params(m)[i].elem \in Base \cup {"L"}
        /\ Ret(m) \in {"V", "I", "L"} /\ IsStatic(m) \in BOOLEAN /\ IsInit(m) \in BOOLEAN
ASSUME NativesAssumption ==
    \A nat \in Natives :
        /\ nat.out \in {"panic", "long", "int", "none"}
        /\ \/ nat.params = <<>>
           \/ /\ nat.params = <<nat.params[1]>> /\ nat.params[1].dims = 0
              /\ nat.params[1].elem \in {"I", "J", "L"}

VARIABLES
    h,          \* the hierarchy
    frames,     \* frame_stack, innermost last
    objects,    \* heap.objects: the class of the object at each key from 0
    status,     \* running, error (step returned Err) or panic
    java,       \* the frames of the machine of JVMS 7
    odd,        \* an instruction was fetched on which step deviates
    steps       \* instructions fetched
vars == <<h, frames, objects, status, java, odd, steps>>

-----------------------------------------------------------------------------
(***************************************************************************)
(* Values and frames.  A long or double is one value of the machine and    *)
(* two operands of step.  A reference is the key of an object.             *)
(***************************************************************************)

Op(t, v) == [t |-> t, v |-> v]
Null == Op("NullReference", 0)
Refer(id) == Op("ClassReference", id)
Category(x) == IF x.t \in {"Long", "Double"} THEN 2 ELSE 1      \* get_category
Halves(x) == IF Category(x) = 2 THEN <<Op(x.t, 0), x>> ELSE <<x>>
IsRef(x) == x.t \in {"ClassReference", "NullReference"}

NoLocals == [i \in {} |-> Null]
Put(locals, i, x) == [j \in DOMAIN locals \cup {i} |-> IF j = i THEN x ELSE locals[j]]

\* create_frame; `parked` holds the instruction init_static! has put off and
\* the operands and locals it was put off with.
Frame(c, ret, locals) ==
    [class |-> c, ret |-> ret, stack |-> <<>>, locals |-> locals, done |-> FALSE, parked |-> <<>>]
\* A frame of the machine.
JFrame(c, ret, locals) == [class |-> c, ret |-> ret, stack |-> <<>>, locals |-> locals]

Top  == frames[Len(frames)]
JTop == java[Len(java)]
With(fs, f) == [fs EXCEPT ![Len(fs)] = f]
Drop(s, n)  == SubSeq(s, 1, Len(s) - n)
Peek(s, n)  == s[Len(s) - n]        \* n = 0 is the top of the stack
Pushed(f, xs) == [f EXCEPT !.stack = @ \o xs]
Popped(f, n)  == [f EXCEPT !.stack = Drop(@, n)]

Init ==
    /\ h \in Hierarchies
    /\ frames = <<Frame(h.main, "V", NoLocals)>>
    /\ java = <<JFrame(h.main, "V", NoLocals)>>
    /\ objects = <<Text>>          \* a literal loaded before
    /\ status = "running" /\ odd = FALSE /\ steps = 0

\* The next instruction of the innermost frame is fetched.
Fetch ==
    /\ status = "running" /\ ~odd /\ frames # <<>> /\ ~Top.done
    /\ steps < h.fuel /\ steps' = steps + 1
\* It is not one that was parked before.
Fresh == Fetch /\ Top.parked = <<>>

\* step goes on with the frames fs, the machine with js; unless the
\* instruction is one on which step deviates, where the run ends.
Run(dev, fs, js) ==
    frames' = fs /\ java' = (IF dev THEN java ELSE js) /\ odd' = dev /\ UNCHANGED <<h, status>>
\* step returns Err, or panics.
Fail(dev, how) ==
    status' = how /\ odd' = dev /\ UNCHANGED <<h, frames, java>>

-----------------------------------------------------------------------------
(***************************************************************************)
(* Constants, local variables, the operand stack, arithmetic.              *)
(***************************************************************************)

\* What step pushes: a byte is taken as unsigned; a double comes from the
\* decoder as 11 or 12; ldc pushes nothing for a class or a method type, and a
\* float cast to a usize, which cuts it off, above, below zero and behind the
\* point.  c.n counts the halves of such a float, a NaN goes as a negative one.
Truncated(halves) ==
    IF halves < 0 THEN 0 ELSE IF halves \div 2 > MaxWord THEN MaxWord ELSE halves \div 2
PushedBy(c) ==
    CASE c.op = "bipush" -> <<Op("Int", c.n)>>
      [] c.op = "dconst" -> Halves(Op("Double", c.n + 11))
      [] c.op = "ldc_class" -> <<>>
      [] c.op = "ldc_string" -> <<Refer(0)>>
      [] c.op = "aconst_null" -> <<Null>>
      [] c.op \in {"iconst", "sipush", "ldc_int"} -> <<Op("Int", c.n)>>
      [] c.op = "lconst" -> Halves(Op("Long", c.n))
      [] c.op = "fconst" -> <<Op("Float", c.n)>>
      [] c.op = "ldc_float" -> <<Op("Float", Truncated(c.n))>>

\* What JVMS 7 says it pushes; bytes of 128 and more are negative.  A float that
\* step cuts off has no value here: the run ends with it.
Meant(c) ==
    CASE c.op = "bipush" -> <<Op("Int", IF c.n > 127 THEN c.n - 256 ELSE c.n)>>
      [] c.op = "dconst" -> <<Op("Double", c.n)>>
      [] c.op = "lconst" -> <<Op("Long", c.n)>>
      [] c.op = "ldc_class" -> <<Refer(0)>>
      [] OTHER -> PushedBy(c)

Mistaken(c) ==
    \/ c.op = "bipush" /\ c.n > 127
    \/ c.op \in {"dconst", "ldc_class"}
    \/ c.op = "ldc_float" /\ 2 * Truncated(c.n) # c.n

Push ==
    \E c \in h.constants :
        /\ Fresh /\ Len(Top.stack) < MaxStack
        /\ Run(Mistaken(c),
               With(frames, Pushed(Top, PushedBy(c))), With(java, Pushed(JTop, Meant(c))))
        /\ UNCHANGED objects

\* iload, fload_<n>, aload_<n>
Load ==
    /\ Fresh /\ Len(Top.stack) < MaxStack
    /\ \E i \in DOMAIN JTop.locals :
        /\ Run(FALSE, With(frames, Pushed(Top, <<Top.locals[i]>>)),
                With(java, Pushed(JTop, <<JTop.locals[i]>>)))
        /\ UNCHANGED objects

\* istore_<n>, astore, astore_<n>
Store ==
    \E i \in 0..MaxLocal :
        /\ Fresh /\ JTop.stack # <<>>
        /\ Last(JTop.stack).t = "Int" \/ IsRef(Last(JTop.stack))
        /\ Run(FALSE, With(frames, [Popped(Top, 1) EXCEPT !.locals = Put(@, i, Last(Top.stack))]),
                With(java, [Popped(JTop, 1) EXCEPT !.locals = Put(@, i, Last(JTop.stack))]))
        /\ UNCHANGED objects

\* lstore_<n> takes one of the two operands and stores its halves.
StoreLong ==
    \E i \in 0..MaxLocal :
        /\ Fresh /\ JTop.stack # <<>> /\ Last(JTop.stack).t = "Long"
        /\ Run(TRUE, With(frames, [Popped(Top, 1) EXCEPT
                !.locals = Put(Put(@, i + 1, Last(Top.stack)), i, Op("Long", 0))]), java)
        /\ UNCHANGED objects

\* pop, and pop2 of two values of category 1
Pop ==
    \E n \in 1..2 :
        /\ Fresh /\ Len(JTop.stack) >= n
        /\ \A k \in 0..n - 1 : Category(Peek(JTop.stack, k)) = 1
        /\ Run(FALSE, With(frames, Popped(Top, n)), With(java, Popped(JTop, n)))
        /\ UNCHANGED objects

\* pop2 of a long or double takes one of its operands.
PopLong ==
    /\ Fresh /\ JTop.stack # <<>> /\ Category(Last(JTop.stack)) = 2
    /\ Run(TRUE, With(frames, Popped(Top, 1)), java)
    /\ UNCHANGED objects

Dup ==
    /\ Fresh /\ JTop.stack # <<>> /\ Category(Last(JTop.stack)) = 1 /\ Len(Top.stack) < MaxStack
    /\ Run(FALSE, With(frames, Pushed(Top, <<Last(Top.stack)>>)),
            With(java, Pushed(JTop, <<Last(JTop.stack)>>)))
    /\ UNCHANGED objects

\* The sum of the two topmost operands, of the type given.
Sum2(f, t) ==
    Pushed(Popped(f, 2), <<Op(t, Last(f.stack).v + Peek(f.stack, 1).v)>>)
TwoOf(t) == Len(JTop.stack) > 1 /\ \A k \in 0..1 : Peek(JTop.stack, k).t = t

Iadd ==
    /\ Fresh /\ TwoOf("Int")
    /\ Run(FALSE, With(frames, Sum2(Top, "Int")), With(java, Sum2(JTop, "Int")))
    /\ UNCHANGED objects

\* ladd adds two operands, which are the halves of one long, to an int.
Ladd ==
    /\ Fresh /\ TwoOf("Long")
    /\ Run(TRUE, With(frames, Sum2(Top, "Int")), java)
    /\ UNCHANGED objects

\* iinc stores the sum in the local variable numbered like the increment; the
\* increment -1 as a u16 is 65535.
Slot(n) == IF n < 0 THEN 65536 + n ELSE n
Iinc ==
    /\ Fresh
    /\ \E i \in DOMAIN JTop.locals, n \in -1..MaxLocal :
        /\ JTop.locals[i].t = "Int"
        /\ LET code == With(frames, [Top EXCEPT
                            !.locals = Put(@, Slot(n), Op("Int", Top.locals[i].v + n))])
               meant == With(java, [JTop EXCEPT !.locals[i].v = @ + n])
           IN  Run(n # i, code, meant)
        /\ UNCHANGED objects

-----------------------------------------------------------------------------
(***************************************************************************)
(* Branches and returns.                                                   *)
(***************************************************************************)

Conditions == {"eq", "ne", "lt", "ge", "gt", "le"}
Holds(cond, a, b) ==
    CASE cond = "eq" -> a = b  [] cond = "ne" -> a # b
      [] cond = "lt" -> a < b  [] cond = "ge" -> a >= b
      [] cond = "gt" -> a > b  [] cond = "le" -> a <= b

\* if<cond> and if_icmp<cond>: the operands are popped and the next
\* instruction follows, whether the condition holds or not.
Branch ==
    \E cond \in Conditions, n \in 1..2 :
        /\ Fresh /\ Len(JTop.stack) >= n
        /\ \A k \in 0..n - 1 : Peek(JTop.stack, k).t = "Int"
        /\ LET taken == Holds(cond, Peek(JTop.stack, n - 1).v, IF n = 1 THEN 0 ELSE Last(JTop.stack).v)
               next  == With(frames, Popped(Top, n))
           IN  Run(taken, next, With(java, Popped(JTop, n)))
        /\ UNCHANGED objects

Goto == Fresh /\ Run(TRUE, frames, java) /\ UNCHANGED objects
Nop  == Fresh /\ Run(FALSE, frames, java) /\ UNCHANGED objects

\* return does nothing: as the last instruction it lets pc run to the end of
\* the code, elsewhere the code after it is run.
Return ==
    /\ Fresh /\ JTop.ret = "V"
    /\ \/ Run(FALSE, With(frames, [Top EXCEPT !.done = TRUE]), Drop(java, 1))
       \/ Run(TRUE, frames, java)
    /\ UNCHANGED objects

\* At the end of the code step pops the frame.
EndOfCode ==
    /\ status = "running" /\ frames # <<>> /\ Top.done
    /\ frames' = Drop(frames, 1)
    /\ UNCHANGED <<h, objects, status, java, odd, steps>>

\* ireturn, areturn: the result goes to the invoker.
ValueReturn ==
    /\ Fresh /\ JTop.stack # <<>> /\ Len(java) > 1
    /\ \/ JTop.ret = "I" /\ Last(JTop.stack).t = "Int"
       \/ JTop.ret = "L" /\ IsRef(Last(JTop.stack))
    /\ LET invoker(fs) == With(Drop(fs, 1), Pushed(fs[Len(fs) - 1], <<Last(fs[Len(fs)].stack)>>))
       IN  Run(FALSE, invoker(frames), invoker(java))
    /\ UNCHANGED objects

\* No arm of step: iload_<n>, fload, aload, athrow, ...
Unimplemented == Fresh /\ Fail(TRUE, "panic") /\ UNCHANGED objects

-----------------------------------------------------------------------------
(***************************************************************************)
(* Calls, new, checkcast, and the instructions on fields that init_static! *)
(* may put off.  Such an instruction is a record of its opcode, a method   *)
(* or a field, and a class.                                                *)
(***************************************************************************)

Ins(op, m, c) == [op |-> op, m |-> m, c |-> c]
Lazy ==
    {Ins(op, m, c) : op \in {"static", "virtual", "special"}, m \in Methods, c \in h.names}
        \cup {Ins(op, NoMethod, c) : op \in {"new", "checkcast"}, c \in h.names}
        \cup {Ins(op, f, c) : op \in {"getstatic", "putstatic", "putfield"}, f \in h.fields, c \in h.names}

\* The arguments of a call: the n topmost values, and the object below them.
NumArgs(m) == Len(Params(m))
Needed(m)  == NumArgs(m) + (IF IsStatic(m) THEN 0 ELSE 1)
Args(s, n) == SubSeq(s, Len(s) - n + 1, Len(s))
JArg(m, k) == Args(JTop.stack, NumArgs(m))[k]
JObject(m) == Peek(JTop.stack, NumArgs(m))
ClassOf(x) == objects[x.v + 1]

\* What the verifier asks of a value for a parameter, and of a call.
Passes(fd, x) ==
    \/ MatchesOperand(fd, x.t)
    \/ fd.elem = "L" /\ x = Null
    \/ fd.elem = "C" /\ fd.dims = 0 /\ x.t = "Int"
CanCall(m, c) ==
    /\ ~h.isInterface[c] /\ Len(JTop.stack) >= Needed(m)
    /\ \A k \in 1..NumArgs(m) : Passes(Params(m)[k], JArg(m, k))
    /\ \E a \in Classes : Declares(h, a, m) /\ IF IsInit(m) THEN a = c ELSE Subtype(h, c, a)
    /\ ~IsStatic(m) => /\ IsRef(JObject(m))
                       /\ JObject(m) # Null => Subtype(h, ClassOf(JObject(m)), c)
\* A value for a field.
Fits(f, x) == IF Kind(f) = "Reference" THEN IsRef(x) ELSE x.t = Kind(f)
Legal(ins) ==
    CASE ins.op = "static"    -> IsStatic(ins.m) /\ CanCall(ins.m, ins.c)
      [] ins.op = "virtual"   -> /\ ~IsStatic(ins.m) /\ ~IsInit(ins.m) /\ CanCall(ins.m, ins.c)
                                 /\ h.access[ins.c][ins.m] # "private"
      [] ins.op = "special"   -> /\ ~IsStatic(ins.m) /\ CanCall(ins.m, ins.c)
                                 /\ IsInit(ins.m) \/ (JTop.class # Object /\ Subtype(h, JTop.class, ins.c))
      [] ins.op = "new"       -> ~h.isInterface[ins.c] /\ Len(Top.stack) < MaxStack
      [] ins.op = "checkcast" -> JTop.stack # <<>> /\ IsRef(Last(JTop.stack))
      [] ins.op = "getstatic" -> Len(Top.stack) < MaxStack
      [] ins.op = "putstatic" -> JTop.stack # <<>> /\ Fits(ins.m, Last(JTop.stack))
      [] ins.op = "putfield"  -> /\ Len(JTop.stack) > 1 /\ Fits(ins.m, Last(JTop.stack))
                                 /\ IsRef(Peek(JTop.stack, 1))
                                 /\ Peek(JTop.stack, 1) # Null =>
                                        Subtype(h, ClassOf(Peek(JTop.stack, 1)), ins.c)

\* Faulty variant: init_static! runs after an operand has been popped.
InitStaticPopped ==
    \E ins \in Lazy, cs \in h.clinits :
        /\ Fresh /\ Legal(ins) /\ Len(frames) + Len(cs) <= MaxFrames
        /\ LET kept == [ins |-> ins, stack |-> Top.stack, locals |-> Top.locals]
               less == IF Top.stack = <<>> THEN Top ELSE Popped(Top, 1)
           IN  Run(FALSE, With(frames, [less EXCEPT !.parked = <<kept>>])
                              \o [k \in DOMAIN cs |-> Frame(cs[k], "V", NoLocals)],
                   java \o [k \in DOMAIN cs |-> JFrame(cs[k], "V", NoLocals)])
        /\ UNCHANGED objects

\* init_static!: the pc is set back and a frame for each <clinit> is pushed.
InitStatic ==
    \E ins \in Lazy, cs \in h.clinits :
        /\ Fresh /\ Legal(ins) /\ Len(frames) + Len(cs) <= MaxFrames
        /\ LET kept == [ins |-> ins, stack |-> Top.stack, locals |-> Top.locals]
           IN  Run(FALSE, With(frames, [Top EXCEPT !.parked = <<kept>>])
                              \o [k \in DOMAIN cs |-> Frame(cs[k], "V", NoLocals)],
                   java \o [k \in DOMAIN cs |-> JFrame(cs[k], "V", NoLocals)])
        /\ UNCHANGED objects

\* The instruction is taken, for the first time or again after init_static!.
Take(ins) ==
    /\ Fetch /\ Legal(ins)
    /\ \A k \in DOMAIN Top.parked : Top.parked[k].ins = ins
Unparked == [Top EXCEPT !.parked = <<>>]

\* The call of m in class c: by step with the local variables `locals`, by
\* JVMS 7 with the object and the arguments in their order.
Call(m, c, locals) ==
    Append(With(frames, Popped(Unparked, Needed(m))), Frame(c, Ret(m), locals))
JCall(m, c) ==
    Append(With(java, Popped(JTop, Needed(m))),
           JFrame(c, Ret(m), [i \in 0..Needed(m) - 1 |-> Args(JTop.stack, Needed(m))[i + 1]]))

\* The i-th operand popped is compared with the i-th parameter.
Matching(m) == \A i \in 1..NumArgs(m) : MatchesOperand(Params(m)[i], Peek(Top.stack, i - 1).t)

\* Arguments step does not take as JVMS 7 does: a long or double, for which
\* one operand is popped, and null and chars, which match no parameter.
OddArgs(m) ==
    \E k \in 1..NumArgs(m) : \/ Params(m)[k].elem \in {"J", "D", "C"}
                             \/ JArg(m, k) = Null

\* Faulty variant: the arguments are numbered in the order of popping.
LocalsPopped(n) ==
    [i \in 0..n |-> Peek(Top.stack, IF i = 0 THEN n ELSE i - 1)]

\* The object below n arguments, and the arguments, as local variables.
LocalsFrom(n) == [i \in 0..n |-> Peek(Top.stack, n - i)]

\* invokestatic: the local variables are numbered in the order of popping; the
\* named class must declare the method itself.
InvokeStatic ==
    \E m \in Methods, c \in h.names :
        /\ Take(Ins("static", m, c)) /\ Len(frames) < MaxFrames
        /\ LET dev == ~Declares(h, c, m) \/ NumArgs(m) > 1
                        \/ \E k \in 1..NumArgs(m) : Params(m)[k].elem \in {"J", "D"}
           IN  IF ~Declares(h, c, m) THEN Fail(dev, "error")
               ELSE Run(dev, Call(m, c, [i \in 0..NumArgs(m) - 1 |-> Peek(Top.stack, i)]), JCall(m, c))
        /\ UNCHANGED objects

\* invokestatic of a native method of Main.  get_time pushes one operand for a
\* long; print_long pops two, the two halves of its argument.
InvokeNative ==
    \E nat \in Natives :
        LET n == Len(nat.params)
            pops == IF n > 0 /\ nat.params[1].elem = "J" THEN 2 ELSE n
            out == CASE nat.out = "long" -> <<Op("Long", 1)>>
                     [] nat.out = "int"  -> <<Op("Int", 1)>>
                     [] OTHER            -> <<>>
        IN  /\ Fresh /\ Len(JTop.stack) >= n
            /\ \A k \in 1..n : LET x == Args(JTop.stack, n)[k]
                               IN  MatchesOperand(nat.params[k], x.t) /\ (IsRef(x) => ClassOf(x) = Text)
            /\ IF nat.out = "panic" THEN Fail(TRUE, "panic")
               ELSE Run(nat.out = "long", With(frames, Pushed(Popped(Top, pops), out)),
                        With(java, Pushed(Popped(JTop, n), out)))
            /\ UNCHANGED objects

\* The walk finds a method when the class of the object declares it and so
\* does, openly or in the same package, the superclass.
Found(c, m) ==
    /\ c # Object /\ Declares(h, c, m) /\ Declares(h, h.super[c], m)
    /\ h.access[h.super[c]][m] \in {"public", "protected"} \/ Siblings(h, c, h.super[c])

\* invokevirtual.  The second of two parameters is inserted out of the bounds
\* of a vector; the object is the one at the key in the operand, which is 0 for
\* null; the named class must declare the method itself, and a method that
\* cannot be overridden from another package is replaced all the same.
InvokeVirtual ==
    \E m \in Methods, c \in h.names :
        /\ Take(Ins("virtual", m, c)) /\ Len(frames) < MaxFrames
        /\ LET n == NumArgs(m)
               obj == Peek(Top.stack, n)
               jclass == ClassOf(JObject(m))
               target == Overriding(h, ClassOf(obj), m)
               hidden == h.access[c][m] = "package" /\ ~Siblings(h, jclass, c)
               dev == \/ n > 1 \/ OddArgs(m) \/ JObject(m) = Null
                      \/ ~Declares(h, c, m) \/ hidden \/ ~Found(jclass, m)
           IN  IF ~Matching(m) \/ n > 1 THEN Fail(dev, "panic")
               ELSE IF ~Declares(h, c, m) \/ target.is = "none" THEN Fail(dev, "error")
               ELSE IF target.is = "panic" THEN Fail(dev, "panic")
               ELSE Run(dev, Call(m, target.class,
                                  [LocalsFrom(n) EXCEPT ![0] = Refer(obj.v)]),
                        JCall(m, Selected(h, jclass, c, m)))
        /\ UNCHANGED objects

\* invokespecial: constructors, private methods and super calls.  Where the
\* method is one of the class itself, or the direct superclass declares it,
\* the search starts too high.  Null is handed over as the object.
InvokeSpecial ==
    \E m \in Methods, c \in h.names :
        /\ Take(Ins("special", m, c)) /\ Len(frames) < MaxFrames
        /\ LET n == NumArgs(m)
               target == SpecialTarget(h, Top.class, c, m, IsInit(m))
               high == ~IsInit(m) /\ (c = JTop.class \/ Declares(h, h.super[JTop.class], m))
               mixed == \E k \in 1..n : Params(m)[k].elem # Params(m)[n + 1 - k].elem
               dev == high \/ mixed \/ OddArgs(m) \/ JObject(m) = Null \/ ~Declares(h, c, m)
           IN  IF target.is = "panic" THEN Fail(dev, "panic")
               ELSE IF target.is = "none" THEN Fail(dev, "error")
               ELSE IF ~Matching(m) THEN Fail(dev, "panic")
               ELSE Run(dev, Call(m, target.class, LocalsFrom(n)),
                        JCall(m, SpecialSelected(h, JTop.class, c, m, IsInit(m))))
        /\ UNCHANGED objects

\* Faulty variant: the key is read off the slab after the insertion.
NewNextKey ==
    \E c \in h.names :
        /\ Take(Ins("new", NoMethod, c))
        /\ objects' = Append(objects, c)
        /\ Run(FALSE, With(frames, Pushed(Unparked, <<Refer(Len(objects'))>>)),
               With(java, Pushed(JTop, <<Refer(Len(objects'))>>)))

New ==
    \E c \in h.names :
        /\ Take(Ins("new", NoMethod, c))
        /\ objects' = Append(objects, c)
        /\ Run(FALSE, With(frames, Pushed(Unparked, <<Refer(Len(objects))>>)),
               With(java, Pushed(JTop, <<Refer(Len(objects))>>)))

\* checkcast: null is popped and not put back; classes are compared the wrong
\* way round, and a cast that is refused is a panic.
CheckcastObject ==
    \E c \in h.names :
        /\ Take(Ins("checkcast", NoMethod, c))
        /\ LET x == Last(Top.stack)
               dev == x = Null \/ ClassOf(x) # c
           IN  IF x = Null THEN Run(dev, With(frames, Popped(Unparked, 1)), java)
               ELSE IF CheckCast(h, ClassOf(x), c) # "yes" THEN Fail(dev, "panic")
               ELSE Run(dev, With(frames, Unparked), java)
        /\ UNCHANGED objects

\* What a static of this kind may hold once it is set, and an object not yet.
Held(f) ==
    IF Kind(f) = "Reference" THEN {Null} \cup {Refer(id) : id \in 0..Len(objects) - 1}
    ELSE {Op(Kind(f), 1)}

\* getstatic: one operand for a long or double too, and null for a number that
\* has not been set, and for a static the named class only inherits.
GetStatic ==
    \E f \in h.fields, c \in h.names :
        /\ Take(Ins("getstatic", f, c))
        /\ \/ \E x \in Held(f) : Run(Category(x) = 2, With(frames, Pushed(Unparked, <<x>>)),
                                     With(java, Pushed(JTop, <<x>>)))
           \/ Run(TRUE, With(frames, Pushed(Unparked, <<Null>>)), java)
        /\ UNCHANGED objects

\* putstatic: one operand; null is stored as the object at key 0.
PutStatic ==
    \E f \in h.fields, c \in h.names :
        /\ Take(Ins("putstatic", f, c))
        /\ LET x == Last(JTop.stack)
           IN  Run(x = Null \/ Category(x) = 2, With(frames, Popped(Unparked, 1)),
                   With(java, Popped(JTop, 1)))
        /\ UNCHANGED objects

\* putfield: one operand for the value and the next for the object, which is the
\* other half of a long or double; null for either is the object at key 0.  A
\* field the named class only inherits is a panic.
PutField ==
    \E f \in h.fields, c \in h.names :
        /\ Take(Ins("putfield", f, c))
        /\ LET x == Last(JTop.stack)
           IN  \/ Run(x = Null \/ Category(x) = 2 \/ Peek(JTop.stack, 1) = Null,
                      With(frames, Popped(Unparked, 2)), With(java, Popped(JTop, 2)))
               \/ Fail(TRUE, "panic")
        /\ UNCHANGED objects

Next ==
    \/ Push \/ Load \/ Store \/ StoreLong \/ Pop \/ PopLong \/ Dup \/ Iadd \/ Ladd \/ Iinc
    \/ Branch \/ Goto \/ Nop \/ Return \/ EndOfCode \/ ValueReturn \/ Unimplemented
    \/ InitStatic \/ InvokeStatic \/ InvokeNative \/ InvokeVirtual \/ InvokeSpecial
    \/ New \/ CheckcastObject \/ GetStatic \/ PutStatic \/ PutField

Spec == Init /\ [][Next]_vars

-----------------------------------------------------------------------------
(***************************************************************************)
(* Properties.                                                             *)
(***************************************************************************)

\* The numbers of local variables: those of the code, and where iinc may write.
Slots == 0..MaxLocal + 2 \cup {Slot(-1)}
OperandTypes == {"Int", "Float", "Long", "Double", "NullReference", "ClassReference"}
\* The frames whose code is not at its end; only the innermost can be there.
Live == IF frames # <<>> /\ Top.done THEN Drop(frames, 1) ELSE frames
\* The operands of step that are the values s of the machine.
Operands(s) ==
    LET first[n \in 0..Len(s)] == IF n = 0 THEN <<>> ELSE first[n - 1] \o Halves(s[n])
    IN  first[Len(s)]

\* Types: an operand of a reference is the key of an object of the heap, and
\* only the innermost frame is at the end of its code.
InterpTypeOK ==
    /\ status \in {"running", "error", "panic"}
    /\ \A k \in DOMAIN frames :
        LET f == frames[k]
            values == ToSet(f.stack) \cup {f.locals[i] : i \in DOMAIN f.locals}
        IN  /\ f.class \in Classes /\ DOMAIN f.locals \subseteq Slots
            /\ \A x \in values : x.t \in OperandTypes /\ (IsRef(x) => x.v < Len(objects))
            /\ f.done => k = Len(frames)

\* As long as no instruction is fetched on which step is known to deviate,
\* step runs on without an error, and its frames, operand stacks and local
\* variables are those of the machine of JVMS 7: calls hand over the object
\* and the arguments in their order to the method JVMS 7 selects, returns hand
\* back the result, a long lies on the stack as two operands.
AgreesWithJava ==
    ~odd =>
        /\ status = "running"
        /\ Len(Live) = Len(java)
        /\ \A k \in DOMAIN java :
            /\ Live[k].class = java[k].class
            /\ Live[k].stack = Operands(java[k].stack)
            /\ Live[k].locals = java[k].locals

\* thread.rs:97: "The operand stack should be unchanged at all times before
\* this macro is invoked."  An instruction that was put off for the sake of a
\* <clinit> finds the operands and the local variables it was put off with.
RetryUntouched ==
    \A k \in DOMAIN frames :
        frames[k].parked # <<>> =>
            /\ frames[k].stack = frames[k].parked[1].stack
            /\ frames[k].locals = frames[k].parked[1].locals

\* When every declaration is public or protected, or all classes are in one
\* package, a method that the walk of invokevirtual finds is the one JVMS 7
\* selects, whichever superclass the call names.
SelectionSound ==
    \/ /\ \E c \in Classes, m \in Methods : h.access[c][m] \in {"private", "package"}
       /\ \E c, d \in Classes : ~Siblings(h, c, d)
    \/ \A c, a \in Classes, m \in Methods :
          LET found == Overriding(h, c, m)
              asked == /\ ~IsInit(m) /\ ~IsStatic(m) /\ Declares(h, a, m) /\ Subtype(h, c, a)
                       /\ h.access[a][m] # "private" /\ ~h.isInterface[c] /\ ~h.isInterface[a]
          IN  asked /\ found.is = "some" => found.class = Selected(h, c, a, m)

\* check_cast, though it is given its classes the wrong way round, never lets
\* an object be taken for one of an unrelated class, and always for its own.
CastsRelated ==
    \A s, t \in Classes :
        /\ s = t => CheckCast(h, s, t) = "yes"
        /\ CheckCast(h, s, t) = "yes" => Subtype(h, s, t) \/ Subtype(h, t, s)

\* thread.rs:1061 names JVMS 7, 6.5.invokespecial, as what the instruction
\* does: a super call runs the method of the nearest superclass that has one.
SuperCallsAsSpecified ==
    \A c, a \in Classes, m \in Methods :
        c # Object /\ c # a /\ ~IsInit(m) /\ ~IsStatic(m) /\ Subtype(h, c, a) /\ Declares(h, a, m)
            => SpecialTarget(h, c, a, m, FALSE) = Some(SpecialSelected(h, c, a, m, FALSE))

=============================================================================
