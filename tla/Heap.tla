-------------------------------- MODULE Heap --------------------------------
(***************************************************************************)
(* The heap (heap.rs) and the instructions that work on it (thread.rs:     *)
(* new, newarray, arraylength, the array, field and static instructions,   *)
(* string literals), down to the bytes of its blocks.                      *)
(*                                                                         *)
(* A block is the memory of an object, the body of an array or a static    *)
(* variable.  A byte of a value v is the pair <<v, position>>; a byte      *)
(* nobody wrote is Fresh.  Each operation is one that javac compiles; one  *)
(* on which the code is known to deviate from Java sets `odd`, and the     *)
(* program ends.  The operations of the threads are atomic here: the       *)
(* tables are locked or lock-free, a field is one store.  An object of a   *)
(* class without fields is an allocation of no bytes, which Rust leaves    *)
(* undefined; its block is an ordinary one, of which nothing is used.      *)
(***************************************************************************)
EXTENDS Descriptor, FiniteSets

CONSTANTS
    Classes, Object, Super(_),
    Fields(_),          \* the fields of a class in order: [name, fd, static]
    Text, Chars,        \* java/lang/String, the name of its field
    Values, Lengths, Literals,
    NoRef,              \* null
    Junk,               \* what a read of bytes of more than one value yields
    Capacity,           \* entries a slab has room for
    MaxSize,            \* the largest u32
    Fuel                \* bound: operations of the program

ASSUME NullIsNoKey == NoRef \notin Nat
ASSUME BoundsAssumption == Capacity \in Nat /\ MaxSize \in Nat /\ Fuel \in Nat
ASSUME ValuesAssumption == Lengths \subseteq Int /\ Junk \notin Values
\* What the constants of a class file hold: chars, and not more than fit a body.
Char16 == 0..65535
ASSUME LiteralsAssumption ==
    \A text \in Literals : text \in Seq(Char16) /\ 2 * Len(text) <= MaxSize
\* A class the loader has linked has every superclass up to Object.
ASSUME HierarchyAssumption ==
    /\ IsFiniteSet(Classes) /\ {Object, Text} \subseteq Classes
    /\ \E level \in [Classes -> 0..Cardinality(Classes)] :
        \A c \in Classes \ {Object} : Super(c) \in Classes /\ level[Super(c)] < level[c]
ASSUME FieldsAssumption ==
    \A c \in Classes :
        /\ Fields(c) \in Seq(ToSet(Fields(c)))
        /\ \A i \in DOMAIN Fields(c) :
            /\ Fields(c)[i].fd.dims \in Nat /\ Fields(c)[i].fd.elem \in Base \cup {"L"}
            /\ Fields(c)[i].static \in BOOLEAN

VARIABLES
    blocks,     \* every block ever allocated
    objects,    \* slab of objects, by key + 1: [class, ptr, live]
    arrays,     \* slab of arrays: a set of blocks
    statics,    \* static_field_map: <<class, name>> to block
    status,     \* running, error, panic, wild (a stray access), stray (a stray
                \* castore), dropped
    answer,     \* what the last operation pushed or returned
    odd,
    steps
vars == <<blocks, objects, arrays, statics, status, answer, odd, steps>>

-----------------------------------------------------------------------------
(***************************************************************************)
(* Layout.                                                                 *)
(***************************************************************************)

Own(c) == {Fields(c)[i].name : i \in DOMAIN Fields(c)}
Position(c, f) == CHOOSE i \in DOMAIN Fields(c) : Fields(c)[i].name = f
Info(c, f) == Fields(c)[Position(c, f)]
Width(c, f) == SizeOf(Info(c, f).fd)

\* new_offset after so many of the fields fs, and heap_size after all of them.
NewOffset(fs) ==
    LET after[i \in 0..Len(fs)] == IF i = 0 THEN 0 ELSE after[i - 1] + SizeOf(fs[i].fd)
    IN  after
TotalSize(fs) == NewOffset(fs)[Len(fs)]

\* field_map[f].offset: the fields of every class are laid out from 0.
Offset == [c \in Classes |-> [f \in Own(c) |-> NewOffset(Fields(c))[Position(c, f) - 1]]]

\* c and its superclasses, and full_heap_size.
Chain[c \in Classes] == {c} \cup (IF c = Object THEN {} ELSE Chain[Super(c)])
FullSize[c \in Classes] ==
    TotalSize(Fields(c)) + (IF c = Object THEN 0 ELSE FullSize[Super(c)])

\* The instance variables of an object of a class.
Slots ==
    [c \in Classes |->
        UNION {{<<d, f>> : f \in {g \in Own(d) : ~Info(d, g).static}} : d \in Chain[c]}]

\* The fields javac resolves in a class, and the class that declares each: the
\* nearest one from the class up.
Named == [d \in Classes |-> UNION {Own(c) : c \in Chain[d]}]
Declaring ==
    [d \in Classes |-> [f \in Named[d] |->
        LET up[c \in Classes] == IF f \in Own(c) \/ c = Object THEN c ELSE up[Super(c)] IN up[d]]]

\* Of the fields a class is named with, the instance variables.
Instance == [d \in Classes |-> {f \in Named[d] : ~Info(Declaring[d][f], f).static}]

\* A store of a usize to the field d.f of an object of class c reaches another
\* of its variables: one of a class of another level, or the next one.
Disturbs(c, d, f) ==
    \E s \in Slots[c] \ {<<d, f>>} :
        /\ Offset[s[1]][s[2]] < Offset[d][f] + 8
        /\ Offset[d][f] < Offset[s[1]][s[2]] + Width(s[1], s[2])

\* java/lang/String: its characters are an array, and lie over no variable of
\* a superclass.
ASSUME TextAssumption ==
    /\ Chars \in Own(Text) /\ Info(Text, Chars).fd.dims > 0 /\ ~Info(Text, Chars).static
    /\ ~Disturbs(Text, Text, Chars)

-----------------------------------------------------------------------------
(***************************************************************************)
(* Memory.                                                                 *)
(***************************************************************************)

Block(of, size, length) ==
    [of |-> of, size |-> size, length |-> length, freed |-> <<>>, bytes |-> [i \in 0..size - 1 |-> <<>>]]

Inside(b, off, width) == off >= 0 /\ off + width <= b.size
Written(b, off, width, v) ==
    [b EXCEPT !.bytes = [i \in DOMAIN @ |-> IF i \in off..off + width - 1 THEN <<v, i - off>> ELSE @[i]]]
Read(b, off, width) ==
    LET first == b.bytes[off]
    IN  IF first # <<>> /\ \A i \in 0..width - 1 : b.bytes[off + i] = <<first[1], i>>
        THEN first[1] ELSE Junk

\* Faulty variant: an index into the body in bytes.
ElementInBytes(i) == i
\* Where the i-th char of a body is.
Element(i) == 2 * i

\* A byte, a bool, a short or a char is read back without its sign.
Unsigned(fd, v) ==
    IF v = Junk \/ fd.dims > 0 THEN v
    ELSE IF fd.elem \in {"B", "Z"} THEN v % 256
    ELSE IF fd.elem \in {"S", "C"} THEN v % 65536
    ELSE v

LoadedChar(b, i) == Unsigned(Field(0, "C", <<>>), Read(b, Element(i), 2))

\* The arrays a program has pointers to.
AllArrays == {b \in DOMAIN blocks : blocks[b].of \in {"chars", "array"} /\ blocks[b].size <= MaxSize}
CharArrays == {b \in AllArrays : blocks[b].of = "chars"}

Init ==
    /\ blocks = <<>> /\ objects = <<>> /\ arrays = {} /\ statics = [k \in {} |-> 0]
    /\ status = "running" /\ answer = <<>> /\ odd = FALSE /\ steps = 0

\* The next operation of the program; `dev` says that it deviates from Java.
Operation(dev) ==
    status = "running" /\ ~odd /\ steps < Fuel /\ steps' = steps + 1 /\ odd' = dev
Returns(xs) == status' = status /\ answer' = xs
\* step returns Err, panics, or goes on with memory it does not own.
Ends(how) == status' = how /\ answer' = <<>>
Tables == <<objects, arrays, statics>>
Stay == UNCHANGED <<blocks, Tables>>

\* The slab takes the reference null for the key 0.
Key(ref) == IF ref = NoRef THEN 0 ELSE ref
Refs == {NoRef} \cup 0..Len(objects) - 1
Known(ref) == Key(ref) < Len(objects) /\ objects[Key(ref) + 1].live
At(ref) == objects[Key(ref) + 1]
\* What javac lets a reference to a d be.
Typed(ref, d) == ref = NoRef \/ d \in Chain[At(ref).class]

IsReference(fd) == fd.dims > 0 \/ fd.elem = "L"
\* A long or a double, of which a constant is two operands: a 0 below its value.
TwoOperands(fd) == fd.dims = 0 /\ fd.elem \in {"J", "D"}
\* What a program stores in a field: null is the usize 0.
Storable(fd) ==
    (IF fd.dims > 0 THEN CharArrays ELSE Values) \cup (IF IsReference(fd) THEN {NoRef} ELSE {})

-----------------------------------------------------------------------------
(***************************************************************************)
(* Objects and their fields.                                               *)
(***************************************************************************)

\* Faulty variant: an object is as large as the fields of its own class.
AllocateOwn(c) == Block("object", TotalSize(Fields(c)), 0)
\* allocate_class
AllocateClass(c) == Block("object", FullSize[c], 0)

\* new: create_object; an object the slab has no room for is not freed.
New ==
    \E c \in Classes :
        /\ Operation(Len(objects) = Capacity)
        /\ blocks' = Append(blocks, AllocateClass(c))
        /\ IF Len(objects) < Capacity
           THEN /\ objects' = Append(objects, [class |-> c, ptr |-> Len(blocks) + 1, live |-> TRUE])
                /\ Returns(<<Len(objects)>>)
           ELSE objects' = objects /\ Ends("error")
        /\ UNCHANGED <<arrays, statics>>

\* destroy_object, which no instruction calls: the block is not given back.
DestroyObject ==
    \E k \in DOMAIN objects :
        /\ Operation(TRUE) /\ objects[k].live
        /\ objects' = [objects EXCEPT ![k].live = FALSE]
        /\ Returns(<<>>) /\ UNCHANGED <<blocks, arrays, statics>>

\* putfield: the offset is that of the named class, which must have the field
\* itself, and a whole usize is stored whatever the field's type.  One operand
\* is popped for the value: what is below the value of a long is taken for the
\* reference, and a pushed constant has a 0 there.
PutField ==
    \E ref \in Refs, d \in Classes : \E f \in Instance[d] :
        LET fd == Info(Declaring[d][f], f).fd
            receivers == IF TwoOperands(fd) THEN {ref, 0} ELSE {ref}
        IN  /\ ref # NoRef => Typed(ref, d)
            /\ \E to \in receivers, v \in Storable(fd) :
                LET b == At(to).ptr
                    here == Known(to) /\ f \in Own(d)
                    fits == Inside(blocks[b], Offset[d][f], 8)
                IN  /\ Operation(\/ ref = NoRef \/ v = NoRef \/ TwoOperands(fd)
                                 \/ ~here \/ ~fits \/ Disturbs(At(to).class, d, f))
                    /\ IF ~here THEN Ends("panic") /\ Stay
                       ELSE IF ~fits THEN Ends("wild") /\ Stay
                       ELSE /\ blocks' = [blocks EXCEPT ![b] = Written(@, Offset[d][f], 8, Key(v))]
                            /\ Returns(<<>>) /\ UNCHANGED Tables

\* getfield: the field is looked up in the class of the object; only
\* references can be read, and none to an array.
GetField ==
    \E ref \in Refs, d \in Classes : \E f \in Instance[d] :
        LET c  == At(ref).class
            fd == Info(Declaring[d][f], f).fd
            v  == Read(blocks[At(ref).ptr], Offset[c][f], 8)
            known == Known(ref) /\ f \in Own(c)
            isRef == IsReference(Info(c, f).fd)
        IN  /\ ref # NoRef => Typed(ref, d)
            /\ Operation(ref = NoRef \/ Declaring[d][f] # c \/ ~isRef \/ fd.dims > 0 \/ v = Junk)
            /\ IF ~known \/ ~isRef THEN Ends("error")
               ELSE IF fd.dims > 0 THEN Ends("panic")
               ELSE Returns(<<v>>)
            /\ Stay

-----------------------------------------------------------------------------
(***************************************************************************)
(* Static variables, by the class the instruction names.                   *)
(***************************************************************************)

StaticRefs == UNION {{<<d, f>> : f \in {g \in Named[d] : Info(Declaring[d][g], g).static}} : d \in Classes}
Elsewhere(r) == Declaring[r[1]][r[2]] # r[1]
StaticFd(r) == Info(Declaring[r[1]][r[2]], r[2]).fd

\* One operand, for a long too.
PutStatic ==
    \E r \in StaticRefs : \E v \in Storable(StaticFd(r)) :
        LET size == SizeOf(StaticFd(r))
            b == IF r \in DOMAIN statics THEN statics[r] ELSE Len(blocks) + 1
        IN  /\ Operation(Elsewhere(r) \/ v = NoRef \/ TwoOperands(StaticFd(r)))
            /\ blocks' = IF r \in DOMAIN statics
                         THEN [blocks EXCEPT ![b] = Written(@, 0, size, Key(v))]
                         ELSE Append(blocks, Written(Block("static", size, 0), 0, size, Key(v)))
            /\ statics' = [k \in DOMAIN statics \cup {r} |-> IF k = r THEN b ELSE statics[k]]
            /\ Returns(<<>>) /\ UNCHANGED <<objects, arrays>>

\* One operand again.  A static nobody assigned is the null reference, whatever
\* its type.
GetStatic ==
    \E r \in StaticRefs :
        LET v == Read(blocks[statics[r]], 0, SizeOf(StaticFd(r)))
            set == r \in DOMAIN statics
        IN  /\ Operation(\/ Elsewhere(r) \/ TwoOperands(StaticFd(r))
                         \/ IF set THEN Unsigned(StaticFd(r), v) # v ELSE ~IsReference(StaticFd(r)))
            /\ Returns(IF set THEN <<Unsigned(StaticFd(r), v)>> ELSE <<>>)
            /\ Stay

-----------------------------------------------------------------------------
(***************************************************************************)
(* Arrays.  The pointer to an array is its block.                          *)
(***************************************************************************)

\* The bytes of an element for the atypes of newarray, T_BOOLEAN to T_LONG.
ElementSize == [t \in 4..11 |-> IF t = 5 THEN 2 ELSE IF t \in {7, 11} THEN 8 ELSE 4]

\* allocate_array registers the block, unless the slab is full.
Registered(b) == IF Cardinality(arrays) < Capacity THEN arrays \cup {b} ELSE arrays

\* A length that is negative or whose bytes do not fit a u32 is a panic.
NewArray ==
    \E t \in 4..11, n \in Lengths :
        LET size == ElementSize[t] * n
            b == Len(blocks) + 1
        IN  /\ Operation(n < 0 \/ size > MaxSize)
            /\ IF n < 0 THEN Ends("panic") /\ Stay
               ELSE /\ blocks' = Append(blocks, Block(IF t = 5 THEN "chars" ELSE "array", size, n))
                    /\ UNCHANGED <<objects, statics>>
                    /\ IF size > MaxSize THEN Ends("panic") /\ arrays' = arrays
                       ELSE Returns(<<b>>) /\ arrays' = Registered(b)

\* castore: the index is compared with the size of the body in bytes.
CharStore ==
    \E a \in CharArrays, i \in -1..2 * MaxSize, v \in Values :
        LET b == blocks[a]
        IN  /\ i <= b.size
            /\ Operation(i \notin 0..b.length - 1)
            /\ IF i < 0 \/ i >= b.size THEN Ends("panic") /\ Stay
               ELSE IF ~Inside(b, Element(i), 2) THEN Ends("stray") /\ Stay
               ELSE /\ blocks' = [blocks EXCEPT ![a] = Written(@, Element(i), 2, v)]
                    /\ Returns(<<>>) /\ UNCHANGED Tables

\* caload: no upper bound.
CharLoad ==
    \E a \in CharArrays, i \in -1..2 * MaxSize :
        LET b == blocks[a]
        IN  /\ i <= b.size
            /\ Operation(i \notin 0..b.length - 1 \/ LoadedChar(b, i) = Junk)
            /\ IF i < 0 THEN Ends("panic")
               ELSE IF ~Inside(b, Element(i), 2) THEN Ends("wild")
               ELSE Returns(<<LoadedChar(b, i)>>)
            /\ Stay

ArrayLength ==
    \/ \E a \in AllArrays : Operation(FALSE) /\ Returns(<<blocks[a].length>>) /\ Stay
    \/ Operation(TRUE) /\ Ends("panic") /\ Stay     \* of null

\* faload and daload take the index for the pointer; aaload knows none of the
\* arrays newarray makes; castore and caload follow the null pointer.
OtherLoad == \E how \in {"wild", "panic"} : Operation(TRUE) /\ Ends(how) /\ Stay

-----------------------------------------------------------------------------
(***************************************************************************)
(* Strings, and the end of the heap.                                       *)
(***************************************************************************)

\* create_string for a literal that is not in the pool (see StringPool): an
\* object, the array of its characters, and the field that refers to it.
CreateString ==
    \E text \in Literals :
        LET n == Len(text)
            ptr == Len(blocks) + 2
            body == [Block("chars", 2 * n, n) EXCEPT
                        !.bytes = [p \in DOMAIN @ |-> <<text[p \div 2 + 1], p % 2>>]]
        IN  /\ Operation(Len(objects) = Capacity)
            /\ statics' = statics
            /\ IF Len(objects) = Capacity
               THEN blocks' = Append(blocks, AllocateClass(Text)) /\ Ends("error") /\ UNCHANGED <<objects, arrays>>
               ELSE /\ blocks' = blocks \o
                        <<Written(AllocateClass(Text), Offset[Text][Chars], 8, ptr), body>>
                    /\ objects' = Append(objects, [class |-> Text, ptr |-> ptr - 1, live |-> TRUE])
                    /\ arrays' = Registered(ptr)
                    /\ Returns(<<Len(objects)>>)

\* The text of a string object: JString into String.
TextAt(k) ==
    LET b == blocks[Read(blocks[objects[k].ptr], Offset[Text][Chars], 8)]
    IN  [i \in 1..b.size \div 2 |-> LoadedChar(b, i - 1)]

\* Main.print_string; a String made by new has no characters to follow.
PrintString ==
    \E k \in DOMAIN objects :
        LET made == Read(blocks[objects[k].ptr], Offset[Text][Chars], 8) \in CharArrays
        IN  /\ objects[k].class = Text /\ Operation(~made)
            /\ IF made THEN Returns(TextAt(k)) ELSE Ends("wild")
            /\ Stay

Header == 32
\* Faulty variant: an array is given back with the size of its body.
FullArrayBody(b) == b.size
\* ArrayHeader.full_size
FullArray(b) == b.size + Header

\* Drop for Heap: the arrays and the objects in the slabs; no static.
Drop ==
    LET ptrs == {objects[k].ptr : k \in {j \in DOMAIN objects : objects[j].live}}
        class(p) == objects[CHOOSE k \in DOMAIN objects : objects[k].ptr = p].class
    IN  /\ status \notin {"wild", "stray", "dropped"}
        /\ status' = "dropped"
        /\ blocks' = [b \in DOMAIN blocks |->
               IF b \in arrays THEN [blocks[b] EXCEPT !.freed = Append(@, FullArray(blocks[b]))]
               ELSE IF b \in ptrs THEN [blocks[b] EXCEPT !.freed = Append(@, FullSize[class(b)])]
               ELSE blocks[b]]
        /\ odd' = TRUE /\ UNCHANGED <<objects, arrays, statics, answer, steps>>

Next ==
    \/ New \/ DestroyObject \/ PutField \/ GetField \/ PutStatic \/ GetStatic
    \/ NewArray \/ CharStore \/ CharLoad \/ ArrayLength \/ OtherLoad
    \/ CreateString \/ PrintString \/ Drop

Spec == Init /\ [][Next]_vars

-----------------------------------------------------------------------------
(***************************************************************************)
(* Properties.                                                             *)
(***************************************************************************)

ObjectsPlaced ==
    \A k \in DOMAIN objects :
        LET b == blocks[objects[k].ptr]
        IN  /\ b.of = "object" /\ b.size = FullSize[objects[k].class]
            /\ \A s \in Slots[objects[k].class] : Inside(b, Offset[s[1]][s[2]], Width(s[1], s[2]))
            /\ \A j \in DOMAIN objects : objects[j].ptr = objects[k].ptr => j = k
StaticsPlaced ==
    \A r \in DOMAIN statics :
        /\ blocks[statics[r]].of = "static" /\ blocks[statics[r]].size = SizeOf(StaticFd(r))
        /\ \A q \in DOMAIN statics : statics[q] = statics[r] => q = r

\* Types: what the tables refer to are blocks of their kind and size, and no
\* two entries share a block.
HeapTypeOK ==
    /\ status \in {"running", "error", "panic", "wild", "stray", "dropped"}
    /\ ObjectsPlaced /\ StaticsPlaced /\ arrays \subseteq AllArrays

\* What the bytes of the heap hold: the variables of each object, the statics
\* that were assigned, the elements of each array.
Contents(k) ==
    [class |-> objects[k].class,
     at |-> [s \in Slots[objects[k].class] |->
               Read(blocks[objects[k].ptr], Offset[s[1]][s[2]], Width(s[1], s[2]))]]
FieldValues  == [k \in DOMAIN objects |-> Contents(k)]
StaticValues == [r \in DOMAIN statics |-> Read(blocks[statics[r]], 0, SizeOf(StaticFd(r)))]
ArrayValues  ==
    [a \in AllArrays |-> [i \in 1..blocks[a].length |->
        IF a \in CharArrays THEN LoadedChar(blocks[a], i - 1) ELSE Junk]]

\* As long as a program does nothing on which the code is known to deviate
\* from Java, the bytes of the heap are objects, statics, arrays and strings
\* that are apart from each other, and a read returns what was written last.
Store == INSTANCE ObjectStore WITH
    CharsSlot <- <<Text, Chars>>,
    Pointers  <- 1..2 * Fuel,
    Statics   <- {r \in StaticRefs : ~Elsewhere(r)},
    fields    <- FieldValues,
    statics   <- StaticValues,
    elems     <- ArrayValues,
    wild      <- odd
ImplementsStore == Store!Spec

\* When the heap is dropped, every object and array it has in its slabs is
\* given back once with the size it was allocated with, and nothing else is;
\* every array, a literal's characters too, is in the slab unless that is full.
ReleasedAsAllocated ==
    /\ \A b \in DOMAIN blocks : blocks[b].freed # <<>> =>
        blocks[b].freed = <<blocks[b].size + (IF blocks[b].of = "object" THEN 0 ELSE Header)>>
    /\ status = "dropped" =>
        {b \in DOMAIN blocks : blocks[b].freed # <<>>} =
            arrays \cup {objects[k].ptr : k \in {j \in DOMAIN objects : objects[j].live}}
    /\ Cardinality(arrays) < Capacity => AllArrays \subseteq arrays

-----------------------------------------------------------------------------
(***************************************************************************)
(* The inductive strengthening.                                            *)
(***************************************************************************)

\* A block is as large as its bytes are many, and the body of a char array
\* holds two of them for each char.
BlockOK(b) ==
    /\ b \in [of : {"object", "static", "chars", "array"}, size : Nat, length : Nat,
              freed : {b.freed}, bytes : {b.bytes}]
    /\ b.bytes = [i \in 0..b.size - 1 |-> b.bytes[i]]
    /\ b.of = "chars" => b.size = 2 * b.length

\* The tables refer to blocks there are, and an operation adds two at most.
Shaped ==
    /\ blocks \in Seq(ToSet(blocks)) /\ \A b \in DOMAIN blocks : BlockOK(blocks[b])
    /\ objects \in Seq([class : Classes, ptr : DOMAIN blocks, live : BOOLEAN])
    /\ DOMAIN statics \subseteq StaticRefs /\ \A r \in DOMAIN statics : statics[r] \in DOMAIN blocks
    /\ steps \in 0..Fuel /\ Len(blocks) <= 2 * steps
\* The slab of objects holds no more than it has room for.
WithinCapacity == Len(objects) <= Capacity
\* A program that deviated nowhere still has every object it made.
NoneDestroyed == ~odd => \A k \in DOMAIN objects : objects[k].live

\* Nothing is given back before the heap is dropped.
Unreleased == status # "dropped" => \A b \in DOMAIN blocks : blocks[b].freed = <<>>

-----------------------------------------------------------------------------
(***************************************************************************)
(* What the code says of itself and does not keep.                         *)
(***************************************************************************)

\* thread.rs:516: "Array access out of bounds".  A castore past the end of an
\* array panics and does not write.
StoresInBounds == status # "stray"

=============================================================================
