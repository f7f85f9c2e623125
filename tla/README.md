# A verification project for jvm-old

This directory holds TLA+ modules that model the core of the virtual machine in
`src/jvm`, TLC configurations that check them on small instances, and proofs
that TLAPS checks for every instance. Lines are quoted as `file:line`, with
`loader.rs` for `src/jvm/src/linker/loader.rs`, and `thread.rs`, `lib.rs`,
`heap.rs`, `class.rs` for the files of those names in `src/jvm/src`.

## 1. The system

`jvm` is an interpreter for Java 7 class files. A program makes a
`VirtualMachine` with a `ClassProvider`, calls `spawn_thread` for each Java
thread, and runs each `RuntimeThread` by calling `step` in a loop, one operating
system thread per Java thread (`run_vm`, `src/jvm_test/src/main.rs:145`).

| Component | State | Operations | Meets |
|---|---|---|---|
| Class loader (`loader.rs`) | `class_map`: classpath to `Loading` or `Loaded(class)` | `load_and_link_class`, `handle_class_report`, `get_class` | `ClassProvider`; every thread, through one `RwLock` |
| Method resolution and casts (`loader.rs:211-347`) | none, reads `class_map` | `recurse_is_superclass`, `recurse_resolve_overridding_method`, `recurse_resolve_supermethod_special`, `check_cast` | invoke instructions, `checkcast` |
| Class files (`loader.rs:376`, `class.rs`) | none | `deserialize_class`, constant pool, attributes, `ClassBuilder` | class loader |
| Threads (`thread.rs`) | `frame_stack` of `Frame` (`pc`, `op_stack`, `local_vars`) | `step`, `lazy_class_resolve!`, `init_static!`, `create_frame` | class loader, heap |
| `spawn_thread` (`lib.rs:44`) | `threads` | loads the main class, allocates the arguments, pushes the frames | class loader (write lock throughout), heap |
| Heap (`heap.rs`) | `strings`, `static_field_map` (each in a `RwLock`), slabs `objects` and `arrays` | `create_string`, `create_object`, `put_field`, `allocate_array`, `put_static`, `get_static`, `Drop` | threads, `spawn_thread` |
| Descriptors (`class.rs:413-573`) | none | `FieldDescriptor::parse`, `MethodDescriptor::parse` | class files, invoke and field instructions |
| Bytecode codec (`lib.rs:373-1073`) | none | `from_bytes_with_indices`, `bytecode_to_bytes`, `size_of` | class files, `ClassBuilder` |
| `jvm_test` | the classes of `src/jvm_test/java` | `create_vm`, `run_vm`, a stepper for the terminal | everything, through `VirtualMachine` |
| `wasm` | empty | | |

What is hard about it:

* **Re-entrancy.** `load_and_link_class` calls itself for the superclass and for
  every field type, over a map it changes on the way. The class files may refer
  to each other in any way, and every level can fail or panic.
* **Reports.** What a request has loaded travels back in a report, and the
  caller's duty to run `<clinit>` with it. A report that is lost or repeated
  shows only in a program's behaviour much later.
* **Threads.** An instruction first reads the class loader, then perhaps writes
  it, and between the two others run. Initialisers are frames on the stack of
  one thread while the class is visible to all.
* **Two locks.** `ldc` and `spawn_thread` hold a lock of the class loader while
  they wait for that of the string table.
* **Partial failure.** The operator `?` leaves at many places; entries, reports
  and objects made before it stay behind.
* **Sequential data.** Field offsets, branches, parameters and descriptors are
  each a few lines, and wrong in ways no test of the repository would notice.

What makes each component correct:

* class loader: a class is usable only on top of a usable, finished superclass;
  usable stays usable; a report is exact; a request ends;
* initialisation: no initialiser runs twice, none is forgotten but where a report
  is known to be lost, a retried instruction finds its initialisers done, and no
  body is skipped or repeated;
* spawning: the lock is released on every path, and the threads it delays get on;
* strings: one string, one reference, for ever; no half-made object in the table;
* heap: fields of an object do not overlap; an access stays in its object; what
  is freed is what was allocated;
* class files: a class that is handed out is the one that was written, whatever
  was cut off the file; its fields do not share bytes;
* interpreter: a frame's operand stack and locals are those of the Java virtual
  machine's definition; methods are resolved to what Java says;
* descriptors and codec: parsing inverts printing; decoder, encoder and size agree.

The hazards behind these, each at its line, are listed in `PROJECT.json`.

## 2. Modules

```
LoaderContract   what the rest may assume of the class loader
     ^ implements
ClassLoader      load_and_link_class, one action per stretch between recursive calls
     ^ EXTENDS                          ^ EXTENDS
ClassInit        threads, <clinit>,     ClassLoaderProofs   theorems
     ^           spawn_thread             ^
     +---------- ClassInitProofs ---------+                 theorems
InternTable      what a Java program sees of string literals
     ^ implements
StringPool       ldc, create_string, spawn_thread's arguments   -> RwLock (twice)
     ^ EXTENDS
StringPoolProofs theorems
Descriptor       parsing and printing of descriptors     Bytecode  the codec
     ^ EXTENDS                                                ^ INSTANCE
ClassReader      deserialize_class and the from_bytes functions
     ^ EXTENDS (with Recursion)
ClassReaderProofs  theorems: layout, types, and that codec and descriptors read back
     ^ EXTENDS
     |           ClassFile   the class file format of JVMS 7, chapter 4, and what the
     |              ^        reader has to make of it    (EXTENDS ClassReader)
ClassFileProofs ----+        theorems: a file laid out so is read back
Dispatch         the walks over a hierarchy, and what JVMS 7 selects
     ^ EXTENDS (with Descriptor)
Interp           step on frames, operand stacks and locals, beside JVMS 7's machine
     ^ EXTENDS (with Recursion)
InterpProofs     theorems
ObjectStore      what a program may rely on of objects, statics, arrays, strings
     ^ implements
Heap             the same down to the bytes of its blocks   (EXTENDS Descriptor)
     ^ EXTENDS (with Recursion: induction and recursion over levels)
HeapProofs       theorems: layout, blocks, tables, and that Heap implements ObjectStore
MCClassLoader, MCClassInit, MCStringPool, MCClassReader, MCInterp, MCHeap:
                 the instances TLC checks
```

Definitions named "faulty variant" are plausible slips of the code next to the
definition they replace. They are in no specification; each property is checked
to be violated when one of them takes the place of its original.

### ClassLoader

`class_map` is `classMap`, from classpaths to `Absent`, `Loading` and `Loaded`
(the other variants of `ClassLoadState` are matched in the code and never
inserted). The recursion is the variable `calls`, a stack of activations with
the class, the place in the method and the report collected so far; `result` is
what the innermost call returned. `classFile` is the provider, any function that
`Init` may choose; `baseline` is history.

| Action | Code |
|---|---|
| `Request(c)` | a call from outside, up to its first recursive call or return |
| `AlreadyLoaded`, `StillLoading`, `NotProvided`, `Fetched` | the outcomes of `loader.rs:132-166`; `Fetched` marks the entry before it parses |
| `LoadSuper` | `loader.rs:171-172` |
| `HandleReport`, `Propagate` | `loader.rs:113-128`, with the `?` behind it |
| `Link`, `LinkPanics` | `loader.rs:175-185`: the superclass is unwrapped, the class published |
| `LoadField` | `loader.rs:187-200`, in any order (`field_map` is a `HashMap`) |
| `Finish` | `loader.rs:202-208` |

Abstractions. A class file is its outcome (`missing`, `malformed`, `fatal`,
`wellformed`), superclass, set of field types and size. `this_class` is taken to
be the classpath that was asked for, as it is with any provider that finds files
by their names. `just_loaded` is left out: nothing reads it.

### ClassInit

A composition: `ClassLoader`'s variables with the threads around it. `owner`
holds the write lock of the class loader; `frames[t]` is `frame_stack`; `step[t]`
is the place of thread `t` inside `RuntimeThread::step`, cut where other threads
can run: `Resolve` (fetch, and `get_class` under the read lock), `ResolveWrite`
(write lock, then the steps of `ClassLoader` as `Loads`), `NothingToInitialize`,
`InitStatic` or `LoadFails` (what `init_static!` and `?` make of the report), then
`Body` or `BodyFails`. `PopFrame` is the end of a method's code. `Spawn` and the
actions after it are `spawn_thread`, which holds the write lock from its first
line to its last. The history variables count the `<clinit>` frames of each class
(`created`), and hold the classes initialised (`done`) and those whose report
was dropped (`dropped`).

A method is the sequence of its instructions that name a class; `invokestatic`
also pushes a frame. The other instructions touch neither the class loader nor
the frame stack and are left out; a branch is not modelled (no branch of this
machine is ever taken, `thread.rs:582`), nor is the data a body works on. The
read lock of `get_class` is one step, since nothing happens under it. A thread
whose `step` returns an error or panics is `dead`, as in `run_vm`. A thread may
start before a later `spawn_thread` is called, as the `Arc` it returns allows;
`jvm_test` spawns first, which is one of the behaviours.

### StringPool

Two instances of `RwLock` (parking_lot, external: a writer announces itself,
which keeps new readers out, then waits for the readers to leave). `task[a]` is
the place, string and reference of an agent. `Ldc` to `Insert` are
`thread.rs:255-287`; `CreateLock` to `NoCharsField` are `create_string`
(`heap.rs:43-58`), run by a thread that reads the class loader or by the spawner
that writes it; `Resolve` to `Spawned` are the writers of the class loader. Of
the class loader only the entry of `java/lang/String` is kept, which any request
may load, leave `Loading` or not find. The slab takes `Capacity` objects.

### ClassReader, Descriptor, Bytecode, ClassFile

A class file is a sequence of items, each of a width in bytes and a value, which
is a number, a text or the bytes of a method. The cursor is `rest`; the loops of `deserialize_class` and of the functions it calls
are `table` and `left` (the table being read, the entries left) and `inner` (the
attributes left of a member, and of the Code attribute inside it). Each action is
one run of reads between two choices: `ReadHeader`, `ReadConstant`, `ReadNames`,
`ReadInterface`, `ReadCount`, `ReadMember`, the three kinds of attributes, and the
ends of a Code attribute, a field, a method and the file, where the class is
filled in. `Expected` holds the widths the code reads next. When the next item is
of another width or kind the reader has lost its place (`garbled`), and nothing
is said of it from there on; when the file has ended it fails as the code does, which is
an error, a panic where the code unwraps, and neither inside a method's code,
where the result of `read_exact` is ignored (`FailRead`).

`Descriptor` has `FieldDescriptor` and `MethodDescriptor` over sequences of
characters, with every error and panic of the parsers. `Bytecode` decodes a
sequence of bytes as `from_bytes_with_indices` does, encodes as
`bytecode_to_bytes` does, and has `size_of`; an instruction is the first opcode
of its variant, the constant of a variant `_n`, and the operand bytes. Both are
pure.

`ClassFile` is the other side: chapter 4 of JVMS 7 as a relation, `ClassFile(cf)`,
between the items of a file and the structure they stand for: the constants, the
interfaces, the fields and methods with their descriptors' types, their attributes
and the instructions of their code, with the place of each. A file in `Files` is a
record: `items`, what the reader gets; `written`, whether it is the front of a
laid-out file or all of it; and `src`, the structure it was written from.
The properties compare `src` with the class that was read. Nothing in `ClassReader`
reads `written` or `src`. `WrittenAssumption` says what `written` means, of `Files`,
which is an input; `MCClassReader`, which writes the files of the runs, is checked
against it when TLC starts. Excluded are a long or double constant, which the reader
does not read as the format has it (section 6), and, of the code of a method,
the instructions that are decoded to something else than they are (`Misread`).

### Dispatch and Interp

`Dispatch` has one recursive function for each walk of the loader, and one for
what JVMS 7 says in its place (5.4.5, 6.5). A hierarchy is loaded and finite; a
method's access is all that is kept of it, and `ACC_SUPER` is taken to be set, as
every compiler since Java 1.0.2 does.

`Interp` runs one thread. `frames` is `frame_stack` with `op_stack` and
`local_vars`; `java` is the frame stack of the machine JVMS 7 defines, on which
the same instruction is carried out as the definition says, with a long or
double as one value where `step` has two operands. There is no code: a frame
fetches any instruction the verifier would accept in its state, since `step`
takes no branch and an instruction is fetched once, but for one that
`init_static!` puts off: a call, `new`, `checkcast`, `getstatic`, `putstatic` or
`putfield`. That one is kept in `parked`, with the operands and
locals it was put off with, and is taken again when the `<clinit>` frames above it
are gone. Of a field or a static `Interp` knows what kind of value it holds
(`Kind`), so the instructions on them push and pop as in the code; what they read
and write is in `Heap`.

The code departs from Java in many single instructions. An instruction on which
it is known to do so sets `odd`, for that choice of operands only, and the run
ends there: behind it the two machines hold different data and agree on nothing.
The condition is in the action, next to what the code does, and this is the list
of them: branches that are taken, `goto`, a `return` before the end, `pop2`,
`ladd` and `lstore` of a long, `iinc` by another number than its variable's, two
arguments of a static or virtual call, a long, char or null argument, a call on
null, a call that names a class the method is inherited by, a virtual method its
class or superclass does not declare, or that is hidden from the object's class
because it is of another package, a super call whose direct superclass has
the method, `checkcast` of null or to another class, `bipush` from 128 on,
`dconst`, `ldc` of a class, `ldc` of a float that is not a natural number or is too
large for a usize (the cast of `thread.rs:254` cuts it off), `getstatic`,
`putstatic` and `putfield` of a long or double, `getstatic` of a number that has
not been set or of a static the named class inherits, `putstatic` and `putfield`
of null, `putfield` on null or of a field the named class inherits, `get_time`, and
opcodes without an arm. What else a field, a static or an array does to its
contents is on the list of `Heap`, below. On everything that is on neither list,
with everything it calls, the two machines must agree.

### Heap

`blocks` are all blocks ever allocated, byte by byte; `objects` and `arrays` are
the slabs, `statics` is `static_field_map`. The value `v` in four bytes is `v`
with the positions 0 to 3, so that a read of bytes that were not written together
is seen (`Junk`). `New`, `PutField`, `GetField`, `PutStatic`, `GetStatic`,
`NewArray`, `CharStore`, `CharLoad`, `ArrayLength` are the instructions with the
functions of `heap.rs` they call; `OtherLoad` stands for `faload`, `daload` and
`aaload`, none of which works on an array `newarray` makes; `CreateString` and
`PrintString` are the sequential counterpart of `StringPool`; `DestroyObject` and
`Drop` are those of `Heap`. `Fields(c)` are in the order in which the fields are
read, and `NewOffset(Fields(c))` is `new_offset` after so many of them. An offset is that of the class the instruction names,
and starts at 0 in every class. `wild` is a read or
write outside of the block, `stray` the one of `castore`; no memory outside a
block is modelled.

`odd` is used as in `Interp`, and these are the operations that set it:

* those on a full slab of objects, and `destroy_object`, which no instruction calls;
* `putfield` and `getfield` on null, of a field that the named class, or for
  `getfield` the object's class, does not declare itself, and `putfield` where
  the usize that is stored reaches another variable (`Disturbs`) or beyond the
  block;
* `putfield`, `putstatic` and `getstatic` of a long or double. A constant of these
  types is two operands, a 0 below the value (`thread.rs:218-233`); `putfield`
  takes the 0 for the object and writes object 0 (`thread.rs:914-915`),
  `putstatic` takes one of the two (`thread.rs:789`), `getstatic` pushes one
  (`thread.rs:677-724`);
* `putfield` and `putstatic` of null, which is stored as the usize 0 and read back
  as a reference to the object with the key 0;
* `getfield` of anything but a reference to an object, and of one that was not
  written as a whole;
* `putstatic` and `getstatic` of a static the named class inherits, `getstatic` of a
  number nobody set, and of a negative byte or short, which is read without its
  sign;
* `newarray` with a negative length or more bytes than a u32 counts; `castore` and
  `caload` with an index outside of the array, or of an element that was not
  written; `arraylength` of null; `faload`, `daload` and `aaload`;
* `print_string` of a string without characters.

So that these are met, `MCHeap` has a long field and a long static, an int field
before a reference, a static array, a subclass, and stores of null.

### Abstract specifications

`ObjectStore` has a variable for every field, static and element, which a write
changes and a read returns, with nothing in between; after an operation on which
the code is known to deviate it promises nothing (`wild`). `Heap` is checked and
proved to implement it (`ImplementsStore`), with the fields read out of the bytes.

`LoaderContract` serves one request at a time, links a class after its
superclass, never unlinks it, and answers with what was linked since the request
came in. `InternTable` picks a fresh object at a string's first use and gives it
to every use. `ClassLoader` and `StringPool` are checked and proved to implement
them (`ImplementsContract`, `ImplementsInternTable`).

## 3. What the runs check

| Run | Instance | Shows |
|---|---|---|
| `loader` | `Object` and two more classes, every provider of them: self-superclasses, cycles through superclasses and fields, absent, malformed and fatal files (206 865 states) | the class loader's invariants, that linked is for ever, that requests end, and the contract |
| `class_init` | threads with shared classes as in `jvm_test`, a third `spawn_thread` that names no method, providers that break or entangle `Test` and `String` (34 265 states) | initialisers run at most once, none is forgotten, retries find them done, no lock is kept |
| `string_pool` | two threads and the spawner, two strings, two slots, up to two arguments, a String class that is missing, malformed, without `chars` or sound (71 188 states) | interning, no half-made string, what a creator carries across its unlocked stretches still true at use (`CreatorsKnow`), both locks released, every operation ends, the table |
| `legal_hierarchy` | four classes, each with at most one field, legal inheritance only | violated: loading a legal hierarchy panics (section 6) |
| `stale_loading` | as `loader` | violated: `Loading` outlives the load |
| `init_before_use` | two threads on sound class files, as in `jvm_test` | violated: a body runs on a class whose initialiser has not started |
| `class_file` | classes with two fields of every pair of types, methods of every signature of up to two parameters of five types, every opcode with its operands, and a class with some of everything; each file whole, and the last one cut after every item, within a method's code, or with one of its numbers replaced (20 638 states) | what is read is what was written, fields are disjoint, descriptors parse to what they were printed from, the decoder stays in step, encoder and sizes agree where they are meant to |
| `interp` | programs of four or five instructions on six hierarchies of six classes, with up to three frames, statics and fields of an int, a long and a class, and floats that a usize can hold and that it cannot, and the walks on every legal chain of three classes that declare one method or not, openly or not, in one package or two (419 526 states) | the machine agrees with that of JVMS 7 as long as no instruction on the list above is met, a retried instruction finds its operands; a method the walk finds is the right one, a cast never relates strangers |
| `heap` | four operations on a heap with room for two objects and two arrays, classes with two references, with fields of a subclass, with an int before a reference and a long behind it, statics of one and eight bytes, of a long and of an array (145 951 states) | the bytes implement separate variables, the tables refer to blocks of their size, what is given back at the end is what was allocated |
| `legal_class_file` | classes with and without a long constant | violated: a legal class is not read |
| `super_call` | the chains of `interp` | violated: a super call runs another method than the specified one |
| `array_bounds` | as `heap` | violated: `castore` writes behind the array |

Why the bounds are enough. In the class loader, what happens depends on where a
second mention of a class is met: as its own superclass, as the superclass or
field of a class above it on the stack, or after it was linked. Three classes
have all of these with every failure in every place; the one case that needs
four, a superclass met `Loading` in a legal hierarchy, has its own run. In
`class_init` the interesting collisions are between two agents on one class:
two threads and the spawner, with a class shared by both main methods, one
reached only from an initialiser and one only through an argument, have them
all; code sequences are short because a frame's earlier instructions leave
nothing but `pc`. In `string_pool`, two threads and the spawner make the three
parties of every race on one string, a second string keeps a table that mixes
strings up from passing, and a slab of two fills up when creations fail.

The reader's files need no more than two fields, two parameters and one
instruction of each opcode: a field's offset depends on the sum before it, the
end of a parameter on the next semicolon, the position of an instruction on the
length of the one before. `RichClass` has each table with more than one entry for
the counts. In `interp`, three frames are a call from an initialiser under a
parked instruction; five instructions suffice for two constants, a call with its
object and argument and a return of its result into a frame that goes on. The
largest usize is 2, so that of the floats one, counted in halves, fits as it is, and
others have a fraction, a sign or are too large. Three
classes in a chain have every case of an override: none, direct, past a class,
hidden by a package. In `heap` four operations are an object, a write, another
write that could disturb it, and a read; the slabs are full after three. The
largest u32 is 15, so that two elements fit and no two of eight bytes do.

Deadlock checking is off in `class_init`, `init_before_use` and `string_pool`:
the machine stops when its threads have ended and nobody spawns another. That no
one stops on the way is what `ThreadsEnd` and `WorkEnds` say. It is off in the
runs of `ClassReader`, `Interp` and `Heap` too, where a file is read to its end
and a program stops after its last instruction; these are sequential, and no
fairness is stated for them.

### Fairness

* `ClassLoader`: weak fairness of `Step`. The thread that has called
  `load_and_link_class` goes on executing it. Requests are not fair.
* `ClassInit`: weak fairness of each thread, of the load in progress and of a
  `spawn_thread` that has been called. The scheduler of the operating system
  justifies it; nobody has to call `spawn_thread`. Every wait for the write lock
  is on a finite amount of work of others, so weak fairness is enough.
* `StringPool`: threads execute `ldc` for ever here, so an agent that waits for a
  lock must not be overtaken for ever: strong fairness of each agent, which is
  what parking_lot's task-fair locks give.

## 4. What is proved

`ClassLoaderProofs` proves, for every set of classes and every provider, under
`ClassesAssumption` and `ProvidersAssumption` only:

| Theorem | Statement |
|---|---|
| `TypeCorrect` | `Spec => []TypeOK` |
| `Consistent` | `Spec => [](ActivationsConsistent /\ NoReentrantLoad)` |
| `NeverReentered` | `Spec => []NoReentrantLoad` |
| `SupersLinked` | `Spec => [](SuperLinked /\ NoSuperCycle)` |
| `CyclesStayOut` | `Spec => []NoSuperCycle` |
| `LinkedIsForever` | `Spec => LinkedForever` |
| `ReportsComplete` | `Spec => [](NothingLost /\ ReportComplete)` |
| `ReportsCarryAll` | `Spec => []NothingLost` |
| `FieldTypesAreLinked` | `Spec => []FieldTypesLinked` |
| `Refinement` | `Spec => ImplementsContract` |

The argument. None of the properties is inductive alone, because the code's
correctness lies in the agreement of the recursion with `class_map`.
`ActivationsConsistent` states it: all activations but the innermost wait for a
report, the class of an activation is `Loading` until its link step and `Loaded`
after, and no class has two activations. From it, `Fetched` cannot enter a class
on the stack (`NoReentrantLoad`), and `Link` publishes a class that was not
linked, so nothing that others rely on changes (`LinkedForever`) and a
superclass's size is final when it is added (`SuperLinked`). A set of linked
classes with the new one has a member whose superclass is outside: the new one,
or one of the old, which cannot extend a class that was not linked
(`NoSuperCycle`). `NothingLost` accounts for every class linked since the request
came in: it is in the report under way, in what an activation has collected, or
the class of an activation past its link step; when the stack is empty this is
`ReportComplete`, and it gives the refinement its answers.

`FieldTypesLinked` speaks of states between requests only, so its invariant has to
say what holds on the way (`FieldsAwaited`): while class files are sound and every
`Loading` entry is held by an activation, a field type of a linked class has been
asked for, or is still among the fields an activation has to load. One that was
passed over because it was `Loading` is held by an activation further down, which
will link it; when the stack is empty no entry is `Loading`. The condition that
every `Loading` entry is held cannot come back once it is lost (`AbandonedStays`),
so the invariant needs no history.

`ClassInitProofs` proves, for any number of threads, any classes, class files and
code, under the assumptions above, `AgentsAssumption` (agents are distinct),
`CodeAssumption` (a method's code is a finite sequence of instructions that name
classes) and `FiniteClassesAssumption` (a report is a finite set):

| Theorem | Statement |
|---|---|
| `VmTypeCorrect` | `VmSpec => []VmTypeOK` |
| `LockGuardsLoads` | `VmSpec => []LoadsUnderLock` |
| `InitializedAtMostOnce` | `VmSpec => []ClinitAtMostOnce` |
| `NoneForgotten` | `VmSpec => []LoadedIsScheduled` |
| `BodiesRunOnce` | `VmSpec => []InstructionsRunOnce` |
| `RetriesSucceed` | `VmSpec => []RetryFindsInitialized` |
| `MachineLoads` | `VmSpec => Init /\ [][Next]_loaderVars` |
| `MachineLinks` | `VmSpec => LinkedForever /\ [](SuperLinked /\ NoSuperCycle)` |

The argument. Every step of the machine is a step of the class loader or leaves
its variables alone (`VmLoaderStep`), so the loader's invariants hold in the
machine without a second proof; `MachineLinks` is one thing that follows. The
machine's own invariant `VmInv` adds what the properties leave open:

* `Placed`, where each thread and the spawner are in their code. Without it the
  `pc` that `init_static!` sets back could leave the method, and the counts of
  `InstructionsRunOnce` would not say which instruction is being executed.
* `Unscheduled` (in `Accounted`, with `ClinitAtMostOnce` and `LoadedIsScheduled`):
  only a linked class has a `<clinit>` frame, and none whose report is on its way.
  The report that `init_static!` acts on names exactly the classes linked under
  the lock (`ReportComplete`), which had no frame before: none is created twice.
* `Awaited`: what a frame waits for is initialised, or a frame above is its
  `<clinit>`. When a frame is innermost again nothing is above it, and that is
  `RetryFindsInitialized`.

`StringPoolProofs` proves, for every set of threads and strings, every capacity
and number of arguments, under `PoolAssumption` only:

| Theorem | Statement |
|---|---|
| `PoolTyped` | `PoolSpec => []PoolTypeOK` |
| `PoolGuarded` | `PoolSpec => []GuardsConsistent` |
| `StringsInterned` | `PoolSpec => [](Interned /\ WholeStrings /\ CreatorsKnow)` |
| `StringsWhole` | `PoolSpec => []WholeStrings` |
| `CreatorsRight` | `PoolSpec => []CreatorsKnow` |
| `PoolImplementsTable` | `PoolSpec => ImplementsInternTable` |

The argument. `AgentsReady` says of a place in the code which of string,
reference and arguments an agent has there; with it the types are inductive, and
with the types so are the guards. The rest needs both. `ldc` inserts a reference
it got under a lock it has dropped since, so `Interned` alone is not inductive:
`CreatorsKnow` adds that this reference is the table's, so that the second
insertion changes nothing, and that an agent about to write the table holds an
object no string has, for a string without one. Only one agent is at that point
(`GuardsConsistent`), so no other's knowledge is lost by the write. The
refinement reads off the same facts: that write is the table's `Define`, every
push and store its `Give`.

`ClassReaderProofs` proves of the reader, for every set of files:

| Theorem | Statement |
|---|---|
| `SpecFieldsDisjoint` | `Spec => []FieldsDisjoint` |
| `ReaderTyped` | `Spec => []ReaderTypeOK` |

The assumptions: a file is a sequence of numbers, texts and bytes
(`FilesAssumption`; nothing is assumed about what they say, in which order they
stand or where they end), and the names of the two attributes that are read
differ (`NamesAssumption`; the first theorem needs neither).

The argument. `FieldsDisjoint` is not inductive: a new field lies at the old
offset, about which it says nothing. The invariant adds that the old offset, the
new one and `heapSize` are the same sum whenever a field can be added, that the
field being read has a descriptor of a field (so that its size is a number), and
that everything laid out so far ends at or before the old offset. A field of the
same name is replaced, which removes a block and adds one behind all others. No
other action touches the layout.

`ReaderTypeOK` says of the counts that none falls below zero, though every loop
takes one from a count the file gives: a member is read only while one is left,
and the attributes of a Code attribute are counted apart from those around it. It
needs that what is still to be read, and the texts of the pool, are of the kinds a
file has (`RestInv`, `PoolInv`), so that a count is a number and a field's type is
what `ParseField` makes of a text (`ParsedHasType`).

It also proves of the pure functions the reader and the interpreter call, for
every input:

| Theorem | Statement |
|---|---|
| `CodeReadsBack` | every sequence of bytes decodes to instructions, an error or a panic; the instructions lie end to end from the first byte to the last and each takes at least one; an instruction encodes to the bytes it was decoded from, and `size_of` is their number |
| `FieldReadsBack` | a field descriptor that is printed is parsed back, of up to 255 dimensions |
| `MethodReadsBack` | a method descriptor that is printed is parsed back |

The exceptions are arms of the code, and the theorems name them. `CodeReadsBack`
says nothing of how `iconst`, `dconst`, the instructions encoded without their
operands and those not encoded at all are written, and of the size of `sipush`,
`istore`, `putstatic`, `putfield` and `invokeinterface`, whose `size_of` is another
number than that of the bytes the decoder takes, and of `tableswitch`, for which it
is not implemented.
`MethodReadsBack` excludes parameters that are arrays of a base type, whose end
the parser seeks at a later semicolon, and needs that no class name has a `;` or
`)` in it.

The argument. The decoder and the loop over the parameters are recursive
functions over positions. The next position is always greater
(`NextIsAhead`, `EndIsAhead`; of a `lookupswitch` also when its count is negative),
so by `RecursiveFunction` each is what its equation says (`DecodeDef`,
`ParamsDef`), and induction from the end of the text to its front gives what it
computes (`DecodedEndToEnd`, `ParametersParsed`). For descriptors, `PrintedField`
says what stands at each position of a printed field, `ParameterText` that its
last character is the first at which the parser can take it to end,
`Flattened` and `MethodText` where the parameters and the return type lie in the
whole text.

`ClassFileProofs` proves of the reader, for every set of files, written or not:

| Theorem | Statement |
|---|---|
| `SpecReadsBack` | `Spec => []ReadsBack`: a whole laid-out file, whose code holds none of the instructions in `Misread`, is read to its end without an error or a panic; and a class that is handed out is the one that was written, also when the file was cut |
| `SpecDescriptorsReadBack` | `Spec => []DescriptorsReadBack`: each method's descriptor is parsed to the signature it was printed from |
| `SpecCodeInStep` | `Spec => []CodeInStep`: each instruction of a method is decoded at its own place with its own operands |
| `SpecCodecAgrees` | `Spec => []CodecAgrees`: instructions and constants are encoded to what they were read from |

The assumptions are `FilesAssumption`, `NamesAssumption` and `WrittenAssumption`.

The argument. What is read at the end depends on everything read before, so the
invariant `WrittenInv` says for each place of the reader (`Mark`) which item of the
file is next (`CursorAt`) and what of the class is there (`PoolUpTo`,
`InterfacesUpTo`, `FieldsUpTo`, `MethodsUpTo`, `CodeUpTo`, `NamesUpTo`), by the
counts of entries that are left: in the table, in the member, and in a Code
attribute. There is a lemma for each action, from `HeaderStep` to `FinishStep`:
the items read are those the format has at that place (the lemmas `...Seen`), so
the reader is at the next place with one entry more. With the fields, a later one of
the same name replaces an earlier one (`LastOfName`); with the methods, that no two
agree in name and descriptor keeps the earlier ones. It also says what can stop the
reader early: the end of a cut file, for behind every place
there are as many items as the next action reads (`WholeReads`, `FailStep`); and
code the decoder rejects.

What the decoder does with a method's code is a fact of the code alone. Where the
instructions lie (`Straight`), no read goes beyond the end and none yields an error
or panics (`StraightDecodes`, along the positions the decoder reaches, which are
those of the instructions and of the zeros behind `invokeinterface` and
`invokedynamic`); and what is decoded is what lies there (`StraightInStep`, by
induction on positions, with `Opcodes` for what each family of opcodes takes).
The theorem `CodeReadsBack` gives the encoder's part, `MethodReadsBack` that of the
descriptors. The latter excludes names with a `)`, as `DescriptorsReadBack` does;
a `)` is legal in a class name, and the parser takes the first one for the end of
the parameters.

`HeapProofs` proves, for every hierarchy, every layout of
fields, every set of values, lengths and literals, and every bound:

| Theorem | Statement |
|---|---|
| `HeapWellFormed` | `Spec => []HeapTypeOK` |
| `DropGivesBack` | `Spec => []ReleasedAsAllocated`: what is given back is what the slabs hold, once and whole, and every array is in its slab unless that is full |
| `HeapStores` | `Spec => ImplementsStore` |

The assumptions, each with what justifies it: a superclass is of a lower level
than its class (`HierarchyAssumption`: the loader links a class after its
superclass, so linked classes form no cycle, which is `CyclesStayOut`); a field
has a descriptor the parser can yield (`FieldsAssumption`); `chars` is an array
in `java/lang/String` and lies over no variable of a superclass
(`TextAssumption`: that class extends `Object`, which has no fields); a literal is
a sequence of chars that fits a body (`LiteralsAssumption`: the class file gives
its length in two bytes); lengths are ints and a read that makes no sense is none
of the values (`ValuesAssumption`); null is no key, and the bounds are numbers.

The argument. `full_heap_size`, the chain of superclasses and the class that
declares a field are recursive functions over the hierarchy, whose value at a
class is that of its superclass and a bit more. `Recursion` has the two facts that
are needed of such a function, that it exists and that what is hereditary holds of
all classes. Both are stated of sets and of functions, never of operators:
`SetInduction` is a consequence of the well-foundedness of the numbers alone.
With them, a variable of a class ends within the size of every subclass
(`HeapTypeOK` needs it for every block). `Shaped` adds what an entry of a table
refers to, and `Unreleased` that nothing was given back before `Drop`; together
they are inductive (`HeapInv`). For the refinement `StoreInv` adds that the slab is
never overfull and that a program that never deviated has lost no object. Then
each operation is one of the store: a store writes its own bytes
(`ReadWritten`), disjoint fields, elements and blocks keep theirs
(`ReadBeside`), a new block reads as never written, and an operation whose eight
bytes reach another variable (`Disturbs`) is one of those that deviate.

`InterpProofs` proves, for every set of hierarchies, every code on them, every
set of methods and every bound:

| Theorem | Statement |
|---|---|
| `CastsStayRelated` | `Spec => []CastsRelated` |
| `SelectionCorrect` | `Spec => []SelectionSound` |
| `InterpTyped` | `Spec => []InterpTypeOK` |
| `MachinesAgree` | `Spec => []AgreesWithJava` |
| `RetriesFindOperands` | `Spec => []RetryUntouched` |

The assumptions: classes are finite in number, and each is above its superclass
and its interfaces in some level (`Linkable`, `Layered`: superclasses that are linked
have no circle, `CyclesStayOut`; that superinterfaces have none the loader takes
from the compiler, like the rest of this sentence, for it looks at none of it); an
interface extends `Object` only, `interfaces` names interfaces, and a method is
not less accessible than one it overrides (`Compiled`); a method has a descriptor the parser can
yield, and as many arguments as a frame has local variables
(`MethodsAssumption`); native methods have at most one parameter
(`NativesAssumption`: those of `native_call` do); and a program's constants are
those of any opcode that pushes one, its fields of any kind (`CodeAssumption`). TLC evaluates them all on the
run's hierarchies.

The argument. The walks (`Overriding`, `CheckCast`, `Implements`, and `Selected`
of JVMS 7) are recursive functions over the hierarchy; with the recursion of
`Recursion` over levels each is what its equation says, and `Upwards` is the
induction: what holds of a class when it holds of those above it holds of all.
`CastsRelated` and `SelectionSound` follow by it. Of an override, the induction
needs that a private method hides none that is visible, which is `Compiled`.

The two machines do not have the same stacks: `step` has two operands for a long
or double, so that a frame stack agrees with that of JVMS 7 if each of its frames
has `Operands(s)` where the other has `s`. `AgreesWithJava` says so, and is not
inductive. `InterpInv`, which is, adds:

* operands are of their types, and references are keys of objects there are
  (`CodeFrames`, `JavaFrames`), also among the operands an instruction was put off
  with. Without it a call could be on an object without a class;
* no local variable holds a long or double (`Match`), as long as the run does not
  deviate: `lload` would read one half of it;
* only the innermost frame can be at the end of its code (`Settled`), so that
  every frame but a finished one has its counterpart (`LiveOf`);
* the frame above one that has put an instruction off returns nothing
  (`Settled`). A result pushed on it would shift its operands: this is why
  `ireturn` into a caller keeps `RetryUntouched`.

Under it, `Operands` is the same function on both sides of a push and a pop
(`OperandsPush`, `OperandsSplit`), and there is one lemma for each action of
`Next`: either the instruction deviates, and only the typing is left to keep, or
the frames it leaves match. For a virtual call, `VirtualAgrees` says
where the walk of the code and the selection of JVMS 7 meet, for the class of the
object and the class the call names. The three properties are read off the
invariant.

Only model-checked: termination (`LoadTerminates`, `ThreadsEnd`,
`InitializersFinish`, `WorkEnds`), since liveness under fairness is beyond the
prover. Every safety property of the passing runs is a theorem, and so are the three
refinements. What a run that expects a violation shows is a
counterexample, and needs no proof.

## 5. What is not modelled

* `lload_<n>` and `dload_<n>`: a long gets into a local variable through
  `lstore_<n>` or a call, on both of which the run already ends. Data is not
  followed past an instruction that is known to deviate.
* Arithmetic is that of small integers; no wrap at 2^31 is reached or claimed.
* Array types of more than 255 dimensions, which JVMS 4.3.2 does not allow: the
  parser cuts the count to eight bits (`class.rs:438`, `class.rs:446`), and what is
  said of descriptors is said of those the format has (`Dimensions`).
* Blocks of no bytes. An object of a class without fields is an allocation of size
  0 (`heap.rs:61`), which Rust leaves undefined; it is an ordinary block here.
* The alignment of allocations (`heap.rs:214` against `heap.rs:112`): a block is
  its size and its bytes. Memory outside a block.
* What a reader that has lost its place makes of the rest of a file, and what it
  makes of a file that ends within the code of a method: the buffer is not filled
  and the error is dropped (`class.rs:800`), so nothing is said of it from there on.
* In `ClassInit`: a frame that ends with `ireturn` or `areturn` is one that
  ends with its code, and the read locks that bodies take are not waited for. They
  are in `StringPool`.
  `CodeTooLarge`, and the attribute types nobody constructs.
* `ClassBuilder::serialize`, which nothing calls; its parts `Constant::to_bytes`
  and `bytecode_to_bytes` are modelled.
* The stepper's display, `wasm` (empty), printing to the terminal.
* Several threads on the heap: an operation is atomic in `Heap`. The race on
  string literals is in `StringPool`, that on classes in `ClassInit`.
* `ClassProvider` and `parking_lot` are external and modelled from their use.

## 6. Where code and documentation disagree

* `legal_hierarchy`. `A` has a field of type `C`, `C` extends `B`, `B` extends
  `A`. A request for `B` links `A`, loads `C` for its field, and meets `B` still
  `Loading` as `C`'s superclass: the error is passed over (`loader.rs:120`) and
  `get_class(superclass).unwrap()` panics (`loader.rs:175`). "Load a class and
  it's superclasses" (`loader.rs:130`).
* `stale_loading`. A class file that does not parse leaves its entry `Loading`
  (`loader.rs:164-166`); a later use panics with "Cannot unwrap a class that is
  being loaded." (`loader.rs:33`), though none is.
* `init_before_use`. A class that another thread has loaded counts as initialised
  (`thread.rs:81-88`), also while its `<clinit>` waits on that thread's stack.
  "Initializes classes whenever necessary" (`thread.rs:94`).
* `legal_class_file`. A long constant takes two indices of the constant pool; the
  loop over the pool (`loader.rs:399`) counts it once and reads on into the access
  flags. "[x] Deserialize Java 7 classes" (`src/README.md:16`), "The constant pool
  count is equal to the number of constants + 1" (`loader.rs:393`).
* `super_call`. The search of a super call begins above the direct superclass
  (`thread.rs:1094` and again `loader.rs:262`), where the specification the arm
  cites (`thread.rs:1061`) begins at it.
* `array_bounds`. `castore` compares an index in chars with a size in bytes
  (`thread.rs:515`), so the upper half of what it lets pass is beyond the array,
  where it should panic with "Array access out of bounds" (`thread.rs:516`).

The other departures from Java that the code makes are listed under `Interp` in
section 2; no text of the repository says otherwise of them.

## 7. Plan

Done: the class loader, initialisation, string literals, class files, dispatch,
interpreter and heap, each with its runs, and proofs for all of them.
What is left:

1. `ClassProvider`s whose files carry another `this_class` than they were asked
   for by.
