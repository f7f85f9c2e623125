----------------------------- MODULE StringPool -----------------------------
(***************************************************************************)
(* String literals: the ldc instruction of the threads (thread.rs), the    *)
(* arguments of spawn_thread (lib.rs) and Heap::create_string (heap.rs),   *)
(* around the two locks they take, the class loader's and that of          *)
(* Heap::strings.  Of the class loader only java/lang/String is kept: a    *)
(* request under the write lock may load it.                               *)
(***************************************************************************)
EXTENDS Naturals, Sequences, FiniteSets

CONSTANTS
    Threads,    \* the threads of the virtual machine
    Spawner,    \* the thread of the program that calls spawn_thread
    NoAgent,    \* the writer of a lock nobody writes
    Strings,    \* the strings of constant pools and of arguments
    NoString,   \* an agent that works on no string
    Capacity,   \* how many objects the slab takes
    MaxArgs     \* how many arguments a new thread is given at most

Agents == Threads \cup {Spawner}

ASSUME PoolAssumption ==
    /\ Spawner \notin Threads
    /\ NoAgent \notin Agents
    /\ NoString \notin Strings
    /\ Capacity \in Nat /\ MaxArgs \in Nat

NoRef == 0
Refs  == 1..Capacity

VARIABLES
    stringFile,    \* the class file of java/lang/String
    stringClass,   \* its entry in class_map
    loaderLock,    \* the RwLock of the class loader
    stringsLock,   \* the RwLock of Heap::strings
    strings,       \* Heap::strings
    objects,       \* Heap::objects, by reference: the strings among them
    task,          \* what each agent is doing, for which string and reference
    args,          \* the arguments spawn_thread has still to allocate
    given          \* history: <<string, reference>> pushed or stored in an array

poolVars == <<stringFile, stringClass, loaderLock, stringsLock, strings, objects, task, args, given>>

Loader == INSTANCE RwLock WITH lock <- loaderLock
Table  == INSTANCE RwLock WITH lock <- stringsLock

\* noChars is a class without the field create_string writes (heap.rs:53).
StringFile == {"missing", "malformed", "noChars", "sound"}

Object == [string : Strings, chars : BOOLEAN]

\* In ldc: read and lookup under strings.read(), getClass, create up to chars
\* in create_string, insert and inserting under the second strings.write().
\* In lazy_class_resolve!: resolve, resolving.  In spawn_thread: spawn,
\* spawning, args, create up to chars, and store.
At ==
    {"idle", "read", "lookup", "getClass", "create", "checking", "chars", "insert",
     "inserting", "resolve", "resolving", "spawn", "spawning", "args", "store", "dead"}

Task == [at : At, string : Strings \cup {NoString}, ref : Refs \cup {NoRef}]

StringOf(a) == task[a].string
Reference(a) == strings[StringOf(a)]

Goto(a, at) == task' = [task EXCEPT ![a].at = at]

Stopped(at) == [at |-> at, string |-> NoString, ref |-> NoRef]

\* The agent is through with its instruction ("idle"), or ends ("dead").
Stop(a, at) == task' = [task EXCEPT ![a] = Stopped(at)]

Give(a, r) == given' = given \cup {<<StringOf(a), r>>}

\* The entry of java/lang/String after a request for it.
AfterLoad ==
    IF stringClass # "Absent" \/ stringFile = "missing" THEN stringClass
    ELSE IF stringFile = "malformed" THEN "Loading"
    ELSE "Loaded"

(***************************************************************************)
(* ldc                                                                     *)
(***************************************************************************)
Ldc(t, s) ==
    /\ task[t].at = "idle"
    /\ task' = [task EXCEPT ![t].at = "read", ![t].string = s]
    /\ UNCHANGED <<stringFile, stringClass, loaderLock, stringsLock, strings, objects, args, given>>

ReadStrings(t) ==
    /\ task[t].at = "read"
    /\ Table!Read(t)
    /\ Goto(t, "lookup")
    /\ UNCHANGED <<stringFile, stringClass, loaderLock, strings, objects, args, given>>

\* The string is known: its reference is pushed, the guard dropped.
Hit(t) ==
    /\ task[t].at = "lookup"
    /\ Reference(t) # NoRef
    /\ Give(t, Reference(t))
    /\ Table!EndRead(t)
    /\ Stop(t, "idle")
    /\ UNCHANGED <<stringFile, stringClass, loaderLock, strings, objects, args>>

\* Faulty variant: the guard lives to the end of the match.
MissKeepsGuard(t) ==
    /\ task[t].at = "lookup"
    /\ Reference(t) = NoRef
    /\ Goto(t, "getClass")
    /\ UNCHANGED <<stringFile, stringClass, loaderLock, stringsLock, strings, objects, args, given>>

\* It is not: the guard is dropped, and others may create it from here on.
Miss(t) ==
    /\ task[t].at = "lookup"
    /\ Reference(t) = NoRef
    /\ Table!EndRead(t)
    /\ Goto(t, "getClass")
    /\ UNCHANGED <<stringFile, stringClass, loaderLock, strings, objects, args, given>>

\* get_class under a read guard that lives to the end of the statement, that is
\* throughout create_string ...
GetClass(t) ==
    /\ task[t].at = "getClass"
    /\ stringClass = "Loaded"
    /\ Loader!Read(t)
    /\ Goto(t, "create")
    /\ UNCHANGED <<stringFile, stringClass, stringsLock, strings, objects, args, given>>

\* ... and ends the thread with an error (Absent) or a panic (Loading).
GetClassFails(t) ==
    /\ task[t].at = "getClass"
    /\ stringClass # "Loaded"
    /\ loaderLock.writer = NoAgent
    /\ Stop(t, "dead")
    /\ UNCHANGED <<stringFile, stringClass, loaderLock, stringsLock, strings, objects, args, given>>

InsertLock(t) ==
    /\ task[t].at = "insert"
    /\ Table!Announce(t)
    /\ Goto(t, "inserting")
    /\ UNCHANGED <<stringFile, stringClass, loaderLock, strings, objects, args, given>>

\* The second insertion of what create_string returned, and the push.
Insert(t) ==
    /\ task[t].at = "inserting"
    /\ Table!Owns(t)
    /\ strings' = [strings EXCEPT ![StringOf(t)] = task[t].ref]
    /\ Give(t, task[t].ref)
    /\ Table!EndWrite
    /\ Stop(t, "idle")
    /\ UNCHANGED <<stringFile, stringClass, loaderLock, objects, args>>

(***************************************************************************)
(* create_string, called by a thread that reads the class loader or by the *)
(* spawner that writes it                                                  *)
(***************************************************************************)
CreateLock(a) ==
    /\ task[a].at = "create"
    /\ Table!Announce(a)
    /\ Goto(a, "checking")
    /\ UNCHANGED <<stringFile, stringClass, loaderLock, strings, objects, args, given>>

Return(a, r) ==
    task' = [task EXCEPT ![a].at = IF a = Spawner THEN "store" ELSE "insert", ![a].ref = r]

\* Faulty variant: a thread keeps its guard on the class loader.
CreatedKeepsLoader(a, r) ==
    /\ Table!EndWrite
    /\ Return(a, r)
    /\ UNCHANGED loaderLock

\* create_string returns r, and the thread is through with the class loader.
Created(a, r) ==
    /\ Table!EndWrite
    /\ Return(a, r)
    /\ \/ a = Spawner /\ UNCHANGED loaderLock
       \/ a # Spawner /\ Loader!EndRead(a)

\* create_string fails: the guards of the caller are dropped with its own.
CreateFails(a, at) ==
    /\ Table!EndWrite
    /\ IF a = Spawner THEN Loader!EndWrite ELSE Loader!EndRead(a)
    /\ Stop(a, at)
    /\ args' = IF a = Spawner THEN <<>> ELSE args
    /\ UNCHANGED <<stringFile, stringClass, strings, given>>

\* Faulty variant: create_string takes the newest object for its own.
ExistingForgotten(a) ==
    /\ task[a].at = "checking"
    /\ Table!Owns(a)
    /\ Reference(a) # NoRef
    /\ Created(a, Len(objects))
    /\ UNCHANGED <<stringFile, stringClass, strings, objects, args, given>>

\* Another agent has created it in the meantime.
Existing(a) ==
    /\ task[a].at = "checking"
    /\ Table!Owns(a)
    /\ Reference(a) # NoRef
    /\ Created(a, Reference(a))
    /\ UNCHANGED <<stringFile, stringClass, strings, objects, args, given>>

\* The error ends the thread; spawn_thread returns it, and may be called again.
HeapFull(a) ==
    /\ task[a].at = "checking"
    /\ Table!Owns(a)
    /\ Reference(a) = NoRef
    /\ Len(objects) = Capacity
    /\ CreateFails(a, IF a = Spawner THEN "idle" ELSE "dead")
    /\ UNCHANGED objects

NewObject(a) ==
    /\ objects' = Append(objects, [string |-> StringOf(a), chars |-> FALSE])
    /\ task' = [task EXCEPT ![a].at = "chars", ![a].ref = Len(objects) + 1]
    /\ UNCHANGED <<stringFile, stringClass, loaderLock, stringsLock, args, given>>

\* Faulty variants: no contains_key; a full slab is not noticed; the table is
\* written before the object is filled.
CreateObjectAnyway(a) ==
    /\ task[a].at = "checking"
    /\ Table!Owns(a)
    /\ Len(objects) < Capacity
    /\ NewObject(a)
    /\ UNCHANGED strings

CreateObjectBeyond(a) ==
    /\ task[a].at = "checking"
    /\ Table!Owns(a)
    /\ Reference(a) = NoRef
    /\ Len(objects) <= Capacity
    /\ NewObject(a)
    /\ UNCHANGED strings

CreateObjectPublished(a) ==
    /\ task[a].at = "checking"
    /\ Table!Owns(a)
    /\ Reference(a) = NoRef
    /\ Len(objects) < Capacity
    /\ NewObject(a)
    /\ strings' = [strings EXCEPT ![StringOf(a)] = Len(objects) + 1]

CreateObject(a) ==
    /\ task[a].at = "checking"
    /\ Table!Owns(a)
    /\ Reference(a) = NoRef
    /\ Len(objects) < Capacity
    /\ NewObject(a)
    /\ UNCHANGED strings

\* put_field of the char array, then the insertion.
PutChars(a) ==
    /\ task[a].at = "chars"
    /\ stringFile = "sound"
    /\ objects' = [objects EXCEPT ![task[a].ref].chars = TRUE]
    /\ strings' = [strings EXCEPT ![StringOf(a)] = task[a].ref]
    /\ Created(a, task[a].ref)
    /\ UNCHANGED <<stringFile, stringClass, args, given>>

\* put_field unwraps the offset of a field that is not there.
NoCharsField(a) ==
    /\ task[a].at = "chars"
    /\ stringFile # "sound"
    /\ CreateFails(a, "dead")
    /\ UNCHANGED objects

(***************************************************************************)
(* Requests to the class loader                                            *)
(***************************************************************************)
\* An instruction that names another class, and its lazy_class_resolve!.
Resolve(t) ==
    /\ task[t].at = "idle"
    /\ Goto(t, "resolve")
    /\ UNCHANGED <<stringFile, stringClass, loaderLock, stringsLock, strings, objects, args, given>>

\* spawn_thread with a vector of arguments.
Spawn(arguments) ==
    /\ task[Spawner].at = "idle"
    /\ args' = arguments
    /\ Goto(Spawner, "spawn")
    /\ UNCHANGED <<stringFile, stringClass, loaderLock, stringsLock, strings, objects, given>>

LoaderLock(a) ==
    /\ task[a].at \in {"resolve", "spawn"}
    /\ Loader!Announce(a)
    /\ Goto(a, IF a = Spawner THEN "spawning" ELSE "resolving")
    /\ UNCHANGED <<stringFile, stringClass, stringsLock, strings, objects, args, given>>

\* The request is over: it may have loaded java/lang/String on the way, and it
\* may have failed.
Resolved(t) ==
    /\ task[t].at = "resolving"
    /\ Loader!Owns(t)
    /\ stringClass' \in {stringClass, AfterLoad}
    /\ Loader!EndWrite
    /\ \E at \in {"idle", "dead"} : Stop(t, at)
    /\ UNCHANGED <<stringFile, stringsLock, strings, objects, args, given>>

\* The request for the main class, and get_method.
MainLoaded ==
    /\ task[Spawner].at = "spawning"
    /\ Loader!Owns(Spawner)
    /\ stringClass' \in {stringClass, AfterLoad}
    /\ Goto(Spawner, "args")
    /\ UNCHANGED <<stringFile, loaderLock, stringsLock, strings, objects, args, given>>

MainFails ==
    /\ task[Spawner].at = "spawning"
    /\ Loader!Owns(Spawner)
    /\ stringClass' \in {stringClass, AfterLoad}
    /\ Loader!EndWrite
    /\ Stop(Spawner, "idle")
    /\ args' = <<>>
    /\ UNCHANGED <<stringFile, stringsLock, strings, objects, given>>

\* load_and_link_class("java/lang/String") for the next argument.
Argument ==
    /\ task[Spawner].at = "args"
    /\ args # <<>>
    /\ stringClass' = AfterLoad
    /\ AfterLoad = "Loaded"
    /\ task' = [task EXCEPT ![Spawner].at = "create", ![Spawner].string = Head(args)]
    /\ UNCHANGED <<stringFile, loaderLock, stringsLock, strings, objects, args, given>>

ArgumentFails ==
    /\ task[Spawner].at = "args"
    /\ args # <<>>
    /\ stringClass' = AfterLoad
    /\ AfterLoad # "Loaded"
    /\ Loader!EndWrite
    /\ Stop(Spawner, "idle")
    /\ args' = <<>>
    /\ UNCHANGED <<stringFile, stringsLock, strings, objects, given>>

\* What create_string returned goes into the array of the arguments.
Store ==
    /\ task[Spawner].at = "store"
    /\ Give(Spawner, task[Spawner].ref)
    /\ args' = Tail(args)
    /\ Goto(Spawner, "args")
    /\ UNCHANGED <<stringFile, stringClass, loaderLock, stringsLock, strings, objects>>

\* Every argument is allocated: the thread gets its frames, and the guard goes.
Spawned ==
    /\ task[Spawner].at = "args"
    /\ args = <<>>
    /\ Loader!EndWrite
    /\ Stop(Spawner, "idle")
    /\ UNCHANGED <<stringFile, stringClass, stringsLock, strings, objects, args, given>>

(***************************************************************************)
(* Specification                                                           *)
(***************************************************************************)
CreateString(a) ==
    \/ CreateLock(a)
    \/ Existing(a)
    \/ HeapFull(a)
    \/ CreateObject(a)
    \/ PutChars(a)
    \/ NoCharsField(a)

Work(t) ==
    \/ ReadStrings(t)
    \/ Hit(t)
    \/ Miss(t)
    \/ GetClass(t)
    \/ GetClassFails(t)
    \/ InsertLock(t)
    \/ Insert(t)
    \/ Resolved(t)

SpawnWork ==
    \/ MainLoaded
    \/ MainFails
    \/ Argument
    \/ ArgumentFails
    \/ Store
    \/ Spawned

\* What an agent goes on with once it has begun.
Continue(a) ==
    \/ CreateString(a)
    \/ LoaderLock(a)
    \/ a \in Threads /\ Work(a)
    \/ a = Spawner /\ SpawnWork

PoolInit ==
    /\ stringFile \in StringFile
    /\ stringClass = "Absent"
    /\ loaderLock = Loader!Free
    /\ stringsLock = Table!Free
    /\ strings = [s \in Strings |-> NoRef]
    /\ objects = <<>>
    /\ task = [a \in Agents |-> Stopped("idle")]
    /\ args = <<>>
    /\ given = {}

PoolNext ==
    \/ \E t \in Threads : Resolve(t) \/ \E s \in Strings : Ldc(t, s)
    \/ \E arguments \in UNION {[1..n -> Strings] : n \in 0..MaxArgs} : Spawn(arguments)
    \/ \E a \in Agents : Continue(a)

\* The locks are task-fair: whoever waits gets in, however often others come.
PoolFairness == \A a \in Agents : SF_poolVars(Continue(a))

PoolSpec == PoolInit /\ [][PoolNext]_poolVars /\ PoolFairness

(***************************************************************************)
(* Properties                                                              *)
(***************************************************************************)
PoolTypeOK ==
    /\ stringFile \in StringFile
    /\ stringClass \in {"Absent", "Loading", "Loaded"}
    /\ loaderLock \in Loader!LockType
    /\ stringsLock \in Table!LockType
    /\ strings \in [Strings -> Refs \cup {NoRef}]
    /\ objects \in Seq(Object)
    /\ Len(objects) <= Capacity
    /\ task \in [Agents -> Task]
    /\ args \in Seq(Strings)
    /\ given \subseteq Strings \X Refs

\* One string, one reference: whatever ldc pushed and spawn_thread stored for a
\* string, in any thread and at any time, is the reference the table holds now,
\* though ldc releases the table between its lookup, create_string and its own
\* insertion (thread.rs:262-281, heap.rs:44-48).
Interned == \A p \in given : strings[p[1]] = p[2]

\* The table names whole strings only, and all of them: no reference to an
\* object whose chars were never written, even when create_string fails half way
\* (heap.rs:50-55), and no second object for a string.
WholeStrings ==
    /\ \A s \in Strings : strings[s] # NoRef =>
          strings[s] \in DOMAIN objects /\ objects[strings[s]] = [string |-> s, chars |-> TRUE]
    /\ \A r \in DOMAIN objects : objects[r].chars => strings[objects[r].string] = r

\* The guards are where the code has them: two writers never meet, and an agent
\* that is idle or dead, by whatever path, holds nothing.
GuardsConsistent ==
    /\ stringsLock.readers = {t \in Threads : task[t].at = "lookup"}
    /\ \A a \in Agents :
          task[a].at \in {"checking", "chars", "inserting"} <=> stringsLock.writer = a
    /\ \A a \in Agents : task[a].at = "chars" => stringsLock.readers = {}
    /\ loaderLock.readers = {t \in Threads : task[t].at \in {"create", "checking", "chars"}}
    /\ \A t \in Threads : task[t].at = "resolving" <=> loaderLock.writer = t
    /\ task[Spawner].at \in {"spawning", "args", "create", "checking", "chars", "store"}
          <=> loaderLock.writer = Spawner

\* What an agent carries across the points where it holds no lock on the table
\* is still true when it is used: the object it fills is its own and its string
\* is not in the table yet; the reference create_string returned is the one the
\* table holds (thread.rs:268-281, lib.rs:85-93).
CreatorsKnow ==
    \A a \in Agents :
        /\ task[a].at = "chars" =>
              /\ task[a].ref \in DOMAIN objects
              /\ objects[task[a].ref] = [string |-> StringOf(a), chars |-> FALSE]
              /\ Reference(a) = NoRef
        /\ task[a].at \in {"insert", "inserting", "store"} =>
              task[a].ref # NoRef /\ Reference(a) = task[a].ref

\* Every ldc, lazy_class_resolve! and spawn_thread that has begun comes to its
\* end, on its two locks taken one inside the other.
WorkEnds == \A a \in Agents : task[a].at # "idle" ~> task[a].at \in {"idle", "dead"}

\* The pool implements the table a Java program sees.
Abstract == INSTANCE InternTable WITH table <- strings

ImplementsInternTable == Abstract!Spec
=============================================================================
