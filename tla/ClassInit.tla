----------------------------- MODULE ClassInit -----------------------------
(***************************************************************************)
(* Class initialisation: the threads of a virtual machine executing        *)
(* instructions that name a class (thread.rs: step, lazy_class_resolve!,   *)
(* init_static!), and spawn_thread (lib.rs), around the one ClassLoader    *)
(* behind its RwLock.                                                      *)
(*                                                                         *)
(* The step of a thread is cut where another thread can run in between:    *)
(* after the read lock of lazy_class_resolve!, during the load under the   *)
(* write lock, and before the body of the instruction.                     *)
(***************************************************************************)
EXTENDS ClassLoader

CONSTANTS
    Threads,   \* the names given to spawn_thread
    Spawner,   \* the thread of the program that calls spawn_thread
    NoAgent,   \* the write lock of the class loader is free
    Methods, NoMethod,
    Code,      \* the instructions of each method that name a class
    Clinit,    \* the <clinit> method of each class, or NoMethod
    Entry      \* classpath, method and arguments of each spawn_thread call

\* An instruction resolves cls; invokestatic then pushes a frame for calls.
Instruction == [cls : Classes, calls : Methods \cup {NoMethod}]

\* What spawn_thread is asked for: args is FALSE for an empty vector, and the
\* class of each argument is string.
EntryPoint ==
    [cls : Classes, method : Methods \cup {NoMethod}, args : BOOLEAN, string : Classes]

ASSUME AgentsAssumption == Spawner \notin Threads /\ NoAgent \notin Threads \cup {Spawner}
\* A program names finitely many classes.
ASSUME FiniteClassesAssumption == IsFiniteSet(Classes)
ASSUME CodeAssumption ==
    /\ NoMethod \notin Methods
    /\ Code \in [Methods -> Seq(Instruction)]
    /\ Clinit \in [Classes -> Methods \cup {NoMethod}]
    /\ Entry \in [Threads -> EntryPoint]

VARIABLES
    owner,     \* who holds the write lock of the class loader
    frames,    \* frame_stack of each thread
    step,      \* where each thread is in RuntimeThread::step
    spawner,   \* where the spawner is in spawn_thread
    created,   \* history: how many <clinit> frames were created for each class
    done,      \* history: the classes whose <clinit> frame was popped
    dropped    \* history: the classes whose report nobody acted on

threadVars == <<frames, step>>
history    == <<created, done, dropped>>
initVars   == <<loaderVars, owner, frames, step, spawner, created, done, dropped>>

(***************************************************************************)
(* Types and frames                                                        *)
(***************************************************************************)
\* pc is the field of Frame; ran (bodies executed) and awaits (classes whose
\* initialisers were put above the frame) are history.
Frame ==
    [cls : Classes, method : Methods, pc : Nat, ran : Nat, awaits : SUBSET Classes]

StepState == {"unspawned", "fetch", "resolveWrite", "loading", "body", "dead"}

SpawnerState ==
    [phase : {"idle", "main", "string"}, thread : Threads \cup {NoAgent}, loaded : SUBSET Classes]

Idle == [phase |-> "idle", thread |-> NoAgent, loaded |-> {}]

HasClinit == {c \in Classes : Clinit[c] # NoMethod}

NewFrame(c, m) == [cls |-> c, method |-> m, pc |-> 0, ran |-> 0, awaits |-> {}]

IsInitializer(f) == f.method = Clinit[f.cls]

Running(t) == frames[t] # <<>>
Current(t) == Last(frames[t])

\* The instruction the current frame is executing: pc has moved past it.
Executing(t) == Code[Current(t).method][Current(t).pc]

\* Faulty variant: the new frames end up below the current one.
ReplaceBelow(t, f, more) ==
    frames' = [frames EXCEPT ![t] = Front(@) \o more \o <<f>>]

\* The current frame of t replaced by f, with more frames above it.
Replace(t, f, more) == frames' = [frames EXCEPT ![t] = Append(Front(@), f) \o more]

\* The initialisers of a report, in the order a HashSet iterates.
Initializers(loaded) ==
    {[i \in DOMAIN order |-> NewFrame(order[i], Clinit[order[i]])] :
        order \in SetToSeqs(loaded \cap HasClinit)}

Schedule(loaded) ==
    created' = [c \in Classes |-> IF c \in loaded \cap HasClinit THEN created[c] + 1 ELSE created[c]]

(***************************************************************************)
(* Threads                                                                 *)
(***************************************************************************)
\* Faulty variant: the end of a method ends the thread.
PopAllFrames(t) ==
    /\ step[t] = "fetch"
    /\ Running(t)
    /\ Current(t).pc = Len(Code[Current(t).method])
    /\ frames' = [frames EXCEPT ![t] = <<>>]
    /\ done' = IF IsInitializer(Current(t)) THEN done \cup {Current(t).cls} ELSE done
    /\ UNCHANGED <<loaderVars, owner, step, spawner, created, dropped>>

\* step: the current frame has come to the end of its code, or ireturn or areturn
\* pops it, which is the last instruction of its code here.
PopFrame(t) ==
    /\ step[t] = "fetch"
    /\ Running(t)
    /\ Current(t).pc = Len(Code[Current(t).method])
    /\ frames' = [frames EXCEPT ![t] = Front(@)]
    /\ done' = IF IsInitializer(Current(t)) THEN done \cup {Current(t).cls} ELSE done
    /\ UNCHANGED <<loaderVars, owner, step, spawner, created, dropped>>

\* step: fetch, and get_class under the read lock of lazy_class_resolve!.
\* Unwrapping a class that is Loading panics.
Resolve(t) ==
    /\ step[t] = "fetch"
    /\ Running(t)
    /\ Current(t).pc < Len(Code[Current(t).method])
    /\ owner = NoAgent
    /\ Replace(t, [Current(t) EXCEPT !.pc = @ + 1], <<>>)
    /\ LET c == Code[Current(t).method][Current(t).pc + 1].cls
       IN  step' = [step EXCEPT ![t] =
               IF classMap[c] = "Loaded" THEN "body"
               ELSE IF classMap[c] = "Absent" THEN "resolveWrite" ELSE "dead"]
    /\ UNCHANGED <<loaderVars, owner, spawner, history>>

\* Faulty variant: the write lock is not waited for.
ResolveWriteUnlocked(t) ==
    /\ step[t] = "resolveWrite"
    /\ owner' = t
    /\ Request(Executing(t).cls)
    /\ step' = [step EXCEPT ![t] = "loading"]
    /\ UNCHANGED <<frames, spawner, history>>

\* lazy_class_resolve!: the write lock, and the call of load_and_link_class.
\* Another thread may have loaded the class since the read lock was released.
ResolveWrite(t) ==
    /\ step[t] = "resolveWrite"
    /\ owner = NoAgent
    /\ owner' = t
    /\ Request(Executing(t).cls)
    /\ step' = [step EXCEPT ![t] = "loading"]
    /\ UNCHANGED <<frames, spawner, history>>

\* init_static! without classes to initialise goes on to the body ...
NothingToInitialize(t) ==
    /\ step[t] = "loading"
    /\ ~Busy
    /\ result.kind = "ok"
    /\ result.loaded \cap HasClinit = {}
    /\ owner' = NoAgent
    /\ step' = [step EXCEPT ![t] = "body"]
    /\ UNCHANGED <<loaderVars, frames, spawner, history>>

\* Faulty variants: pc is stepped back twice, or not at all; only the class that
\* was asked for is initialised.
InitStaticTwiceBack(t) ==
    /\ step[t] = "loading"
    /\ ~Busy
    /\ result.kind = "ok"
    /\ result.loaded \cap HasClinit # {}
    /\ owner' = NoAgent
    /\ \E more \in Initializers(result.loaded) :
          Replace(t, [Current(t) EXCEPT !.pc = @ - 2,
                                        !.awaits = result.loaded \cap HasClinit], more)
    /\ Schedule(result.loaded)
    /\ step' = [step EXCEPT ![t] = "fetch"]
    /\ UNCHANGED <<loaderVars, spawner, done, dropped>>

InitStaticNotBack(t) ==
    /\ step[t] = "loading"
    /\ ~Busy
    /\ result.kind = "ok"
    /\ result.loaded \cap HasClinit # {}
    /\ owner' = NoAgent
    /\ \E more \in Initializers(result.loaded) :
          Replace(t, [Current(t) EXCEPT !.pc = @ - 0,
                                        !.awaits = result.loaded \cap HasClinit], more)
    /\ Schedule(result.loaded)
    /\ step' = [step EXCEPT ![t] = "fetch"]
    /\ UNCHANGED <<loaderVars, spawner, done, dropped>>

InitStaticOnlyAsked(t) ==
    /\ step[t] = "loading"
    /\ ~Busy
    /\ result.kind = "ok"
    /\ result.loaded \cap HasClinit # {}
    /\ owner' = NoAgent
    /\ \E more \in Initializers({Executing(t).cls}) :
          Replace(t, [Current(t) EXCEPT !.pc = @ - 1,
                                        !.awaits = {Executing(t).cls} \cap HasClinit], more)
    /\ Schedule({Executing(t).cls})
    /\ step' = [step EXCEPT ![t] = "fetch"]
    /\ UNCHANGED <<loaderVars, spawner, done, dropped>>

\* ... and with classes to initialise steps pc back and pushes their <clinit>.
InitStatic(t) ==
    /\ step[t] = "loading"
    /\ ~Busy
    /\ result.kind = "ok"
    /\ result.loaded \cap HasClinit # {}
    /\ owner' = NoAgent
    /\ \E more \in Initializers(result.loaded) :
          Replace(t, [Current(t) EXCEPT !.pc = @ - 1,
                                        !.awaits = result.loaded \cap HasClinit], more)
    /\ Schedule(result.loaded)
    /\ step' = [step EXCEPT ![t] = "fetch"]
    /\ UNCHANGED <<loaderVars, spawner, done, dropped>>

\* Faulty variant: the error path does not release the write lock.
LoadFailsLocked(t) ==
    /\ step[t] = "loading"
    /\ ~Busy
    /\ result.kind # "ok"
    /\ step' = [step EXCEPT ![t] = "dead"]
    /\ dropped' = dropped \cup (Linked \ baseline)
    /\ UNCHANGED <<loaderVars, owner, frames, spawner, created, done>>

\* The ? after load_and_link_class, or a panic in it: the thread ends, and with
\* the guard the lock is released.  What the request had linked is not reported.
LoadFails(t) ==
    /\ step[t] = "loading"
    /\ ~Busy
    /\ result.kind # "ok"
    /\ owner' = NoAgent
    /\ step' = [step EXCEPT ![t] = "dead"]
    /\ dropped' = dropped \cup (Linked \ baseline)
    /\ UNCHANGED <<loaderVars, frames, spawner, created, done>>

\* The body of the instruction; invokestatic pushes the frame of its method.  The
\* locks that ldc takes are in StringPool.
Body(t) ==
    /\ step[t] = "body"
    /\ Replace(t, [Current(t) EXCEPT !.ran = @ + 1],
               IF Executing(t).calls = NoMethod THEN <<>>
               ELSE <<NewFrame(Executing(t).cls, Executing(t).calls)>>)
    /\ step' = [step EXCEPT ![t] = "fetch"]
    /\ UNCHANGED <<loaderVars, owner, spawner, history>>

\* A body that returns an error or panics ends the thread.
BodyFails(t) ==
    /\ step[t] = "body"
    /\ step' = [step EXCEPT ![t] = "dead"]
    /\ UNCHANGED <<loaderVars, owner, frames, spawner, history>>

(***************************************************************************)
(* spawn_thread                                                            *)
(***************************************************************************)
\* The write lock, held to the end of spawn_thread, and the main class.
Spawn(t) ==
    /\ spawner = Idle
    /\ step[t] = "unspawned"
    /\ owner = NoAgent
    /\ owner' = Spawner
    /\ Request(Entry[t].cls)
    /\ spawner' = [phase |-> "main", thread |-> t, loaded |-> {}]
    /\ UNCHANGED <<frames, step, history>>

\* load_and_link_class("java/lang/String") for the first argument.
SpawnString ==
    /\ spawner.phase = "main"
    /\ ~Busy
    /\ result.kind = "ok"
    /\ Entry[spawner.thread].method # NoMethod
    /\ Entry[spawner.thread].args
    /\ Request(Entry[spawner.thread].string)
    /\ spawner' = [spawner EXCEPT !.phase = "string", !.loaded = result.loaded]
    /\ UNCHANGED <<owner, frames, step, history>>

\* The main frame, and above it a <clinit> frame per class of the report of the
\* main class.
Start(loaded) ==
    /\ \E more \in Initializers(loaded) :
          LET bottom == [NewFrame(Entry[spawner.thread].cls, Entry[spawner.thread].method)
                         EXCEPT !.awaits = loaded \cap HasClinit]
          IN  frames' = [frames EXCEPT ![spawner.thread] = <<bottom>> \o more]
    /\ Schedule(loaded)
    /\ step' = [step EXCEPT ![spawner.thread] = "fetch"]
    /\ owner' = NoAgent
    /\ spawner' = Idle
    /\ UNCHANGED <<loaderVars, done>>

SpawnWithoutArguments ==
    /\ spawner.phase = "main"
    /\ ~Busy
    /\ result.kind = "ok"
    /\ Entry[spawner.thread].method # NoMethod
    /\ ~Entry[spawner.thread].args
    /\ Start(result.loaded)
    /\ UNCHANGED dropped

\* The report for java/lang/String is used for its class only.
SpawnWithArguments ==
    /\ spawner.phase = "string"
    /\ ~Busy
    /\ result.kind = "ok"
    /\ Start(spawner.loaded)
    /\ dropped' = dropped \cup result.loaded

\* A load that fails, get_method that finds no such method or one without code,
\* on which create_frame panics, or create_string that fails: spawn_thread ends,
\* and the report of the main class with it.
SpawnFails ==
    /\ spawner.phase # "idle"
    /\ ~Busy
    /\ \/ result.kind # "ok"
       \/ spawner.phase = "main" /\ Entry[spawner.thread].method = NoMethod
       \/ spawner.phase = "string"
    /\ dropped' = dropped \cup spawner.loaded \cup (Linked \ baseline)
    /\ step' = [step EXCEPT ![spawner.thread] = "dead"]
    /\ owner' = NoAgent
    /\ spawner' = Idle
    /\ UNCHANGED <<loaderVars, frames, created, done>>

(***************************************************************************)
(* Specification                                                           *)
(***************************************************************************)
\* load_and_link_class going on for whoever holds the write lock.
Loads == Step /\ UNCHANGED <<owner, frames, step, spawner, history>>

ThreadStep(t) ==
    \/ PopFrame(t)
    \/ Resolve(t)
    \/ ResolveWrite(t)
    \/ NothingToInitialize(t)
    \/ InitStatic(t)
    \/ LoadFails(t)
    \/ Body(t)
    \/ BodyFails(t)

SpawnStep ==
    \/ SpawnString
    \/ SpawnWithoutArguments
    \/ SpawnWithArguments
    \/ SpawnFails

VmInit ==
    /\ Init
    /\ owner = NoAgent
    /\ frames = [t \in Threads |-> <<>>]
    /\ step = [t \in Threads |-> "unspawned"]
    /\ spawner = Idle
    /\ created = [c \in Classes |-> 0]
    /\ done = {}
    /\ dropped = {}

VmNext ==
    \/ Loads
    \/ \E t \in Threads : ThreadStep(t) \/ Spawn(t)
    \/ SpawnStep

\* Each thread of the operating system goes on; nobody has to call spawn_thread.
VmFairness ==
    /\ WF_initVars(Loads)
    /\ WF_initVars(SpawnStep)
    /\ \A t \in Threads : WF_initVars(ThreadStep(t))

VmSpec == VmInit /\ [][VmNext]_initVars /\ VmFairness

(***************************************************************************)
(* Properties                                                              *)
(***************************************************************************)
VmTypeOK ==
    /\ TypeOK
    /\ owner \in Threads \cup {Spawner, NoAgent}
    /\ frames \in [Threads -> Seq(Frame)]
    /\ step \in [Threads -> StepState]
    /\ spawner \in SpawnerState
    /\ created \in [Classes -> Nat]
    /\ done \subseteq Classes
    /\ dropped \subseteq Classes

\* A static initialiser runs at most once in the life of the machine, whichever
\* threads race to resolve its class: at most one <clinit> frame is ever created
\* for a class (thread.rs:101-128, lib.rs:104-114).
ClinitAtMostOnce == \A c \in Classes : created[c] <= 1

\* The reports that are still on the way: of the request that holds the lock,
\* and of the main class while java/lang/String is loaded.
OnTheWay == (Linked \ baseline) \cup spawner.loaded

\* No linked class is forgotten: its <clinit> has been given a frame, or its
\* report is on the way, or was lost at one of the places that lose reports.
LoadedIsScheduled ==
    \A c \in Linked \cap HasClinit :
        \/ created[c] > 0
        \/ c \in dropped
        \/ owner # NoAgent /\ c \in OnTheWay

\* Stepping pc back repeats the fetch and never the body: in every frame pc
\* counts the bodies that ran, but for the instruction in execution, so none is
\* skipped or run twice (thread.rs:97, 108).
InstructionsRunOnce ==
    \A t \in Threads : \A i \in 1..Len(frames[t]) :
        LET f == frames[t][i] IN
        f.pc = IF i = Len(frames[t]) /\ step[t] \in {"resolveWrite", "loading", "body", "dead"}
                 THEN f.ran + 1 ELSE f.ran

\* When the frame that asked for a class is on top again, the initialisers put
\* above it have run to their end: the retried instruction, and the main method
\* of a new thread, find their own classes initialised.
RetryFindsInitialized ==
    \A t \in Threads : Running(t) => Current(t).awaits \subseteq done

\* The write lock is held while a class is loaded, and by one that waits for it.
LoadsUnderLock ==
    /\ Busy => owner # NoAgent
    /\ \A t \in Threads : step[t] = "loading" <=> owner = t
    /\ spawner # Idle <=> owner = Spawner

\* Every spawned thread comes to its end, whoever it waits for and whatever
\* fails: no error path keeps the write lock.
ThreadsEnd ==
    \A t \in Threads : step[t] # "unspawned" ~> step[t] = "dead" \/ ~Running(t)

\* A class whose <clinit> has a frame gets initialised, unless a thread ended on
\* an error or a panic on the way.
InitializersFinish ==
    \A c \in Classes :
        created[c] > 0 ~> c \in done \/ \E t \in Threads : step[t] = "dead" /\ Running(t)

(***************************************************************************)
(* The inductive strengthening                                             *)
(***************************************************************************)
\* Frames and the spawner are where their step says: pc stays inside the code,
\* past the instruction that is being executed, and the thread that is being
\* spawned has no frames yet.
Placed ==
    /\ \A t \in Threads :
          /\ \A i \in 1..Len(frames[t]) : frames[t][i].pc <= Len(Code[frames[t][i].method])
          /\ step[t] \in {"resolveWrite", "loading", "body"} =>
                Running(t) /\ Current(t).pc >= 1
          /\ step[t] = "unspawned" => ~Running(t)
    /\ spawner.phase = "idle" => spawner = Idle
    /\ spawner # Idle => spawner.thread \in Threads /\ step[spawner.thread] = "unspawned"
    /\ spawner.phase = "main" => spawner.loaded = {}
    /\ spawner.phase = "string" => Entry[spawner.thread].method # NoMethod

\* Only a linked class has a <clinit> frame, and none whose report is still on
\* the way.
Unscheduled ==
    /\ \A c \in Classes : created[c] > 0 => c \in Linked
    /\ spawner.loaded \subseteq Linked
    /\ owner # NoAgent => \A c \in OnTheWay : created[c] = 0

\* What a frame waits for is initialised, or its <clinit> is in a frame above.
Awaited ==
    \A t \in Threads : \A i \in 1..Len(frames[t]) : \A c \in frames[t][i].awaits :
        \/ c \in done
        \/ \E j \in (i + 1)..Len(frames[t]) :
              frames[t][j].cls = c /\ IsInitializer(frames[t][j])

(***************************************************************************)
(* What the code says of itself and does not keep                          *)
(***************************************************************************)
\* "Initializes classes whenever necessary" (thread.rs:94): the body of an
\* instruction works on a class that is initialised, or being initialised by
\* the thread itself.
InitBeforeUse ==
    \A t \in Threads : step[t] = "body" =>
        LET c == Executing(t).cls IN
        \/ c \notin HasClinit
        \/ c \in done
        \/ \E i \in 1..Len(frames[t]) :
              IsInitializer(frames[t][i]) /\ frames[t][i].cls = c
=============================================================================
