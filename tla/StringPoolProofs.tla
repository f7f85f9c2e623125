-------------------------- MODULE StringPoolProofs --------------------------
(***************************************************************************)
(* Theorems about StringPool, for any threads, strings and capacity.       *)
(***************************************************************************)
EXTENDS StringPool, SequenceTheorems, TLAPS

USE PoolAssumption

(***************************************************************************)
(* Types                                                                   *)
(***************************************************************************)
\* What the types of the steps rest on: the string of a working agent, the
\* reference it has been given, and the argument spawn_thread is allocating.
AgentsReady ==
    /\ \A a \in Agents :
          /\ task[a].at \in {"read", "lookup", "getClass", "create", "checking", "chars",
                             "insert", "inserting", "store"} => StringOf(a) \in Strings
          /\ task[a].at \in {"chars", "insert", "inserting", "store"} => task[a].ref \in Refs
    /\ task[Spawner].at \in {"create", "checking", "chars", "store"} => args # <<>>

Types == PoolTypeOK /\ AgentsReady

\* A step that moves agent a, keeps its string and reference and touches no data.
LEMMA GotoTypes ==
    ASSUME Types, NEW a \in Agents, NEW at \in At, Goto(a, at),
           at \in {"read", "lookup", "getClass", "create", "checking", "chars",
                   "insert", "inserting", "store"} => StringOf(a) \in Strings,
           at \in {"chars", "insert", "inserting", "store"} => task[a].ref \in Refs,
           a = Spawner /\ at \in {"create", "checking", "chars", "store"} => args # <<>>,
           UNCHANGED args
    PROVE  task' \in [Agents -> Task] /\ AgentsReady'
  BY DEF Types, PoolTypeOK, AgentsReady, Goto, Task, Agents, StringOf

\* A step after which agent a works on nothing.
LEMMA StopTypes ==
    ASSUME Types, NEW a \in Agents, NEW at \in {"idle", "dead"}, Stop(a, at),
           a = Spawner \/ UNCHANGED args
    PROVE  task' \in [Agents -> Task] /\ AgentsReady'
  BY DEF Types, PoolTypeOK, AgentsReady, Stop, Stopped, Task, At, Agents, StringOf

\* A step that gives agent a another string.
LEMMA StringTypes ==
    ASSUME Types, NEW a \in Agents, NEW at \in {"read", "create"}, NEW s \in Strings,
           task' = [task EXCEPT ![a].at = at, ![a].string = s],
           a = Spawner => args # <<>>,
           UNCHANGED args
    PROVE  task' \in [Agents -> Task] /\ AgentsReady'
  BY DEF Types, PoolTypeOK, AgentsReady, Task, At, Agents, StringOf

\* A step that gives agent a another reference.
LEMMA RefTypes ==
    ASSUME Types, NEW a \in Agents, NEW at \in {"chars", "insert", "store"}, NEW r \in Refs,
           task[a].at \in {"checking", "chars"},
           task' = [task EXCEPT ![a].at = at, ![a].ref = r],
           UNCHANGED args
    PROVE  task' \in [Agents -> Task] /\ AgentsReady'
  BY DEF Types, PoolTypeOK, AgentsReady, Task, At, Agents, StringOf

\* Taking and leaving a lock keeps its type.
LEMMA LockTypes ==
    ASSUME PoolTypeOK, NEW a \in Agents
    PROVE  /\ Table!Read(a) \/ Table!EndRead(a) \/ Table!Announce(a) \/ Table!EndWrite
                => stringsLock' \in Table!LockType
           /\ Loader!Read(a) \/ Loader!EndRead(a) \/ Loader!Announce(a) \/ Loader!EndWrite
                => loaderLock' \in Loader!LockType
  BY DEF PoolTypeOK, Table!Read, Table!EndRead, Table!Announce, Table!EndWrite, Table!LockType,
         Loader!Read, Loader!EndRead, Loader!Announce, Loader!EndWrite, Loader!LockType

\* The arguments of spawn_thread are a sequence.
LEMMA ArgumentsAreStrings ==
    ASSUME NEW arguments \in UNION {[1..n -> Strings] : n \in 0..MaxArgs}
    PROVE  arguments \in Seq(Strings)
  OBVIOUS

\* Nothing has been asked for yet.
LEMMA InitTypes == PoolInit => Types
  BY DEF PoolInit, Types, PoolTypeOK, AgentsReady, Loader!Free, Loader!LockType, Table!Free,
         Table!LockType, StringFile, Stopped, Task, At, Agents, Refs, NoRef, Object

\* One step per action; each is a case of the lemmas above.
LEMMA TypesStep == Types /\ [PoolNext]_poolVars => Types'
  <1> SUFFICES ASSUME Types, [PoolNext]_poolVars PROVE Types'
    OBVIOUS
  <1> USE LockTypes DEF Refs, NoRef
  <1>1. CASE UNCHANGED poolVars
    BY <1>1 DEF poolVars, Types, PoolTypeOK, AgentsReady, StringOf
  <1>2. ASSUME NEW t \in Threads, NEW s \in Strings, Ldc(t, s) PROVE Types'
    BY <1>2, StringTypes DEF Ldc, Types, PoolTypeOK, Agents
  <1>3. ASSUME NEW t \in Threads, ReadStrings(t) PROVE Types'
    BY <1>3, GotoTypes DEF ReadStrings, Types, PoolTypeOK, Agents, At, AgentsReady
  <1>4. ASSUME NEW t \in Threads, Hit(t) PROVE Types'
    BY <1>4, StopTypes DEF Hit, Types, PoolTypeOK, Agents, AgentsReady, Give, Reference
  <1>5. ASSUME NEW t \in Threads, Miss(t) PROVE Types'
    BY <1>5, GotoTypes DEF Miss, Types, PoolTypeOK, Agents, At, AgentsReady
  <1>6. ASSUME NEW t \in Threads, GetClass(t) PROVE Types'
    BY <1>6, GotoTypes DEF GetClass, Types, PoolTypeOK, Agents, At, AgentsReady
  <1>7. ASSUME NEW t \in Threads, GetClassFails(t) PROVE Types'
    BY <1>7, StopTypes DEF GetClassFails, Types, PoolTypeOK, Agents
  <1>8. ASSUME NEW t \in Threads, InsertLock(t) PROVE Types'
    BY <1>8, GotoTypes DEF InsertLock, Types, PoolTypeOK, Agents, At, AgentsReady
  <1>9. ASSUME NEW t \in Threads, Insert(t) PROVE Types'
    BY <1>9, StopTypes DEF Insert, Types, PoolTypeOK, Agents, AgentsReady, Give
  <1>10. ASSUME NEW t \in Threads, Resolve(t) PROVE Types'
    BY <1>10, GotoTypes DEF Resolve, Types, PoolTypeOK, Agents, At
  <1>11. ASSUME NEW t \in Threads, Resolved(t) PROVE Types'
    BY <1>11, StopTypes DEF Resolved, Types, PoolTypeOK, Agents, AfterLoad
  <1>12. ASSUME NEW arguments \in Seq(Strings), Spawn(arguments) PROVE Types'
    <2>1. task' \in [Agents -> Task] /\ AgentsReady'
      BY <1>12 DEF Spawn, Goto, Types, PoolTypeOK, AgentsReady, Agents, Task, At, StringOf
    <2> QED
      BY <1>12, <2>1 DEF Spawn, Types, PoolTypeOK
  <1>13. ASSUME NEW a \in Agents, LoaderLock(a) PROVE Types'
    BY <1>13, GotoTypes DEF LoaderLock, Types, PoolTypeOK, Agents, At
  <1>14. ASSUME NEW a \in Agents, CreateLock(a) PROVE Types'
    BY <1>14, GotoTypes DEF CreateLock, Types, PoolTypeOK, Agents, At, AgentsReady
  <1>15. ASSUME NEW a \in Agents, Existing(a) PROVE Types'
    <2>1. Reference(a) \in Refs
      BY <1>15 DEF Existing, Reference, Types, PoolTypeOK, AgentsReady
    <2>2. task' \in [Agents -> Task] /\ AgentsReady'
      BY <1>15, <2>1, RefTypes DEF Existing, Created, Return
    <2> QED
      BY <1>15, <2>2 DEF Existing, Created, Types, PoolTypeOK
  <1>16. ASSUME NEW a \in Agents, NEW at \in {"idle", "dead"}, CreateFails(a, at),
                UNCHANGED objects
         PROVE  Types'
    <2>1. a = Spawner \/ UNCHANGED args
      BY <1>16 DEF CreateFails
    <2>2. args' \in Seq(Strings)
      BY <1>16, EmptySeq DEF CreateFails, Types, PoolTypeOK
    <2> QED
      BY <1>16, <2>1, <2>2, StopTypes DEF CreateFails, Types, PoolTypeOK, Agents
  <1>17. ASSUME NEW a \in Agents, CreateObject(a) PROVE Types'
    <2>1. StringOf(a) \in Strings /\ Len(objects) \in Nat
      BY <1>17 DEF CreateObject, Types, AgentsReady, PoolTypeOK
    <2>2. /\ Len(objects) + 1 \in Refs
          /\ objects' \in Seq(Object)
          /\ Len(objects') = Len(objects) + 1
      BY <1>17, <2>1 DEF CreateObject, NewObject, Object, Types, PoolTypeOK
    <2>3. task' \in [Agents -> Task] /\ AgentsReady'
      BY <1>17, <2>2, RefTypes DEF CreateObject, NewObject
    <2> QED
      BY <1>17, <2>2, <2>3 DEF CreateObject, NewObject, Types, PoolTypeOK
  <1>18. ASSUME NEW a \in Agents, PutChars(a) PROVE Types'
    <2>1. task[a].ref \in Refs /\ StringOf(a) \in Strings
      BY <1>18 DEF PutChars, Types, AgentsReady
    <2>2. task' \in [Agents -> Task] /\ AgentsReady'
      BY <1>18, <2>1, RefTypes DEF PutChars, Created, Return
    <2> DEFINE r == task[a].ref
               whole == [objects[r] EXCEPT !.chars = TRUE]
    <2>3. objects' = [objects EXCEPT ![r] = whole] /\ objects \in Seq(Object)
      BY <1>18 DEF PutChars, Types, PoolTypeOK
    <2>4. ASSUME r \in 1..Len(objects)
         PROVE  objects' \in Seq(Object) /\ Len(objects') = Len(objects)
      <3>1. objects[r] \in Object
        <4> HIDE DEF r
        <4> QED
          BY <2>3, <2>4, ElementOfSeq
      <3>2. whole \in Object
        BY <3>1 DEF Object
      <3> HIDE DEF r, whole
      <3> QED
        BY <2>3, <2>4, <3>2, ExceptSeq
    <2>5. ASSUME r \notin 1..Len(objects)
         PROVE  objects' \in Seq(Object) /\ Len(objects') = Len(objects)
      <3>1. objects \in [1..Len(objects) -> Object]
        BY <2>3, LenProperties
      <3>2. objects' = objects
        BY <2>3, <2>5, <3>1
      <3> QED
        BY <2>3, <3>2
    <2>6. objects' \in Seq(Object) /\ Len(objects') = Len(objects)
      BY <2>4, <2>5
    <2> QED
      BY <1>18, <2>1, <2>2, <2>6 DEF PutChars, Created, Types, PoolTypeOK
  <1>19. ASSUME MainLoaded PROVE Types'
    BY <1>19, GotoTypes DEF MainLoaded, Types, PoolTypeOK, Agents, At, AfterLoad
  <1>20. ASSUME MainFails PROVE Types'
    BY <1>20, StopTypes, EmptySeq DEF MainFails, Types, PoolTypeOK, Agents, AfterLoad
  <1>21. ASSUME Argument PROVE Types'
    <2>1. Head(args) \in Strings
      BY <1>21, HeadTailProperties DEF Argument, Types, PoolTypeOK
    <2> QED
      BY <1>21, <2>1, StringTypes DEF Argument, Types, PoolTypeOK, Agents, AfterLoad
  <1>22. ASSUME ArgumentFails PROVE Types'
    BY <1>22, StopTypes, EmptySeq DEF ArgumentFails, Types, PoolTypeOK, Agents, AfterLoad
  <1>23. ASSUME Store PROVE Types'
    <2>1. args' \in Seq(Strings) /\ task[Spawner].ref \in Refs /\ StringOf(Spawner) \in Strings
      BY <1>23, HeadTailProperties DEF Store, Types, PoolTypeOK, AgentsReady, Agents
    <2>2. task' \in [Agents -> Task] /\ AgentsReady'
      BY <1>23 DEF Store, Goto, Types, PoolTypeOK, AgentsReady, Agents, Task, At, StringOf
    <2> QED
      BY <1>23, <2>1, <2>2 DEF Store, Give, Types, PoolTypeOK
  <1>24. ASSUME Spawned PROVE Types'
    BY <1>24, StopTypes DEF Spawned, Types, PoolTypeOK, Agents
  <1>25. ASSUME NEW a \in Agents, CreateString(a) PROVE Types'
    BY <1>25, <1>14, <1>15, <1>16, <1>17, <1>18
       DEF CreateString, HeapFull, NoCharsField
  <1>26. ASSUME NEW t \in Threads, Work(t) PROVE Types'
    BY <1>26, <1>3, <1>4, <1>5, <1>6, <1>7, <1>8, <1>9, <1>11 DEF Work
  <1>27. ASSUME SpawnWork PROVE Types'
    BY <1>27, <1>19, <1>20, <1>21, <1>22, <1>23, <1>24 DEF SpawnWork
  <1> QED
    BY <1>1, <1>2, <1>10, <1>12, <1>13, <1>25, <1>26, <1>27, ArgumentsAreStrings
       DEF PoolNext, Continue

(***************************************************************************)
(* Guards                                                                  *)
(***************************************************************************)
\* Both locks are free at first.
LEMMA InitGuards == PoolInit => GuardsConsistent
  BY DEF PoolInit, GuardsConsistent, Loader!Free, Table!Free, Stopped, Agents

\* One step per action: where the agent goes, and which guard it takes or drops.
LEMMA GuardsStep == Types /\ GuardsConsistent /\ [PoolNext]_poolVars => GuardsConsistent'
  <1> SUFFICES ASSUME Types, GuardsConsistent, [PoolNext]_poolVars PROVE GuardsConsistent'
    OBVIOUS
  <1> USE DEF Types, PoolTypeOK, GuardsConsistent, Agents, Task, Loader!LockType, Table!LockType
  <1>1. CASE UNCHANGED poolVars
    BY <1>1 DEF poolVars
  <1>2. ASSUME NEW t \in Threads, NEW s \in Strings, Ldc(t, s) PROVE GuardsConsistent'
    BY <1>2 DEF Ldc
  <1>3. ASSUME NEW t \in Threads, Resolve(t) PROVE GuardsConsistent'
    BY <1>3 DEF Resolve, Goto
  <1>4. ASSUME NEW t \in Threads, ReadStrings(t) PROVE GuardsConsistent'
    BY <1>4 DEF ReadStrings, Goto, Table!Read
  <1>5. ASSUME NEW t \in Threads, Hit(t) PROVE GuardsConsistent'
    BY <1>5 DEF Hit, Stop, Stopped, Table!EndRead
  <1>6. ASSUME NEW t \in Threads, Miss(t) PROVE GuardsConsistent'
    BY <1>6 DEF Miss, Goto, Table!EndRead
  <1>7. ASSUME NEW t \in Threads, GetClass(t) PROVE GuardsConsistent'
    BY <1>7 DEF GetClass, Goto, Loader!Read
  <1>8. ASSUME NEW t \in Threads, GetClassFails(t) PROVE GuardsConsistent'
    BY <1>8 DEF GetClassFails, Stop, Stopped
  <1>9. ASSUME NEW t \in Threads, InsertLock(t) PROVE GuardsConsistent'
    BY <1>9 DEF InsertLock, Goto, Table!Announce
  <1>10. ASSUME NEW t \in Threads, Insert(t) PROVE GuardsConsistent'
    BY <1>10 DEF Insert, Stop, Stopped, Table!Owns, Table!EndWrite
  <1>11. ASSUME NEW t \in Threads, Resolved(t) PROVE GuardsConsistent'
    BY <1>11 DEF Resolved, Stop, Stopped, Loader!Owns, Loader!EndWrite
  <1>12. ASSUME NEW a \in Agents, CreateLock(a) PROVE GuardsConsistent'
    BY <1>12 DEF CreateLock, Goto, Table!Announce
  <1>13. ASSUME NEW a \in Agents, Existing(a) PROVE GuardsConsistent'
    BY <1>13 DEF Existing, Created, Return, Table!Owns, Table!EndWrite, Loader!EndRead
  <1>14. ASSUME NEW a \in Agents, NEW at \in {"idle", "dead"}, CreateFails(a, at),
                task[a].at \in {"checking", "chars"}
         PROVE  GuardsConsistent'
    BY <1>14 DEF CreateFails, Stop, Stopped, Table!EndWrite, Loader!EndRead, Loader!EndWrite
  <1>15. ASSUME NEW a \in Agents, CreateObject(a) PROVE GuardsConsistent'
    BY <1>15 DEF CreateObject, NewObject, Table!Owns
  <1>16. ASSUME NEW a \in Agents, PutChars(a) PROVE GuardsConsistent'
    BY <1>16 DEF PutChars, Created, Return, Table!EndWrite, Loader!EndRead
  <1>17. ASSUME NEW a \in Agents, LoaderLock(a) PROVE GuardsConsistent'
    BY <1>17 DEF LoaderLock, Goto, Loader!Announce
  <1>18. ASSUME NEW arguments \in Seq(Strings), Spawn(arguments) PROVE GuardsConsistent'
    BY <1>18 DEF Spawn, Goto
  <1>19. ASSUME MainLoaded PROVE GuardsConsistent'
    BY <1>19 DEF MainLoaded, Goto
  <1>20. ASSUME MainFails PROVE GuardsConsistent'
    BY <1>20 DEF MainFails, Stop, Stopped, Loader!EndWrite
  <1>21. ASSUME Argument PROVE GuardsConsistent'
    BY <1>21 DEF Argument
  <1>22. ASSUME ArgumentFails PROVE GuardsConsistent'
    BY <1>22 DEF ArgumentFails, Stop, Stopped, Loader!EndWrite
  <1>23. ASSUME Store PROVE GuardsConsistent'
    BY <1>23 DEF Store, Goto
  <1>24. ASSUME Spawned PROVE GuardsConsistent'
    BY <1>24 DEF Spawned, Stop, Stopped, Loader!EndWrite
  <1>25. ASSUME NEW a \in Agents, CreateString(a) PROVE GuardsConsistent'
    BY <1>25, <1>12, <1>13, <1>14, <1>15, <1>16
       DEF CreateString, HeapFull, NoCharsField
  <1>26. ASSUME NEW t \in Threads, Work(t) PROVE GuardsConsistent'
    BY <1>26, <1>4, <1>5, <1>6, <1>7, <1>8, <1>9, <1>10, <1>11
       DEF Work
  <1>27. ASSUME SpawnWork PROVE GuardsConsistent'
    BY <1>27, <1>19, <1>20, <1>21, <1>22, <1>23, <1>24
       DEF SpawnWork
  <1> QED
    BY <1>1, <1>2, <1>3, <1>18, <1>17, <1>25, <1>26, <1>27, ArgumentsAreStrings
       DEF PoolNext, Continue

(***************************************************************************)
(* One object for each string                                              *)
(***************************************************************************)
\* CreatorsKnow is what makes the other two inductive: the reference an agent
\* inserts or stores is in the table already, and the one it writes is new.
Known == CreatorsKnow /\ WholeStrings /\ Interned

\* The table is empty at first.
LEMMA InitKnown == PoolInit => Known
  BY DEF PoolInit, Known, CreatorsKnow, WholeStrings, Interned, Stopped

\* Most steps leave the table, the objects and the history alone.
LEMMA QuietKnown ==
    ASSUME Known, UNCHANGED <<strings, objects, given>>
    PROVE  WholeStrings' /\ Interned'
  BY DEF Known, WholeStrings, Interned

\* The steps that give a reference give the one of the table: the insertion
\* after create_string changes nothing.
Gives(a) ==
    /\ UNCHANGED <<strings, objects>>
    /\ StringOf(a) \in Strings /\ Reference(a) # NoRef
    /\ given' = given \cup {<<StringOf(a), Reference(a)>>}

\* Hit, Insert and Store are such steps.
LEMMA Giving ==
    ASSUME Types, Known
    PROVE  /\ \A t \in Threads : Hit(t) \/ Insert(t) => Gives(t)
           /\ Store => Gives(Spawner)
  <1> USE DEF Gives, Give, Reference, Types, AgentsReady, Agents
  <1>1. ASSUME NEW t \in Threads, Hit(t) PROVE Gives(t)
    BY <1>1 DEF Hit
  <1>2. ASSUME NEW t \in Threads, Insert(t) PROVE Gives(t)
    <2>1. /\ StringOf(t) \in Strings /\ strings[StringOf(t)] = task[t].ref /\ task[t].ref # NoRef
          /\ strings \in [Strings -> Refs \cup {NoRef}]
      BY <1>2 DEF Insert, Known, CreatorsKnow, PoolTypeOK
    <2>2. strings' = strings
      BY <1>2, <2>1 DEF Insert
    <2> QED
      BY <1>2, <2>1, <2>2 DEF Insert
  <1>3. ASSUME Store PROVE Gives(Spawner)
    BY <1>3 DEF Store, Known, CreatorsKnow
  <1> QED
    BY <1>1, <1>2, <1>3

\* Giving what the table holds keeps the table whole and the history true.
LEMMA GivingKnown ==
    ASSUME Known, NEW a, Gives(a)
    PROVE  WholeStrings' /\ Interned'
  BY DEF Gives, Known, WholeStrings, Interned, Reference

\* An object with its chars written.
LEMMA FilledObject ==
    ASSUME NEW o \in Object
    PROVE  [o EXCEPT !.chars = TRUE] = [string |-> o.string, chars |-> TRUE]
  <1> DEFINE filled == [o EXCEPT !.chars = TRUE]
  <1>1. filled \in [string : {o.string}, chars : {TRUE}]
    BY DEF Object
  <1> HIDE DEF filled
  <1>2. filled = [string |-> o.string, chars |-> TRUE]
    BY <1>1
  <1> USE DEF filled
  <1> QED
    BY <1>2

\* put_field and the insertion of create_string: the object is the agent's own,
\* its string and its reference are both new to the table.
Fills(a, s, r) ==
    /\ s = StringOf(a) /\ s \in Strings /\ strings[s] = NoRef
    /\ r = task[a].ref /\ r \in Refs
    /\ r \in DOMAIN objects /\ objects[r] = [string |-> s, chars |-> FALSE]
    /\ \A u \in Strings : strings[u] # NoRef => u # s /\ strings[u] # r
    /\ \A b \in Agents \ {a} : task[b].at # "chars"
    /\ UNCHANGED given /\ strings' = [strings EXCEPT ![s] = r]
    /\ DOMAIN objects' = DOMAIN objects
    /\ objects'[r] = [string |-> s, chars |-> TRUE]
    /\ \A i \in DOMAIN objects \ {r} : objects'[i] = objects[i]

\* PutChars is such a step.
LEMMA Filling ==
    ASSUME Types, GuardsConsistent, Known, NEW a \in Agents, PutChars(a)
    PROVE  \E s, r : Fills(a, s, r)
  <1> SUFFICES ASSUME NEW s, s = StringOf(a), NEW r, r = task[a].ref
               PROVE  Fills(a, s, r)
    OBVIOUS
  <1>1. task[a].at = "chars" /\ \A b \in Agents \ {a} : task[b].at # "chars"
    BY DEF PutChars, GuardsConsistent, Types, PoolTypeOK
  <1>2. /\ r \in DOMAIN objects /\ objects[r] = [string |-> s, chars |-> FALSE]
        /\ strings[s] = NoRef
    BY <1>1 DEF Known, CreatorsKnow, Reference
  <1>3. r \in Refs /\ s \in Strings
    BY <1>1 DEF Types, AgentsReady
  <1>4. \A u \in Strings : strings[u] # NoRef => u # s /\ strings[u] # r
    <2>1. objects[r].chars = FALSE
      BY <1>2
    <2>2. ASSUME NEW u \in Strings, strings[u] # NoRef PROVE objects[strings[u]].chars = TRUE
      <3>1. objects[strings[u]] = [string |-> u, chars |-> TRUE]
        BY <2>2 DEF Known, WholeStrings
      <3> QED
        BY <3>1
    <2> QED
      BY <1>2, <2>1, <2>2
  <1> DEFINE whole == [objects[r] EXCEPT !.chars = TRUE]
  <1>5. /\ UNCHANGED given /\ strings' = [strings EXCEPT ![s] = r]
        /\ objects' = [objects EXCEPT ![r] = whole]
    BY DEF PutChars
  <1>6. objects \in [1..Len(objects) -> Object]
    BY LenProperties DEF Types, PoolTypeOK
  <1>7. whole = [string |-> s, chars |-> TRUE]
    BY <1>2, <1>6, FilledObject
  <1> HIDE DEF whole
  <1>8. /\ DOMAIN objects' = DOMAIN objects /\ objects'[r] = whole
        /\ \A i \in DOMAIN objects \ {r} : objects'[i] = objects[i]
    BY <1>2, <1>5, <1>6
  <1> QED
    BY <1>1, <1>2, <1>3, <1>4, <1>5, <1>7, <1>8 DEF Fills

\* One step per action: all but CreateObject, PutChars and those that give are quiet.
LEMMA KnownStep == Types /\ GuardsConsistent /\ Known /\ [PoolNext]_poolVars => Known'
  <1> SUFFICES ASSUME Types, GuardsConsistent, Known, [PoolNext]_poolVars PROVE Known'
    OBVIOUS
  <1> USE DEF StringOf, Reference, Task
  <1>1. CASE UNCHANGED poolVars
    BY <1>1 DEF poolVars, Known, CreatorsKnow, WholeStrings, Interned
  <1>2. ASSUME NEW t \in Threads, NEW s \in Strings, Ldc(t, s) PROVE Known'
    BY <1>2, QuietKnown DEF Ldc, Known, CreatorsKnow, Types, PoolTypeOK, Agents
  <1>3. ASSUME NEW t \in Threads, Resolve(t) PROVE Known'
    BY <1>3, QuietKnown
       DEF Resolve, Goto, Known, CreatorsKnow, Types, PoolTypeOK, Agents
  <1>4. ASSUME NEW t \in Threads, ReadStrings(t) PROVE Known'
    BY <1>4, QuietKnown
       DEF ReadStrings, Goto, Known, CreatorsKnow, Types, PoolTypeOK, Agents
  <1>5. ASSUME NEW t \in Threads, Hit(t) PROVE Known'
    <2>1. Gives(t)
      BY <1>5, Giving
    <2>2. WholeStrings' /\ Interned'
      BY <2>1, GivingKnown
    <2>3. CreatorsKnow'
      BY <1>5, <2>1 DEF Gives, Hit, Stop, Stopped, Known, CreatorsKnow, Types, PoolTypeOK
    <2> QED
      BY <2>2, <2>3 DEF Known
  <1>6. ASSUME NEW t \in Threads, Miss(t) PROVE Known'
    BY <1>6, QuietKnown
       DEF Miss, Goto, Known, CreatorsKnow, Types, PoolTypeOK, Agents
  <1>7. ASSUME NEW t \in Threads, GetClass(t) PROVE Known'
    BY <1>7, QuietKnown
       DEF GetClass, Goto, Known, CreatorsKnow, Types, PoolTypeOK, Agents
  <1>8. ASSUME NEW t \in Threads, GetClassFails(t) PROVE Known'
    BY <1>8, QuietKnown
       DEF GetClassFails, Stop, Stopped, Known, CreatorsKnow, Types, PoolTypeOK, Agents
  <1>9. ASSUME NEW t \in Threads, InsertLock(t) PROVE Known'
    BY <1>9, QuietKnown
       DEF InsertLock, Goto, Known, CreatorsKnow, Types, PoolTypeOK, Agents
  <1>10. ASSUME NEW t \in Threads, Insert(t) PROVE Known'
    <2>1. Gives(t)
      BY <1>10, Giving
    <2>2. WholeStrings' /\ Interned'
      BY <2>1, GivingKnown
    <2>3. CreatorsKnow'
      BY <1>10, <2>1 DEF Gives, Insert, Stop, Stopped, Known, CreatorsKnow, Types, PoolTypeOK
    <2> QED
      BY <2>2, <2>3 DEF Known
  <1>11. ASSUME NEW t \in Threads, Resolved(t) PROVE Known'
    BY <1>11, QuietKnown
       DEF Resolved, Stop, Stopped, Known, CreatorsKnow, Types, PoolTypeOK, Agents
  <1>12. ASSUME NEW a \in Agents, CreateLock(a) PROVE Known'
    BY <1>12, QuietKnown
       DEF CreateLock, Goto, Known, CreatorsKnow, Types, PoolTypeOK, Agents
  <1>13. ASSUME NEW a \in Agents, Existing(a) PROVE Known'
    BY <1>13, QuietKnown
       DEF Existing, Created, Return, Known, CreatorsKnow, Types, PoolTypeOK, Agents
  <1>14. ASSUME NEW a \in Agents, NEW at \in {"idle", "dead"}, CreateFails(a, at),
                UNCHANGED objects
         PROVE  Known'
    BY <1>14, QuietKnown
       DEF CreateFails, Stop, Stopped, Known, CreatorsKnow, Types, PoolTypeOK, Agents
  <1>15. ASSUME NEW a \in Agents, CreateObject(a) PROVE Known'
    <2> DEFINE new == [string |-> StringOf(a), chars |-> FALSE]
               r   == Len(objects) + 1
    <2>1. /\ \A b \in Agents \ {a} : task[b].at # "chars"
          /\ Reference(a) = NoRef /\ StringOf(a) \in Strings
          /\ objects \in Seq(Object)
          /\ UNCHANGED <<strings, given>>
      BY <1>15 DEF CreateObject, NewObject, GuardsConsistent, Types, PoolTypeOK, AgentsReady
    <2>2. /\ new \in Object /\ objects' = Append(objects, new)
          /\ task' = [task EXCEPT ![a].at = "chars", ![a].ref = r]
      BY <1>15, <2>1 DEF CreateObject, NewObject, Object
    <2>3. /\ DOMAIN objects = 1..Len(objects) /\ Len(objects) \in Nat
          /\ DOMAIN objects' = 1..r
          /\ \A i \in 1..Len(objects) : objects'[i] = objects[i]
          /\ objects'[r] = new
      <3> HIDE DEF new
      <3> QED
        BY <2>1, <2>2, AppendProperties, LenProperties
    <2>4. CreatorsKnow'
      BY <2>1, <2>2, <2>3 DEF Known, CreatorsKnow, Types, PoolTypeOK
    <2>5. WholeStrings' /\ Interned'
      BY <2>1, <2>3 DEF Known, WholeStrings, Interned
    <2> QED
      BY <2>4, <2>5 DEF Known
  <1>16. ASSUME NEW a \in Agents, PutChars(a) PROVE Known'
    <2>1. PICK s, r : Fills(a, s, r)
      BY <1>16, Filling
    <2>2. CreatorsKnow'
      <3>1. /\ task'[a].at # "chars" /\ task'[a].string = s /\ task'[a].ref = r
            /\ \A b \in Agents \ {a} : task'[b] = task[b]
        BY <1>16, <2>1 DEF Fills, PutChars, Created, Return, Types, PoolTypeOK
      <3>2. \A b \in Agents \ {a} : task[b].at \in {"insert", "inserting", "store"} =>
               StringOf(b) # s /\ StringOf(b) \in Strings
        BY <2>1 DEF Fills, Known, CreatorsKnow, Types, AgentsReady
      <3>3. r # NoRef /\ DOMAIN strings = Strings
        BY <2>1 DEF Fills, Types, PoolTypeOK, Refs, NoRef
      <3> QED
        BY <2>1, <3>1, <3>2, <3>3 DEF Fills, Known, CreatorsKnow
    <2>3. \A i \in DOMAIN objects : objects[i].chars =>
             i # r /\ objects[i].string # s /\ objects[i].string \in Strings
      <3>1. objects \in [1..Len(objects) -> Object] /\ Len(objects) \in Nat
        BY LenProperties DEF Types, PoolTypeOK
      <3> QED
        BY <2>1, <3>1 DEF Fills, Known, WholeStrings, NoRef, Object
    <2>4. WholeStrings'
      <3>1. ASSUME NEW u \in Strings, strings'[u] # NoRef
            PROVE  /\ strings'[u] \in DOMAIN objects'
                   /\ objects'[strings'[u]] = [string |-> u, chars |-> TRUE]
        BY <2>1, <3>1 DEF Fills, Known, WholeStrings, Types, PoolTypeOK
      <3>2. ASSUME NEW i \in DOMAIN objects', objects'[i].chars
            PROVE  strings'[objects'[i].string] = i
        BY <2>1, <2>3, <3>2 DEF Fills, Known, WholeStrings, Types, PoolTypeOK
      <3> QED
        BY <3>1, <3>2 DEF WholeStrings
    <2>5. Interned'
      BY <2>1 DEF Fills, Known, Interned, Types, PoolTypeOK, Refs, NoRef
    <2> QED
      BY <2>2, <2>4, <2>5 DEF Known
  <1>17. ASSUME NEW a \in Agents, LoaderLock(a) PROVE Known'
    BY <1>17, QuietKnown
       DEF LoaderLock, Goto, Known, CreatorsKnow, Types, PoolTypeOK, Agents
  <1>18. ASSUME NEW arguments \in Seq(Strings), Spawn(arguments) PROVE Known'
    BY <1>18, QuietKnown
       DEF Spawn, Goto, Known, CreatorsKnow, Types, PoolTypeOK, Agents
  <1>19. ASSUME MainLoaded PROVE Known'
    BY <1>19, QuietKnown
       DEF MainLoaded, Goto, Known, CreatorsKnow, Types, PoolTypeOK, Agents
  <1>20. ASSUME MainFails PROVE Known'
    BY <1>20, QuietKnown
       DEF MainFails, Stop, Stopped, Known, CreatorsKnow, Types, PoolTypeOK, Agents
  <1>21. ASSUME Argument PROVE Known'
    BY <1>21, QuietKnown
       DEF Argument, Known, CreatorsKnow, Types, PoolTypeOK, Agents
  <1>22. ASSUME ArgumentFails PROVE Known'
    BY <1>22, QuietKnown
       DEF ArgumentFails, Stop, Stopped, Known, CreatorsKnow, Types, PoolTypeOK, Agents
  <1>23. ASSUME Store PROVE Known'
    <2>1. Gives(Spawner)
      BY <1>23, Giving
    <2>2. WholeStrings' /\ Interned'
      BY <2>1, GivingKnown
    <2>3. CreatorsKnow'
      BY <1>23, <2>1 DEF Gives, Store, Goto, Known, CreatorsKnow, Types, PoolTypeOK
    <2> QED
      BY <2>2, <2>3 DEF Known
  <1>24. ASSUME Spawned PROVE Known'
    BY <1>24, QuietKnown
       DEF Spawned, Stop, Stopped, Known, CreatorsKnow, Types, PoolTypeOK, Agents
  <1>25. ASSUME NEW a \in Agents, CreateString(a) PROVE Known'
    BY <1>25, <1>12, <1>13, <1>14, <1>15, <1>16
       DEF CreateString, HeapFull, NoCharsField
  <1>26. ASSUME NEW t \in Threads, Work(t) PROVE Known'
    BY <1>26, <1>4, <1>5, <1>6, <1>7, <1>8, <1>9, <1>10, <1>11
       DEF Work
  <1>27. ASSUME SpawnWork PROVE Known'
    BY <1>27, <1>19, <1>20, <1>21, <1>22, <1>23, <1>24
       DEF SpawnWork
  <1> QED
    BY <1>1, <1>2, <1>3, <1>18, <1>17, <1>25, <1>26, <1>27, ArgumentsAreStrings
       DEF PoolNext, Continue

(***************************************************************************)
(* Theorems                                                                *)
(***************************************************************************)
Invariant == Types /\ GuardsConsistent /\ Known

\* The inductive invariant: types, guards, and what is known of table and objects.
LEMMA Invariance == PoolSpec => []Invariant
  <1>1. PoolInit => Invariant
    BY InitTypes, InitGuards, InitKnown DEF Invariant
  <1>2. Invariant /\ [PoolNext]_poolVars => Invariant'
    BY TypesStep, GuardsStep, KnownStep DEF Invariant
  <1> QED
    BY <1>1, <1>2, PTL DEF PoolSpec

\* The types of the state of string literals: PoolTypeOK is always true.
THEOREM PoolTyped == PoolSpec => []PoolTypeOK
  BY Invariance, PTL DEF Invariant, Types

\* The two locks: each guard is held by the agents whose code is between taking
\* and dropping it, and by no others (thread.rs:262-286, lib.rs:64-99).
THEOREM PoolGuarded == PoolSpec => []GuardsConsistent
  BY Invariance, PTL DEF Invariant

\* One string, one reference, whatever the threads do between their lookup,
\* create_string and their insertion (thread.rs:262-281, heap.rs:37-75).
THEOREM StringsInterned == PoolSpec => []Interned
  BY Invariance, PTL DEF Invariant, Known

\* The table never names a string object whose chars are not written, and each
\* whole string object is the one the table names.
THEOREM StringsWhole == PoolSpec => []WholeStrings
  BY Invariance, PTL DEF Invariant, Known

\* What a creator learned before it let a lock go is true when it uses it.
THEOREM CreatorsRight == PoolSpec => []CreatorsKnow
  BY Invariance, PTL DEF Invariant, Known

(***************************************************************************)
(* Refinement of InternTable                                               *)
(***************************************************************************)
\* PutChars is Define; Hit, Insert and Store are Give; the others stutter.
LEMMA InternStep == Invariant /\ [PoolNext]_poolVars => [Abstract!Next]_<<strings, given>>
  <1> SUFFICES ASSUME Types, GuardsConsistent, Known, [PoolNext]_poolVars
               PROVE  Abstract!Next \/ UNCHANGED <<strings, given>>
    BY DEF Invariant
  <1>1. ASSUME NEW a, Gives(a) PROVE Abstract!Next
    <2>1. Abstract!Give(StringOf(a)) /\ StringOf(a) \in Strings
      BY <1>1 DEF Gives, Abstract!Give, Reference
    <2> QED
      BY <2>1 DEF Abstract!Next
  <1>2. ASSUME NEW a \in Agents, PutChars(a) PROVE Abstract!Next
    <2>1. PICK s, r : Fills(a, s, r)
      BY <1>2, Filling
    <2>2. \A u \in Strings : strings[u] # r
      BY <2>1 DEF Fills, Refs, NoRef
    <2>3. s \in Strings /\ r \in Refs /\ Abstract!Define(s, r)
      BY <2>1, <2>2 DEF Fills, Abstract!Define
    <2> QED
      BY <2>3 DEF Abstract!Next
  <1>3. ASSUME NEW a \in Agents, CreateString(a)
        PROVE  PutChars(a) \/ UNCHANGED <<strings, given>>
    BY <1>3 DEF CreateString, CreateLock, Existing, HeapFull, CreateFails, CreateObject, NewObject,
                NoCharsField
  <1>4. ASSUME NEW t \in Threads, Work(t)
        PROVE  Hit(t) \/ Insert(t) \/ UNCHANGED <<strings, given>>
    BY <1>4 DEF Work, ReadStrings, Miss, GetClass, GetClassFails, InsertLock, Resolved
  <1>5. ASSUME SpawnWork PROVE Store \/ UNCHANGED <<strings, given>>
    BY <1>5 DEF SpawnWork, MainLoaded, MainFails, Argument, ArgumentFails, Spawned
  <1>6. ASSUME NEW a \in Agents, Continue(a)
        PROVE  Abstract!Next \/ UNCHANGED <<strings, given>>
    <2>1. CASE CreateString(a)
      BY <1>2, <1>3, <2>1
    <2>2. CASE LoaderLock(a)
      BY <2>2 DEF LoaderLock
    <2>3. CASE a \in Threads /\ Work(a)
      BY <1>1, <1>4, <2>3, Giving
    <2>4. CASE a = Spawner /\ SpawnWork
      BY <1>1, <1>5, <2>4, Giving
    <2> QED
      BY <1>6, <2>1, <2>2, <2>3, <2>4 DEF Continue
  <1> QED
    BY <1>6 DEF PoolNext, poolVars, Ldc, Resolve, Spawn

\* String literals implement the table of one object for each string: what the
\* Java program is given is as if ldc and spawn_thread were atomic.
THEOREM PoolImplementsTable == PoolSpec => ImplementsInternTable
  <1>1. PoolInit => Abstract!Init
    BY DEF PoolInit, Abstract!Init
  <1>2. Invariant /\ [PoolNext]_poolVars => [Abstract!Next]_Abstract!internVars
    BY InternStep DEF Abstract!internVars
  <1> QED
    BY <1>1, <1>2, Invariance, PTL DEF PoolSpec, ImplementsInternTable, Abstract!Spec
=============================================================================
