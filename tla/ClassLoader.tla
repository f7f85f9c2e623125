---------------------------- MODULE ClassLoader ----------------------------
(***************************************************************************)
(* ClassLoader::load_and_link_class (src/jvm/src/linker/loader.rs), one    *)
(* action per stretch of code between two of its recursive calls.          *)
(*                                                                         *)
(* The method is called with the class loader's write lock held and runs   *)
(* to its end, so one request is served at a time.  Its recursion is an    *)
(* explicit stack of activations: what an inner call returns is in result  *)
(* when the caller below it resumes.                                       *)
(***************************************************************************)
EXTENDS Naturals, FiniteSets, SequencesExt

CONSTANTS
    Classes,    \* classpaths the program can name
    Object,     \* "java/lang/Object", the only class that may lack a superclass
    NoClass,    \* the super_class: None of a class file
    Providers   \* what a ClassProvider may hold: functions from Classes to ClassFile

ASSUME ClassesAssumption == Object \in Classes /\ NoClass \notin Classes

\* What deserialize_class reads in the bytes of a class file.  It returns an
\* error for malformed ones and panics on fatal ones (the unwraps on interfaces
\* and attributes).  Only object types and arrays of them count among fields;
\* size is heap_size.
ClassFile ==
    [status : {"missing", "malformed", "fatal", "wellformed"},
     super  : Classes \cup {NoClass},
     fields : SUBSET Classes,
     size   : Nat]

ASSUME ProvidersAssumption == Providers \subseteq [Classes -> ClassFile]

VARIABLES
    classFile,     \* the class_provider of this run
    classMap,      \* class_map: what the loader knows of each classpath
    fullHeapSize,  \* full_heap_size of each class that is Loaded
    calls,         \* the activations of load_and_link_class, innermost last
    result,        \* what the call that has just returned returned
    baseline       \* history: the classes Loaded when the request came in

loaderVars == <<classFile, classMap, fullHeapSize, calls, result, baseline>>

(***************************************************************************)
(* Types                                                                   *)
(***************************************************************************)
\* The variants of ClassLoadState that class_map ever holds.  NotLoaded,
\* NotFound and DeserializationError(_) are matched but never inserted.
ClassLoadState == {"Absent", "Loading", "Loaded"}

Phase == {"super", "superReport", "link", "fields", "fieldReport"}

Activation ==
    [cls : Classes, phase : Phase, todo : SUBSET Classes, loaded : SUBSET Classes]

\* A ClassLoadReport is its all_loaded_classes: no caller reads just_loaded.
Result ==
    [kind   : {"none", "ok", "Loading", "NotFound", "DeserializationError", "panic"},
     loaded : SUBSET Classes]

Report(loaded) == [kind |-> "ok", loaded |-> loaded]
Failure(kind)  == [kind |-> kind, loaded |-> {}]
NoResult       == Failure("none")

(***************************************************************************)
(* Derived state                                                           *)
(***************************************************************************)
Linked == {c \in Classes : classMap[c] = "Loaded"}

Busy == calls # <<>>
Top  == Last(calls)

SuperOf(c)   == classFile[c].super
HasSuper(c)  == SuperOf(c) # NoClass
SuperIsLinked(c) == HasSuper(c) => SuperOf(c) \in Linked

\* deserialize_class succeeds: the bytes parse, and the class has a superclass
\* unless it is Object itself.
Deserializes(c) ==
    /\ classFile[c].status = "wellformed"
    /\ HasSuper(c) \/ c = Object

(***************************************************************************)
(* Calls and returns                                                       *)
(***************************************************************************)
\* The stack with the running activation replaced by a.
Resume(a) == Append(Front(calls), a)

Started(c) == [cls |-> c, phase |-> "super", todo |-> {}, loaded |-> {}]

Answer(callers, r) == calls' = callers /\ result' = r

\* Faulty variant: the report for a class that was loaded before names it again.
AlreadyLoadedReported(c, callers) ==
    /\ classMap[c] = "Loaded"
    /\ Answer(callers, Report({c}))
    /\ UNCHANGED classMap

AlreadyLoaded(c, callers) ==
    /\ classMap[c] = "Loaded"
    /\ Answer(callers, Report({}))
    /\ UNCHANGED classMap

StillLoading(c, callers) ==
    /\ classMap[c] = "Loading"
    /\ Answer(callers, Failure("Loading"))
    /\ UNCHANGED classMap

NotProvided(c, callers) ==
    /\ classMap[c] = "Absent"
    /\ classFile[c].status = "missing"
    /\ Answer(callers, Failure("NotFound"))
    /\ UNCHANGED classMap

\* Faulty variants of Fetched: the failure is stored in the entry; the entry is
\* not marked; a Loaded entry is fetched again.
FetchedStoresError(c, callers) ==
    /\ classMap[c] = "Absent"
    /\ classFile[c].status # "missing"
    /\ classMap' = [classMap EXCEPT ![c] =
                      IF Deserializes(c) THEN "Loading" ELSE "DeserializationError"]
    /\ IF Deserializes(c)
         THEN Answer(Append(callers, Started(c)), NoResult)
         ELSE Answer(callers, Failure("DeserializationError"))

FetchedUnmarked(c, callers) ==
    /\ classMap[c] = "Absent"
    /\ Deserializes(c)
    /\ Answer(Append(callers, Started(c)), NoResult)
    /\ UNCHANGED classMap

FetchedAgain(c, callers) ==
    /\ classMap[c] # "Loading"
    /\ Deserializes(c)
    /\ classMap' = [classMap EXCEPT ![c] = "Loading"]
    /\ Answer(Append(callers, Started(c)), NoResult)

\* The entry becomes Loading before the bytes are parsed, and stays so when
\* the ? after deserialize_class returns or a panic unwinds every activation.
Fetched(c, callers) ==
    /\ classMap[c] = "Absent"
    /\ classFile[c].status # "missing"
    /\ classMap' = [classMap EXCEPT ![c] = "Loading"]
    /\ \/ /\ Deserializes(c)
          /\ Answer(Append(callers, Started(c)), NoResult)
       \/ /\ classFile[c].status = "fatal"
          /\ Answer(<<>>, Failure("panic"))
       \/ /\ ~Deserializes(c) /\ classFile[c].status # "fatal"
          /\ Answer(callers, Failure("DeserializationError"))

\* load_and_link_class(c) called with the activations callers below it, up to
\* its first recursive call or its return.
Enter(c, callers) ==
    \/ AlreadyLoaded(c, callers)
    \/ StillLoading(c, callers)
    \/ NotProvided(c, callers)
    \/ Fetched(c, callers)

(***************************************************************************)
(* Steps                                                                   *)
(***************************************************************************)
\* The holder of the write lock asks for class c.
Request(c) ==
    /\ ~Busy
    /\ Enter(c, <<>>)
    /\ baseline' = Linked
    /\ UNCHANGED <<classFile, fullHeapSize>>

\* handle_class_report(superclass, ..) when the superclass is not linked.
LoadSuper ==
    /\ Busy
    /\ Top.phase = "super"
    /\ ~SuperIsLinked(Top.cls)
    /\ Enter(SuperOf(Top.cls), Resume([Top EXCEPT !.phase = "superReport"]))
    /\ UNCHANGED <<classFile, fullHeapSize, baseline>>

\* Faulty variant: the report replaces what was collected before it.
HandleReportOverwrites ==
    /\ Busy
    /\ Top.phase \in {"superReport", "fieldReport"}
    /\ result.kind \in {"ok", "Loading"}
    /\ calls' = Resume([Top EXCEPT
                   !.phase = IF @ = "superReport" THEN "link" ELSE "fields",
                   !.loaded = result.loaded])
    /\ result' = NoResult
    /\ UNCHANGED <<classFile, classMap, fullHeapSize, baseline>>

\* handle_class_report: a report is merged, a class met while it is Loading
\* is passed over ...
HandleReport ==
    /\ Busy
    /\ Top.phase \in {"superReport", "fieldReport"}
    /\ result.kind \in {"ok", "Loading"}
    /\ calls' = Resume([Top EXCEPT
                   !.phase = IF @ = "superReport" THEN "link" ELSE "fields",
                   !.loaded = @ \cup result.loaded])
    /\ result' = NoResult
    /\ UNCHANGED <<classFile, classMap, fullHeapSize, baseline>>

\* ... and any other error leaves this activation too, by the ? after the call.
Propagate ==
    /\ Busy
    /\ Top.phase \in {"superReport", "fieldReport"}
    /\ result.kind \in {"NotFound", "DeserializationError"}
    /\ calls' = Front(calls)
    /\ UNCHANGED <<classFile, classMap, fullHeapSize, result, baseline>>

\* Faulty variant: the state of the superclass is not looked at.
LinkUnchecked ==
    /\ Busy
    /\ Top.phase = "link"
    /\ HasSuper(Top.cls)
    /\ fullHeapSize' = [fullHeapSize EXCEPT ![Top.cls] =
           classFile[Top.cls].size + fullHeapSize[SuperOf(Top.cls)]]
    /\ classMap' = [classMap EXCEPT ![Top.cls] = "Loaded"]
    /\ calls' = Resume([Top EXCEPT !.phase = "fields", !.todo = classFile[Top.cls].fields])
    /\ UNCHANGED <<classFile, result, baseline>>

\* The superclass is there: full_heap_size is computed and the class published.
Link ==
    /\ Busy
    /\ Top.phase \in {"super", "link"}
    /\ SuperIsLinked(Top.cls)
    /\ fullHeapSize' = [fullHeapSize EXCEPT ![Top.cls] =
           classFile[Top.cls].size
             + (IF HasSuper(Top.cls) THEN fullHeapSize[SuperOf(Top.cls)] ELSE 0)]
    /\ classMap' = [classMap EXCEPT ![Top.cls] = "Loaded"]
    /\ calls' = Resume([Top EXCEPT !.phase = "fields", !.todo = classFile[Top.cls].fields])
    /\ UNCHANGED <<classFile, result, baseline>>

\* Faulty variant: the panic is caught at this activation, as if the state of
\* the superclass had been returned as an error.
LinkPanicsCaught ==
    /\ Busy
    /\ Top.phase = "link"
    /\ ~SuperIsLinked(Top.cls)
    /\ Answer(Front(calls), Failure("panic"))
    /\ UNCHANGED <<classFile, classMap, fullHeapSize, baseline>>

\* get_class(superclass) unwraps an entry that is still Loading: the panic
\* unwinds every activation and leaves their entries as they are.
LinkPanics ==
    /\ Busy
    /\ Top.phase = "link"
    /\ ~SuperIsLinked(Top.cls)
    /\ Answer(<<>>, Failure("panic"))
    /\ UNCHANGED <<classFile, classMap, fullHeapSize, baseline>>

\* Faulty variant: the iterator over the fields does not advance.
LoadFieldAgain ==
    /\ Busy
    /\ Top.phase = "fields"
    /\ \E f \in Top.todo : Enter(f, Resume([Top EXCEPT !.phase = "fieldReport"]))
    /\ UNCHANGED <<classFile, fullHeapSize, baseline>>

\* The next field of field_map, a HashMap: any order.
LoadField ==
    /\ Busy
    /\ Top.phase = "fields"
    /\ \E f \in Top.todo :
          Enter(f, Resume([Top EXCEPT !.phase = "fieldReport", !.todo = @ \ {f}]))
    /\ UNCHANGED <<classFile, fullHeapSize, baseline>>

\* Faulty variants: only its own class is reported; the rest of the fields is
\* left out.
FinishForgetsInner ==
    /\ Busy
    /\ Top.phase = "fields"
    /\ Top.todo = {}
    /\ Answer(Front(calls), Report({Top.cls}))
    /\ UNCHANGED <<classFile, classMap, fullHeapSize, baseline>>

FinishEarly ==
    /\ Busy
    /\ Top.phase = "fields"
    /\ Answer(Front(calls), Report(Top.loaded \cup {Top.cls}))
    /\ UNCHANGED <<classFile, classMap, fullHeapSize, baseline>>

\* Every field is done: the report of this activation, its own class included.
Finish ==
    /\ Busy
    /\ Top.phase = "fields"
    /\ Top.todo = {}
    /\ Answer(Front(calls), Report(Top.loaded \cup {Top.cls}))
    /\ UNCHANGED <<classFile, classMap, fullHeapSize, baseline>>

Step ==
    \/ LoadSuper
    \/ HandleReport
    \/ Propagate
    \/ Link
    \/ LinkPanics
    \/ LoadField
    \/ Finish

Init ==
    /\ classFile \in Providers
    /\ classMap = [c \in Classes |-> "Absent"]
    /\ fullHeapSize = [c \in Classes |-> 0]
    /\ calls = <<>>
    /\ result = NoResult
    /\ baseline = {}

Next == (\E c \in Classes : Request(c)) \/ Step

\* The thread that holds the write lock keeps executing the method.
Fairness == WF_loaderVars(Step)

Spec == Init /\ [][Next]_loaderVars /\ Fairness

(***************************************************************************)
(* Properties                                                              *)
(***************************************************************************)
TypeOK ==
    /\ classFile \in [Classes -> ClassFile]
    /\ classMap \in [Classes -> ClassLoadState]
    /\ fullHeapSize \in [Classes -> Nat]
    /\ calls \in Seq(Activation)
    /\ result \in Result
    /\ baseline \subseteq Classes

\* A class that get_class hands out has a superclass that get_class hands out
\* too, and was laid out with the final size of that superclass: every path
\* through load_and_link_class (loader.rs:168-183), panics and errors included.
SuperLinked ==
    \A c \in Linked :
        /\ SuperIsLinked(c)
        /\ fullHeapSize[c] = classFile[c].size
               + (IF HasSuper(c) THEN fullHeapSize[SuperOf(c)] ELSE 0)

\* Whatever the class files say, the linked classes have no superclass cycle:
\* each set of them has a member whose superclass is outside.  The loops over
\* superclasses (recurse_is_superclass, loader.rs:211) rely on it to end.
NoSuperCycle ==
    \A S \in SUBSET Linked : S # {} => \E c \in S : SuperOf(c) \notin S

\* The recursion never enters a class it is already loading (loader.rs:134):
\* its depth is bounded by the number of classes.
NoReentrantLoad ==
    \A i, j \in 1..Len(calls) : calls[i].cls = calls[j].cls => i = j

\* A successful request reports exactly the classes that became Loaded since
\* it came in: the callers run <clinit> for all_loaded_classes and nothing
\* else, so a class left out is never initialised (loader.rs:200-208).
ReportComplete ==
    ~Busy /\ result.kind = "ok" => result.loaded = Linked \ baseline

\* When every class file is sound and no panic has left an entry Loading, the
\* field types of a linked class are linked as well, however the classes refer
\* to each other: a class passed over because it was Loading gets done by the
\* activation that was loading it (loader.rs:113-128, 187-200).
FieldTypesLinked ==
    /\ ~Busy
    /\ \A c \in Classes : Deserializes(c) /\ classMap[c] # "Loading"
    => \A c \in Linked : classFile[c].fields \subseteq Linked

\* A linked class stays linked and keeps its layout, whatever is loaded later
\* or fails: objects allocated with full_heap_size stay valid.
LinkedForever ==
    [][\A c \in Linked : c \in Linked' /\ fullHeapSize'[c] = fullHeapSize[c]]_loaderVars

\* Every request ends, with a report, an error or a panic, for any class files.
LoadTerminates == Busy ~> ~Busy

(***************************************************************************)
(* The inductive strengthening                                             *)
(***************************************************************************)
Waiting == {"superReport", "fieldReport"}

AfterLink == {"fields", "fieldReport"}

\* The activations and class_map tell one story: every activation but the
\* innermost waits for a report, a class is Loading up to the link step of its
\* only activation and Loaded after it, and a result is there exactly while
\* the innermost activation waits for one.
ActivationsConsistent ==
    /\ NoReentrantLoad
    /\ \A i \in 1..Len(calls) :
          /\ classMap[calls[i].cls] = IF calls[i].phase \in AfterLink THEN "Loaded" ELSE "Loading"
          /\ i < Len(calls) => calls[i].phase \in Waiting
    /\ Busy => (Top.phase \in Waiting <=> result.kind # "none")
    /\ Busy => result.kind # "panic"
    /\ result.kind # "ok" => result.loaded = {}

\* What a stack of activations has collected of the classes linked since its
\* first one began.
Gathered(stack) ==
    {c \in Classes : \E i \in 1..Len(stack) :
        c \in stack[i].loaded \/ (c = stack[i].cls /\ stack[i].phase \in AfterLink)}

\* As long as no error is unwinding a request, each class linked since it came
\* in is in some report on its way to the requester, and no other class is
\* (loader.rs:113-117, 202).
NothingLost ==
    /\ baseline \subseteq Linked
    /\ result.kind = "ok" \/ (Busy /\ result.kind \in {"none", "Loading"})
       => result.loaded \cup Gathered(calls) = Linked \ baseline

(***************************************************************************)
(* Refinement                                                              *)
(***************************************************************************)
\* result as the requester sees it.
Answered ==
    IF Busy \/ result.kind = "none" THEN [kind |-> "pending", loaded |-> {}]
    ELSE IF result.kind = "ok" THEN [kind |-> "loaded", loaded |-> result.loaded]
    ELSE [kind |-> "failed", loaded |-> {}]

Contract == INSTANCE LoaderContract WITH
    supers  <- [c \in Classes |-> SuperOf(c)],
    linked  <- Linked,
    serving <- Busy,
    base    <- baseline,
    answer  <- Answered

\* The recursive method, with its early returns, ignored errors and panics,
\* behaves like a loader that links one class at a time in superclass order
\* and reports what it linked (loader.rs:130-209).
ImplementsContract == Contract!Spec

(***************************************************************************)
(* What the code says of itself and does not keep                          *)
(***************************************************************************)
\* Every class file is there and sound, and no class is its own ancestor.
LegalHierarchy ==
    /\ \A c \in Classes : Deserializes(c)
    /\ \A S \in SUBSET Classes : S # {} => \E c \in S : SuperOf(c) \notin S

\* "Load a class and it's superclasses" (loader.rs:130): for a legal hierarchy
\* the superclass is linked when load_and_link_class unwraps it at loader.rs:175.
LegalHierarchyLoads == LegalHierarchy => result.kind # "panic"

\* "Cannot unwrap a class that is being loaded." (loader.rs:33): an entry is
\* Loading only while an activation of load_and_link_class works on it.
LoadingMeansInProgress ==
    \A c \in Classes : classMap[c] = "Loading" =>
        \E i \in 1..Len(calls) : calls[i].cls = c

\* The strengthening of FieldTypesLinked, as long as nothing is abandoned: when
\* every class file is sound, no request fails but by a panic, and a field type
\* of a linked class is known to class_map or still to be asked for.
FieldsAwaited ==
    (\A c \in Classes : Deserializes(c)) =>
        /\ result.kind \in {"none", "ok", "Loading", "panic"}
        /\ LoadingMeansInProgress =>
              \A c \in Linked : \A f \in classFile[c].fields :
                  \/ classMap[f] # "Absent"
                  \/ \E i \in 1..Len(calls) : calls[i].cls = c /\ f \in calls[i].todo
=============================================================================
