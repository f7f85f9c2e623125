------------------------- MODULE ClassLoaderProofs -------------------------
(***************************************************************************)
(* Theorems about ClassLoader, for any set of classes and any providers.   *)
(***************************************************************************)
EXTENDS ClassLoader, SequenceTheorems, TLAPS

USE ClassesAssumption, ProvidersAssumption

(***************************************************************************)
(* The stack of activations                                                *)
(***************************************************************************)
\* A sequence without its last element (the return of a recursive call).
LEMMA FrontProperties ==
    ASSUME NEW S, NEW s \in Seq(S), s # <<>>
    PROVE  /\ Len(s) \in Nat \ {0}
           /\ Front(s) \in Seq(S)
           /\ Len(Front(s)) = Len(s) - 1
           /\ \A i \in 1..(Len(s) - 1) : Front(s)[i] = s[i]
           /\ Last(s) \in S
  <1>1. Len(s) \in Nat \ {0}
    BY EmptySeq, LenProperties
  <1>2. PICK n \in Nat : n = Len(s) - 1
    BY <1>1
  <1>3. /\ SubSeq(s, 1, n) \in Seq(S)
        /\ Len(SubSeq(s, 1, n)) = n
        /\ \A i \in 1..n : SubSeq(s, 1, n)[i] = s[i]
    BY <1>2
  <1>4. Front(s) = SubSeq(s, 1, n)
    BY <1>2 DEF Front
  <1>5. Last(s) \in S
    BY <1>1, ElementOfSeq DEF Last
  <1> HIDE DEF Front
  <1>6. Len(Front(s)) = n /\ \A i \in 1..n : Front(s)[i] = s[i]
    BY <1>3, <1>4, Zenon
  <1> QED
    BY <1>1, <1>2, <1>3, <1>4, <1>5, <1>6

\* Resume replaces the innermost activation and nothing else.
LEMMA ResumeProperties ==
    ASSUME calls \in Seq(Activation), Busy, NEW a \in Activation
    PROVE  /\ Resume(a) \in Seq(Activation)
           /\ Len(Resume(a)) = Len(calls)
           /\ \A i \in 1..(Len(calls) - 1) : Resume(a)[i] = calls[i]
           /\ Resume(a)[Len(calls)] = a
  <1>1. /\ Len(calls) \in Nat \ {0}
        /\ Front(calls) \in Seq(Activation)
        /\ Len(Front(calls)) = Len(calls) - 1
        /\ \A i \in 1..(Len(calls) - 1) : Front(calls)[i] = calls[i]
    BY FrontProperties DEF Busy
  <1> QED
    BY <1>1, AppendProperties DEF Resume

(***************************************************************************)
(* Type correctness                                                        *)
(***************************************************************************)
\* The entry of load_and_link_class keeps the types.
LEMMA EnterType ==
    ASSUME TypeOK, NEW c \in Classes, NEW callers \in Seq(Activation), Enter(c, callers)
    PROVE  /\ classMap' \in [Classes -> ClassLoadState]
           /\ calls' \in Seq(Activation)
           /\ result' \in Result
  <1>1. Started(c) \in Activation
    BY DEF Started, Activation, Phase
  <1>2. Append(callers, Started(c)) \in Seq(Activation)
    BY <1>1, AppendProperties
  <1>3. <<>> \in Seq(Activation)
    BY EmptySeq
  <1>4. /\ Report({}) \in Result /\ NoResult \in Result
        /\ \A k \in {"Loading", "NotFound", "DeserializationError", "panic"} :
              Failure(k) \in Result
    BY DEF Report, NoResult, Failure, Result
  <1>5. CASE AlreadyLoaded(c, callers)
    BY <1>5, <1>4 DEF AlreadyLoaded, Answer, TypeOK
  <1>6. CASE StillLoading(c, callers)
    BY <1>6, <1>4 DEF StillLoading, Answer, TypeOK
  <1>7. CASE NotProvided(c, callers)
    BY <1>7, <1>4 DEF NotProvided, Answer, TypeOK
  <1>8. CASE Fetched(c, callers)
    <2>1. classMap' \in [Classes -> ClassLoadState]
      BY <1>8 DEF Fetched, TypeOK, ClassLoadState
    <2>2. /\ calls' \in {Append(callers, Started(c)), <<>>, callers}
          /\ result' \in {NoResult, Failure("panic"), Failure("DeserializationError")}
      BY <1>8 DEF Fetched, Answer
    <2> QED
      BY <2>1, <2>2, <1>2, <1>3, <1>4
  <1> QED
    BY <1>5, <1>6, <1>7, <1>8 DEF Enter

\* TypeOK is inductive.
LEMMA TypeStep ==
    ASSUME TypeOK, [Next]_loaderVars
    PROVE  TypeOK'
  <1> USE DEF TypeOK
  <1>t. Busy => Top \in Activation /\ Front(calls) \in Seq(Activation)
    BY FrontProperties DEF Busy, Top
  <1>r. \A a \in Activation : Busy => Resume(a) \in Seq(Activation)
    BY ResumeProperties
  <1>1. CASE UNCHANGED loaderVars
    BY <1>1 DEF loaderVars
  <1>2. ASSUME NEW c \in Classes, Request(c)
        PROVE  TypeOK'
    <2>1. Enter(c, <<>>) /\ <<>> \in Seq(Activation)
      BY <1>2, EmptySeq DEF Request
    <2> QED
      BY <1>2, <2>1, EnterType DEF Request, Linked
  <1>3. CASE LoadSuper
    <2>1. SuperOf(Top.cls) \in Classes
      BY <1>3, <1>t DEF LoadSuper, SuperIsLinked, HasSuper, SuperOf, Activation, ClassFile
    <2>2. Resume([Top EXCEPT !.phase = "superReport"]) \in Seq(Activation)
      BY <1>3, <1>t, <1>r DEF LoadSuper, Activation, Phase
    <2> QED
      BY <1>3, <2>1, <2>2, EnterType DEF LoadSuper
  <1>4. CASE HandleReport
    <2>1. [Top EXCEPT !.phase = IF @ = "superReport" THEN "link" ELSE "fields",
                      !.loaded = @ \cup result.loaded] \in Activation
      BY <1>4, <1>t DEF HandleReport, Activation, Phase, Result
    <2> QED
      BY <1>4, <1>r, <2>1 DEF HandleReport, NoResult, Failure, Result
  <1>5. CASE Propagate
    BY <1>5, <1>t DEF Propagate
  <1>6. CASE Link
    <2>1. Top.cls \in Classes /\ classFile[Top.cls] \in ClassFile
      BY <1>6, <1>t DEF Link, Activation
    <2>2. HasSuper(Top.cls) => fullHeapSize[SuperOf(Top.cls)] \in Nat
      BY <2>1 DEF HasSuper, SuperOf, ClassFile
    <2>3. classFile[Top.cls].size + (IF HasSuper(Top.cls) THEN fullHeapSize[SuperOf(Top.cls)] ELSE 0) \in Nat
      BY <2>1, <2>2 DEF ClassFile
    <2>4. [Top EXCEPT !.phase = "fields", !.todo = classFile[Top.cls].fields] \in Activation
      BY <1>6, <1>t, <2>1 DEF Link, Activation, Phase, ClassFile
    <2> QED
      BY <1>6, <1>r, <2>1, <2>3, <2>4 DEF Link, ClassLoadState
  <1>7. CASE LinkPanics
    BY <1>7, EmptySeq DEF LinkPanics, Answer, Failure, Result
  <1>8. CASE LoadField
    <2>1. PICK f \in Top.todo :
             Enter(f, Resume([Top EXCEPT !.phase = "fieldReport", !.todo = @ \ {f}]))
      BY <1>8 DEF LoadField
    <2>2. f \in Classes
      BY <1>8, <1>t, <2>1 DEF LoadField, Activation
    <2>3. Resume([Top EXCEPT !.phase = "fieldReport", !.todo = @ \ {f}]) \in Seq(Activation)
      BY <1>8, <1>t, <1>r DEF LoadField, Activation, Phase
    <2> QED
      BY <1>8, <2>1, <2>2, <2>3, EnterType DEF LoadField
  <1>9. CASE Finish
    <2>1. Top.loaded \cup {Top.cls} \subseteq Classes
      BY <1>9, <1>t DEF Finish, Activation
    <2> QED
      BY <1>9, <1>t, <2>1 DEF Finish, Answer, Report, Result
  <1> QED
    BY <1>1, <1>2, <1>3, <1>4, <1>5, <1>6, <1>7, <1>8, <1>9 DEF Next, Step

\* Every state of the loader is well typed, whatever classes and class files
\* there are.
THEOREM TypeCorrect == Spec => []TypeOK
  <1>1. Init => TypeOK
    BY EmptySeq DEF Init, TypeOK, ClassLoadState, NoResult, Failure, Result
  <1>2. TypeOK /\ [Next]_loaderVars => TypeOK'
    BY TypeStep
  <1> QED
    BY <1>1, <1>2, PTL DEF Spec

(***************************************************************************)
(* Activations and class_map                                               *)
(***************************************************************************)
\* Entering load_and_link_class above waiting activations keeps stack and
\* class_map in step: only an Absent class gets an activation, so none of the
\* callers is working on it.
LEMMA EnterConsistent ==
    ASSUME TypeOK, NEW c \in Classes, NEW callers \in Seq(Activation),
           \A i, j \in 1..Len(callers) : callers[i].cls = callers[j].cls => i = j,
           \A i \in 1..Len(callers) :
               /\ classMap[callers[i].cls]
                    = IF callers[i].phase \in AfterLink THEN "Loaded" ELSE "Loading"
               /\ callers[i].phase \in Waiting,
           Enter(c, callers)
    PROVE  ActivationsConsistent'
  <1>l. Len(callers) \in Nat /\ \A i \in 1..Len(callers) : callers[i] \in Activation
    BY ElementOfSeq, LenProperties
  <1>t. Len(callers) # 0 => Last(callers).phase \in Waiting
    BY <1>l DEF Last
  <1>e. callers # <<>> => Len(callers) # 0
    BY EmptySeq
  <1>1. ASSUME calls' = callers, UNCHANGED classMap,
               result' \in {Report({}), Failure("Loading"), Failure("NotFound")}
        PROVE  ActivationsConsistent'
    BY <1>1, <1>l, <1>t, <1>e
       DEF ActivationsConsistent, NoReentrantLoad, Busy, Top, Report, Failure
  <1>2. CASE Fetched(c, callers)
    <2>1. /\ classMap[c] = "Absent"
          /\ classMap' = [classMap EXCEPT ![c] = "Loading"]
      BY <1>2 DEF Fetched
    <2>2. \A i \in 1..Len(callers) :
             /\ callers[i].cls # c
             /\ classMap'[callers[i].cls] = classMap[callers[i].cls]
      BY <2>1, <1>l DEF TypeOK, Activation
    <2>3. CASE Answer(Append(callers, Started(c)), NoResult)
      <3> DEFINE stack == Append(callers, Started(c))
      <3>1. Started(c) \in Activation
        BY DEF Started, Activation, Phase
      <3>2. /\ stack # <<>>
            /\ Len(stack) = Len(callers) + 1
            /\ \A i \in 1..Len(callers) : stack[i] = callers[i]
            /\ stack[Len(callers) + 1] = Started(c)
        BY <3>1, AppendProperties
      <3> HIDE DEF stack
      <3>3. calls' = stack /\ result' = NoResult
        BY <2>3 DEF Answer, stack
      <3>4. classMap'[c] = "Loading"
        BY <2>1 DEF TypeOK
      <3>5. Started(c).cls = c /\ Started(c).phase = "super"
        BY DEF Started
      <3>6. NoReentrantLoad'
        BY <3>2, <3>3, <3>5, <2>2, <1>l DEF NoReentrantLoad
      <3>7. \A i \in 1..Len(stack) :
              /\ classMap'[stack[i].cls] = IF stack[i].phase \in AfterLink THEN "Loaded" ELSE "Loading"
              /\ i < Len(stack) => stack[i].phase \in Waiting
        BY <3>2, <3>4, <3>5, <2>2, <1>l DEF AfterLink
      <3>8. Last(stack).phase \notin Waiting
        BY <3>2, <3>5, <1>l DEF Last, Waiting
      <3> QED
        BY <3>3, <3>6, <3>7, <3>8 DEF ActivationsConsistent, Busy, Top, NoResult, Failure
    <2>4. CASE Answer(<<>>, Failure("panic"))
      BY <2>4, EmptySeq DEF Answer, ActivationsConsistent, NoReentrantLoad, Busy, Failure
    <2>5. CASE Answer(callers, Failure("DeserializationError"))
      BY <2>2, <2>5, <1>l, <1>t, <1>e
         DEF Answer, ActivationsConsistent, NoReentrantLoad, Busy, Top, Failure
    <2> QED
      BY <1>2, <2>3, <2>4, <2>5 DEF Fetched
  <1> QED
    BY <1>1, <1>2 DEF Enter, AlreadyLoaded, StillLoading, NotProvided, Answer

\* The state of the stack below the innermost activation, which every step that
\* replaces or leaves that activation relies on.
LEMMA StackFacts ==
    ASSUME TypeOK, ActivationsConsistent, Busy
    PROVE  /\ Len(calls) \in Nat \ {0}
           /\ Top = calls[Len(calls)]
           /\ Top \in Activation
           /\ \A i \in 1..Len(calls) : calls[i] \in Activation
           /\ \A i \in 1..(Len(calls) - 1) : calls[i].phase \in Waiting /\ calls[i].cls # Top.cls
           /\ classMap[Top.cls] = IF Top.phase \in AfterLink THEN "Loaded" ELSE "Loading"
  <1>1. Len(calls) \in Nat \ {0} /\ Top = calls[Len(calls)]
    BY FrontProperties DEF TypeOK, Busy, Top, Last
  <1>2. \A i \in 1..Len(calls) : calls[i] \in Activation
    BY ElementOfSeq DEF TypeOK
  <1> QED
    BY <1>1, <1>2 DEF ActivationsConsistent, NoReentrantLoad

\* Calling load_and_link_class again from the innermost activation, which then
\* waits for the report.
LEMMA CallConsistent ==
    ASSUME TypeOK, ActivationsConsistent, Busy, NEW c \in Classes, NEW a \in Activation,
           a.cls = Top.cls, a.phase \in Waiting, a.phase \in AfterLink <=> Top.phase \in AfterLink,
           Enter(c, Resume(a))
    PROVE  ActivationsConsistent'
  <1> DEFINE stack == Resume(a)
  <1>1. /\ stack \in Seq(Activation)
        /\ Len(stack) = Len(calls)
        /\ \A i \in 1..(Len(calls) - 1) : stack[i] = calls[i]
        /\ stack[Len(calls)] = a
    BY ResumeProperties DEF TypeOK
  <1> HIDE DEF stack
  <1>2. \A i, j \in 1..Len(stack) : stack[i].cls = stack[j].cls => i = j
    BY <1>1, StackFacts DEF ActivationsConsistent, NoReentrantLoad
  <1>3. \A i \in 1..Len(stack) :
           /\ classMap[stack[i].cls] = IF stack[i].phase \in AfterLink THEN "Loaded" ELSE "Loading"
           /\ stack[i].phase \in Waiting
    BY <1>1, StackFacts DEF ActivationsConsistent
  <1>4. Enter(c, stack)
    BY DEF stack
  <1> QED
    BY <1>1, <1>2, <1>3, <1>4, EnterConsistent

\* Returning from the innermost activation to the one that waits below it.
LEMMA ReturnConsistent ==
    ASSUME TypeOK, ActivationsConsistent, Busy,
           calls' = Front(calls), UNCHANGED classMap,
           result'.kind \notin {"none", "panic"}, result'.kind # "ok" => result'.loaded = {}
    PROVE  ActivationsConsistent'
  <1> DEFINE stack == Front(calls)
  <1>1. /\ stack \in Seq(Activation)
        /\ Len(stack) = Len(calls) - 1
        /\ \A i \in 1..(Len(calls) - 1) : stack[i] = calls[i]
    BY FrontProperties DEF TypeOK, Busy
  <1>2. calls' = stack
    OBVIOUS
  <1>e. stack # <<>> => Len(stack) # 0
    BY <1>1, EmptySeq
  <1> HIDE DEF stack
  <1>3. NoReentrantLoad'
    BY <1>1, <1>2, StackFacts DEF ActivationsConsistent, NoReentrantLoad
  <1>4. \A i \in 1..Len(stack) :
           /\ classMap[stack[i].cls] = IF stack[i].phase \in AfterLink THEN "Loaded" ELSE "Loading"
           /\ stack[i].phase \in Waiting
    BY <1>1, StackFacts DEF ActivationsConsistent
  <1>5. Busy' => Top'.phase \in Waiting
    BY <1>1, <1>2, <1>4, <1>e, StackFacts DEF Busy, Top, Last
  <1> QED
    BY <1>2, <1>3, <1>4, <1>5 DEF ActivationsConsistent

\* Going on in the innermost activation, with its entry of class_map in step.
LEMMA ContinueConsistent ==
    ASSUME TypeOK, ActivationsConsistent, Busy, NEW a \in Activation,
           a.cls = Top.cls, a.phase \notin Waiting,
           calls' = Resume(a), result' = NoResult,
           classMap' = [classMap EXCEPT ![Top.cls] =
                           IF a.phase \in AfterLink THEN "Loaded" ELSE "Loading"]
    PROVE  ActivationsConsistent'
  <1> DEFINE stack == Resume(a)
  <1>1. /\ stack \in Seq(Activation)
        /\ Len(stack) = Len(calls)
        /\ \A i \in 1..(Len(calls) - 1) : stack[i] = calls[i]
        /\ stack[Len(calls)] = a
    BY ResumeProperties DEF TypeOK
  <1>2. calls' = stack
    OBVIOUS
  <1> HIDE DEF stack
  <1>3. NoReentrantLoad'
    BY <1>1, <1>2, StackFacts DEF ActivationsConsistent, NoReentrantLoad
  <1>4. classMap'[a.cls] = IF a.phase \in AfterLink THEN "Loaded" ELSE "Loading"
    BY StackFacts DEF TypeOK, Activation
  <1>5. \A i \in 1..(Len(calls) - 1) : classMap'[calls[i].cls] = classMap[calls[i].cls]
    BY StackFacts DEF TypeOK, Activation
  <1>6. \A i \in 1..Len(stack) :
           /\ classMap'[stack[i].cls] = IF stack[i].phase \in AfterLink THEN "Loaded" ELSE "Loading"
           /\ i < Len(stack) => stack[i].phase \in Waiting
    BY <1>1, <1>4, <1>5, StackFacts DEF ActivationsConsistent
  <1>7. Top'.phase \notin Waiting
    BY <1>1, <1>2, StackFacts DEF Top, Last
  <1> QED
    BY <1>2, <1>3, <1>6, <1>7 DEF ActivationsConsistent, NoResult, Failure

\* ActivationsConsistent is inductive.
LEMMA ConsistentStep ==
    ASSUME TypeOK, ActivationsConsistent, [Next]_loaderVars
    PROVE  ActivationsConsistent'
  <1>1. CASE UNCHANGED loaderVars
    BY <1>1 DEF loaderVars, ActivationsConsistent, NoReentrantLoad, Busy, Top
  <1>2. ASSUME NEW c \in Classes, Request(c)
        PROVE  ActivationsConsistent'
    <2> DEFINE none == <<>>
    <2>1. Enter(c, none) /\ none \in Seq(Activation) /\ Len(none) = 0
      BY <1>2, EmptySeq DEF Request
    <2> HIDE DEF none
    <2>2. \A i \in 1..Len(none) : FALSE
      BY <2>1
    <2> QED
      BY <2>1, <2>2, EnterConsistent
  <1>3. CASE LoadSuper
    <2>1. SuperOf(Top.cls) \in Classes
      BY <1>3, StackFacts
         DEF LoadSuper, SuperIsLinked, HasSuper, SuperOf, TypeOK, Activation, ClassFile
    <2>2. [Top EXCEPT !.phase = "superReport"] \in Activation
      BY <1>3, StackFacts DEF LoadSuper, Activation, Phase
    <2> QED
      BY <1>3, <2>1, <2>2, StackFacts, CallConsistent DEF LoadSuper, Activation, Waiting, AfterLink
  <1>4. CASE HandleReport
    <2> DEFINE a == [Top EXCEPT !.phase = IF @ = "superReport" THEN "link" ELSE "fields",
                                !.loaded = @ \cup result.loaded]
    <2>1. a \in Activation /\ a.cls = Top.cls /\ a.phase \notin Waiting
          /\ (a.phase \in AfterLink <=> Top.phase \in AfterLink)
      BY <1>4, StackFacts DEF HandleReport, Activation, Phase, TypeOK, Result, Waiting, AfterLink
    <2>2. classMap' = [classMap EXCEPT ![Top.cls] = IF a.phase \in AfterLink THEN "Loaded" ELSE "Loading"]
      BY <1>4, <2>1, StackFacts DEF HandleReport, TypeOK
    <2>3. Busy /\ calls' = Resume(a) /\ result' = NoResult
      BY <1>4 DEF HandleReport
    <2> HIDE DEF a
    <2> QED
      BY <2>1, <2>2, <2>3, ContinueConsistent
  <1>5. CASE Propagate
    BY <1>5, ReturnConsistent DEF Propagate, ActivationsConsistent
  <1>6. CASE Link
    <2> DEFINE a == [Top EXCEPT !.phase = "fields", !.todo = classFile[Top.cls].fields]
    <2>1. a \in Activation /\ a.cls = Top.cls /\ a.phase \notin Waiting /\ a.phase \in AfterLink
      BY <1>6, StackFacts DEF Link, Activation, Phase, TypeOK, ClassFile, Waiting, AfterLink
    <2>2. result = NoResult
      BY <1>6 DEF Link, ActivationsConsistent, Waiting, TypeOK, Result, NoResult, Failure
    <2>3. Busy /\ calls' = Resume(a) /\ result' = NoResult
          /\ classMap' = [classMap EXCEPT ![Top.cls] = IF a.phase \in AfterLink THEN "Loaded" ELSE "Loading"]
      BY <1>6, <2>1, <2>2 DEF Link
    <2> HIDE DEF a
    <2> QED
      BY <2>1, <2>3, ContinueConsistent
  <1>7. CASE LinkPanics
    BY <1>7, EmptySeq DEF LinkPanics, Answer, ActivationsConsistent, NoReentrantLoad, Busy, Failure
  <1>8. CASE LoadField
    <2>1. PICK f \in Top.todo :
             Enter(f, Resume([Top EXCEPT !.phase = "fieldReport", !.todo = @ \ {f}]))
      BY <1>8 DEF LoadField
    <2> DEFINE a == [Top EXCEPT !.phase = "fieldReport", !.todo = @ \ {f}]
    <2>2. f \in Classes
      BY <1>8, <2>1, StackFacts DEF LoadField, Activation
    <2>3. a \in Activation /\ a.cls = Top.cls /\ a.phase \in Waiting
          /\ (a.phase \in AfterLink <=> Top.phase \in AfterLink)
      BY <1>8, StackFacts DEF LoadField, Activation, Phase, Waiting, AfterLink
    <2>4. Busy /\ Enter(f, Resume(a))
      BY <1>8, <2>1 DEF LoadField
    <2> HIDE DEF a
    <2> QED
      BY <2>2, <2>3, <2>4, CallConsistent
  <1>9. CASE Finish
    BY <1>9, ReturnConsistent DEF Finish, Answer, Report
  <1> QED
    BY <1>1, <1>2, <1>3, <1>4, <1>5, <1>6, <1>7, <1>8, <1>9 DEF Next, Step

\* The stack of activations and class_map tell one story in every state.
THEOREM Consistent == Spec => []ActivationsConsistent
  <1>1. Init => TypeOK /\ ActivationsConsistent
    BY EmptySeq DEF Init, TypeOK, ClassLoadState, NoResult, Failure, Result,
                    ActivationsConsistent, NoReentrantLoad, Busy
  <1>2. TypeOK /\ ActivationsConsistent /\ [Next]_loaderVars => TypeOK' /\ ActivationsConsistent'
    BY TypeStep, ConsistentStep
  <1> QED
    BY <1>1, <1>2, PTL DEF Spec

\* No class is being loaded by two activations at once: the recursion is no
\* deeper than there are classes.
THEOREM NeverReentered == Spec => []NoReentrantLoad
  <1>1. ActivationsConsistent => NoReentrantLoad
    BY DEF ActivationsConsistent
  <1> QED
    BY <1>1, Consistent, PTL

(***************************************************************************)
(* The linked classes                                                      *)
(***************************************************************************)
\* Entering load_and_link_class links nothing and unlinks nothing.
LEMMA EnterLinksNothing ==
    ASSUME TypeOK, NEW c \in Classes, NEW callers, Enter(c, callers)
    PROVE  Linked' = Linked
  BY DEF Enter, AlreadyLoaded, StillLoading, NotProvided, Fetched, Linked, TypeOK

\* Only Link changes the set of linked classes or a layout.
LEMMA OnlyLinkLinks ==
    ASSUME TypeOK, ActivationsConsistent, [Next]_loaderVars
    PROVE  \/ Linked' = Linked /\ fullHeapSize' = fullHeapSize /\ classFile' = classFile
           \/ Link
  <1>1. ASSUME NEW c \in Classes, Request(c)
        PROVE  Linked' = Linked /\ fullHeapSize' = fullHeapSize /\ classFile' = classFile
    BY <1>1, EnterLinksNothing DEF Request
  <1>2. ASSUME LoadSuper
        PROVE  Linked' = Linked /\ fullHeapSize' = fullHeapSize /\ classFile' = classFile
    <2>1. SuperOf(Top.cls) \in Classes
      BY <1>2, StackFacts
         DEF LoadSuper, SuperIsLinked, HasSuper, SuperOf, TypeOK, Activation, ClassFile
    <2> QED
      BY <1>2, <2>1, EnterLinksNothing DEF LoadSuper
  <1>3. ASSUME LoadField
        PROVE  Linked' = Linked /\ fullHeapSize' = fullHeapSize /\ classFile' = classFile
    <2>1. Top.todo \subseteq Classes
      BY <1>3, StackFacts DEF LoadField, Activation
    <2> QED
      BY <1>3, <2>1, EnterLinksNothing DEF LoadField
  <1>4. ASSUME HandleReport \/ Propagate \/ LinkPanics \/ Finish \/ UNCHANGED loaderVars
        PROVE  Linked' = Linked /\ fullHeapSize' = fullHeapSize /\ classFile' = classFile
    BY <1>4 DEF HandleReport, Propagate, LinkPanics, Finish, loaderVars, Linked
  <1> QED
    BY <1>1, <1>2, <1>3, <1>4 DEF Next, Step

\* What Link does: the class of the innermost activation, Loading before, joins
\* the linked classes above a linked superclass.
LEMMA LinkFacts ==
    ASSUME TypeOK, ActivationsConsistent, Link
    PROVE  /\ Top.cls \in Classes /\ Top.cls \notin Linked
           /\ Linked' = Linked \cup {Top.cls}
           /\ classFile' = classFile
           /\ SuperOf(Top.cls) \in Linked \cup {NoClass}
           /\ fullHeapSize' = [fullHeapSize EXCEPT ![Top.cls] =
                 classFile[Top.cls].size
                   + (IF HasSuper(Top.cls) THEN fullHeapSize[SuperOf(Top.cls)] ELSE 0)]
  <1>1. Top.cls \in Classes /\ Top.phase \notin AfterLink
    BY StackFacts DEF Link, Activation, AfterLink
  <1>2. Top.cls \notin Linked
    BY <1>1, StackFacts DEF Linked, Link
  <1>3. Linked' = Linked \cup {Top.cls}
    BY <1>1 DEF Link, Linked, TypeOK
  <1> QED
    BY <1>1, <1>2, <1>3 DEF Link, SuperIsLinked, HasSuper

\* SuperLinked is inductive: a class linked later is not the superclass of one
\* linked before.
LEMMA SuperLinkedStep ==
    ASSUME TypeOK, ActivationsConsistent, SuperLinked, [Next]_loaderVars
    PROVE  SuperLinked'
  <1>1. CASE Linked' = Linked /\ fullHeapSize' = fullHeapSize /\ classFile' = classFile
    BY <1>1 DEF SuperLinked, SuperIsLinked, HasSuper, SuperOf
  <1>2. CASE Link
    <2> SUFFICES ASSUME NEW c \in Linked'
                 PROVE  /\ SuperIsLinked(c)'
                        /\ fullHeapSize'[c] = classFile'[c].size
                             + (IF HasSuper(c)' THEN fullHeapSize'[SuperOf(c)'] ELSE 0)
      BY DEF SuperLinked
    <2>1. SuperOf(c)' = SuperOf(c) /\ (HasSuper(c)' <=> HasSuper(c))
      BY <1>2, LinkFacts DEF SuperOf, HasSuper
    <2>2. SuperOf(c) \in Linked \cup {NoClass}
      BY <1>2, LinkFacts DEF SuperLinked, SuperIsLinked, HasSuper
    <2>3. SuperIsLinked(c)'
      BY <1>2, <2>1, <2>2, LinkFacts DEF SuperIsLinked, HasSuper
    <2>4. c \in Classes /\ (HasSuper(c) => SuperOf(c) \in Classes /\ SuperOf(c) # Top.cls)
      BY <1>2, <2>2, LinkFacts DEF HasSuper, Linked
    <2>5. CASE c = Top.cls
      BY <1>2, <2>1, <2>3, <2>4, <2>5, LinkFacts DEF TypeOK
    <2>6. CASE c # Top.cls
      BY <1>2, <2>1, <2>3, <2>4, <2>6, LinkFacts DEF TypeOK, SuperLinked
    <2> QED
      BY <2>5, <2>6
  <1> QED
    BY <1>1, <1>2, OnlyLinkLinks

\* NoSuperCycle is inductive: a new cycle would need a linked class below the
\* one just linked.
LEMMA NoSuperCycleStep ==
    ASSUME TypeOK, ActivationsConsistent, SuperLinked, NoSuperCycle, [Next]_loaderVars
    PROVE  NoSuperCycle'
  <1>1. CASE Linked' = Linked /\ fullHeapSize' = fullHeapSize /\ classFile' = classFile
    BY <1>1 DEF NoSuperCycle, SuperOf
  <1>2. CASE Link
    <2> SUFFICES ASSUME NEW S \in SUBSET Linked', S # {}
                 PROVE  \E c \in S : SuperOf(c)' \notin S
      BY DEF NoSuperCycle
    <2>1. \A c : SuperOf(c)' = SuperOf(c)
      BY <1>2, LinkFacts DEF SuperOf
    <2> DEFINE Older == S \ {Top.cls}
    <2>2. Older \in SUBSET Linked
      BY <1>2, LinkFacts
    <2>3. CASE Older = {}
      <3>1. S = {Top.cls}
        BY <2>3
      <3>2. SuperOf(Top.cls) # Top.cls
        BY <1>2, LinkFacts
      <3> QED
        BY <2>1, <3>1, <3>2
    <2>4. CASE Older # {}
      <3>1. PICK c \in Older : SuperOf(c) \notin Older
        BY <2>2, <2>4 DEF NoSuperCycle
      <3>2. SuperOf(c) # Top.cls
        BY <1>2, <2>2, LinkFacts DEF SuperLinked, SuperIsLinked, HasSuper
      <3> QED
        BY <2>1, <3>1, <3>2
    <2> QED
      BY <2>3, <2>4
  <1> QED
    BY <1>1, <1>2, OnlyLinkLinks

\* No class is unlinked or laid out again by any step.
LEMMA LinkedStep ==
    ASSUME TypeOK, ActivationsConsistent, [Next]_loaderVars
    PROVE  \A c \in Linked : c \in Linked' /\ fullHeapSize'[c] = fullHeapSize[c]
  BY OnlyLinkLinks, LinkFacts DEF TypeOK, Linked

LEMMA InitFacts ==
    ASSUME Init
    PROVE  TypeOK /\ ActivationsConsistent /\ Linked = {} /\ result = NoResult /\ calls = <<>>
                  /\ baseline = {}
  BY EmptySeq DEF Init, TypeOK, ClassLoadState, NoResult, Failure, Result,
                  ActivationsConsistent, NoReentrantLoad, Busy, Linked

\* The two invariants of the linked classes, which need each other.
LEMMA LinkedInvariant == Spec => [](SuperLinked /\ NoSuperCycle)
  <1> DEFINE Inv == TypeOK /\ ActivationsConsistent /\ SuperLinked /\ NoSuperCycle
  <1>1. Init => Inv
    BY InitFacts DEF SuperLinked, NoSuperCycle
  <1>2. Inv /\ [Next]_loaderVars => Inv'
    BY TypeStep, ConsistentStep, SuperLinkedStep, NoSuperCycleStep
  <1> QED
    BY <1>1, <1>2, PTL DEF Spec

\* Whatever the class files say, what get_class hands out has its superclass
\* linked, and was laid out with its final size.
THEOREM SupersLinked == Spec => []SuperLinked
  BY LinkedInvariant, PTL

\* No superclass cycle is ever linked, though class files may form one.
THEOREM CyclesStayOut == Spec => []NoSuperCycle
  BY LinkedInvariant, PTL

\* A linked class stays linked with the layout it has.
THEOREM LinkedIsForever == Spec => LinkedForever
  <1>1. TypeOK /\ ActivationsConsistent /\ [Next]_loaderVars
          => [\A c \in Linked : c \in Linked' /\ fullHeapSize'[c] = fullHeapSize[c]]_loaderVars
    BY LinkedStep
  <1>2. Spec => [](TypeOK /\ ActivationsConsistent)
    <2>1. Init => TypeOK /\ ActivationsConsistent
      BY InitFacts
    <2>2. TypeOK /\ ActivationsConsistent /\ [Next]_loaderVars => TypeOK' /\ ActivationsConsistent'
      BY TypeStep, ConsistentStep
    <2> QED
      BY <2>1, <2>2, PTL DEF Spec
  <1> QED
    BY <1>1, <1>2, PTL DEF Spec, LinkedForever

(***************************************************************************)
(* Reports                                                                 *)
(***************************************************************************)
\* A class collected by the innermost activation of a stack, or below it.
LEMMA GatheredOnTop ==
    ASSUME NEW stack \in Seq(Activation), NEW below \in Seq(Activation),
           Len(stack) = Len(below) + 1,
           \A i \in 1..Len(below) : stack[i] = below[i]
    PROVE  Gathered(stack) =
             Gathered(below) \cup stack[Len(stack)].loaded
               \cup (IF stack[Len(stack)].phase \in AfterLink THEN {stack[Len(stack)].cls} ELSE {})
  <1>1. /\ Len(below) \in Nat
        /\ \A i \in 1..Len(stack) : stack[i] \in Activation
        /\ 1..Len(stack) = (1..Len(below)) \cup {Len(stack)}
    BY ElementOfSeq, LenProperties
  <1>2. stack[Len(stack)].loaded \subseteq Classes /\ stack[Len(stack)].cls \in Classes
    BY <1>1 DEF Activation
  <1>3. ASSUME NEW c \in Classes
        PROVE  c \in Gathered(stack) <=>
                 \/ c \in Gathered(below)
                 \/ c \in stack[Len(stack)].loaded
                 \/ c = stack[Len(stack)].cls /\ stack[Len(stack)].phase \in AfterLink
    BY <1>1 DEF Gathered
  <1>4. Gathered(stack) \subseteq Classes /\ Gathered(below) \subseteq Classes
    BY DEF Gathered
  <1> QED
    BY <1>2, <1>3, <1>4

\* Entering load_and_link_class collects nothing yet.
LEMMA EnterGathered ==
    ASSUME NEW c \in Classes, NEW callers \in Seq(Activation), Enter(c, callers),
           result'.kind \in {"none", "ok", "Loading"}
    PROVE  result'.loaded = {} /\ Gathered(calls') = Gathered(callers)
  <1>1. Started(c) \in Activation /\ Started(c).loaded = {} /\ Started(c).phase \notin AfterLink
    BY DEF Started, Activation, Phase, AfterLink
  <1> DEFINE stack == Append(callers, Started(c))
  <1>2. /\ stack \in Seq(Activation)
        /\ Len(stack) = Len(callers) + 1
        /\ \A i \in 1..Len(callers) : stack[i] = callers[i]
        /\ stack[Len(callers) + 1] = Started(c)
    BY <1>1, AppendProperties
  <1>3. Gathered(stack) = Gathered(callers)
    <2> HIDE DEF stack
    <2>1. stack[Len(stack)] = Started(c)
      BY <1>2
    <2>2. Gathered(callers) \subseteq Classes
      BY DEF Gathered
    <2>3. Gathered(stack) = Gathered(callers) \cup stack[Len(stack)].loaded
            \cup (IF stack[Len(stack)].phase \in AfterLink THEN {stack[Len(stack)].cls} ELSE {})
      BY <1>2, GatheredOnTop
    <2> QED
      BY <1>1, <2>1, <2>2, <2>3
  <1>4. \/ calls' = callers /\ result'.loaded = {}
        \/ calls' = Append(callers, Started(c)) /\ result'.loaded = {}
    BY DEF Enter, AlreadyLoaded, StillLoading, NotProvided, Fetched, Answer,
           Report, NoResult, Failure
  <1> QED
    BY <1>3, <1>4

\* What the stack has collected, split at its innermost activation a, for a
\* stack that goes on with a in the place of the innermost one.
LEMMA ResumeGathered ==
    ASSUME TypeOK, ActivationsConsistent, Busy, NEW a \in Activation
    PROVE  /\ Front(calls) \in Seq(Activation)
           /\ Resume(a) \in Seq(Activation)
           /\ Gathered(Resume(a)) = Gathered(Front(calls)) \cup a.loaded
                \cup (IF a.phase \in AfterLink THEN {a.cls} ELSE {})
           /\ Gathered(calls) = Gathered(Front(calls)) \cup Top.loaded
                \cup (IF Top.phase \in AfterLink THEN {Top.cls} ELSE {})
  <1> DEFINE below == Front(calls)
  <1>1. /\ below \in Seq(Activation)
        /\ Len(calls) \in Nat \ {0}
        /\ Len(below) = Len(calls) - 1
        /\ \A i \in 1..(Len(calls) - 1) : below[i] = calls[i]
    BY FrontProperties DEF TypeOK, Busy
  <1>2. /\ Resume(a) \in Seq(Activation)
        /\ Len(Resume(a)) = Len(calls)
        /\ \A i \in 1..(Len(calls) - 1) : Resume(a)[i] = calls[i]
        /\ Resume(a)[Len(calls)] = a
    BY ResumeProperties DEF TypeOK
  <1>3. Top = calls[Len(calls)]
    BY StackFacts
  <1> HIDE DEF below
  <1>4. Gathered(Resume(a)) = Gathered(below) \cup a.loaded
            \cup (IF a.phase \in AfterLink THEN {a.cls} ELSE {})
    BY <1>1, <1>2, GatheredOnTop
  <1>5. Gathered(calls) = Gathered(below) \cup Top.loaded
            \cup (IF Top.phase \in AfterLink THEN {Top.cls} ELSE {})
    <2>1. calls \in Seq(Activation) /\ Len(calls) = Len(below) + 1
          /\ \A i \in 1..Len(below) : calls[i] = below[i]
      BY <1>1 DEF TypeOK
    <2>2. Gathered(calls) = Gathered(below) \cup calls[Len(calls)].loaded
            \cup (IF calls[Len(calls)].phase \in AfterLink THEN {calls[Len(calls)].cls} ELSE {})
      BY <1>1, <2>1, GatheredOnTop
    <2> QED
      BY <1>3, <2>2
  <1> QED
    BY <1>1, <1>2, <1>4, <1>5 DEF below

\* NothingLost is inductive: merging a report, linking and returning all keep
\* the collected classes equal to the newly linked ones.
LEMMA NothingLostStep ==
    ASSUME TypeOK, ActivationsConsistent, NothingLost, [Next]_loaderVars
    PROVE  NothingLost'
  <1>n. Busy /\ Top.phase \notin Waiting => result.kind = "none" /\ result.loaded = {}
    BY DEF ActivationsConsistent
  <1>1. CASE UNCHANGED loaderVars
    BY <1>1 DEF loaderVars, NothingLost, Linked, Busy, Gathered
  <1>2. ASSUME NEW c \in Classes, Request(c)
        PROVE  NothingLost'
    <2> DEFINE none == <<>>
    <2>1. none \in Seq(Activation) /\ Gathered(none) = {} /\ Enter(c, none)
      BY <1>2, EmptySeq DEF Gathered, Request
    <2> HIDE DEF none
    <2>2. Linked' = Linked /\ baseline' = Linked
      BY <1>2, <2>1, EnterLinksNothing DEF Request
    <2>3. result'.kind \in {"none", "ok", "Loading"} => result'.loaded = {} /\ Gathered(calls') = {}
      BY <2>1, EnterGathered
    <2> QED
      BY <2>2, <2>3 DEF NothingLost
  <1>3. CASE LoadSuper
    <2> DEFINE a == [Top EXCEPT !.phase = "superReport"]
    <2>1. SuperOf(Top.cls) \in Classes /\ Busy
      BY <1>3, StackFacts
         DEF LoadSuper, SuperIsLinked, HasSuper, SuperOf, TypeOK, Activation, ClassFile
    <2>2. a \in Activation /\ a.loaded = Top.loaded /\ a.phase \notin AfterLink
          /\ Top.phase \notin AfterLink /\ Top.phase \notin Waiting
      BY <1>3, StackFacts DEF LoadSuper, Activation, Phase, AfterLink, Waiting
    <2>3. Enter(SuperOf(Top.cls), Resume(a)) /\ baseline' = baseline
      BY <1>3 DEF LoadSuper
    <2> HIDE DEF a
    <2>4. Resume(a) \in Seq(Activation) /\ Gathered(Resume(a)) = Gathered(calls)
      BY <2>1, <2>2, ResumeGathered
    <2>5. result'.kind \in {"none", "ok", "Loading"}
            => result'.loaded = {} /\ Gathered(calls') = Gathered(calls)
      BY <2>1, <2>3, <2>4, EnterGathered
    <2>6. Linked' = Linked
      BY <2>1, <2>3, EnterLinksNothing
    <2> QED
      BY <1>n, <2>1, <2>2, <2>3, <2>5, <2>6 DEF NothingLost
  <1>4. CASE HandleReport
    <2> DEFINE a == [Top EXCEPT !.phase = IF @ = "superReport" THEN "link" ELSE "fields",
                                !.loaded = @ \cup result.loaded]
    <2>1. a \in Activation /\ a.loaded = Top.loaded \cup result.loaded /\ a.cls = Top.cls
          /\ (a.phase \in AfterLink <=> Top.phase \in AfterLink)
      BY <1>4, StackFacts DEF HandleReport, Activation, Phase, TypeOK, Result, AfterLink
    <2>2. /\ Busy /\ result.kind \in {"ok", "Loading"}
          /\ calls' = Resume(a) /\ result' = NoResult /\ baseline' = baseline /\ Linked' = Linked
      BY <1>4 DEF HandleReport, Linked
    <2> HIDE DEF a
    <2>3. Gathered(calls') = Gathered(calls) \cup result.loaded
      BY <2>1, <2>2, ResumeGathered
    <2> QED
      BY <2>2, <2>3 DEF NothingLost, NoResult, Failure
  <1>5. CASE Propagate
    BY <1>5 DEF Propagate, NothingLost, Linked
  <1>6. CASE Link
    <2> DEFINE a == [Top EXCEPT !.phase = "fields", !.todo = classFile[Top.cls].fields]
    <2>1. a \in Activation /\ a.loaded = Top.loaded /\ a.cls = Top.cls /\ a.phase \in AfterLink
          /\ Top.phase \notin AfterLink
      BY <1>6, StackFacts DEF Link, Activation, Phase, TypeOK, ClassFile, AfterLink
    <2>2. Busy /\ calls' = Resume(a) /\ result' = result /\ baseline' = baseline
          /\ Top.phase \notin Waiting
      BY <1>6 DEF Link, Waiting
    <2> HIDE DEF a
    <2>3. Gathered(calls') = Gathered(calls) \cup {Top.cls}
      BY <2>1, <2>2, ResumeGathered
    <2>4. Linked' = Linked \cup {Top.cls} /\ Top.cls \notin Linked
      BY <1>6, LinkFacts
    <2> QED
      BY <1>n, <2>2, <2>3, <2>4 DEF NothingLost
  <1>7. CASE LinkPanics
    BY <1>7 DEF LinkPanics, Answer, Failure, NothingLost, Linked
  <1>8. CASE LoadField
    <2>1. PICK f \in Top.todo :
             Enter(f, Resume([Top EXCEPT !.phase = "fieldReport", !.todo = @ \ {f}]))
      BY <1>8 DEF LoadField
    <2> DEFINE a == [Top EXCEPT !.phase = "fieldReport", !.todo = @ \ {f}]
    <2>2. f \in Classes /\ Busy
      BY <1>8, <2>1, StackFacts DEF LoadField, Activation
    <2>3. a \in Activation /\ a.loaded = Top.loaded /\ a.phase \in AfterLink /\ a.cls = Top.cls
          /\ Top.phase \in AfterLink /\ Top.phase \notin Waiting
      BY <1>8, StackFacts DEF LoadField, Activation, Phase, AfterLink, Waiting
    <2>4. Enter(f, Resume(a)) /\ baseline' = baseline
      BY <1>8, <2>1 DEF LoadField
    <2> HIDE DEF a
    <2>5. Resume(a) \in Seq(Activation) /\ Gathered(Resume(a)) = Gathered(calls)
      BY <2>2, <2>3, ResumeGathered
    <2>6. result'.kind \in {"none", "ok", "Loading"}
            => result'.loaded = {} /\ Gathered(calls') = Gathered(calls)
      BY <2>2, <2>4, <2>5, EnterGathered
    <2>7. Linked' = Linked
      BY <2>2, <2>4, EnterLinksNothing
    <2> QED
      BY <1>n, <2>2, <2>3, <2>4, <2>6, <2>7 DEF NothingLost
  <1>9. CASE Finish
    <2>1. Busy /\ Top.phase \in AfterLink /\ Top.phase \notin Waiting
      BY <1>9 DEF Finish, AfterLink, Waiting
    <2>2. calls' = Front(calls) /\ result'.loaded = Top.loaded \cup {Top.cls}
          /\ baseline' = baseline /\ Linked' = Linked
      BY <1>9 DEF Finish, Answer, Report, Linked
    <2>3. Gathered(calls) = Gathered(calls') \cup Top.loaded \cup {Top.cls}
      BY <2>1, <2>2, StackFacts, ResumeGathered
    <2> QED
      BY <1>n, <2>1, <2>2, <2>3 DEF NothingLost
  <1> QED
    BY <1>1, <1>2, <1>3, <1>4, <1>5, <1>6, <1>7, <1>8, <1>9 DEF Next, Step

LEMMA NothingLostReports ==
    ASSUME NothingLost
    PROVE  ReportComplete
  BY EmptySeq DEF NothingLost, ReportComplete, Busy, Gathered

\* As long as no error unwinds a request, every class it has linked is in some
\* report on its way to the requester.
THEOREM ReportsCarryAll == Spec => []NothingLost
  <1> DEFINE Inv == TypeOK /\ ActivationsConsistent /\ NothingLost
  <1>1. Init => Inv
    BY InitFacts DEF NothingLost, Busy, NoResult, Failure
  <1>2. Inv /\ [Next]_loaderVars => Inv'
    BY TypeStep, ConsistentStep, NothingLostStep
  <1> QED
    BY <1>1, <1>2, PTL DEF Spec

\* A successful request reports exactly the classes it linked, so that nothing
\* linked misses its <clinit>, and nothing gets a second one.
THEOREM ReportsComplete == Spec => []ReportComplete
  BY NothingLostReports, ReportsCarryAll, PTL

(***************************************************************************)
(* Field types                                                             *)
(***************************************************************************)
\* The classes of a stack of activations, and the field types f that one of
\* class c has still to ask for.
Held(stack) == {stack[i].cls : i \in 1..Len(stack)}
Pending(stack, c, f) == \E i \in 1..Len(stack) : stack[i].cls = c /\ f \in stack[i].todo

\* The innermost activation goes on as a ...
LEMMA ResumePending ==
    ASSUME TypeOK, Busy, NEW a \in Activation, a.cls = Top.cls
    PROVE  /\ Held(Resume(a)) = Held(calls)
           /\ \A c, f : Pending(calls, c, f) =>
                 Pending(Resume(a), c, f) \/ (c = Top.cls /\ f \in Top.todo \ a.todo)
           /\ \A f \in a.todo : Pending(Resume(a), Top.cls, f)
  <1> DEFINE stack == Resume(a)
  <1>1. /\ Len(stack) = Len(calls)
        /\ \A i \in 1..(Len(calls) - 1) : stack[i] = calls[i]
        /\ stack[Len(calls)] = a
    BY ResumeProperties DEF TypeOK
  <1>2. Len(calls) \in Nat \ {0} /\ Top = calls[Len(calls)]
    BY FrontProperties DEF TypeOK, Busy, Top, Last
  <1> HIDE DEF stack
  <1>3. \A i \in 1..Len(calls) : stack[i].cls = calls[i].cls
    BY <1>1, <1>2
  <1>4. Held(stack) = Held(calls)
    BY <1>1, <1>3 DEF Held
  <1>5. ASSUME NEW c, NEW f, NEW i \in 1..Len(calls), calls[i].cls = c, f \in calls[i].todo
        PROVE  Pending(stack, c, f) \/ (c = Top.cls /\ f \in Top.todo \ a.todo)
    BY <1>1, <1>2, <1>5 DEF Pending
  <1>6. \A f \in a.todo : Pending(stack, Top.cls, f)
    BY <1>1, <1>2 DEF Pending
  <1> QED
    BY <1>4, <1>5, <1>6 DEF Pending, stack

\* ... or returns.
LEMMA FrontPending ==
    ASSUME TypeOK, Busy
    PROVE  /\ Held(Front(calls)) \subseteq Held(calls)
           /\ \A c, f : Pending(calls, c, f) =>
                 Pending(Front(calls), c, f) \/ (c = Top.cls /\ f \in Top.todo)
  <1> DEFINE stack == Front(calls)
  <1>1. /\ Len(calls) \in Nat \ {0} /\ Top = calls[Len(calls)]
        /\ Len(stack) = Len(calls) - 1
        /\ \A i \in 1..(Len(calls) - 1) : stack[i] = calls[i]
    BY FrontProperties DEF TypeOK, Busy, Top, Last
  <1> HIDE DEF stack
  <1>2. Held(stack) \subseteq Held(calls)
    BY <1>1 DEF Held
  <1>3. ASSUME NEW c, NEW f, NEW i \in 1..Len(calls), calls[i].cls = c, f \in calls[i].todo
        PROVE  Pending(stack, c, f) \/ (c = Top.cls /\ f \in Top.todo)
    BY <1>1, <1>3 DEF Pending
  <1> QED
    BY <1>2, <1>3 DEF Pending, stack

\* What the entry of load_and_link_class does to class_map and the stack; for a
\* sound class file it neither fails nor leaves the class out of class_map.
LEMMA EnterPending ==
    ASSUME TypeOK, NEW c \in Classes, NEW callers \in Seq(Activation), Enter(c, callers)
    PROVE  /\ \A d \in Classes : classMap[d] # "Absent" => classMap'[d] = classMap[d]
           /\ \A d \in Held(calls') : d \in Held(callers) \/ (d = c /\ classMap[c] = "Absent")
           /\ Deserializes(c) =>
                 /\ classMap'[c] # "Absent"
                 /\ result'.kind \in {"none", "ok", "Loading"}
                 /\ \A d, f : Pending(callers, d, f) => Pending(calls', d, f)
  <1> DEFINE stack == Append(callers, Started(c))
  <1>1. /\ Len(callers) \in Nat /\ Len(stack) = Len(callers) + 1
        /\ \A i \in 1..Len(callers) : stack[i] = callers[i]
        /\ stack[Len(callers) + 1] = Started(c)
    <2>1. Started(c) \in Activation
      BY DEF Started, Activation, Phase
    <2> QED
      BY <2>1, AppendProperties
  <1> HIDE DEF stack
  <1>2. \A d \in Held(stack) : d \in Held(callers) \/ d = c
    BY <1>1 DEF Held, Started
  <1>3. \A d, f : Pending(callers, d, f) => Pending(stack, d, f)
    BY <1>1 DEF Pending
  <1>4. Held(<<>>) = {}
    BY EmptySeq DEF Held
  <1>5. CASE AlreadyLoaded(c, callers) \/ StillLoading(c, callers)
    BY <1>5 DEF AlreadyLoaded, StillLoading, Answer, Report, Failure
  <1>6. CASE NotProvided(c, callers)
    BY <1>6 DEF NotProvided, Answer, Deserializes
  <1>7. CASE Fetched(c, callers)
    <2>1. classMap[c] = "Absent" /\ classMap' = [classMap EXCEPT ![c] = "Loading"]
      BY <1>7 DEF Fetched
    <2>2. \/ Deserializes(c) /\ calls' = stack /\ result' = NoResult
          \/ ~Deserializes(c) /\ calls' \in {<<>>, callers}
      BY <1>7 DEF Fetched, Answer, stack, Deserializes
    <2> QED
      BY <1>2, <1>3, <1>4, <2>1, <2>2 DEF TypeOK, NoResult, Failure
  <1> QED
    BY <1>5, <1>6, <1>7 DEF Enter

\* An entry that is Loading without an activation stays so for good.
LEMMA AbandonedStays ==
    ASSUME TypeOK, ActivationsConsistent, [Next]_loaderVars, LoadingMeansInProgress'
    PROVE  LoadingMeansInProgress
  <1> SUFFICES ASSUME NEW d \in Classes, classMap[d] = "Loading", d \notin Held(calls)
               PROVE  classMap'[d] = "Loading" /\ d \notin Held(calls')
    BY DEF LoadingMeansInProgress, Held
  <1>1. CASE UNCHANGED loaderVars
    BY <1>1 DEF loaderVars, Held
  <1>2. ASSUME NEW c \in Classes, NEW callers \in Seq(Activation), Enter(c, callers),
               Held(callers) \subseteq Held(calls)
        PROVE  classMap'[d] = "Loading" /\ d \notin Held(calls')
    BY <1>2, EnterPending
  <1>3. ASSUME NEW c \in Classes, Request(c)
        PROVE  classMap'[d] = "Loading" /\ d \notin Held(calls')
    <2>1. Enter(c, <<>>) /\ <<>> \in Seq(Activation) /\ Held(<<>>) = {}
      BY <1>3, EmptySeq DEF Request, Held
    <2> QED
      BY <1>2, <2>1
  <1>4. CASE LoadSuper
    <2>1. Top \in Activation /\ SuperOf(Top.cls) \in Classes
      BY <1>4, StackFacts
         DEF LoadSuper, SuperIsLinked, HasSuper, SuperOf, TypeOK, Activation, ClassFile
    <2>2. PICK a \in Activation : a.cls = Top.cls /\ Enter(SuperOf(Top.cls), Resume(a))
      BY <1>4, <2>1 DEF LoadSuper, Activation, Phase
    <2>3. Resume(a) \in Seq(Activation) /\ Held(Resume(a)) = Held(calls)
      BY <1>4, <2>2, ResumeProperties, ResumePending DEF LoadSuper, TypeOK
    <2> QED
      BY <1>2, <2>1, <2>2, <2>3
  <1>5. CASE LoadField
    <2>1. Top \in Activation
      BY <1>5, StackFacts DEF LoadField
    <2>2. PICK f \in Top.todo :
             Enter(f, Resume([Top EXCEPT !.phase = "fieldReport", !.todo = @ \ {f}]))
      BY <1>5 DEF LoadField
    <2>3. PICK a \in Activation : a.cls = Top.cls /\ Enter(f, Resume(a))
      BY <2>1, <2>2 DEF Activation, Phase
    <2>4. Resume(a) \in Seq(Activation) /\ Held(Resume(a)) = Held(calls)
      BY <1>5, <2>3, ResumeProperties, ResumePending DEF LoadField, TypeOK
    <2> QED
      BY <1>2, <2>1, <2>2, <2>3, <2>4 DEF Activation
  <1>6. CASE HandleReport
    <2>1. Top \in Activation
      BY <1>6, StackFacts DEF HandleReport
    <2>2. PICK a \in Activation : a.cls = Top.cls /\ calls' = Resume(a)
      BY <1>6, <2>1 DEF HandleReport, Activation, Phase, TypeOK, Result
    <2> QED
      BY <1>6, <2>2, ResumePending DEF HandleReport
  <1>7. CASE Link
    <2>1. Top \in Activation /\ Top.cls \in Held(calls)
      BY <1>7, StackFacts DEF Link, Held
    <2>2. PICK a \in Activation : a.cls = Top.cls /\ calls' = Resume(a)
      BY <1>7, <2>1 DEF Link, Activation, Phase, TypeOK, ClassFile
    <2> QED
      BY <1>7, <2>1, <2>2, ResumePending DEF Link, TypeOK
  <1>8. CASE LinkPanics
    BY <1>8, EmptySeq DEF LinkPanics, Answer, Held
  <1>9. CASE Propagate \/ Finish
    BY <1>9, FrontPending DEF Propagate, Finish, Answer
  <1> QED
    BY <1>1, <1>3, <1>4, <1>5, <1>6, <1>7, <1>8, <1>9 DEF Next, Step

\* Every class file is sound; f is known to class_map, or c will ask for it.
Sound == \A c \in Classes : Deserializes(c)
Answerable == result.kind \in {"none", "ok", "Loading", "panic"}
Asked(c, f) == classMap[f] # "Absent" \/ Pending(calls, c, f)

\* FieldsAwaited is inductive.
LEMMA FieldsAwaitedStep ==
    ASSUME TypeOK, ActivationsConsistent, FieldsAwaited, [Next]_loaderVars
    PROVE  FieldsAwaited'
  <1> SUFFICES ASSUME Sound'
               PROVE  /\ Answerable'
                      /\ LoadingMeansInProgress' =>
                            \A c \in Linked' : \A f \in classFile'[c].fields : Asked(c, f)'
    BY DEF FieldsAwaited, Sound, Answerable, Asked, Pending
  <1> DEFINE Goal == /\ Answerable'
                     /\ LoadingMeansInProgress' =>
                           \A c \in Linked' : \A f \in classFile'[c].fields : Asked(c, f)'
  <1>c. classFile' = classFile
    BY OnlyLinkLinks DEF Link
  <1>s. Sound
    BY <1>c DEF Sound, Deserializes, HasSuper, SuperOf
  <1>a. /\ Answerable
        /\ LoadingMeansInProgress' =>
              \A c \in Linked : \A f \in classFile[c].fields : Asked(c, f)
    BY <1>s, AbandonedStays DEF FieldsAwaited, Sound, Answerable, Asked, Pending
  <1>f. \A c \in Linked : classFile[c].fields \subseteq Classes
    BY DEF TypeOK, ClassFile, Linked
  <1>k. ASSUME NEW c \in Classes, NEW callers \in Seq(Activation), Enter(c, callers), Linked' = Linked,
               \A d, f : Pending(calls, d, f) => Pending(callers, d, f) \/ f = c
        PROVE  Goal
    <2>1. /\ classMap'[c] # "Absent"
          /\ result'.kind \in {"none", "ok", "Loading"}
          /\ \A d, f : Pending(callers, d, f) => Pending(calls', d, f)
          /\ \A d \in Classes : classMap[d] # "Absent" => classMap'[d] = classMap[d]
      BY <1>s, <1>k, EnterPending DEF Sound
    <2>2. ASSUME NEW d \in Linked, NEW f \in classFile[d].fields, Asked(d, f)
          PROVE  Asked(d, f)'
      <3>1. f \in Classes
        BY <1>f
      <3> QED
        BY <1>k, <2>1, <2>2, <3>1 DEF Asked
    <2> QED
      BY <1>a, <1>c, <1>k, <2>1, <2>2 DEF Answerable
  <1>1. CASE UNCHANGED loaderVars
    BY <1>a, <1>1 DEF loaderVars, Answerable, Asked, Pending, Linked
  <1>2. ASSUME NEW c \in Classes, Request(c)
        PROVE  Goal
    <2>1. Enter(c, <<>>) /\ <<>> \in Seq(Activation) /\ Linked' = Linked
      BY <1>2, EmptySeq, EnterLinksNothing DEF Request
    <2>2. \A d, f : ~Pending(calls, d, f)
      BY <1>2, EmptySeq DEF Request, Busy, Pending
    <2> QED
      BY <1>k, <2>1, <2>2
  <1>3. CASE LoadSuper
    <2>1. Top \in Activation /\ SuperOf(Top.cls) \in Classes
      BY <1>3, StackFacts
         DEF LoadSuper, SuperIsLinked, HasSuper, SuperOf, TypeOK, Activation, ClassFile
    <2>2. PICK a \in Activation :
             a.cls = Top.cls /\ a.todo = Top.todo /\ Enter(SuperOf(Top.cls), Resume(a))
      BY <1>3, <2>1 DEF LoadSuper, Activation, Phase
    <2>3. /\ Resume(a) \in Seq(Activation)
          /\ \A d, f : Pending(calls, d, f) => Pending(Resume(a), d, f)
      BY <1>3, <2>2, ResumeProperties, ResumePending DEF LoadSuper, TypeOK
    <2>4. Linked' = Linked
      BY <2>1, <2>2, EnterLinksNothing
    <2> QED
      BY <1>k, <2>1, <2>2, <2>3, <2>4
  <1>4. CASE LoadField
    <2>1. Top \in Activation
      BY <1>4, StackFacts DEF LoadField
    <2>2. PICK f \in Top.todo :
             Enter(f, Resume([Top EXCEPT !.phase = "fieldReport", !.todo = @ \ {f}]))
      BY <1>4 DEF LoadField
    <2>3. PICK a \in Activation :
             a.cls = Top.cls /\ a.todo = Top.todo \ {f} /\ Enter(f, Resume(a))
      BY <2>1, <2>2 DEF Activation, Phase
    <2>4. /\ Resume(a) \in Seq(Activation)
          /\ \A d, g : Pending(calls, d, g) => Pending(Resume(a), d, g) \/ g = f
      BY <1>4, <2>3, ResumeProperties, ResumePending DEF LoadField, TypeOK
    <2>5. f \in Classes
      BY <2>1 DEF Activation
    <2>6. Linked' = Linked
      BY <2>3, <2>5, EnterLinksNothing
    <2> QED
      BY <1>k, <2>3, <2>4, <2>5, <2>6
  <1>5. CASE HandleReport
    <2>1. Top \in Activation
      BY <1>5, StackFacts DEF HandleReport
    <2>2. PICK a \in Activation : a.cls = Top.cls /\ a.todo = Top.todo /\ calls' = Resume(a)
      BY <1>5, <2>1 DEF HandleReport, Activation, Phase, TypeOK, Result
    <2>3. \A d, f : Pending(calls, d, f) => Pending(calls', d, f)
      BY <1>5, <2>2, ResumePending DEF HandleReport
    <2>4. Linked' = Linked /\ classMap' = classMap /\ result'.kind = "none"
      BY <1>5 DEF HandleReport, Linked, NoResult, Failure
    <2> QED
      BY <1>a, <1>c, <2>3, <2>4 DEF Asked, Answerable
  <1>6. CASE Propagate
    BY <1>a, <1>6 DEF Propagate, Answerable
  <1>7. CASE Link
    <2>1. Top \in Activation /\ Top.cls \in Classes /\ classFile[Top.cls] \in ClassFile
      BY <1>7, StackFacts DEF Link, Activation, TypeOK
    <2>2. PICK a \in Activation :
             a.cls = Top.cls /\ a.todo = classFile[Top.cls].fields /\ calls' = Resume(a)
      BY <1>7, <2>1 DEF Link, Activation, Phase, ClassFile
    <2>3. Top.cls \notin Linked /\ Linked' = Linked \cup {Top.cls} /\ result' = result
      BY <1>7, LinkFacts DEF Link
    <2>4. ASSUME NEW d \in Linked, NEW f \in classFile[d].fields, Asked(d, f)
          PROVE  Asked(d, f)'
      <3>1. f \in Classes /\ d # Top.cls
        BY <1>f, <2>3
      <3>2. classMap[f] # "Absent" => classMap'[f] # "Absent"
        BY <1>7, <3>1 DEF Link, TypeOK
      <3>3. Pending(calls, d, f) => Pending(calls', d, f)
        BY <1>7, <2>2, <3>1, ResumePending DEF Link
      <3> QED
        BY <2>4, <3>2, <3>3 DEF Asked
    <2>5. PICK k \in Classes : k = Top.cls
      BY <2>1
    <2>6. \A f \in classFile[k].fields : Asked(k, f)'
      <3>1. \A f \in a.todo : Pending(Resume(a), Top.cls, f)
        BY <1>7, <2>2, ResumePending DEF Link
      <3>2. \A f \in a.todo : Pending(calls', k, f)
        BY <2>2, <2>5, <3>1
      <3> QED
        BY <2>2, <2>5, <3>2 DEF Asked
    <2> QED
      BY <1>a, <1>c, <2>3, <2>4, <2>5, <2>6 DEF Answerable
  <1>8. CASE LinkPanics
    <2>1. Top.cls \in Classes /\ classMap[Top.cls] = "Loading"
      BY <1>8, StackFacts DEF LinkPanics, Activation, AfterLink
    <2>2. classMap' = classMap /\ Len(calls') = 0 /\ result'.kind = "panic"
      BY <1>8, EmptySeq DEF LinkPanics, Answer, Failure
    <2>3. ~LoadingMeansInProgress'
      BY <2>1, <2>2 DEF LoadingMeansInProgress
    <2> QED
      BY <2>2, <2>3 DEF Answerable
  <1>9. CASE Finish
    <2>1. \A d, f : Pending(calls, d, f) => Pending(calls', d, f)
      BY <1>9, FrontPending DEF Finish, Answer
    <2>2. Linked' = Linked /\ classMap' = classMap /\ result'.kind = "ok"
      BY <1>9 DEF Finish, Answer, Report, Linked
    <2> QED
      BY <1>a, <1>c, <2>1, <2>2 DEF Asked, Answerable
  <1> QED
    BY <1>1, <1>2, <1>3, <1>4, <1>5, <1>6, <1>7, <1>8, <1>9 DEF Next, Step

\* When every class file is sound and no panic left an entry Loading, the field
\* types of the linked classes are linked once no request is being served: a
\* class passed over while it was Loading does get linked.
THEOREM FieldTypesAreLinked == Spec => []FieldTypesLinked
  <1> DEFINE Inv == TypeOK /\ ActivationsConsistent /\ FieldsAwaited
  <1>1. Init => Inv
    BY InitFacts DEF FieldsAwaited, NoResult, Failure
  <1>2. Inv /\ [Next]_loaderVars => Inv'
    BY TypeStep, ConsistentStep, FieldsAwaitedStep
  <1>3. Inv => FieldTypesLinked
    <2> SUFFICES ASSUME Inv, ~Busy,
                        \A c \in Classes : Deserializes(c) /\ classMap[c] # "Loading",
                        NEW c \in Linked, NEW f \in classFile[c].fields
                 PROVE  f \in Linked
      BY DEF FieldTypesLinked
    <2>1. LoadingMeansInProgress
      BY DEF LoadingMeansInProgress
    <2>2. f \in Classes /\ classMap[f] \in ClassLoadState
      BY DEF TypeOK, ClassFile, Linked
    <2>3. \A i \in 1..Len(calls) : FALSE
      BY EmptySeq DEF Busy
    <2>4. classMap[f] # "Absent"
      BY <2>1, <2>3 DEF FieldsAwaited
    <2> QED
      BY <2>2, <2>4 DEF Linked, ClassLoadState
  <1> QED
    BY <1>1, <1>2, <1>3, PTL DEF Spec

(***************************************************************************)
(* Refinement of LoaderContract                                            *)
(***************************************************************************)
\* Steps that link nothing and neither begin nor end a request stutter.
LEMMA Stutter ==
    ASSUME Linked' = Linked, classFile' = classFile, baseline' = baseline, Busy, Busy'
    PROVE  UNCHANGED Contract!contractVars
  BY DEF Contract!contractVars, Answered, SuperOf

\* Entering load_and_link_class from an activation: a stutter, or the failure
\* of the request when the bytes make the parser panic.
LEMMA EnterRefines ==
    ASSUME TypeOK, ActivationsConsistent, Busy, NEW c \in Classes, NEW a \in Activation,
           Enter(c, Resume(a)), classFile' = classFile, baseline' = baseline
    PROVE  [Contract!Next]_Contract!contractVars
  <1>1. Linked' = Linked
    BY EnterLinksNothing
  <1>2. Resume(a) \in Seq(Activation) /\ Len(Resume(a)) # 0
    BY ResumeProperties, StackFacts DEF TypeOK
  <1>3. Started(c) \in Activation
    BY DEF Started, Activation, Phase
  <1>4. Resume(a) # <<>> /\ Append(Resume(a), Started(c)) # <<>>
    BY <1>2, <1>3, EmptySeq, AppendProperties
  <1>5. \/ Busy'
        \/ ~Busy' /\ result'.kind = "panic"
    BY <1>4 DEF Enter, AlreadyLoaded, StillLoading, NotProvided, Fetched, Answer, Busy, Failure
  <1>6. CASE Busy'
    BY <1>1, <1>6, Stutter
  <1>7. CASE ~Busy' /\ result'.kind = "panic"
    <2>1. Contract!Fail
      BY <1>1, <1>7 DEF Contract!Fail, Contract!Failed, Answered, SuperOf
    <2> QED
      BY <2>1 DEF Contract!Next
  <1> QED
    BY <1>5, <1>6, <1>7

\* Every step of the loader is a step of the contract or a stutter.
LEMMA StepRefines ==
    ASSUME TypeOK, ActivationsConsistent, NothingLost, ReportComplete', [Next]_loaderVars
    PROVE  [Contract!Next]_Contract!contractVars
  <1>1. CASE UNCHANGED loaderVars
    BY <1>1 DEF loaderVars, Contract!contractVars, Linked, Busy, Answered, SuperOf
  <1>2. ASSUME NEW c \in Classes, Request(c)
        PROVE  [Contract!Next]_Contract!contractVars
    <2>1. ~Busy /\ Enter(c, <<>>) /\ baseline' = Linked /\ classFile' = classFile
      BY <1>2 DEF Request
    <2>2. Linked' = Linked
      BY <2>1, EnterLinksNothing
    <2>3. CASE Busy'
      <3>1. Contract!Begin
        BY <2>1, <2>2, <2>3 DEF Contract!Begin, Contract!Pending, Answered, SuperOf
      <3> QED
        BY <3>1 DEF Contract!Next
    <2>4. CASE ~Busy'
      <3>1. Started(c) \in Activation /\ <<>> \in Seq(Activation)
        BY EmptySeq DEF Started, Activation, Phase
      <3>2. Append(<<>>, Started(c)) # <<>>
        BY <3>1, AppendProperties
      <3>3. \/ result' = Report({})
            \/ result' = Failure("Loading")
            \/ result' = Failure("NotFound")
            \/ result' = Failure("panic")
            \/ result' = Failure("DeserializationError")
        BY <2>1, <2>4, <3>2
           DEF Enter, AlreadyLoaded, StillLoading, NotProvided, Fetched, Answer, Busy
      <3>4. Answered' \in {Contract!Failed, Contract!Loaded({})}
        BY <2>4, <3>3 DEF Answered, Report, Failure, Contract!Failed, Contract!Loaded
      <3>5. Contract!AnswerAtOnce
        BY <2>1, <2>2, <2>4, <3>4 DEF Contract!AnswerAtOnce, SuperOf, Busy
      <3> QED
        BY <3>5 DEF Contract!Next
    <2> QED
      BY <2>3, <2>4
  <1>3. CASE LoadSuper
    <2>1. SuperOf(Top.cls) \in Classes
      BY <1>3, StackFacts
         DEF LoadSuper, SuperIsLinked, HasSuper, SuperOf, TypeOK, Activation, ClassFile
    <2>2. [Top EXCEPT !.phase = "superReport"] \in Activation
      BY <1>3, StackFacts DEF LoadSuper, Activation, Phase
    <2> QED
      BY <1>3, <2>1, <2>2, EnterRefines DEF LoadSuper
  <1>4. CASE HandleReport
    <2>1. [Top EXCEPT !.phase = IF @ = "superReport" THEN "link" ELSE "fields",
                      !.loaded = @ \cup result.loaded] \in Activation
      BY <1>4, StackFacts DEF HandleReport, Activation, Phase, TypeOK, Result
    <2>2. Busy'
      BY <1>4, <2>1, ResumeProperties, StackFacts, EmptySeq DEF HandleReport, Busy, TypeOK
    <2> QED
      BY <1>4, <2>2, Stutter DEF HandleReport, Linked
  <1>5. CASE Propagate
    <2>1. Linked' = Linked /\ Busy /\ classFile' = classFile /\ baseline' = baseline
          /\ result'.kind \in {"NotFound", "DeserializationError"}
      BY <1>5 DEF Propagate, Linked
    <2>2. CASE Busy'
      BY <2>1, <2>2, Stutter
    <2>3. CASE ~Busy'
      <3>1. Contract!Fail
        BY <2>1, <2>3 DEF Contract!Fail, Contract!Failed, Answered, SuperOf
      <3> QED
        BY <3>1 DEF Contract!Next
    <2> QED
      BY <2>2, <2>3
  <1>6. CASE Link
    <2>1. [Top EXCEPT !.phase = "fields", !.todo = classFile[Top.cls].fields] \in Activation
      BY <1>6, StackFacts DEF Link, Activation, Phase, TypeOK, ClassFile
    <2>2. Busy /\ Busy'
      BY <1>6, <2>1, ResumeProperties, StackFacts, EmptySeq DEF Link, Busy, TypeOK
    <2>3. Contract!LinkClass(Top.cls)
      BY <1>6, <2>2, LinkFacts DEF Link, Contract!LinkClass, Answered, SuperOf
    <2> QED
      BY <1>6, <2>3, LinkFacts DEF Contract!Next
  <1>7. CASE LinkPanics
    <2>1. Contract!Fail
      BY <1>7 DEF LinkPanics, Answer, Failure, Contract!Fail, Contract!Failed, Answered, SuperOf,
                  Busy, Linked
    <2> QED
      BY <2>1 DEF Contract!Next
  <1>8. CASE LoadField
    <2>1. PICK f \in Top.todo :
             Enter(f, Resume([Top EXCEPT !.phase = "fieldReport", !.todo = @ \ {f}]))
      BY <1>8 DEF LoadField
    <2>2. f \in Classes /\ Busy
      BY <1>8, <2>1, StackFacts DEF LoadField, Activation
    <2>3. [Top EXCEPT !.phase = "fieldReport", !.todo = @ \ {f}] \in Activation
      BY <1>8, StackFacts DEF LoadField, Activation, Phase
    <2> QED
      BY <1>8, <2>1, <2>2, <2>3, EnterRefines DEF LoadField
  <1>9. CASE Finish
    <2>1. Linked' = Linked /\ Busy /\ classFile' = classFile /\ baseline' = baseline
          /\ result'.kind = "ok"
      BY <1>9 DEF Finish, Answer, Report, Linked
    <2>2. CASE Busy'
      BY <2>1, <2>2, Stutter
    <2>3. CASE ~Busy'
      <3>1. result'.loaded = Linked \ baseline
        BY <2>1, <2>3 DEF ReportComplete, Linked
      <3>2. Contract!Succeed
        BY <2>1, <2>3, <3>1 DEF Contract!Succeed, Contract!Loaded, Answered, SuperOf
      <3> QED
        BY <3>2 DEF Contract!Next
    <2> QED
      BY <2>2, <2>3
  <1> QED
    BY <1>1, <1>2, <1>3, <1>4, <1>5, <1>6, <1>7, <1>8, <1>9 DEF Next, Step

\* load_and_link_class implements the contract the rest of the machine relies
\* on, for any set of classes and any class files.
THEOREM Refinement == Spec => ImplementsContract
  <1> DEFINE Inv == TypeOK /\ ActivationsConsistent /\ NothingLost
  <1>1. Init => Inv
    BY InitFacts DEF NothingLost, Busy, NoResult, Failure
  <1>2. Inv /\ [Next]_loaderVars => Inv'
    BY TypeStep, ConsistentStep, NothingLostStep
  <1>3. Init => Contract!Init
    <2> SUFFICES ASSUME Init PROVE Contract!Init
      OBVIOUS
    <2>1. TypeOK /\ Linked = {} /\ ~Busy /\ baseline = {} /\ result.kind = "none"
      BY InitFacts DEF Busy, NoResult, Failure
    <2>2. [c \in Classes |-> SuperOf(c)] \in [Classes -> Classes \cup {NoClass}]
      BY <2>1 DEF TypeOK, ClassFile, SuperOf
    <2> QED
      BY <2>1, <2>2 DEF Contract!Init, Contract!Pending, Answered
  <1>4. Inv /\ ReportComplete' /\ [Next]_loaderVars => [Contract!Next]_Contract!contractVars
    BY StepRefines
  <1> QED
    BY <1>1, <1>2, <1>3, <1>4, ReportsComplete, PTL DEF Spec, ImplementsContract, Contract!Spec
=============================================================================
