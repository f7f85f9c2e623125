-------------------------- MODULE ClassInitProofs --------------------------
(***************************************************************************)
(* Class initialisation, proved for any number of threads, any classes,    *)
(* class files and code: the locks, the frames of the threads, and the     *)
(* static initialisers.                                                    *)
(***************************************************************************)
EXTENDS ClassInit, ClassLoaderProofs, FiniteSetTheorems

USE AgentsAssumption, CodeAssumption

(***************************************************************************)
(* Frames                                                                  *)
(***************************************************************************)
\* A frame stack of at least one frame: its innermost frame.
LEMMA CurrentFrame ==
    ASSUME frames \in [Threads -> Seq(Frame)], NEW t \in Threads, Running(t)
    PROVE  /\ Len(frames[t]) \in Nat \ {0}
           /\ Current(t) = frames[t][Len(frames[t])]
           /\ Current(t) \in Frame
           /\ Front(frames[t]) \in Seq(Frame)
           /\ Len(Front(frames[t])) = Len(frames[t]) - 1
           /\ \A i \in 1..(Len(frames[t]) - 1) : Front(frames[t])[i] = frames[t][i]
  <1>1. frames[t] \in Seq(Frame) /\ frames[t] # <<>>
    BY DEF Running
  <1> QED
    BY <1>1, FrontProperties DEF Current, Last

\* r is the sequence s with its last element replaced by f, and more above it.
Topped(r, S, s, f, more) ==
    /\ r \in Seq(S) /\ r # <<>>
    /\ Len(more) \in Nat
    /\ Len(r) = Len(s) + Len(more)
    /\ \A i \in 1..(Len(s) - 1) : r[i] = s[i]
    /\ r[Len(s)] = f
    /\ \A k \in 1..Len(more) : r[Len(s) + k] = more[k]
    /\ Len(more) = 0 => r[Len(r)] = f
    /\ Len(more) # 0 => r[Len(r)] = more[Len(more)]

LEMMA ReplaceLast ==
    ASSUME NEW S, NEW s \in Seq(S), s # <<>>, NEW f \in S, NEW more \in Seq(S)
    PROVE  Topped(Append(Front(s), f) \o more, S, s, f, more)
  <1> DEFINE kept == Append(Front(s), f)
  <1>1. /\ Len(s) \in Nat \ {0} /\ Front(s) \in Seq(S) /\ Len(Front(s)) = Len(s) - 1
        /\ \A i \in 1..(Len(s) - 1) : Front(s)[i] = s[i]
    BY FrontProperties
  <1>2. /\ kept \in Seq(S) /\ Len(kept) = Len(s)
        /\ \A i \in 1..(Len(s) - 1) : kept[i] = s[i]
        /\ kept[Len(s)] = f
    BY <1>1, AppendProperties
  <1> HIDE DEF kept
  <1>3. kept \in Seq(S) /\ more \in Seq(S)
    BY <1>2
  <1> DEFINE r == kept \o more
  <1>4. /\ r \in Seq(S) /\ Len(r) = Len(kept) + Len(more)
        /\ \A i \in 1..(Len(kept) + Len(more)) :
              r[i] = IF i <= Len(kept) THEN kept[i] ELSE more[i - Len(kept)]
    BY ONLY <1>3, ConcatProperties
  <1>5. Len(more) \in Nat
    BY LenProperties
  <1> HIDE DEF r
  <1>6. Len(r) = Len(s) + Len(more) /\ r # <<>>
    BY <1>1, <1>2, <1>4, <1>5, EmptySeq
  <1>7. (\A i \in 1..(Len(s) - 1) : r[i] = s[i]) /\ r[Len(s)] = f
    BY <1>1, <1>2, <1>4, <1>5
  <1>8. ASSUME NEW k \in 1..Len(more)
        PROVE  r[Len(s) + k] = more[k]
    <2>1. Len(s) + k \in 1..(Len(kept) + Len(more))
      BY <1>1, <1>2, <1>5
    <2>2. ~(Len(s) + k <= Len(kept)) /\ (Len(s) + k) - Len(kept) = k
      BY <1>1, <1>2, <1>5
    <2> QED
      BY <1>4, <2>1, <2>2
  <1>9. (Len(more) = 0 => r[Len(r)] = f) /\ (Len(more) # 0 => r[Len(r)] = more[Len(more)])
    BY <1>1, <1>5, <1>6, <1>7, <1>8
  <1>10. Topped(r, S, s, f, more)
    BY <1>4, <1>5, <1>6, <1>7, <1>8, <1>9 DEF Topped
  <1> QED
    BY <1>10 DEF r, kept

\* An instruction put off or done: the innermost frame of t is replaced by f,
\* and more frames come above it.
Replaced(t, f, more) ==
    /\ frames' \in [Threads -> Seq(Frame)]
    /\ \A u \in Threads \ {t} : frames'[u] = frames[u]
    /\ Topped(frames'[t], Frame, frames[t], f, more)

LEMMA ReplaceFrames ==
    ASSUME frames \in [Threads -> Seq(Frame)], NEW t \in Threads, Running(t),
           NEW f \in Frame, NEW more \in Seq(Frame), Replace(t, f, more)
    PROVE  Replaced(t, f, more)
  <1> DEFINE r == Append(Front(frames[t]), f) \o more
  <1>1. frames[t] \in Seq(Frame) /\ frames[t] # <<>>
    BY DEF Running
  <1>2. frames' = [frames EXCEPT ![t] = r]
    BY DEF Replace
  <1>3. Topped(r, Frame, frames[t], f, more)
    BY <1>1, ReplaceLast
  <1> HIDE DEF r
  <1>4. r \in Seq(Frame)
    BY <1>3 DEF Topped
  <1> QED
    BY <1>2, <1>3, <1>4 DEF Replaced

\* Where a frame of the new stack r comes from.
LEMMA ToppedCases ==
    ASSUME NEW S, NEW s \in Seq(S), s # <<>>, NEW f, NEW more, NEW r, Topped(r, S, s, f, more),
           NEW i \in 1..Len(r)
    PROVE  \/ i \in 1..(Len(s) - 1) /\ r[i] = s[i]
           \/ i = Len(s) /\ r[i] = f
           \/ \E k \in 1..Len(more) : i = Len(s) + k /\ r[i] = more[k]
  <1>1. Len(s) \in Nat \ {0}
    BY EmptySeq, LenProperties
  <1>2. Len(more) \in Nat /\ Len(r) = Len(s) + Len(more)
    BY DEF Topped
  <1>3. CASE i < Len(s)
    <2>1. i \in 1..(Len(s) - 1)
      BY <1>1, <1>2, <1>3
    <2> QED
      BY <2>1 DEF Topped
  <1>4. CASE i = Len(s)
    BY <1>4 DEF Topped
  <1>5. CASE i > Len(s)
    <2>1. (i - Len(s)) \in 1..Len(more) /\ i = Len(s) + (i - Len(s))
      BY <1>1, <1>2, <1>5
    <2>2. r[Len(s) + (i - Len(s))] = more[i - Len(s)]
      BY <2>1 DEF Topped
    <2> QED
      BY <2>1, <2>2
  <1> QED
    BY <1>1, <1>2, <1>3, <1>4, <1>5

(***************************************************************************)
(* The <clinit> frames of a report                                         *)
(***************************************************************************)
\* A HashSet iterates over each of its elements.
LEMMA SetToSeqsCovers ==
    ASSUME NEW S, IsFiniteSet(S), NEW order \in SetToSeqs(S)
    PROVE  /\ order \in Seq(S)
           /\ \A c \in S : \E i \in 1..Len(order) : order[i] = c
  <1> DEFINE n == Cardinality(S)
  <1>1. n \in Nat
    BY FS_CardinalityType
  <1>2. order \in [1..n -> S] /\ \A i, j \in 1..n : i # j => order[i] # order[j]
    BY DEF SetToSeqs
  <1>3. IsFiniteSet(1..n) /\ Cardinality(1..n) = n
    <2>1. 1 \in Int /\ n \in Int
      BY <1>1
    <2>2. IsFiniteSet(1..n) /\ Cardinality(1..n) = IF 1 > n THEN 0 ELSE n - 1 + 1
      BY ONLY <2>1, FS_Interval
    <2> QED
      BY <1>1, <2>2
  <1>4. order \in Injection(1..n, S)
    BY <1>2 DEF Injection, IsInjective
  <1>5. order \in Surjection(1..n, S)
    BY <1>3, <1>4, FS_Injection
  <1>6. order \in Seq(S) /\ Len(order) = n
    BY <1>1, <1>2
  <1>7. \A c \in S : \E i \in 1..n : order[i] = c
    BY <1>5 DEF Surjection
  <1> HIDE DEF n
  <1> QED
    BY <1>6, <1>7

\* more holds a <clinit> frame for each class of loaded that has one, and no
\* other frame.
AreInitializers(more, loaded) ==
    /\ more \in Seq(Frame)
    /\ \A k \in 1..Len(more) :
          \E c \in loaded \cap HasClinit : more[k] = NewFrame(c, Clinit[c])
    /\ \A c \in loaded \cap HasClinit :
          \E k \in 1..Len(more) : more[k] = NewFrame(c, Clinit[c])

LEMMA NewFrameType ==
    ASSUME NEW c \in Classes, NEW m \in Methods
    PROVE  NewFrame(c, m) \in Frame
  BY DEF NewFrame, Frame

LEMMA InitializersOfReport ==
    ASSUME NEW loaded \in SUBSET Classes, NEW more \in Initializers(loaded)
    PROVE  AreInitializers(more, loaded)
  <1> DEFINE S == loaded \cap HasClinit
  <1>1. IsFiniteSet(S) /\ S \subseteq Classes
    BY FiniteClassesAssumption, FS_Subset
  <1>2. PICK order \in SetToSeqs(S) :
           more = [i \in DOMAIN order |-> NewFrame(order[i], Clinit[order[i]])]
    BY DEF Initializers
  <1> HIDE DEF S
  <1>3. /\ order \in Seq(S)
        /\ \A c \in S : \E i \in 1..Len(order) : order[i] = c
    <2>1. IsFiniteSet(S) /\ order \in SetToSeqs(S)
      BY <1>1, <1>2
    <2> QED
      BY ONLY <2>1, SetToSeqsCovers, Zenon
  <1>4. Len(order) \in Nat /\ DOMAIN order = 1..Len(order) /\ order \in [1..Len(order) -> S]
    BY <1>3
  <1>5. \A c \in S : NewFrame(c, Clinit[c]) \in Frame
    BY <1>1, NewFrameType DEF HasClinit, S
  <1>6. /\ more \in [1..Len(order) -> Frame]
        /\ \A i \in 1..Len(order) : more[i] = NewFrame(order[i], Clinit[order[i]])
    BY <1>2, <1>4, <1>5
  <1>7. more \in Seq(Frame) /\ Len(more) = Len(order)
    BY <1>4, <1>6
  <1> QED
    BY <1>3, <1>4, <1>6, <1>7 DEF AreInitializers, S

(***************************************************************************)
(* What a step does to the frames                                          *)
(***************************************************************************)
\* The updates of a frame keep its type, its class and its method.
LEMMA FrameUpdates ==
    ASSUME NEW f \in Frame
    PROVE  /\ f.cls \in Classes /\ f.method \in Methods /\ f.pc \in Nat /\ f.ran \in Nat
           /\ [f EXCEPT !.pc = @ + 1] \in Frame
           /\ [f EXCEPT !.ran = @ + 1] \in Frame
           /\ f.pc >= 1 => \A awaits \in SUBSET Classes :
                              [f EXCEPT !.pc = @ - 1, !.awaits = awaits] \in Frame
  <1>1. f.cls \in Classes /\ f.method \in Methods /\ f.pc \in Nat /\ f.ran \in Nat
    BY DEF Frame
  <1>2. f.pc + 1 \in Nat /\ f.ran + 1 \in Nat /\ (f.pc >= 1 => f.pc - 1 \in Nat)
    BY <1>1
  <1>3. [f EXCEPT !.pc = @ + 1] \in Frame
    BY ONLY <1>2, f \in Frame DEF Frame
  <1>4. [f EXCEPT !.ran = @ + 1] \in Frame
    BY ONLY <1>2, f \in Frame DEF Frame
  <1>5. ASSUME f.pc >= 1, NEW awaits \in SUBSET Classes
        PROVE  [f EXCEPT !.pc = @ - 1, !.awaits = awaits] \in Frame
    BY ONLY <1>2, <1>5, f \in Frame DEF Frame
  <1> QED
    BY <1>1, <1>3, <1>4, <1>5

\* The instruction in execution is one of the code of the innermost frame.
LEMMA ExecutingFacts ==
    ASSUME VmTypeOK, Placed, NEW t \in Threads, step[t] \in {"resolveWrite", "loading", "body"}
    PROVE  /\ Running(t) /\ Current(t) \in Frame
           /\ Current(t).pc \in 1..Len(Code[Current(t).method])
           /\ Executing(t) \in Instruction
  <1>1. Running(t) /\ Current(t).pc >= 1
    BY DEF Placed
  <1>2. /\ Len(frames[t]) \in Nat \ {0} /\ Current(t) = frames[t][Len(frames[t])]
        /\ Current(t) \in Frame
    BY <1>1, CurrentFrame DEF VmTypeOK
  <1>3. Current(t).pc <= Len(Code[Current(t).method])
    <2>1. Len(frames[t]) \in 1..Len(frames[t])
      BY <1>2
    <2>2. frames[t][Len(frames[t])].pc <= Len(Code[frames[t][Len(frames[t])].method])
      BY <2>1 DEF Placed
    <2> QED
      BY <1>2, <2>2
  <1>4. Code[Current(t).method] \in Seq(Instruction) /\ Current(t).pc \in Nat
    BY <1>2, FrameUpdates
  <1>5. Current(t).pc \in 1..Len(Code[Current(t).method])
    BY <1>1, <1>3, <1>4, LenProperties
  <1> QED
    BY <1>1, <1>2, <1>4, <1>5, ElementOfSeq DEF Executing

\* The innermost frame after the fetch of its next instruction, after the body
\* of it, and as init_static! leaves it.
Fetching(t) == [Current(t) EXCEPT !.pc = @ + 1]
Stepped(t) == [Current(t) EXCEPT !.ran = @ + 1]
PutOff(t, loaded) == [Current(t) EXCEPT !.pc = @ - 1, !.awaits = loaded \cap HasClinit]

\* In all three it stays a frame of the same method.
SameMethod(f, g) == f.cls = g.cls /\ f.method = g.method

LEMMA UpdatedFields ==
    ASSUME NEW t, Current(t) \in Frame
    PROVE  /\ SameMethod(Fetching(t), Current(t)) /\ Fetching(t).pc = Current(t).pc + 1
           /\ Fetching(t).ran = Current(t).ran /\ Fetching(t).awaits = Current(t).awaits
           /\ SameMethod(Stepped(t), Current(t)) /\ Stepped(t).pc = Current(t).pc
           /\ Stepped(t).ran = Current(t).ran + 1 /\ Stepped(t).awaits = Current(t).awaits
           /\ \A loaded :
                 /\ SameMethod(PutOff(t, loaded), Current(t))
                 /\ PutOff(t, loaded).pc = Current(t).pc - 1
                 /\ PutOff(t, loaded).ran = Current(t).ran
                 /\ PutOff(t, loaded).awaits = loaded \cap HasClinit
  <1>1. PICK f \in Frame : f = Current(t)
    OBVIOUS
  <1>2. /\ Fetching(t) = [f EXCEPT !.pc = @ + 1]
        /\ Stepped(t) = [f EXCEPT !.ran = @ + 1]
    BY <1>1 DEF Fetching, Stepped
  <1>3. SameMethod(Fetching(t), f) /\ Fetching(t).pc = f.pc + 1
        /\ Fetching(t).ran = f.ran /\ Fetching(t).awaits = f.awaits
    BY ONLY <1>2, f \in Frame DEF SameMethod, Frame
  <1>4. SameMethod(Stepped(t), f) /\ Stepped(t).pc = f.pc
        /\ Stepped(t).ran = f.ran + 1 /\ Stepped(t).awaits = f.awaits
    BY ONLY <1>2, f \in Frame DEF SameMethod, Frame
  <1>5. ASSUME NEW loaded
        PROVE  /\ SameMethod(PutOff(t, loaded), f) /\ PutOff(t, loaded).pc = f.pc - 1
               /\ PutOff(t, loaded).ran = f.ran
               /\ PutOff(t, loaded).awaits = loaded \cap HasClinit
    <2>1. PutOff(t, loaded) = [f EXCEPT !.pc = @ - 1, !.awaits = loaded \cap HasClinit]
      BY <1>1 DEF PutOff
    <2> QED
      BY ONLY <2>1, f \in Frame DEF SameMethod, Frame
  <1> QED
    BY <1>1, <1>3, <1>4, <1>5

LEMMA ResolveEffect ==
    ASSUME VmTypeOK, NEW t \in Threads, Resolve(t)
    PROVE  Replaced(t, Fetching(t), <<>>) /\ Fetching(t) \in Frame
  <1>1. Running(t) /\ Current(t) \in Frame
    BY CurrentFrame DEF VmTypeOK, Resolve
  <1>2. Fetching(t) \in Frame
    BY <1>1, FrameUpdates DEF Fetching
  <1> QED
    BY <1>1, <1>2, ReplaceFrames, EmptySeq DEF VmTypeOK, Resolve, Fetching

LEMMA InitStaticEffect ==
    ASSUME VmTypeOK, Placed, NEW t \in Threads, InitStatic(t)
    PROVE  \E more : /\ AreInitializers(more, result.loaded)
                     /\ PutOff(t, result.loaded) \in Frame
                     /\ Replaced(t, PutOff(t, result.loaded), more)
  <1>1. Running(t) /\ Current(t) \in Frame /\ Current(t).pc >= 1
    BY ExecutingFacts DEF InitStatic, Placed
  <1>2. result.loaded \in SUBSET Classes
    BY DEF VmTypeOK, TypeOK, Result
  <1>3. PutOff(t, result.loaded) \in Frame
    <2>1. result.loaded \cap HasClinit \in SUBSET Classes
      BY <1>2
    <2> QED
      BY <1>1, <2>1, FrameUpdates DEF PutOff
  <1>4. PICK more \in Initializers(result.loaded) : Replace(t, PutOff(t, result.loaded), more)
    BY DEF InitStatic, PutOff
  <1>5. AreInitializers(more, result.loaded)
    BY <1>2, InitializersOfReport
  <1> QED
    BY <1>1, <1>3, <1>4, <1>5, ReplaceFrames DEF VmTypeOK, AreInitializers

LEMMA BodyEffect ==
    ASSUME VmTypeOK, Placed, NEW t \in Threads, Body(t)
    PROVE  \E more \in Seq(Frame) :
              /\ \A k \in 1..Len(more) :
                    \E c \in Classes, m \in Methods : more[k] = NewFrame(c, m)
              /\ Stepped(t) \in Frame
              /\ Replaced(t, Stepped(t), more)
  <1>1. Running(t) /\ Current(t) \in Frame /\ Executing(t) \in Instruction
    BY ExecutingFacts DEF Body
  <1>2. Stepped(t) \in Frame
    BY <1>1, FrameUpdates DEF Stepped
  <1>3. CASE Executing(t).calls = NoMethod
    <2> DEFINE none == <<>>
    <2>1. Replace(t, Stepped(t), none)
      BY <1>3 DEF Body, Stepped
    <2>2. none \in Seq(Frame) /\ Len(none) = 0
      BY EmptySeq
    <2> HIDE DEF none
    <2>3. Replaced(t, Stepped(t), none)
      BY <1>1, <1>2, <2>1, <2>2, ReplaceFrames DEF VmTypeOK
    <2>4. \A k \in 1..Len(none) : \E c \in Classes, m \in Methods : none[k] = NewFrame(c, m)
      BY <2>2
    <2> QED
      BY <1>2, <2>2, <2>3, <2>4
  <1>4. CASE Executing(t).calls # NoMethod
    <2> DEFINE g == NewFrame(Executing(t).cls, Executing(t).calls)
    <2>1. Replace(t, Stepped(t), <<g>>)
      BY <1>4 DEF Body, Stepped
    <2>2. Executing(t).cls \in Classes /\ Executing(t).calls \in Methods
      BY <1>1, <1>4 DEF Instruction
    <2>3. g \in Frame
      BY <2>2, NewFrameType
    <2>4. \E c \in Classes, m \in Methods : g = NewFrame(c, m)
      BY <2>2
    <2> HIDE DEF g
    <2>5. <<g>> \in Seq(Frame) /\ Len(<<g>>) = 1 /\ <<g>>[1] = g
      BY <2>3
    <2>6. Replaced(t, Stepped(t), <<g>>)
      BY <1>1, <1>2, <2>1, <2>5, ReplaceFrames DEF VmTypeOK
    <2>7. \A k \in 1..Len(<<g>>) : \E c \in Classes, m \in Methods : <<g>>[k] = NewFrame(c, m)
      BY <2>4, <2>5
    <2> QED
      BY <1>2, <2>5, <2>6, <2>7
  <1> QED
    BY <1>3, <1>4

\* The frame of the method spawn_thread was asked for.
Bottom(loaded) ==
    [NewFrame(Entry[spawner.thread].cls, Entry[spawner.thread].method)
        EXCEPT !.awaits = loaded \cap HasClinit]

LEMMA StartEffect ==
    ASSUME VmTypeOK, Placed, spawner.thread \in Threads,
           Entry[spawner.thread].method # NoMethod,
           NEW loaded \in SUBSET Classes, Start(loaded)
    PROVE  \E more :
              /\ AreInitializers(more, loaded)
              /\ frames' \in [Threads -> Seq(Frame)]
              /\ \A u \in Threads \ {spawner.thread} : frames'[u] = frames[u]
              /\ Bottom(loaded) \in Frame
              /\ Topped(frames'[spawner.thread], Frame, <<Bottom(loaded)>>, Bottom(loaded), more)
  <1> DEFINE b == Bottom(loaded)
  <1>1. PICK more \in Initializers(loaded) :
           frames' = [frames EXCEPT ![spawner.thread] = <<b>> \o more]
    BY DEF Start, Bottom
  <1>2. AreInitializers(more, loaded)
    BY InitializersOfReport
  <1>3. Entry[spawner.thread].cls \in Classes /\ Entry[spawner.thread].method \in Methods
    BY DEF EntryPoint
  <1>4. b \in Frame
    BY <1>3 DEF Bottom, NewFrame, Frame, HasClinit
  <1>5. frames \in [Threads -> Seq(Frame)]
    BY DEF VmTypeOK
  <1> HIDE DEF b
  <1>6. <<b>> \in Seq(Frame) /\ <<b>> # <<>> /\ more \in Seq(Frame)
    BY <1>2, <1>4 DEF AreInitializers
  <1>7. Append(Front(<<b>>), b) = <<b>>
    <2> DEFINE one == <<b>>
    <2>1. one \in Seq(Frame) /\ one # <<>> /\ Len(one) = 1
      BY <1>4, <1>6
    <2> HIDE DEF one
    <2>2. Front(one) = <<>>
      <3>1. Front(one) \in Seq(Frame) /\ Len(Front(one)) = 0
        <4>1. Front(one) \in Seq(Frame) /\ Len(Front(one)) = Len(one) - 1
          BY ONLY <2>1, FrontProperties, Zenon
        <4> QED
          BY <2>1, <4>1
      <3> QED
        BY ONLY <3>1, EmptySeq
    <2>3. Front(<<b>>) = <<>>
      BY <2>2 DEF one
    <2> QED
      BY <2>3
  <1>8. Topped(<<b>> \o more, Frame, <<b>>, b, more)
    BY <1>4, <1>6, <1>7, ReplaceLast
  <1>9. <<b>> \o more \in Seq(Frame)
    BY <1>8 DEF Topped
  <1> QED
    BY <1>1, <1>2, <1>4, <1>5, <1>8, <1>9 DEF b

(***************************************************************************)
(* The class loader inside the machine                                     *)
(***************************************************************************)
\* Every step of the machine is a step of the class loader or leaves it alone:
\* what is proved of the loader holds here.
LEMMA VmLoaderStep ==
    ASSUME VmTypeOK, Placed, [VmNext]_initVars
    PROVE  [Next]_loaderVars
  <1>1. ASSUME Loads
        PROVE  Next
    BY <1>1 DEF Loads, Next
  <1>2. ASSUME NEW t \in Threads, ResolveWrite(t)
        PROVE  Next
    <2>1. Executing(t).cls \in Classes
      BY <1>2, ExecutingFacts DEF ResolveWrite, Instruction
    <2> QED
      BY <1>2, <2>1 DEF ResolveWrite, Next
  <1>3. ASSUME NEW t \in Threads, Spawn(t)
        PROVE  Next
    <2>1. Entry[t].cls \in Classes
      BY DEF EntryPoint
    <2> QED
      BY <1>3, <2>1 DEF Spawn, Next
  <1>4. ASSUME SpawnString
        PROVE  Next
    <2>1. spawner.thread \in Threads
      BY <1>4 DEF SpawnString, Placed, Idle
    <2>2. Entry[spawner.thread].string \in Classes
      BY <2>1 DEF EntryPoint
    <2> QED
      BY <1>4, <2>2 DEF SpawnString, Next
  <1>5. ASSUME NEW t \in Threads,
               \/ PopFrame(t) \/ Resolve(t) \/ NothingToInitialize(t) \/ InitStatic(t)
               \/ LoadFails(t) \/ Body(t) \/ BodyFails(t)
        PROVE  UNCHANGED loaderVars
    BY <1>5 DEF PopFrame, Resolve, NothingToInitialize, InitStatic, LoadFails, Body, BodyFails
  <1>6. ASSUME SpawnWithoutArguments \/ SpawnWithArguments \/ SpawnFails
        PROVE  UNCHANGED loaderVars
    BY <1>6 DEF SpawnWithoutArguments, SpawnWithArguments, SpawnFails, Start
  <1>7. CASE UNCHANGED initVars
    BY <1>7 DEF initVars
  <1> QED
    BY <1>1, <1>2, <1>3, <1>4, <1>5, <1>6, <1>7 DEF VmNext, ThreadStep, SpawnStep

LoaderInv == TypeOK /\ ActivationsConsistent /\ NothingLost

LEMMA LoaderInvStep ==
    ASSUME LoaderInv, [Next]_loaderVars
    PROVE  LoaderInv'
  BY TypeStep, ConsistentStep, NothingLostStep DEF LoaderInv

\* A request begins: nothing has been linked for it.
LEMMA RequestFacts ==
    ASSUME TypeOK, NEW c \in Classes, Request(c)
    PROVE  Linked' = Linked /\ baseline' = Linked
  BY EnterLinksNothing DEF Request

(***************************************************************************)
(* Type correctness                                                        *)
(***************************************************************************)
LEMMA ScheduleType ==
    ASSUME created \in [Classes -> Nat], NEW loaded, Schedule(loaded)
    PROVE  created' \in [Classes -> Nat]
  BY DEF Schedule

LEMMA FramesTyped ==
    ASSUME VmTypeOK, Placed, [VmNext]_initVars
    PROVE  frames' \in [Threads -> Seq(Frame)]
  <1>f. frames \in [Threads -> Seq(Frame)]
    BY DEF VmTypeOK
  <1>1. ASSUME NEW t \in Threads, PopFrame(t)
        PROVE  frames' \in [Threads -> Seq(Frame)]
    <2>1. Front(frames[t]) \in Seq(Frame)
      BY <1>1, <1>f, CurrentFrame DEF PopFrame
    <2> QED
      BY <1>1, <1>f, <2>1 DEF PopFrame
  <1>2. ASSUME NEW t \in Threads, Resolve(t)
        PROVE  frames' \in [Threads -> Seq(Frame)]
    BY <1>2, ResolveEffect DEF Replaced
  <1>3. ASSUME NEW t \in Threads, InitStatic(t)
        PROVE  frames' \in [Threads -> Seq(Frame)]
    BY <1>3, InitStaticEffect DEF Replaced
  <1>4. ASSUME NEW t \in Threads, Body(t)
        PROVE  frames' \in [Threads -> Seq(Frame)]
    BY <1>4, BodyEffect DEF Replaced
  <1>5. ASSUME SpawnWithoutArguments \/ SpawnWithArguments
        PROVE  frames' \in [Threads -> Seq(Frame)]
    <2>1. spawner.thread \in Threads /\ Entry[spawner.thread].method # NoMethod
      BY <1>5 DEF SpawnWithoutArguments, SpawnWithArguments, Placed, Idle
    <2>2. PICK loaded \in SUBSET Classes : Start(loaded)
      BY <1>5 DEF SpawnWithoutArguments, SpawnWithArguments, VmTypeOK, TypeOK, Result, SpawnerState
    <2> QED
      BY <2>1, <2>2, StartEffect
  <1>6. ASSUME \/ Loads \/ SpawnString \/ SpawnFails \/ UNCHANGED initVars
               \/ \E t \in Threads : \/ ResolveWrite(t) \/ NothingToInitialize(t)
                                     \/ LoadFails(t) \/ BodyFails(t) \/ Spawn(t)
        PROVE  frames' \in [Threads -> Seq(Frame)]
    BY <1>6, <1>f DEF Loads, SpawnString, SpawnFails, ResolveWrite, NothingToInitialize,
                      LoadFails, BodyFails, Spawn, initVars
  <1> QED
    BY <1>1, <1>2, <1>3, <1>4, <1>5, <1>6 DEF VmNext, ThreadStep, SpawnStep

\* VmTypeOK is inductive, with Placed for the pc of an instruction put off.
LEMMA VmTypeStep ==
    ASSUME VmTypeOK, Placed, [VmNext]_initVars
    PROVE  VmTypeOK'
  <1> DEFINE Rest == /\ owner \in Threads \cup {Spawner, NoAgent}
                     /\ step \in [Threads -> StepState]
                     /\ spawner \in SpawnerState
                     /\ created \in [Classes -> Nat]
                     /\ done \subseteq Classes
                     /\ dropped \subseteq Classes
  <1>1. TypeOK' /\ frames' \in [Threads -> Seq(Frame)]
    BY VmLoaderStep, TypeStep, FramesTyped DEF VmTypeOK
  <1>2. Rest
    BY DEF VmTypeOK
  <1>r. Linked \subseteq Classes /\ result.loaded \subseteq Classes /\ spawner.loaded \subseteq Classes
    BY DEF VmTypeOK, TypeOK, Result, Linked, SpawnerState
  <1>3. ASSUME Loads \/ UNCHANGED initVars
        PROVE  Rest'
    BY <1>2, <1>3 DEF Loads, initVars, history
  <1>4. ASSUME NEW t \in Threads, PopFrame(t)
        PROVE  Rest'
    <2>1. Current(t) \in Frame
      BY <1>4, CurrentFrame DEF VmTypeOK, PopFrame
    <2>2. done' \subseteq Classes
      BY <1>2, <1>4, <2>1, FrameUpdates DEF PopFrame
    <2> QED
      BY <1>2, <1>4, <2>2 DEF PopFrame
  <1>5. ASSUME NEW t \in Threads,
               \/ Resolve(t) \/ ResolveWrite(t) \/ NothingToInitialize(t)
               \/ LoadFails(t) \/ Body(t) \/ BodyFails(t)
        PROVE  Rest'
    BY <1>2, <1>r, <1>5
       DEF Resolve, ResolveWrite, NothingToInitialize, LoadFails, Body, BodyFails, history, StepState
  <1>6. ASSUME NEW t \in Threads, InitStatic(t)
        PROVE  Rest'
    <2>1. created' \in [Classes -> Nat]
      BY <1>2, <1>6, ScheduleType DEF InitStatic
    <2> QED
      BY <1>2, <1>6, <2>1 DEF InitStatic, StepState
  <1>7. ASSUME NEW t \in Threads, Spawn(t)
        PROVE  Rest'
    BY <1>2, <1>7 DEF Spawn, history, SpawnerState
  <1>8. ASSUME SpawnString
        PROVE  Rest'
    BY <1>2, <1>r, <1>8 DEF SpawnString, history, SpawnerState
  <1>9. ASSUME SpawnFails
        PROVE  Rest'
    BY <1>2, <1>r, <1>9 DEF SpawnFails, SpawnerState, Idle, StepState
  <1>10. ASSUME SpawnWithoutArguments \/ SpawnWithArguments
        PROVE  Rest'
    <2>1. PICK loaded \in SUBSET Classes : Start(loaded)
      BY <1>r, <1>10 DEF SpawnWithoutArguments, SpawnWithArguments
    <2>2. created' \in [Classes -> Nat]
      BY <1>2, <2>1, ScheduleType DEF Start
    <2>3. dropped' \subseteq Classes
      BY <1>2, <1>r, <1>10 DEF SpawnWithoutArguments, SpawnWithArguments
    <2> QED
      BY <1>2, <2>1, <2>2, <2>3 DEF Start, Idle, SpawnerState, StepState
  <1>11. Rest'
    BY <1>3, <1>4, <1>5, <1>6, <1>7, <1>8, <1>9, <1>10 DEF VmNext, ThreadStep, SpawnStep
  <1> QED
    BY <1>1, <1>11 DEF VmTypeOK

(***************************************************************************)
(* The write lock of the class loader                                      *)
(***************************************************************************)
\* LoadsUnderLock is inductive.
LEMMA LockStep ==
    ASSUME VmTypeOK, Placed, LoadsUnderLock, [VmNext]_initVars
    PROVE  LoadsUnderLock'
  <1> USE DEF LoadsUnderLock
  <1>t. step \in [Threads -> StepState]
    BY DEF VmTypeOK
  <1>1. CASE Loads
    <2>1. Busy
      BY <1>1 DEF Loads, Step, LoadSuper, HandleReport, Propagate, Link, LinkPanics, LoadField, Finish
    <2> QED
      BY <1>1, <2>1 DEF Loads
  <1>2. CASE UNCHANGED initVars
    BY <1>2 DEF initVars, loaderVars, Busy
  <1>3. ASSUME NEW t \in Threads, PopFrame(t) \/ Resolve(t) \/ Body(t) \/ BodyFails(t)
        PROVE  LoadsUnderLock'
    BY <1>t, <1>3 DEF PopFrame, Resolve, Body, BodyFails, loaderVars, Busy
  <1>4. ASSUME NEW t \in Threads, ResolveWrite(t)
        PROVE  LoadsUnderLock'
    BY <1>t, <1>4 DEF ResolveWrite
  <1>5. ASSUME NEW t \in Threads, NothingToInitialize(t) \/ InitStatic(t) \/ LoadFails(t)
        PROVE  LoadsUnderLock'
    BY <1>t, <1>5 DEF NothingToInitialize, InitStatic, LoadFails, loaderVars, Busy
  <1>6. ASSUME NEW t \in Threads, Spawn(t)
        PROVE  LoadsUnderLock'
    BY <1>6 DEF Spawn, Idle
  <1>7. CASE SpawnString
    <2>1. spawner # Idle /\ owner' = owner /\ step' = step
      BY <1>7 DEF SpawnString, Idle
    <2>2. spawner'.phase = "string"
      BY <1>7 DEF SpawnString, VmTypeOK, SpawnerState
    <2>3. spawner' # Idle
      BY <2>2 DEF Idle
    <2> QED
      BY <2>1, <2>3
  <1>8. CASE SpawnWithoutArguments \/ SpawnWithArguments \/ SpawnFails
    <2>1. spawner # Idle /\ spawner.thread \in Threads /\ step[spawner.thread] = "unspawned"
      BY <1>8 DEF SpawnWithoutArguments, SpawnWithArguments, SpawnFails, Idle, Placed
    <2>2. /\ ~Busy' /\ owner' = NoAgent /\ spawner' = Idle
          /\ \E s \in {"fetch", "dead"} : step' = [step EXCEPT ![spawner.thread] = s]
      BY <1>8 DEF SpawnWithoutArguments, SpawnWithArguments, SpawnFails, Start, loaderVars, Busy
    <2> QED
      BY <1>t, <2>1, <2>2
  <1> QED
    BY <1>1, <1>2, <1>3, <1>4, <1>5, <1>6, <1>7, <1>8 DEF VmNext, ThreadStep, SpawnStep

(***************************************************************************)
(* Frames and steps                                                        *)
(***************************************************************************)
PcInCode(f) == f.pc <= Len(Code[f.method])

LEMMA NewFrameInCode ==
    ASSUME NEW c, NEW m \in Methods
    PROVE  PcInCode(NewFrame(c, m)) /\ NewFrame(c, m).method = m
  BY LenProperties DEF PcInCode, NewFrame

\* A stack whose new frames are inside their code.
LEMMA ToppedInCode ==
    ASSUME NEW s \in Seq(Frame), s # <<>>, NEW f, NEW more, NEW r, Topped(r, Frame, s, f, more),
           \A i \in 1..(Len(s) - 1) : PcInCode(s[i]),
           PcInCode(f),
           \A k \in 1..Len(more) : PcInCode(more[k])
    PROVE  \A i \in 1..Len(r) : PcInCode(r[i])
  <1> SUFFICES ASSUME NEW i \in 1..Len(r)
               PROVE  PcInCode(r[i])
    OBVIOUS
  <1> QED
    BY ToppedCases

LEMMA InitializersInCode ==
    ASSUME NEW more, NEW loaded, AreInitializers(more, loaded)
    PROVE  \A k \in 1..Len(more) : PcInCode(more[k])
  <1> SUFFICES ASSUME NEW k \in 1..Len(more)
               PROVE  PcInCode(more[k])
    OBVIOUS
  <1>1. PICK c \in loaded \cap HasClinit : more[k] = NewFrame(c, Clinit[c])
    BY DEF AreInitializers
  <1>2. Clinit[c] \in Methods
    BY DEF HasClinit
  <1> QED
    BY <1>1, <1>2, NewFrameInCode

\* The frames stay inside their code.
LEMMA InCodeStep ==
    ASSUME VmTypeOK, Placed, [VmNext]_initVars
    PROVE  \A u \in Threads : \A i \in 1..Len(frames'[u]) : PcInCode(frames'[u][i])
  <1> DEFINE Goal == \A u \in Threads : \A i \in 1..Len(frames'[u]) : PcInCode(frames'[u][i])
  <1>1. \A u \in Threads : \A i \in 1..Len(frames[u]) : PcInCode(frames[u][i])
    BY DEF Placed, PcInCode
  <1>2. \A u \in Threads : frames[u] \in Seq(Frame)
    BY DEF VmTypeOK
  <1>3. ASSUME NEW t \in Threads, Running(t), NEW f, NEW more, Replaced(t, f, more),
               PcInCode(f), \A k \in 1..Len(more) : PcInCode(more[k])
        PROVE  Goal
    <2>1. frames[t] \in Seq(Frame) /\ frames[t] # <<>>
      BY <1>2, <1>3 DEF Running
    <2>2. Len(frames[t]) \in Nat \ {0}
      BY <2>1, EmptySeq
    <2>3. \A i \in 1..(Len(frames[t]) - 1) : PcInCode(frames[t][i])
      BY <1>1, <2>2
    <2>4. \A i \in 1..Len(frames'[t]) : PcInCode(frames'[t][i])
      BY ONLY <1>3, <2>1, <2>3, ToppedInCode DEF Replaced
    <2> QED
      BY <1>1, <1>3, <2>4 DEF Replaced
  <1>4. ASSUME NEW t \in Threads, PopFrame(t)
        PROVE  Goal
    <2>1. /\ Len(frames[t]) \in Nat \ {0} /\ Len(Front(frames[t])) = Len(frames[t]) - 1
          /\ \A i \in 1..(Len(frames[t]) - 1) : Front(frames[t])[i] = frames[t][i]
      BY <1>4, CurrentFrame DEF PopFrame, VmTypeOK
    <2>2. frames'[t] = Front(frames[t]) /\ \A u \in Threads \ {t} : frames'[u] = frames[u]
      BY <1>4 DEF PopFrame, VmTypeOK
    <2>3. \A i \in 1..Len(frames'[t]) : PcInCode(frames'[t][i])
      BY <1>1, <2>1, <2>2
    <2> QED
      BY <1>1, <2>2, <2>3
  <1>5. ASSUME NEW t \in Threads, Resolve(t)
        PROVE  Goal
    <2>1. Running(t) /\ Current(t) \in Frame /\ Current(t).pc < Len(Code[Current(t).method])
      BY <1>5, CurrentFrame DEF Resolve, VmTypeOK
    <2>2. Len(Code[Current(t).method]) \in Nat /\ Current(t).pc \in Nat
      BY <2>1, FrameUpdates, LenProperties
    <2>3. PcInCode(Fetching(t))
      BY <2>1, <2>2, UpdatedFields DEF PcInCode, SameMethod
    <2>4. \A k \in 1..Len(<<>>) : FALSE
      BY EmptySeq
    <2> QED
      BY <1>3, <1>5, <2>1, <2>3, <2>4, ResolveEffect
  <1>6. ASSUME NEW t \in Threads, InitStatic(t)
        PROVE  Goal
    <2>1. Running(t) /\ Current(t) \in Frame /\ Current(t).pc \in 1..Len(Code[Current(t).method])
      BY <1>6, ExecutingFacts DEF InitStatic
    <2>2. PcInCode(PutOff(t, result.loaded))
      <3>1. Len(Code[Current(t).method]) \in Nat
        BY <2>1, FrameUpdates, LenProperties
      <3> QED
        BY <2>1, <3>1, UpdatedFields DEF PcInCode, SameMethod
    <2> QED
      BY <1>3, <1>6, <2>1, <2>2, InitStaticEffect, InitializersInCode
  <1>7. ASSUME NEW t \in Threads, Body(t)
        PROVE  Goal
    <2>1. Running(t) /\ Current(t) \in Frame /\ Current(t).pc \in 1..Len(Code[Current(t).method])
      BY <1>7, ExecutingFacts DEF Body
    <2>2. PcInCode(Stepped(t))
      <3>1. Len(Code[Current(t).method]) \in Nat
        BY <2>1, FrameUpdates, LenProperties
      <3> QED
        BY <2>1, <3>1, UpdatedFields DEF PcInCode, SameMethod
    <2>3. PICK more \in Seq(Frame) :
             /\ \A k \in 1..Len(more) :
                   \E c \in Classes, m \in Methods : more[k] = NewFrame(c, m)
             /\ Replaced(t, Stepped(t), more)
      BY <1>7, BodyEffect
    <2>4. \A k \in 1..Len(more) : PcInCode(more[k])
      BY <2>3, NewFrameInCode
    <2> QED
      BY <1>3, <2>1, <2>2, <2>3, <2>4
  <1>8. ASSUME SpawnWithoutArguments \/ SpawnWithArguments
        PROVE  Goal
    <2>1. spawner.thread \in Threads /\ Entry[spawner.thread].method # NoMethod
      BY <1>8 DEF SpawnWithoutArguments, SpawnWithArguments, Placed, Idle
    <2>2. PICK loaded \in SUBSET Classes : Start(loaded)
      BY <1>8 DEF SpawnWithoutArguments, SpawnWithArguments, VmTypeOK, TypeOK, Result, SpawnerState
    <2>3. PICK more :
              /\ AreInitializers(more, loaded)
              /\ \A u \in Threads \ {spawner.thread} : frames'[u] = frames[u]
              /\ Bottom(loaded) \in Frame
              /\ Topped(frames'[spawner.thread], Frame, <<Bottom(loaded)>>, Bottom(loaded), more)
      BY <2>1, <2>2, StartEffect
    <2>4. PcInCode(Bottom(loaded))
      <3>1. Entry[spawner.thread].method \in Methods
        BY <2>1 DEF EntryPoint
      <3> QED
        BY <3>1, NewFrameInCode DEF PcInCode, Bottom, NewFrame
    <2> DEFINE one == <<Bottom(loaded)>>
    <2>5. one \in Seq(Frame) /\ one # <<>> /\ Len(one) = 1
      BY <2>3
    <2> HIDE DEF one
    <2>6. \A i \in 1..(Len(one) - 1) : PcInCode(one[i])
      BY <2>5
    <2>7. Topped(frames'[spawner.thread], Frame, one, Bottom(loaded), more)
      BY <2>3 DEF one
    <2>8. \A i \in 1..Len(frames'[spawner.thread]) : PcInCode(frames'[spawner.thread][i])
      <3>1. \A k \in 1..Len(more) : PcInCode(more[k])
        BY ONLY <2>3, InitializersInCode
      <3> QED
        BY ONLY <2>4, <2>5, <2>6, <2>7, <3>1, ToppedInCode
    <2> QED
      BY <1>1, <2>3, <2>8
  <1>9. ASSUME \/ Loads \/ SpawnString \/ SpawnFails \/ UNCHANGED initVars
               \/ \E t \in Threads : \/ ResolveWrite(t) \/ NothingToInitialize(t)
                                     \/ LoadFails(t) \/ BodyFails(t) \/ Spawn(t)
        PROVE  Goal
    BY <1>1, <1>9 DEF Loads, SpawnString, SpawnFails, ResolveWrite, NothingToInitialize,
                      LoadFails, BodyFails, Spawn, initVars
  <1> QED
    BY <1>4, <1>5, <1>6, <1>7, <1>8, <1>9 DEF VmNext, ThreadStep, SpawnStep

\* What the step of a thread says of its frames.
StepFits(t) ==
    /\ step[t] \in {"resolveWrite", "loading", "body"} => Running(t) /\ Current(t).pc >= 1
    /\ step[t] = "unspawned" => ~Running(t)

LEMMA StepFitsStep ==
    ASSUME VmTypeOK, Placed, [VmNext]_initVars
    PROVE  \A u \in Threads : StepFits(u)'
  <1> DEFINE Goal == \A u \in Threads : StepFits(u)'
  <1> DEFINE Same(u) == step'[u] = step[u] /\ frames'[u] = frames[u]
  <1>1. \A u \in Threads : StepFits(u)
    BY DEF Placed, StepFits
  <1>2. \A u \in Threads : Same(u) => StepFits(u)'
    BY <1>1 DEF StepFits, Running, Current
  <1>3. step \in [Threads -> StepState] /\ frames \in [Threads -> Seq(Frame)]
    BY DEF VmTypeOK
  <1>4. ASSUME NEW t \in Threads, PopFrame(t)
        PROVE  Goal
    <2>1. \A u \in Threads \ {t} : Same(u)
      BY <1>3, <1>4 DEF PopFrame
    <2>2. step'[t] = "fetch"
      BY <1>4 DEF PopFrame
    <2> QED
      BY <1>2, <2>1, <2>2 DEF StepFits
  <1>5. ASSUME NEW t \in Threads, Resolve(t)
        PROVE  Goal
    <2>1. Replaced(t, Fetching(t), <<>>)
      BY <1>5, ResolveEffect
    <2>2. \A u \in Threads \ {t} : Same(u)
      BY <1>3, <1>5, <2>1 DEF Resolve, Replaced
    <2>3. Current(t) \in Frame
      BY <1>5, CurrentFrame DEF Resolve, VmTypeOK
    <2>4. Fetching(t).pc >= 1
      <3>1. Current(t).pc \in Nat /\ Fetching(t).pc = Current(t).pc + 1
        BY <2>3, UpdatedFields, FrameUpdates
      <3> QED
        BY <3>1
    <2>5. Running(t)' /\ Current(t)' = Fetching(t)
      <3>1. Len(<<>>) = 0
        BY EmptySeq
      <3> QED
        BY <2>1, <3>1 DEF Replaced, Topped, Running, Current, Last
    <2>6. step'[t] # "unspawned"
      BY <1>3, <1>5 DEF Resolve
    <2> QED
      BY <1>2, <2>2, <2>4, <2>5, <2>6 DEF StepFits
  <1>6. ASSUME NEW t \in Threads,
               ResolveWrite(t) \/ NothingToInitialize(t) \/ LoadFails(t) \/ BodyFails(t)
        PROVE  Goal
    <2>1. \A u \in Threads \ {t} : Same(u)
      BY <1>3, <1>6 DEF ResolveWrite, NothingToInitialize, LoadFails, BodyFails
    <2>2. Running(t) /\ Current(t).pc >= 1
      BY <1>1, <1>6 DEF StepFits, ResolveWrite, NothingToInitialize, LoadFails, BodyFails
    <2>3. frames' = frames /\ step'[t] # "unspawned"
      BY <1>3, <1>6 DEF ResolveWrite, NothingToInitialize, LoadFails, BodyFails
    <2> QED
      BY <1>2, <2>1, <2>2, <2>3 DEF StepFits, Running, Current
  <1>7. ASSUME NEW t \in Threads, InitStatic(t) \/ Body(t)
        PROVE  Goal
    <2>1. \A u \in Threads \ {t} : Same(u)
      <3>1. \A u \in Threads \ {t} : frames'[u] = frames[u]
        BY <1>7, InitStaticEffect, BodyEffect DEF Replaced
      <3> QED
        BY <1>3, <1>7, <3>1 DEF InitStatic, Body
    <2>2. step'[t] = "fetch"
      BY <1>3, <1>7 DEF InitStatic, Body
    <2> QED
      BY <1>2, <2>1, <2>2 DEF StepFits
  <1>8. ASSUME SpawnWithoutArguments \/ SpawnWithArguments
        PROVE  Goal
    <2>1. spawner.thread \in Threads
      BY <1>8 DEF SpawnWithoutArguments, SpawnWithArguments, Placed, Idle
    <2>2. PICK loaded : Start(loaded)
      BY <1>8 DEF SpawnWithoutArguments, SpawnWithArguments
    <2>3. \A u \in Threads \ {spawner.thread} : Same(u)
      BY <1>3, <2>1, <2>2 DEF Start
    <2>4. step'[spawner.thread] = "fetch"
      BY <1>3, <2>1, <2>2 DEF Start
    <2> QED
      BY <1>2, <2>3, <2>4 DEF StepFits
  <1>9. ASSUME SpawnFails
        PROVE  Goal
    <2>1. spawner.thread \in Threads
      BY <1>9 DEF SpawnFails, Placed, Idle
    <2>2. \A u \in Threads \ {spawner.thread} : Same(u)
      BY <1>3, <1>9, <2>1 DEF SpawnFails
    <2>3. step'[spawner.thread] = "dead"
      BY <1>3, <1>9, <2>1 DEF SpawnFails
    <2> QED
      BY <1>2, <2>2, <2>3 DEF StepFits
  <1>10. ASSUME Loads \/ SpawnString \/ UNCHANGED initVars \/ \E t \in Threads : Spawn(t)
         PROVE  Goal
    BY <1>2, <1>10 DEF Loads, SpawnString, Spawn, initVars
  <1> QED
    BY <1>4, <1>5, <1>6, <1>7, <1>8, <1>9, <1>10 DEF VmNext, ThreadStep, SpawnStep

\* Where the spawner is in spawn_thread.
SpawnerFits ==
    /\ spawner.phase = "idle" => spawner = Idle
    /\ spawner # Idle => spawner.thread \in Threads /\ step[spawner.thread] = "unspawned"
    /\ spawner.phase = "main" => spawner.loaded = {}
    /\ spawner.phase = "string" => Entry[spawner.thread].method # NoMethod

LEMMA SpawnerFitsStep ==
    ASSUME VmTypeOK, Placed, [VmNext]_initVars
    PROVE  SpawnerFits'
  <1>1. SpawnerFits /\ step \in [Threads -> StepState]
    BY DEF Placed, SpawnerFits, VmTypeOK
  <1>2. ASSUME NEW t \in Threads, ThreadStep(t)
        PROVE  SpawnerFits'
    <2>1. step[t] # "unspawned" /\ spawner' = spawner /\ \A u \in Threads \ {t} : step'[u] = step[u]
      BY <1>1, <1>2 DEF ThreadStep, PopFrame, Resolve, ResolveWrite, NothingToInitialize, InitStatic,
                        LoadFails, Body, BodyFails
    <2> QED
      BY <1>1, <2>1 DEF SpawnerFits
  <1>3. ASSUME NEW t \in Threads, Spawn(t)
        PROVE  SpawnerFits'
    BY <1>3 DEF SpawnerFits, Spawn
  <1>4. CASE SpawnString
    <2>1. spawner.phase = "main" /\ spawner # Idle /\ Entry[spawner.thread].method # NoMethod
      BY <1>4 DEF SpawnString, Idle
    <2>2. spawner'.phase = "string" /\ spawner'.thread = spawner.thread /\ step' = step
      BY <1>4 DEF SpawnString, VmTypeOK, SpawnerState
    <2> QED
      BY <1>1, <2>1, <2>2 DEF SpawnerFits
  <1>5. CASE SpawnWithoutArguments \/ SpawnWithArguments \/ SpawnFails
    BY <1>5 DEF SpawnerFits, SpawnWithoutArguments, SpawnWithArguments, SpawnFails, Start, Idle
  <1>6. CASE Loads \/ UNCHANGED initVars
    BY <1>1, <1>6 DEF SpawnerFits, Loads, initVars
  <1> QED
    BY <1>2, <1>3, <1>4, <1>5, <1>6 DEF VmNext, SpawnStep

\* Placed is inductive.
LEMMA PlacedStep ==
    ASSUME VmTypeOK, Placed, [VmNext]_initVars
    PROVE  Placed'
  BY InCodeStep, StepFitsStep, SpawnerFitsStep DEF Placed, PcInCode, StepFits, SpawnerFits

(***************************************************************************)
(* The bodies that ran                                                     *)
(***************************************************************************)
\* The frames of a stack but the innermost, and the innermost as s says.
Executes(s) == s \in {"resolveWrite", "loading", "body", "dead"}

Counted(stack, s) ==
    \A i \in 1..Len(stack) :
        stack[i].pc = IF i = Len(stack) /\ Executes(s) THEN stack[i].ran + 1 ELSE stack[i].ran

\* More frames above f, or none: what is below f has run what it fetched.
LEMMA CountedTopped ==
    ASSUME NEW s \in Seq(Frame), s # <<>>, NEW f, NEW more, NEW r, Topped(r, Frame, s, f, more),
           NEW before, Counted(s, before), NEW after,
           \A k \in 1..Len(more) : more[k].pc = more[k].ran,
           Executes(after) => Len(more) = 0,
           f.pc = IF Executes(after) THEN f.ran + 1 ELSE f.ran
    PROVE  Counted(r, after)
  <1> SUFFICES ASSUME NEW i \in 1..Len(r)
               PROVE  r[i].pc = IF i = Len(r) /\ Executes(after) THEN r[i].ran + 1 ELSE r[i].ran
    BY DEF Counted
  <1>1. Len(s) \in Nat \ {0} /\ Len(more) \in Nat /\ Len(r) = Len(s) + Len(more)
    BY EmptySeq DEF Topped
  <1>2. CASE i \in 1..(Len(s) - 1) /\ r[i] = s[i]
    <2>1. i # Len(r) /\ i # Len(s) /\ i \in 1..Len(s)
      BY <1>1, <1>2
    <2> QED
      BY <1>2, <2>1 DEF Counted
  <1>3. CASE i = Len(s) /\ r[i] = f
    BY <1>1, <1>3
  <1>4. CASE \E k \in 1..Len(more) : i = Len(s) + k /\ r[i] = more[k]
    BY <1>1, <1>4
  <1> QED
    BY <1>2, <1>3, <1>4, ToppedCases

LEMMA RunOnceStep ==
    ASSUME VmTypeOK, Placed, InstructionsRunOnce, [VmNext]_initVars
    PROVE  InstructionsRunOnce'
  <1> DEFINE Goal == \A u \in Threads : Counted(frames'[u], step'[u])
  <1> DEFINE Same(u) == step'[u] = step[u] /\ frames'[u] = frames[u]
  <1>1. \A u \in Threads : Counted(frames[u], step[u])
    BY DEF InstructionsRunOnce, Counted, Executes
  <1>2. \A u \in Threads : Same(u) => Counted(frames'[u], step'[u])
    BY <1>1
  <1>3. step \in [Threads -> StepState] /\ frames \in [Threads -> Seq(Frame)]
    BY DEF VmTypeOK
  <1>4. ASSUME NEW t \in Threads, PopFrame(t)
        PROVE  Goal
    <2>1. \A u \in Threads \ {t} : Same(u)
      BY <1>3, <1>4 DEF PopFrame
    <2>2. step[t] = "fetch" /\ step'[t] = "fetch" /\ frames'[t] = Front(frames[t])
      BY <1>3, <1>4 DEF PopFrame
    <2>3. /\ Len(frames[t]) \in Nat \ {0} /\ Len(frames'[t]) = Len(frames[t]) - 1
          /\ \A i \in 1..(Len(frames[t]) - 1) : frames'[t][i] = frames[t][i]
      BY <1>3, <1>4, <2>2, CurrentFrame DEF PopFrame
    <2>4. Counted(frames'[t], step'[t])
      BY <1>1, <2>2, <2>3 DEF Counted, Executes
    <2> QED
      BY <1>2, <2>1, <2>4
  <1>5. ASSUME NEW t \in Threads, Running(t), NEW f, NEW more, Replaced(t, f, more),
               \A u \in Threads \ {t} : step'[u] = step[u],
               \A k \in 1..Len(more) : more[k].pc = more[k].ran,
               Executes(step'[t]) => Len(more) = 0,
               f.pc = IF Executes(step'[t]) THEN f.ran + 1 ELSE f.ran
        PROVE  Goal
    <2>1. frames[t] \in Seq(Frame) /\ frames[t] # <<>> /\ Topped(frames'[t], Frame, frames[t], f, more)
      BY <1>3, <1>5 DEF Replaced, Running
    <2>2. Counted(frames[t], step[t])
      BY <1>1
    <2>3. Counted(frames'[t], step'[t])
      BY ONLY <1>5, <2>1, <2>2, CountedTopped
    <2> QED
      BY <1>2, <1>5, <2>3 DEF Replaced
  <1>c. ASSUME NEW t \in Threads, Running(t)
        PROVE  /\ Current(t) \in Frame
               /\ Current(t).pc = IF Executes(step[t]) THEN Current(t).ran + 1 ELSE Current(t).ran
               /\ Current(t).pc \in Nat /\ Current(t).ran \in Nat
    <2>1. /\ Current(t) \in Frame /\ Current(t) = frames[t][Len(frames[t])]
          /\ Len(frames[t]) \in 1..Len(frames[t])
      BY <1>3, <1>c, CurrentFrame
    <2> QED
      BY <1>1, <2>1, FrameUpdates DEF Counted
  <1>0. \A c, m : NewFrame(c, m).pc = NewFrame(c, m).ran
    BY DEF NewFrame
  <1>n. \A more, loaded : AreInitializers(more, loaded) =>
           \A k \in 1..Len(more) : more[k].pc = more[k].ran
    BY <1>0 DEF AreInitializers
  <1>6. ASSUME NEW t \in Threads, Resolve(t)
        PROVE  Goal
    <2>1. Replaced(t, Fetching(t), <<>>) /\ Running(t) /\ step[t] = "fetch"
      BY <1>6, ResolveEffect DEF Resolve
    <2>2. Executes(step'[t]) /\ \A u \in Threads \ {t} : step'[u] = step[u]
      BY <1>3, <1>6 DEF Resolve, Executes
    <2>3. Len(<<>>) = 0
      BY EmptySeq
    <2>4. Fetching(t).pc = Fetching(t).ran + 1
      BY <1>c, <2>1, UpdatedFields DEF Executes
    <2> QED
      BY <1>5, <2>1, <2>2, <2>3, <2>4
  <1>7. ASSUME NEW t \in Threads, InitStatic(t)
        PROVE  Goal
    <2>1. Running(t) /\ step[t] = "loading"
      BY <1>7, ExecutingFacts DEF InitStatic
    <2>2. PICK more : /\ AreInitializers(more, result.loaded)
                      /\ Replaced(t, PutOff(t, result.loaded), more)
      BY <1>7, InitStaticEffect
    <2>3. ~Executes(step'[t]) /\ \A u \in Threads \ {t} : step'[u] = step[u]
      BY <1>3, <1>7 DEF InitStatic, Executes
    <2>4. PutOff(t, result.loaded).pc = PutOff(t, result.loaded).ran
      BY <1>c, <2>1, UpdatedFields DEF Executes
    <2> QED
      BY <1>5, <1>n, <2>1, <2>2, <2>3, <2>4
  <1>8. ASSUME NEW t \in Threads, Body(t)
        PROVE  Goal
    <2>1. Running(t) /\ step[t] = "body"
      BY <1>8, ExecutingFacts DEF Body
    <2>2. PICK more \in Seq(Frame) :
             /\ \A k \in 1..Len(more) :
                   \E c \in Classes, m \in Methods : more[k] = NewFrame(c, m)
             /\ Replaced(t, Stepped(t), more)
      BY <1>8, BodyEffect
    <2>3. ~Executes(step'[t]) /\ \A u \in Threads \ {t} : step'[u] = step[u]
      BY <1>3, <1>8 DEF Body, Executes
    <2>4. Stepped(t).pc = Stepped(t).ran
      BY <1>c, <2>1, UpdatedFields DEF Executes
    <2>5. \A k \in 1..Len(more) : more[k].pc = more[k].ran
      BY <1>0, <2>2
    <2> QED
      BY <1>5, <2>1, <2>2, <2>3, <2>4, <2>5
  <1>9. ASSUME SpawnWithoutArguments \/ SpawnWithArguments
        PROVE  Goal
    <2> DEFINE T == spawner.thread
    <2>1. T \in Threads /\ Entry[T].method # NoMethod
      BY <1>9 DEF SpawnWithoutArguments, SpawnWithArguments, Placed, Idle
    <2>2. PICK loaded \in SUBSET Classes : Start(loaded)
      BY <1>9 DEF SpawnWithoutArguments, SpawnWithArguments, VmTypeOK, TypeOK, Result, SpawnerState
    <2>3. PICK more :
              /\ AreInitializers(more, loaded)
              /\ \A u \in Threads \ {T} : frames'[u] = frames[u]
              /\ Bottom(loaded) \in Frame
              /\ Topped(frames'[T], Frame, <<Bottom(loaded)>>, Bottom(loaded), more)
      BY <2>1, <2>2, StartEffect
    <2>4. Bottom(loaded).pc = 0 /\ Bottom(loaded).ran = 0
      BY DEF Bottom, NewFrame
    <2>5. step'[T] = "fetch" /\ \A u \in Threads \ {T} : step'[u] = step[u]
      BY <1>3, <2>1, <2>2 DEF Start
    <2> DEFINE one == <<Bottom(loaded)>>
    <2>6. one \in Seq(Frame) /\ one # <<>> /\ Len(one) = 1 /\ one[1] = Bottom(loaded)
      BY <2>3
    <2>7. Topped(frames'[T], Frame, one, Bottom(loaded), more)
      BY <2>3
    <2> HIDE DEF one
    <2>8. Counted(one, "fetch")
      BY <2>4, <2>6 DEF Counted, Executes
    <2>9. \A k \in 1..Len(more) : more[k].pc = more[k].ran
      BY <1>n, <2>3
    <2>10. ~Executes("fetch")
      BY DEF Executes
    <2>11. Counted(frames'[T], "fetch")
      BY ONLY <2>4, <2>6, <2>7, <2>8, <2>9, <2>10, CountedTopped
    <2> QED
      BY <1>2, <2>3, <2>5, <2>11
  <1>10. ASSUME NEW t \in Threads,
                ResolveWrite(t) \/ NothingToInitialize(t) \/ LoadFails(t) \/ BodyFails(t)
         PROVE  Goal
    <2>1. \A u \in Threads \ {t} : Same(u)
      BY <1>3, <1>10 DEF ResolveWrite, NothingToInitialize, LoadFails, BodyFails
    <2>2. frames'[t] = frames[t] /\ Executes(step[t]) /\ Executes(step'[t])
      BY <1>3, <1>10 DEF ResolveWrite, NothingToInitialize, LoadFails, BodyFails, Executes
    <2>3. Counted(frames'[t], step'[t])
      BY <1>1, <2>2 DEF Counted
    <2> QED
      BY <1>2, <2>1, <2>3
  <1>11. ASSUME SpawnFails
         PROVE  Goal
    <2>1. spawner.thread \in Threads /\ frames[spawner.thread] = <<>>
      BY <1>11 DEF SpawnFails, Placed, Idle, Running
    <2>2. frames' = frames /\ \A u \in Threads \ {spawner.thread} : Same(u)
      BY <1>3, <1>11, <2>1 DEF SpawnFails
    <2>3. Counted(frames'[spawner.thread], step'[spawner.thread])
      BY <2>1, <2>2, EmptySeq DEF Counted
    <2> QED
      BY <1>2, <2>2, <2>3
  <1>12. ASSUME Loads \/ SpawnString \/ UNCHANGED initVars \/ \E t \in Threads : Spawn(t)
         PROVE  Goal
    BY <1>2, <1>12 DEF Loads, SpawnString, Spawn, initVars
  <1>13. Goal
    BY <1>4, <1>6, <1>7, <1>8, <1>9, <1>10, <1>11, <1>12 DEF VmNext, ThreadStep, SpawnStep
  <1> QED
    BY <1>13 DEF InstructionsRunOnce, Counted, Executes

(***************************************************************************)
(* The classes a frame waits for                                           *)
(***************************************************************************)
IsInitializerOf(f, c) == f.cls = c /\ IsInitializer(f)

\* Each class frame i of the stack waits for is initialised, or about to be by
\* a frame above.
Met(stack, i, initialized) ==
    \A c \in stack[i].awaits :
        c \in initialized \/ \E j \in (i + 1)..Len(stack) : IsInitializerOf(stack[j], c)

LEMMA MetTopped ==
    ASSUME NEW s \in Seq(Frame), s # <<>>, NEW f, NEW more, NEW r, Topped(r, Frame, s, f, more),
           NEW d, \A i \in 1..(Len(s) - 1) : Met(s, i, d),
           SameMethod(f, s[Len(s)]),
           \A k \in 1..Len(more) : more[k].awaits = {},
           \A c \in f.awaits : c \in d \/ \E k \in 1..Len(more) : IsInitializerOf(more[k], c)
    PROVE  \A i \in 1..Len(r) : Met(r, i, d)
  <1> SUFFICES ASSUME NEW i \in 1..Len(r), NEW c \in r[i].awaits, c \notin d
               PROVE  \E j \in (i + 1)..Len(r) : IsInitializerOf(r[j], c)
    BY DEF Met
  <1>1. Len(s) \in Nat \ {0} /\ Len(more) \in Nat /\ Len(r) = Len(s) + Len(more)
    BY EmptySeq DEF Topped
  <1>2. CASE i \in 1..(Len(s) - 1) /\ r[i] = s[i]
    <2>1. PICK j \in (i + 1)..Len(s) : IsInitializerOf(s[j], c)
      BY <1>2 DEF Met
    <2>2. j \in (i + 1)..Len(r) /\ (j = Len(s) \/ j \in 1..(Len(s) - 1))
      BY <1>1, <1>2
    <2>3. CASE j = Len(s)
      <3>1. IsInitializerOf(f, c)
        BY <2>1, <2>3 DEF IsInitializerOf, IsInitializer, SameMethod
      <3>2. r[j] = f
        BY <2>3 DEF Topped
      <3> QED
        BY <2>2, <3>1, <3>2
    <2>4. CASE j \in 1..(Len(s) - 1)
      <3>1. r[j] = s[j]
        BY <2>4 DEF Topped
      <3> QED
        BY <2>1, <2>2, <3>1
    <2> QED
      BY <2>2, <2>3, <2>4
  <1>3. CASE i = Len(s) /\ r[i] = f
    <2>1. PICK k \in 1..Len(more) : IsInitializerOf(more[k], c)
      BY <1>3
    <2>2. r[Len(s) + k] = more[k]
      BY DEF Topped
    <2>3. Len(s) + k \in (i + 1)..Len(r)
      BY <1>1, <1>3
    <2> QED
      BY <2>1, <2>2, <2>3
  <1>4. CASE \E k \in 1..Len(more) : i = Len(s) + k /\ r[i] = more[k]
    BY <1>4
  <1> QED
    BY <1>2, <1>3, <1>4, ToppedCases

\* The new frames of a report wait for nothing, and initialise what they are for.
LEMMA InitializersMeet ==
    ASSUME NEW loaded, NEW more, AreInitializers(more, loaded)
    PROVE  /\ \A k \in 1..Len(more) : more[k].awaits = {}
           /\ \A c \in loaded \cap HasClinit :
                 \E k \in 1..Len(more) : IsInitializerOf(more[k], c)
  <1>1. \A c, m : NewFrame(c, m).awaits = {} /\ NewFrame(c, m).cls = c /\ NewFrame(c, m).method = m
    BY DEF NewFrame
  <1>2. \A c : IsInitializerOf(NewFrame(c, Clinit[c]), c)
    BY <1>1 DEF IsInitializerOf, IsInitializer
  <1> QED
    BY <1>1, <1>2 DEF AreInitializers

\* Awaited is inductive.
LEMMA AwaitedStep ==
    ASSUME VmTypeOK, Placed, Awaited, [VmNext]_initVars
    PROVE  Awaited'
  <1> DEFINE Goal == \A u \in Threads : \A i \in 1..Len(frames'[u]) : Met(frames'[u], i, done')
  <1>1. \A u \in Threads : \A i \in 1..Len(frames[u]) : Met(frames[u], i, done)
    BY DEF Awaited, Met, IsInitializerOf
  <1>3. frames \in [Threads -> Seq(Frame)]
    BY DEF VmTypeOK
  <1>4. ASSUME NEW t \in Threads, PopFrame(t)
        PROVE  Goal
    <2>1. /\ \A u \in Threads \ {t} : frames'[u] = frames[u]
          /\ frames'[t] = Front(frames[t])
          /\ done \subseteq done'
          /\ IsInitializer(Current(t)) => Current(t).cls \in done'
      BY <1>3, <1>4 DEF PopFrame
    <2>2. /\ Len(frames[t]) \in Nat \ {0} /\ Len(frames'[t]) = Len(frames[t]) - 1
          /\ Current(t) = frames[t][Len(frames[t])]
          /\ \A i \in 1..(Len(frames[t]) - 1) : frames'[t][i] = frames[t][i]
      BY <1>3, <1>4, <2>1, CurrentFrame DEF PopFrame
    <2>3. ASSUME NEW i \in 1..Len(frames'[t])
          PROVE  Met(frames'[t], i, done')
      <3> SUFFICES ASSUME NEW c \in frames'[t][i].awaits, c \notin done'
                   PROVE  \E j \in (i + 1)..Len(frames'[t]) : IsInitializerOf(frames'[t][j], c)
        BY DEF Met
      <3>1. i \in 1..Len(frames[t]) /\ i \in 1..(Len(frames[t]) - 1) /\ c \in frames[t][i].awaits
        <4>1. i \in 1..Len(frames[t]) /\ i \in 1..(Len(frames[t]) - 1)
          BY <2>2
        <4>2. frames'[t][i] = frames[t][i]
          BY <2>2, <4>1
        <4> QED
          BY <4>1, <4>2
      <3>2. PICK j \in (i + 1)..Len(frames[t]) : IsInitializerOf(frames[t][j], c)
        BY <1>1, <2>1, <3>1 DEF Met
      <3>3. j # Len(frames[t])
        BY <2>1, <2>2, <3>2 DEF IsInitializerOf
      <3>4. j \in (i + 1)..Len(frames'[t]) /\ j \in 1..(Len(frames[t]) - 1)
        BY <2>2, <3>1, <3>3
      <3> QED
        BY <2>2, <3>2, <3>4
    <2>4. ASSUME NEW u \in Threads \ {t}, NEW i \in 1..Len(frames'[u])
          PROVE  Met(frames'[u], i, done')
      BY <1>1, <2>1 DEF Met
    <2> QED
      BY <2>3, <2>4
  <1>5. ASSUME NEW t \in Threads, Running(t), NEW f, NEW more, Replaced(t, f, more),
               done' = done, SameMethod(f, Current(t)),
               \A k \in 1..Len(more) : more[k].awaits = {},
               \A c \in f.awaits : c \in done \/ \E k \in 1..Len(more) : IsInitializerOf(more[k], c)
        PROVE  Goal
    <2>1. frames[t] \in Seq(Frame) /\ frames[t] # <<>> /\ Topped(frames'[t], Frame, frames[t], f, more)
      BY <1>3, <1>5 DEF Replaced, Running
    <2>2. Len(frames[t]) \in Nat \ {0}
      BY <2>1, EmptySeq
    <2>3. \A i \in 1..(Len(frames[t]) - 1) : Met(frames[t], i, done)
      BY <1>1, <2>2
    <2>4. SameMethod(f, frames[t][Len(frames[t])])
      BY <1>5 DEF Current, Last
    <2>5. \A i \in 1..Len(frames'[t]) : Met(frames'[t], i, done)
      BY ONLY <1>5, <2>1, <2>3, <2>4, MetTopped
    <2> QED
      BY <1>1, <1>5, <2>5 DEF Replaced
  <1>c. ASSUME NEW t \in Threads, Running(t)
        PROVE  Current(t) \in Frame /\ Current(t).awaits \subseteq done
    <2>1. /\ Current(t) \in Frame /\ Current(t) = frames[t][Len(frames[t])]
          /\ Len(frames[t]) \in 1..Len(frames[t])
      BY <1>3, <1>c, CurrentFrame
    <2>2. \A j \in (Len(frames[t]) + 1)..Len(frames[t]) : FALSE
      BY <2>1
    <2> QED
      BY <1>1, <2>1, <2>2 DEF Met
  <1>6. ASSUME NEW t \in Threads, Resolve(t)
        PROVE  Goal
    <2>1. Replaced(t, Fetching(t), <<>>) /\ Running(t) /\ done' = done
      BY <1>6, ResolveEffect DEF Resolve, history
    <2>2. \A k \in 1..Len(<<>>) : FALSE
      BY EmptySeq
    <2>3. SameMethod(Fetching(t), Current(t)) /\ Fetching(t).awaits \subseteq done
      BY <1>c, <2>1, UpdatedFields
    <2> QED
      BY <1>5, <2>1, <2>2, <2>3
  <1>7. ASSUME NEW t \in Threads, InitStatic(t)
        PROVE  Goal
    <2>1. Running(t) /\ done' = done
      BY <1>7, ExecutingFacts DEF InitStatic
    <2>2. PICK more : /\ AreInitializers(more, result.loaded)
                      /\ Replaced(t, PutOff(t, result.loaded), more)
      BY <1>7, InitStaticEffect
    <2>3. /\ SameMethod(PutOff(t, result.loaded), Current(t))
          /\ PutOff(t, result.loaded).awaits = result.loaded \cap HasClinit
      BY <1>c, <2>1, UpdatedFields
    <2> QED
      BY <1>5, <2>1, <2>2, <2>3, InitializersMeet
  <1>8. ASSUME NEW t \in Threads, Body(t)
        PROVE  Goal
    <2>1. Running(t) /\ done' = done
      BY <1>8, ExecutingFacts DEF Body, history
    <2>2. PICK more \in Seq(Frame) :
             /\ \A k \in 1..Len(more) :
                   \E c \in Classes, m \in Methods : more[k] = NewFrame(c, m)
             /\ Replaced(t, Stepped(t), more)
      BY <1>8, BodyEffect
    <2>3. SameMethod(Stepped(t), Current(t)) /\ Stepped(t).awaits \subseteq done
      BY <1>c, <2>1, UpdatedFields
    <2>4. \A c, m : NewFrame(c, m).awaits = {}
      BY DEF NewFrame
    <2>5. \A k \in 1..Len(more) : more[k].awaits = {}
      BY <2>2, <2>4
    <2> QED
      BY <1>5, <2>1, <2>2, <2>3, <2>5
  <1>9. ASSUME SpawnWithoutArguments \/ SpawnWithArguments
        PROVE  Goal
    <2> DEFINE T == spawner.thread
    <2>1. T \in Threads /\ Entry[T].method # NoMethod
      BY <1>9 DEF SpawnWithoutArguments, SpawnWithArguments, Placed, Idle
    <2>2. PICK loaded \in SUBSET Classes : Start(loaded)
      BY <1>9 DEF SpawnWithoutArguments, SpawnWithArguments, VmTypeOK, TypeOK, Result, SpawnerState
    <2>3. PICK more :
              /\ AreInitializers(more, loaded)
              /\ \A u \in Threads \ {T} : frames'[u] = frames[u]
              /\ Bottom(loaded) \in Frame
              /\ Topped(frames'[T], Frame, <<Bottom(loaded)>>, Bottom(loaded), more)
      BY <2>1, <2>2, StartEffect
    <2>4. Bottom(loaded).awaits = loaded \cap HasClinit
      BY DEF Bottom, NewFrame
    <2>5. done' = done
      BY <2>2 DEF Start
    <2> DEFINE one == <<Bottom(loaded)>>
    <2>6. one \in Seq(Frame) /\ one # <<>> /\ Len(one) = 1 /\ one[1] = Bottom(loaded)
      BY <2>3
    <2>7. Topped(frames'[T], Frame, one, Bottom(loaded), more)
      BY <2>3
    <2> HIDE DEF one
    <2>8. SameMethod(Bottom(loaded), one[Len(one)])
      BY <2>6 DEF SameMethod
    <2>9. \A i \in 1..(Len(one) - 1) : Met(one, i, done)
      BY <2>6
    <2>10. /\ \A k \in 1..Len(more) : more[k].awaits = {}
           /\ \A c \in Bottom(loaded).awaits :
                 c \in done \/ \E k \in 1..Len(more) : IsInitializerOf(more[k], c)
      BY <2>3, <2>4, InitializersMeet
    <2>11. \A i \in 1..Len(frames'[T]) : Met(frames'[T], i, done)
      BY ONLY <2>6, <2>7, <2>8, <2>9, <2>10, MetTopped
    <2> QED
      BY <1>1, <2>3, <2>5, <2>11
  <1>10. ASSUME \/ Loads \/ SpawnString \/ SpawnFails \/ UNCHANGED initVars
                \/ \E t \in Threads : \/ ResolveWrite(t) \/ NothingToInitialize(t)
                                      \/ LoadFails(t) \/ BodyFails(t) \/ Spawn(t)
         PROVE  Goal
    BY <1>1, <1>10 DEF Loads, SpawnString, SpawnFails, ResolveWrite, NothingToInitialize,
                       LoadFails, BodyFails, Spawn, initVars, history
  <1>11. Goal
    BY <1>4, <1>6, <1>7, <1>8, <1>9, <1>10 DEF VmNext, ThreadStep, SpawnStep
  <1> QED
    BY <1>11 DEF Awaited, Met, IsInitializerOf, IsInitializer

(***************************************************************************)
(* Static initialisers                                                     *)
(***************************************************************************)
Accounted == ClinitAtMostOnce /\ Unscheduled /\ LoadedIsScheduled

\* A report whose classes have no <clinit> frame yet gets one for each.
LEMMA ScheduleOnce ==
    ASSUME VmTypeOK, Accounted, NEW loaded \in SUBSET Linked, Schedule(loaded),
           \A c \in loaded : created[c] = 0
    PROVE  /\ \A c \in Classes : created'[c] <= 1
           /\ \A c \in Classes : created'[c] > 0 => c \in Linked
           /\ \A c \in Classes : created[c] > 0 => created'[c] > 0
           /\ \A c \in loaded \cap HasClinit : created'[c] > 0
  <1>1. created \in [Classes -> Nat] /\ loaded \subseteq Classes
    BY DEF VmTypeOK, Linked
  <1>2. \A c \in Classes :
           created'[c] = IF c \in loaded \cap HasClinit THEN created[c] + 1 ELSE created[c]
    BY DEF Schedule
  <1>3. \A c \in Classes : created[c] <= 1 /\ (created[c] > 0 => c \in Linked)
    BY DEF Accounted, ClinitAtMostOnce, Unscheduled
  <1> QED
    BY <1>1, <1>2, <1>3

\* Accounted is inductive: a report names the classes its request linked, and
\* the lock is held until it is acted on or dropped.
LEMMA AccountedStep ==
    ASSUME VmTypeOK, LoaderInv, LoadsUnderLock, Placed, Accounted, [VmNext]_initVars
    PROVE  Accounted'
  <1>t. /\ created \in [Classes -> Nat] /\ Linked \subseteq Classes
        /\ baseline \subseteq Linked /\ spawner.loaded \subseteq Linked
        /\ ~Busy /\ result.kind = "ok" => result.loaded = Linked \ baseline
    BY NothingLostReports
       DEF VmTypeOK, LoaderInv, NothingLost, ReportComplete, Accounted, Unscheduled, Linked
  <1>a. /\ \A c \in Classes : created[c] <= 1 /\ (created[c] > 0 => c \in Linked)
        /\ owner # NoAgent => \A c \in OnTheWay : created[c] = 0
        /\ \A c \in Linked \cap HasClinit :
              created[c] > 0 \/ c \in dropped \/ (owner # NoAgent /\ c \in OnTheWay)
    <2>1. ClinitAtMostOnce /\ Unscheduled /\ LoadedIsScheduled
      BY DEF Accounted
    <2>2. \A c \in Classes : created[c] <= 1 /\ (created[c] > 0 => c \in Linked)
      BY <2>1 DEF ClinitAtMostOnce, Unscheduled
    <2>3. owner # NoAgent => \A c \in OnTheWay : created[c] = 0
      BY <2>1 DEF Unscheduled
    <2> QED
      BY <2>1, <2>2, <2>3 DEF LoadedIsScheduled
  <1>s. spawner = Idle => spawner.loaded = {}
    BY DEF Idle
  <1>o. \A t \in Threads : step[t] = "loading" => owner # NoAgent /\ spawner = Idle
    BY DEF LoadsUnderLock
  <1>1. CASE Loads
    <2>1. owner # NoAgent
      BY <1>1 DEF LoadsUnderLock, Loads, Step, LoadSuper, HandleReport, Propagate, Link, LinkPanics,
                  LoadField, Finish
    <2>2. Linked \subseteq Linked' /\ Linked' \subseteq Classes
      BY <1>1, VmLoaderStep, LinkedStep DEF LoaderInv, Linked
    <2>3. /\ baseline' = baseline
          /\ UNCHANGED <<owner, spawner, created, dropped>>
      BY <1>1 DEF Loads, Step, LoadSuper, HandleReport, Propagate, Link, LinkPanics,
                  LoadField, Finish, history
    <2>4. OnTheWay \subseteq OnTheWay' /\ OnTheWay' \subseteq OnTheWay \cup (Linked' \ Linked)
      BY <1>t, <2>2, <2>3 DEF OnTheWay
    <2>5. \A c \in Linked' \ Linked : c \in OnTheWay' /\ created[c] = 0
      BY <1>t, <1>a, <2>2, <2>3 DEF OnTheWay
    <2>6. ClinitAtMostOnce'
      BY <1>a, <2>3 DEF ClinitAtMostOnce
    <2>7. Unscheduled'
      BY <1>t, <1>a, <2>1, <2>2, <2>3, <2>4, <2>5 DEF Unscheduled
    <2>8. LoadedIsScheduled'
      BY <1>a, <2>1, <2>3, <2>4, <2>5 DEF LoadedIsScheduled, HasClinit
    <2> QED
      BY <2>6, <2>7, <2>8 DEF Accounted
  <1>2. ASSUME UNCHANGED <<loaderVars, owner, spawner, created, dropped>>
        PROVE  Accounted'
    BY <1>2 DEF loaderVars, Accounted, ClinitAtMostOnce, Unscheduled, LoadedIsScheduled,
                OnTheWay, Linked
  <1>3. ASSUME owner = NoAgent, owner' # NoAgent, NEW c \in Classes, Request(c),
               spawner'.loaded = {}, UNCHANGED <<created, dropped>>
        PROVE  Accounted'
    <2>1. Linked' = Linked /\ OnTheWay' = {}
      BY <1>3, RequestFacts DEF VmTypeOK, OnTheWay
    <2> QED
      BY <1>a, <1>3, <2>1 DEF Accounted, ClinitAtMostOnce, Unscheduled, LoadedIsScheduled, HasClinit
  <1>4. ASSUME NEW t \in Threads, ResolveWrite(t)
        PROVE  Accounted'
    <2>1. Executing(t).cls \in Classes
      BY <1>4, ExecutingFacts DEF ResolveWrite, Instruction
    <2>2. spawner = Idle
      BY <1>4 DEF LoadsUnderLock, ResolveWrite
    <2>3. /\ owner = NoAgent /\ owner' # NoAgent /\ Request(Executing(t).cls)
          /\ spawner' = spawner /\ UNCHANGED <<created, dropped>>
      BY <1>4 DEF ResolveWrite, history
    <2> QED
      BY <1>3, <1>s, <2>1, <2>2, <2>3
  <1>5. ASSUME NEW t \in Threads, Spawn(t)
        PROVE  Accounted'
    <2>1. Entry[t].cls \in Classes
      BY DEF EntryPoint
    <2>2. /\ owner = NoAgent /\ owner' # NoAgent /\ Request(Entry[t].cls)
          /\ spawner'.loaded = {} /\ UNCHANGED <<created, dropped>>
      BY <1>5 DEF Spawn, history
    <2> QED
      BY <1>3, <2>1, <2>2
  <1>6. ASSUME NEW t \in Threads,
               NothingToInitialize(t) \/ LoadFails(t)
        PROVE  Accounted'
    <2>1. /\ owner # NoAgent /\ owner' = NoAgent /\ spawner = Idle /\ spawner' = spawner
          /\ Linked' = Linked /\ created' = created
      <3>1. step[t] = "loading"
        BY <1>6 DEF NothingToInitialize, LoadFails
      <3>2. /\ owner' = NoAgent /\ spawner' = spawner /\ classMap' = classMap /\ created' = created
        BY <1>6 DEF NothingToInitialize, LoadFails, loaderVars, history
      <3> QED
        BY <1>o, <3>1, <3>2 DEF Linked
    <2>2. OnTheWay = Linked \ baseline
      BY <1>s, <2>1 DEF OnTheWay
    <2>3. dropped \subseteq dropped' /\ OnTheWay \cap HasClinit \subseteq dropped'
      BY <1>6, <1>t, <2>2 DEF NothingToInitialize, LoadFails, history
    <2> QED
      BY <1>t, <1>a, <2>1, <2>3
         DEF Accounted, ClinitAtMostOnce, Unscheduled, LoadedIsScheduled, HasClinit
  <1>7. ASSUME NEW loaded \in SUBSET OnTheWay, Schedule(loaded), owner # NoAgent, owner' = NoAgent,
               spawner'.loaded = {}, UNCHANGED loaderVars, dropped \subseteq dropped',
               OnTheWay \cap HasClinit \subseteq loaded \cup dropped'
        PROVE  Accounted'
    <2>1. Linked' = Linked
      BY <1>7 DEF loaderVars, Linked
    <2>2. OnTheWay \subseteq Linked
      BY <1>t DEF OnTheWay
    <2>3. loaded \in SUBSET Linked /\ \A c \in loaded : created[c] = 0
      BY <1>a, <1>7, <2>2
    <2>4. /\ \A c \in Classes : created'[c] <= 1
          /\ \A c \in Classes : created'[c] > 0 => c \in Linked
          /\ \A c \in Classes : created[c] > 0 => created'[c] > 0
          /\ \A c \in loaded \cap HasClinit : created'[c] > 0
      BY <1>7, <2>3, ScheduleOnce
    <2>5. ClinitAtMostOnce' /\ Unscheduled'
      BY <1>7, <2>1, <2>4 DEF ClinitAtMostOnce, Unscheduled
    <2>6. ASSUME NEW c \in Linked \cap HasClinit
          PROVE  created'[c] > 0 \/ c \in dropped'
      BY <1>t, <1>a, <1>7, <2>4
    <2>7. LoadedIsScheduled'
      BY <2>1, <2>6 DEF LoadedIsScheduled, HasClinit
    <2> QED
      BY <2>5, <2>7 DEF Accounted
  <1>8. ASSUME NEW t \in Threads, InitStatic(t)
        PROVE  Accounted'
    <2>1. /\ owner # NoAgent /\ spawner = Idle /\ spawner' = spawner
          /\ result.loaded = Linked \ baseline
      BY <1>8, <1>o, <1>t DEF InitStatic
    <2>2. OnTheWay = result.loaded
      BY <1>s, <2>1 DEF OnTheWay
    <2>3. /\ Schedule(result.loaded) /\ owner' = NoAgent /\ UNCHANGED loaderVars
          /\ dropped' = dropped
      BY <1>8 DEF InitStatic
    <2> QED
      BY <1>s, <1>7, <2>1, <2>2, <2>3
  <1>p. spawner.phase # "idle" => owner # NoAgent
    BY DEF LoadsUnderLock, Idle
  <1>9. CASE SpawnWithoutArguments
    <2>1. owner # NoAgent /\ spawner.loaded = {} /\ result.loaded = Linked \ baseline
      BY <1>9, <1>p, <1>t DEF SpawnWithoutArguments, Placed
    <2>2. OnTheWay = result.loaded
      BY <2>1 DEF OnTheWay
    <2>3. /\ Schedule(result.loaded) /\ owner' = NoAgent /\ UNCHANGED loaderVars
          /\ dropped' = dropped /\ spawner'.loaded = {}
      BY <1>9 DEF SpawnWithoutArguments, Start, Idle
    <2> QED
      BY <1>7, <2>1, <2>2, <2>3
  <1>10. CASE SpawnWithArguments
    <2>1. owner # NoAgent /\ result.loaded = Linked \ baseline
      BY <1>10, <1>p, <1>t DEF SpawnWithArguments
    <2>2. OnTheWay = result.loaded \cup spawner.loaded
      BY <2>1 DEF OnTheWay
    <2>3. /\ Schedule(spawner.loaded) /\ owner' = NoAgent /\ UNCHANGED loaderVars
          /\ dropped' = dropped \cup result.loaded /\ spawner'.loaded = {}
      BY <1>10 DEF SpawnWithArguments, Start, Idle
    <2> QED
      BY <1>7, <2>1, <2>2, <2>3
  <1>11. CASE SpawnString
    <2>1. /\ spawner.thread \in Threads /\ owner # NoAgent /\ owner' = owner
          /\ spawner.loaded = {} /\ result.loaded = Linked \ baseline
      BY <1>11, <1>p, <1>t DEF SpawnString, Placed, Idle
    <2>2. Entry[spawner.thread].string \in Classes
      BY <2>1 DEF EntryPoint
    <2>3. Linked' = Linked /\ baseline' = Linked
      BY <1>11, <2>2, RequestFacts DEF SpawnString, VmTypeOK
    <2>4. spawner'.loaded = result.loaded /\ created' = created /\ dropped' = dropped
      BY <1>11 DEF SpawnString, history, VmTypeOK, SpawnerState
    <2>5. OnTheWay' = OnTheWay /\ OnTheWay \subseteq Linked
      BY <1>t, <2>1, <2>3, <2>4 DEF OnTheWay
    <2> QED
      BY <1>t, <1>a, <2>1, <2>3, <2>4, <2>5
         DEF Accounted, ClinitAtMostOnce, Unscheduled, LoadedIsScheduled, HasClinit
  <1>12. CASE SpawnFails
    <2>1. /\ owner # NoAgent /\ owner' = NoAgent /\ spawner' = Idle
          /\ Linked' = Linked /\ created' = created
          /\ dropped' = dropped \cup OnTheWay
      BY <1>12, <1>p DEF SpawnFails, loaderVars, Linked, OnTheWay
    <2>2. spawner'.loaded = {}
      BY <2>1 DEF Idle
    <2> QED
      BY <1>t, <1>a, <2>1, <2>2
         DEF Accounted, ClinitAtMostOnce, Unscheduled, LoadedIsScheduled, HasClinit
  <1>13. ASSUME NEW t \in Threads, PopFrame(t) \/ Resolve(t) \/ Body(t) \/ BodyFails(t)
         PROVE  Accounted'
    BY <1>2, <1>13 DEF PopFrame, Resolve, Body, BodyFails, history
  <1>14. CASE UNCHANGED initVars
    BY <1>2, <1>14 DEF initVars
  <1> QED
    BY <1>1, <1>4, <1>5, <1>6, <1>8, <1>9, <1>10, <1>11, <1>12, <1>13, <1>14
       DEF VmNext, ThreadStep, SpawnStep

(***************************************************************************)
(* Theorems                                                                *)
(***************************************************************************)
\* What is true of a machine in every state.
VmInv ==
    /\ VmTypeOK
    /\ LoaderInv
    /\ LoadsUnderLock
    /\ Placed
    /\ Accounted
    /\ InstructionsRunOnce
    /\ Awaited

LEMMA VmInitInv ==
    ASSUME VmInit
    PROVE  VmInv
  <1>1. /\ TypeOK /\ ActivationsConsistent /\ Linked = {} /\ result = NoResult /\ calls = <<>>
        /\ baseline = {}
    BY InitFacts DEF VmInit
  <1>2. LoaderInv
    BY <1>1 DEF LoaderInv, NothingLost, Busy, NoResult, Failure
  <1>3. \A t \in Threads : frames[t] = <<>> /\ step[t] = "unspawned" /\ ~Running(t)
    BY DEF VmInit, Running
  <1>4. Len(<<>>) = 0 /\ <<>> \in Seq(Frame)
    BY EmptySeq
  <1>5. VmTypeOK
    BY <1>1, <1>4 DEF VmInit, VmTypeOK, StepState, SpawnerState, Idle
  <1>6. LoadsUnderLock
    BY <1>1, <1>3 DEF VmInit, LoadsUnderLock, Busy
  <1>7. Placed
    BY <1>3, <1>4 DEF VmInit, Placed, Idle
  <1>8. Accounted
    BY <1>1 DEF VmInit, Accounted, ClinitAtMostOnce, Unscheduled, LoadedIsScheduled, Idle
  <1>9. InstructionsRunOnce /\ Awaited
    BY <1>3, <1>4 DEF InstructionsRunOnce, Awaited
  <1> QED
    BY <1>2, <1>5, <1>6, <1>7, <1>8, <1>9 DEF VmInv

\* VmInv is inductive.
LEMMA VmInvStep ==
    ASSUME VmInv, [VmNext]_initVars
    PROVE  VmInv'
  BY VmLoaderStep, LoaderInvStep, VmTypeStep, LockStep, PlacedStep, AccountedStep, RunOnceStep,
     AwaitedStep DEF VmInv

LEMMA VmInvariant == VmSpec => []VmInv
  BY VmInitInv, VmInvStep, PTL DEF VmSpec

\* Every state of the machine is well typed: in particular stepping pc back
\* never leaves the code of a method.
THEOREM VmTypeCorrect == VmSpec => []VmTypeOK
  <1>1. VmInv => VmTypeOK
    BY DEF VmInv
  <1> QED
    BY <1>1, VmInvariant, PTL

\* The write lock of the class loader is held exactly by the agent that is
\* loading, through every error path.
THEOREM LockGuardsLoads == VmSpec => []LoadsUnderLock
  <1>1. VmInv => LoadsUnderLock
    BY DEF VmInv
  <1> QED
    BY <1>1, VmInvariant, PTL

\* No class gets a second <clinit> frame, whichever threads race to resolve it.
THEOREM InitializedAtMostOnce == VmSpec => []ClinitAtMostOnce
  <1>1. VmInv => ClinitAtMostOnce
    BY DEF VmInv, Accounted
  <1> QED
    BY <1>1, VmInvariant, PTL

\* No linked class misses its <clinit>, but for the reports the code drops.
THEOREM NoneForgotten == VmSpec => []LoadedIsScheduled
  <1>1. VmInv => LoadedIsScheduled
    BY DEF VmInv, Accounted
  <1> QED
    BY <1>1, VmInvariant, PTL

\* No body of an instruction is skipped or run twice by the retry after a load.
THEOREM BodiesRunOnce == VmSpec => []InstructionsRunOnce
  <1>1. VmInv => InstructionsRunOnce
    BY DEF VmInv
  <1> QED
    BY <1>1, VmInvariant, PTL

\* A retried instruction finds the classes it waited for initialised.
THEOREM RetriesSucceed == VmSpec => []RetryFindsInitialized
  <1>1. VmInv => RetryFindsInitialized
    <2> SUFFICES ASSUME VmInv, NEW t \in Threads, Running(t), NEW c \in Current(t).awaits
                 PROVE  c \in done
      BY DEF RetryFindsInitialized
    <2>1. Awaited /\ frames \in [Threads -> Seq(Frame)]
      BY DEF VmInv, VmTypeOK
    <2>2. Len(frames[t]) \in 1..Len(frames[t]) /\ Current(t) = frames[t][Len(frames[t])]
      BY <2>1, CurrentFrame
    <2>3. \A j \in (Len(frames[t]) + 1)..Len(frames[t]) : FALSE
      BY <2>1, <2>2, CurrentFrame
    <2> QED
      BY <2>1, <2>2, <2>3 DEF Awaited
  <1> QED
    BY <1>1, VmInvariant, PTL

\* The class loader of a machine behaves as ClassLoader says, so that what is
\* proved of it alone holds with any number of threads around it ...
THEOREM MachineLoads == VmSpec => Init /\ [][Next]_loaderVars
  <1>1. VmInit => Init
    BY DEF VmInit
  <1>2. VmInv /\ [VmNext]_initVars => [Next]_loaderVars
    BY VmLoaderStep DEF VmInv
  <1> QED
    BY <1>1, <1>2, VmInvariant, PTL DEF VmSpec

\* ... here, that no thread ever sees a linked class without its superclasses,
\* or laid out again.
THEOREM MachineLinks == VmSpec => LinkedForever /\ [](SuperLinked /\ NoSuperCycle)
  <1> DEFINE Inv == TypeOK /\ ActivationsConsistent /\ SuperLinked /\ NoSuperCycle
  <1>1. Init => Inv
    BY InitFacts DEF SuperLinked, NoSuperCycle
  <1>2. Inv /\ [Next]_loaderVars => Inv'
    BY TypeStep, ConsistentStep, SuperLinkedStep, NoSuperCycleStep
  <1>3. Inv /\ [Next]_loaderVars
           => [\A c \in Linked : c \in Linked' /\ fullHeapSize'[c] = fullHeapSize[c]]_loaderVars
    BY LinkedStep
  <1> QED
    BY <1>1, <1>2, <1>3, MachineLoads, PTL DEF LinkedForever
=============================================================================
