----------------------------- MODULE HeapProofs -----------------------------
(***************************************************************************)
(* What Heap guarantees for every hierarchy, every layout of the fields    *)
(* and every bound: the layout, the invariants, what a drop gives back,    *)
(* and, from Reads on, that the bytes implement the store of ObjectStore.  *)
(***************************************************************************)
EXTENDS Heap, Recursion, FiniteSetTheorems

-----------------------------------------------------------------------------
(***************************************************************************)
(* Layout: the recursive functions are what their equations say, and every *)
(* variable of an object lies within full_heap_size.                       *)
(***************************************************************************)

LEMMA SizeOfType ==
    ASSUME NEW c \in Classes, NEW i \in DOMAIN Fields(c)
    PROVE  SizeOf(Fields(c)[i].fd) \in 1..8
  <1>1. Fields(c)[i].fd.dims \in Nat /\ Fields(c)[i].fd.elem \in Base \cup {"L"}
    BY FieldsAssumption
  <1> DEFINE fd == Fields(c)[i].fd
  <1>2. fd.elem \in Base \cup {"L"}
    BY <1>1
  <1> HIDE DEF fd
  <1>3. SizeOf(fd) \in 1..8
    BY <1>2 DEF SizeOf, Base
  <1> QED
    BY <1>3 DEF fd

LEMMA NewOffsetDef ==
    ASSUME NEW c \in Classes
    PROVE  LET fs == Fields(c)
           IN  /\ Len(fs) \in Nat /\ DOMAIN fs = 1..Len(fs)
               /\ NewOffset(fs) \in [0..Len(fs) -> Nat]
               /\ NewOffset(fs)[0] = 0
               /\ \A i \in 1..Len(fs) : NewOffset(fs)[i] = NewOffset(fs)[i - 1] + SizeOf(fs[i].fd)
  <1> DEFINE fs == Fields(c)
             C == 0..Len(fs)
             level == [i \in C |-> i]
             next(i, f) == IF i = 0 THEN 0 ELSE f[i - 1] + SizeOf(fs[i].fd)
             step == [p \in C \X [C -> Nat] |-> next(p[1], p[2])]
  <1>1. Len(fs) \in Nat /\ DOMAIN fs = 1..Len(fs)
    BY FieldsAssumption
  <1>2. \A i \in 1..Len(fs) : SizeOf(fs[i].fd) \in Nat
    BY <1>1, SizeOfType
  <1>3. \A i \in C, f \in [C -> Nat] : next(i, f) \in Nat
    <2> TAKE i \in C, f \in [C -> Nat]
    <2>1. CASE i = 0
      BY <2>1
    <2>2. CASE i # 0
      <3>1. i \in 1..Len(fs) /\ i - 1 \in C
        BY <1>1, <2>2
      <3>2. f[i - 1] \in Nat
        BY <3>1
      <3> QED
        BY <1>2, <2>2, <3>1, <3>2
    <2> QED
      BY <2>1, <2>2
  <1>4. step \in [C \X [C -> Nat] -> Nat]
    <2> HIDE DEF C, next
    <2> QED
      BY <1>3
  <1>5. Levels(C, level)
    BY <1>1 DEF Levels
  <1>6. LooksDown(C, Nat, level, step)
    <2> SUFFICES ASSUME NEW i \in C, NEW f \in [C -> Nat], NEW g \in [C -> Nat],
                        \A d \in C : level[d] < level[i] => f[d] = g[d]
                 PROVE  step[<<i, f>>] = step[<<i, g>>]
      <3> HIDE DEF C, step, level
      <3> QED
        BY <1>4 DEF LooksDown
    <2>1. step[<<i, f>>] = next(i, f) /\ step[<<i, g>>] = next(i, g)
      <3> HIDE DEF C, next
      <3> QED
        OBVIOUS
    <2>2. i # 0 => i - 1 \in C /\ level[i - 1] < level[i]
      BY <1>1
    <2>3. next(i, f) = next(i, g)
      BY <2>2
    <2> QED
      BY <2>1, <2>3
  <1>7. PICK f \in [C -> Nat] : \A i \in C : f[i] = step[<<i, f>>]
    <2> HIDE DEF C, level, step
    <2>1. Solvable(C, Nat, step)
      BY ONLY <1>5, <1>6, RecursiveFunction, Zenon
    <2> QED
      BY ONLY <2>1 DEF Solvable
  <1>8. \A i \in C : f[i] = next(i, f)
    <2> HIDE DEF C, next
    <2> QED
      BY <1>7
  <1>9. f = [i \in 0..Len(fs) |-> IF i = 0 THEN 0 ELSE f[i - 1] + SizeOf(fs[i].fd)]
    BY <1>7, <1>8
  <1> HIDE DEF fs
  <1> DEFINE after == NewOffset(fs)
  <1>10. after = [i \in 0..Len(fs) |-> IF i = 0 THEN 0 ELSE after[i - 1] + SizeOf(fs[i].fd)]
    BY ONLY <1>9, Zenon DEF NewOffset
  <1> HIDE DEF after
  <1>11. \A i \in 0..Len(fs) : after[i] = IF i = 0 THEN 0 ELSE after[i - 1] + SizeOf(fs[i].fd)
    BY <1>10
  <1>12. after[0] = 0
    BY <1>1, <1>11
  <1>13. \A i \in 1..Len(fs) : after[i] = after[i - 1] + SizeOf(fs[i].fd)
    BY <1>1, <1>11
  <1>14. \A i \in 0..Len(fs) : after[i] \in Nat
    <2> DEFINE S == {i \in C : after[i] \in Nat}
    <2>1. ASSUME NEW i \in C, \A j \in C : level[j] < level[i] => j \in S
          PROVE  i \in S
      <3>1. CASE i = 0
        BY <1>12, <3>1
      <3>2. CASE i # 0
        <4>1. i \in 1..Len(fs) /\ i - 1 \in C /\ level[i - 1] < level[i]
          BY <1>1, <3>2
        <4>2. i - 1 \in S
          <5> HIDE DEF S, C, level
          <5> QED
            BY <2>1, <4>1
        <4>3. after[i - 1] \in Nat /\ SizeOf(fs[i].fd) \in Nat
          BY <1>2, <4>1, <4>2
        <4>4. after[i] = after[i - 1] + SizeOf(fs[i].fd)
          BY <1>13, <4>1
        <4>5. after[i] \in Nat
          BY ONLY <4>3, <4>4
        <4> QED
          BY <4>5
      <3> QED
        BY <3>1, <3>2
    <2>2. C \subseteq S
      <3> HIDE DEF C, S, level
      <3>9. Hereditary(C, level, S)
        BY ONLY <2>1 DEF Hereditary
      <3> QED
        BY ONLY <1>5, <3>9, LevelInduction, Zenon
    <2> QED
      BY <2>2
  <1>15. after \in [0..Len(fs) -> Nat]
    BY <1>10, <1>14
  <1> QED
    BY ONLY <1>1, <1>12, <1>13, <1>15, Zenon DEF fs, after

\* A level of each class, below those of its subclasses.
Below(level) ==
    /\ Levels(Classes, level)
    /\ \A c \in Classes \ {Object} : Super(c) \in Classes /\ level[Super(c)] < level[c]

LEMMA SupersBelow == \E level : Below(level)
  <1>1. Cardinality(Classes) \in Nat
    BY HierarchyAssumption, FS_CardinalityType
  <1>2. PICK level \in [Classes -> 0..Cardinality(Classes)] :
            \A c \in Classes \ {Object} : Super(c) \in Classes /\ level[Super(c)] < level[c]
    BY HierarchyAssumption
  <1>3. level \in [Classes -> Nat] /\ \A c \in Classes : level[c] <= Cardinality(Classes)
    BY <1>1, <1>2
  <1>4. Levels(Classes, level)
    BY <1>1, <1>3 DEF Levels
  <1> QED
    BY <1>2, <1>4 DEF Below

\* A walk up the superclasses that ends at Object computes something.
Walk(T, end, on) == T # {} /\ end \in [Classes -> T] /\ on \in [Classes \X T -> T]
Walked(T, end, on) ==
    \E f \in [Classes -> T] :
        \A c \in Classes : f[c] = IF c = Object THEN end[c] ELSE on[<<c, f[Super(c)]>>]

LEMMA WalkUp ==
    ASSUME NEW T, NEW end, NEW on, Walk(T, end, on)
    PROVE  Walked(T, end, on)
  <1>1. PICK level : Below(level)
    BY SupersBelow
  <1> DEFINE next(c, f) == IF c = Object THEN end[c] ELSE on[<<c, f[Super(c)]>>]
             step == [p \in Classes \X [Classes -> T] |-> next(p[1], p[2])]
  <1>2. \A c \in Classes, f \in [Classes -> T] : next(c, f) \in T
    <2> TAKE c \in Classes, f \in [Classes -> T]
    <2>1. c # Object => f[Super(c)] \in T
      BY <1>1 DEF Below
    <2> QED
      BY <2>1 DEF Walk
  <1>3. LooksDown(Classes, T, level, step)
    <2>1. step \in [Classes \X [Classes -> T] -> T]
      <3> HIDE DEF next
      <3> QED
        BY <1>2
    <2> SUFFICES ASSUME NEW c \in Classes, NEW f \in [Classes -> T], NEW g \in [Classes -> T],
                        \A d \in Classes : level[d] < level[c] => f[d] = g[d]
                 PROVE  step[<<c, f>>] = step[<<c, g>>]
      <3> HIDE DEF step
      <3> QED
        BY <2>1 DEF LooksDown, Walk
    <2>2. step[<<c, f>>] = next(c, f) /\ step[<<c, g>>] = next(c, g)
      <3> HIDE DEF next
      <3> QED
        OBVIOUS
    <2>3. c # Object => f[Super(c)] = g[Super(c)]
      BY <1>1 DEF Below
    <2> QED
      BY <2>2, <2>3
  <1>4. Levels(Classes, level)
    BY <1>1 DEF Below
  <1>5. PICK f \in [Classes -> T] : \A c \in Classes : f[c] = step[<<c, f>>]
    <2> HIDE DEF step
    <2>1. Solvable(Classes, T, step)
      BY ONLY <1>3, <1>4, RecursiveFunction, Zenon
    <2> QED
      BY ONLY <2>1 DEF Solvable
  <1>6. \A c \in Classes : f[c] = next(c, f)
    <2> HIDE DEF next
    <2> QED
      BY <1>5
  <1> QED
    BY <1>6 DEF Walked

LEMMA ChainDef ==
    /\ \A c \in Classes : Chain[c] = {c} \cup (IF c = Object THEN {} ELSE Chain[Super(c)])
    /\ \A c \in Classes : Chain[c] \subseteq Classes
  <1> DEFINE T == SUBSET Classes
             end == [c \in Classes |-> {c}]
             on == [p \in Classes \X T |-> {p[1]} \cup p[2]]
  <1>1. Walk(T, end, on)
    BY DEF Walk
  <1>2. PICK f \in [Classes -> T] :
            \A c \in Classes : f[c] = IF c = Object THEN end[c] ELSE on[<<c, f[Super(c)]>>]
    <2> HIDE DEF T, end, on
    <2>1. Walked(T, end, on)
      BY ONLY <1>1, WalkUp, Zenon
    <2> QED
      BY ONLY <2>1 DEF Walked
  <1>3. ASSUME NEW c \in Classes
        PROVE  f[c] = {c} \cup (IF c = Object THEN {} ELSE f[Super(c)])
    <2>1. CASE c = Object
      BY <1>2, <2>1
    <2>2. CASE c # Object
      <3>1. f[Super(c)] \in T
        BY <2>2, SupersBelow DEF Below
      <3>2. on[<<c, f[Super(c)]>>] = {c} \cup f[Super(c)]
        <4> HIDE DEF T
        <4> QED
          BY <3>1
      <3> QED
        BY <1>2, <2>2, <3>2
    <2> QED
      BY <2>1, <2>2
  <1>4. f = [c \in Classes |-> {c} \cup (IF c = Object THEN {} ELSE f[Super(c)])]
    BY <1>3
  <1>5. Chain = [c \in Classes |-> {c} \cup (IF c = Object THEN {} ELSE Chain[Super(c)])]
    BY ONLY <1>4, Zenon DEF Chain
  <1>6. \A c \in Classes : Chain[c] = {c} \cup (IF c = Object THEN {} ELSE Chain[Super(c)])
    BY <1>5
  <1>7. PICK level : Below(level)
    BY SupersBelow
  <1> DEFINE S == {c \in Classes : Chain[c] \subseteq Classes}
  <1>8. ASSUME NEW c \in Classes, \A d \in Classes : level[d] < level[c] => d \in S
        PROVE  c \in S
    BY <1>6, <1>7, <1>8 DEF Below
  <1>9. Classes \subseteq S
    <2>1. Levels(Classes, level)
      BY <1>7 DEF Below
    <2> HIDE DEF S
    <2>9. Hereditary(Classes, level, S)
      BY ONLY <1>8 DEF Hereditary
    <2> QED
      BY ONLY <2>1, <2>9, LevelInduction, Zenon
  <1> QED
    BY <1>6, <1>9

LEMMA FullSizeDef ==
    \A c \in Classes :
        /\ TotalSize(Fields(c)) \in Nat /\ FullSize[c] \in Nat
        /\ FullSize[c] = TotalSize(Fields(c)) + (IF c = Object THEN 0 ELSE FullSize[Super(c)])
  <1> DEFINE end == [c \in Classes |-> TotalSize(Fields(c))]
             on == [p \in Classes \X Nat |-> TotalSize(Fields(p[1])) + p[2]]
  <1>1. \A c \in Classes : TotalSize(Fields(c)) \in Nat
    BY NewOffsetDef DEF TotalSize
  <1>2. Walk(Nat, end, on)
    BY <1>1 DEF Walk
  <1>3. PICK f \in [Classes -> Nat] :
            \A c \in Classes : f[c] = IF c = Object THEN end[c] ELSE on[<<c, f[Super(c)]>>]
    <2> HIDE DEF end, on
    <2>1. Walked(Nat, end, on)
      BY ONLY <1>2, WalkUp, Zenon
    <2> QED
      BY ONLY <2>1 DEF Walked
  <1>4. ASSUME NEW c \in Classes
        PROVE  f[c] = TotalSize(Fields(c)) + (IF c = Object THEN 0 ELSE f[Super(c)])
    <2>1. CASE c = Object
      <3>1. f[c] = TotalSize(Fields(c)) /\ f[c] \in Nat
        BY <1>3, <2>1
      <3> QED
        BY <2>1, <3>1
    <2>2. CASE c # Object
      <3>1. f[Super(c)] \in Nat
        BY <2>2, SupersBelow DEF Below
      <3> QED
        BY <1>3, <2>2, <3>1
    <2> QED
      BY <2>1, <2>2
  <1>5. f = [c \in Classes |-> TotalSize(Fields(c)) + (IF c = Object THEN 0 ELSE f[Super(c)])]
    BY <1>4
  <1>6. FullSize = [c \in Classes |-> TotalSize(Fields(c)) + (IF c = Object THEN 0 ELSE FullSize[Super(c)])]
    BY ONLY <1>5, Zenon DEF FullSize
  <1>7. \A c \in Classes :
            FullSize[c] = TotalSize(Fields(c)) + (IF c = Object THEN 0 ELSE FullSize[Super(c)])
    BY <1>6
  <1>8. PICK level : Below(level)
    BY SupersBelow
  <1> DEFINE S == {c \in Classes : FullSize[c] \in Nat}
  <1>9. ASSUME NEW c \in Classes, \A d \in Classes : level[d] < level[c] => d \in S
        PROVE  c \in S
    BY <1>1, <1>7, <1>8, <1>9 DEF Below
  <1>10. Classes \subseteq S
    <2>1. Levels(Classes, level)
      BY <1>8 DEF Below
    <2> HIDE DEF S
    <2>9. Hereditary(Classes, level, S)
      BY ONLY <1>9 DEF Hereditary
    <2> QED
      BY ONLY <2>1, <2>9, LevelInduction, Zenon
  <1> QED
    BY <1>1, <1>7, <1>10

LEMMA PositionDef ==
    ASSUME NEW c \in Classes, NEW f \in Own(c)
    PROVE  /\ Position(c, f) \in 1..Len(Fields(c)) /\ Info(c, f) = Fields(c)[Position(c, f)]
           /\ Width(c, f) \in 1..8
           /\ Info(c, f).fd.dims \in Nat /\ Info(c, f).fd.elem \in Base \cup {"L"}
           /\ Info(c, f).static \in BOOLEAN
  <1>1. \E i \in DOMAIN Fields(c) : Fields(c)[i].name = f
    BY DEF Own
  <1>2. Position(c, f) \in DOMAIN Fields(c)
    BY <1>1 DEF Position
  <1> QED
    BY <1>2, SizeOfType, NewOffsetDef, FieldsAssumption DEF Width, Info

LEMMA OffsetsRise ==
    ASSUME NEW c \in Classes, NEW i \in 0..Len(Fields(c))
    PROVE  NewOffset(Fields(c))[i] <= TotalSize(Fields(c))
  <1> DEFINE n == Len(Fields(c))
             after == NewOffset(Fields(c))
             C == 0..n
             level == [j \in C |-> n - j]
             S == {j \in C : after[j] <= after[n]}
  <1>1. n \in Nat /\ after \in [C -> Nat] /\ \A j \in 1..n : after[j] = after[j - 1] + SizeOf(Fields(c)[j].fd)
    BY NewOffsetDef
  <1>2. \A j \in 1..n : SizeOf(Fields(c)[j].fd) \in Nat
    <2>1. DOMAIN Fields(c) = 1..n
      BY NewOffsetDef
    <2> QED
      BY <2>1, SizeOfType
  <1> HIDE DEF after, n
  <1>3. Levels(C, level)
    <2>1. level \in [C -> Nat] /\ \A j \in C : level[j] <= n
      BY <1>1
    <2> HIDE DEF C, level
    <2> QED
      BY <1>1, <2>1 DEF Levels
  <1>4. ASSUME NEW j \in C, \A k \in C : level[k] < level[j] => k \in S
        PROVE  j \in S
    <2>1. CASE j = n
      BY <1>1, <2>1
    <2>2. CASE j # n
      <3>1. j + 1 \in 1..n /\ j + 1 \in C /\ level[j + 1] < level[j]
        BY <1>1, <2>2
      <3>2. j + 1 \in S
        <4> HIDE DEF S, C, level
        <4> QED
          BY <1>4, <3>1
      <3>3. after[j + 1] = after[(j + 1) - 1] + SizeOf(Fields(c)[j + 1].fd)
        BY <1>1, <3>1
      <3>4. (j + 1) - 1 = j
        BY <1>1
      <3>5. after[j] \in Nat /\ after[j + 1] \in Nat /\ after[n] \in Nat /\ SizeOf(Fields(c)[j + 1].fd) \in Nat
        BY <1>1, <1>2, <3>1
      <3> QED
        BY <3>2, <3>3, <3>4, <3>5
    <2> QED
      BY <2>1, <2>2
  <1>5. C \subseteq S
    <2> HIDE DEF C, S, level
    <2>9. Hereditary(C, level, S)
      BY ONLY <1>4 DEF Hereditary
    <2> QED
      BY ONLY <1>3, <2>9, LevelInduction, Zenon
  <1> QED
    BY <1>5 DEF n, after, TotalSize

LEMMA FieldInside ==
    ASSUME NEW c \in Classes, NEW f \in Own(c)
    PROVE  Offset[c][f] \in Nat /\ Offset[c][f] + Width(c, f) <= TotalSize(Fields(c))
  <1> DEFINE i == Position(c, f)
  <1>1. i \in 1..Len(Fields(c)) /\ Len(Fields(c)) \in Nat
    BY PositionDef, NewOffsetDef
  <1>2. Offset[c][f] = NewOffset(Fields(c))[i - 1]
    BY DEF Offset
  <1>3. i - 1 \in 0..Len(Fields(c)) /\ i \in 0..Len(Fields(c))
    BY <1>1
  <1>4. NewOffset(Fields(c))[i - 1] \in Nat
    BY <1>3, NewOffsetDef
  <1>5. Width(c, f) = SizeOf(Fields(c)[i].fd)
    BY PositionDef DEF Width
  <1>6. NewOffset(Fields(c))[i] = NewOffset(Fields(c))[i - 1] + SizeOf(Fields(c)[i].fd)
    BY <1>1, NewOffsetDef
  <1>7. NewOffset(Fields(c))[i] <= TotalSize(Fields(c))
    BY <1>3, OffsetsRise
  <1> QED
    BY <1>2, <1>4, <1>5, <1>6, <1>7

\* full_heap_size has room for the fields of every class of the chain.
LEMMA ChainFits ==
    ASSUME NEW c \in Classes, NEW d \in Chain[c]
    PROVE  d \in Classes /\ TotalSize(Fields(d)) <= FullSize[c]
  <1> DEFINE S == {k \in Classes : \A e \in Chain[k] : TotalSize(Fields(e)) <= FullSize[k]}
  <1>1. PICK level : Below(level)
    BY SupersBelow
  <1>2. ASSUME NEW k \in Classes, \A e \in Classes : level[e] < level[k] => e \in S
        PROVE  k \in S
    <2> SUFFICES ASSUME NEW e \in Chain[k] PROVE TotalSize(Fields(e)) <= FullSize[k]
      OBVIOUS
    <2>1. CASE e = k
      <3>1. k # Object => FullSize[Super(k)] \in Nat
        BY <1>1, FullSizeDef DEF Below
      <3> QED
        BY <2>1, <3>1, FullSizeDef
    <2>2. CASE e # k
      <3>1. k # Object /\ e \in Chain[Super(k)]
        BY <2>2, ChainDef
      <3>2. Super(k) \in S /\ Super(k) \in Classes
        BY <1>1, <1>2, <3>1 DEF Below
      <3>3. e \in Classes /\ TotalSize(Fields(e)) <= FullSize[Super(k)]
        BY <3>1, <3>2, ChainDef
      <3>4. FullSize[k] = TotalSize(Fields(k)) + FullSize[Super(k)]
        BY <3>1, FullSizeDef
      <3>5. /\ TotalSize(Fields(k)) \in Nat /\ TotalSize(Fields(e)) \in Nat
            /\ FullSize[k] \in Nat /\ FullSize[Super(k)] \in Nat
        BY <3>2, <3>3, FullSizeDef
      <3> QED
        BY <3>3, <3>4, <3>5
    <2> QED
      BY <2>1, <2>2
  <1>3. Classes \subseteq S
    <2>1. Levels(Classes, level)
      BY <1>1 DEF Below
    <2> HIDE DEF S
    <2>9. Hereditary(Classes, level, S)
      BY ONLY <1>2 DEF Hereditary
    <2> QED
      BY ONLY <2>1, <2>9, LevelInduction, Zenon
  <1> QED
    BY <1>3, ChainDef

LEMMA SlotInside ==
    ASSUME NEW c \in Classes, NEW s \in Slots[c]
    PROVE  /\ s = <<s[1], s[2]>> /\ s[1] \in Chain[c] /\ s[1] \in Classes /\ s[2] \in Own(s[1])
           /\ Offset[s[1]][s[2]] \in Nat /\ Width(s[1], s[2]) \in 1..8 /\ FullSize[c] \in Nat
           /\ Offset[s[1]][s[2]] + Width(s[1], s[2]) <= FullSize[c]
  <1>1. PICK d \in Chain[c] : \E f \in {g \in Own(d) : ~Info(d, g).static} : s = <<d, f>>
    BY DEF Slots
  <1>2. PICK f \in Own(d) : s = <<d, f>>
    BY <1>1
  <1>3. d \in Classes /\ TotalSize(Fields(d)) <= FullSize[c]
    BY ChainFits
  <1>4. Offset[d][f] \in Nat /\ Offset[d][f] + Width(d, f) <= TotalSize(Fields(d)) /\ Width(d, f) \in 1..8
    BY <1>3, FieldInside, PositionDef
  <1>5. TotalSize(Fields(d)) \in Nat /\ FullSize[c] \in Nat
    BY <1>3, FullSizeDef
  <1>6. Offset[d][f] + Width(d, f) <= FullSize[c]
    BY <1>3, <1>4, <1>5
  <1>7. s[1] = d /\ s[2] = f
    BY <1>2
  <1> QED
    BY <1>2, <1>3, <1>4, <1>5, <1>6, <1>7

\* The class javac resolves a field in declares it, and is the named one when
\* that does.
LEMMA DeclaringDef ==
    ASSUME NEW d \in Classes, NEW f \in Named[d]
    PROVE  /\ Declaring[d][f] \in Classes /\ f \in Own(Declaring[d][f])
           /\ f \in Own(d) => Declaring[d][f] = d
  <1> DEFINE end == [c \in Classes |-> c]
             on == [p \in Classes \X Classes |-> IF f \in Own(p[1]) THEN p[1] ELSE p[2]]
             up == CHOOSE g : g = [c \in Classes |-> IF f \in Own(c) \/ c = Object THEN c ELSE g[Super(c)]]
  <1>1. Walk(Classes, end, on)
    BY HierarchyAssumption DEF Walk
  <1>2. PICK g \in [Classes -> Classes] :
            \A c \in Classes : g[c] = IF c = Object THEN end[c] ELSE on[<<c, g[Super(c)]>>]
    <2> HIDE DEF end, on
    <2>1. Walked(Classes, end, on)
      BY ONLY <1>1, WalkUp, Zenon
    <2> QED
      BY ONLY <2>1 DEF Walked
  <1>3. ASSUME NEW c \in Classes
        PROVE  g[c] = IF f \in Own(c) \/ c = Object THEN c ELSE g[Super(c)]
    <2>1. CASE c = Object
      BY <1>2, <2>1
    <2>2. CASE c # Object
      <3>1. g[Super(c)] \in Classes
        BY <2>2, SupersBelow DEF Below
      <3> QED
        BY <1>2, <2>2, <3>1
    <2> QED
      BY <2>1, <2>2
  <1>4. g = [c \in Classes |-> IF f \in Own(c) \/ c = Object THEN c ELSE g[Super(c)]]
    BY <1>3
  <1>5. up = [c \in Classes |-> IF f \in Own(c) \/ c = Object THEN c ELSE up[Super(c)]]
    BY ONLY <1>4, Zenon
  <1> HIDE DEF up
  <1>6. \A c \in Classes : up[c] = IF f \in Own(c) \/ c = Object THEN c ELSE up[Super(c)]
    BY <1>5
  <1>7. PICK level : Below(level)
    BY SupersBelow
  <1> DEFINE S == {c \in Classes : (\E e \in Chain[c] : f \in Own(e)) => up[c] \in Classes /\ f \in Own(up[c])}
  <1>8. ASSUME NEW c \in Classes, \A e \in Classes : level[e] < level[c] => e \in S
        PROVE  c \in S
    <2> SUFFICES ASSUME NEW e \in Chain[c], f \in Own(e) PROVE up[c] \in Classes /\ f \in Own(up[c])
      OBVIOUS
    <2>1. CASE f \in Own(c)
      BY <1>6, <2>1
    <2>2. CASE f \notin Own(c)
      <3>1. c # Object /\ e \in Chain[Super(c)]
        BY <2>2, ChainDef
      <3>2. Super(c) \in S /\ Super(c) \in Classes
        BY <1>7, <1>8, <3>1 DEF Below
      <3>3. up[Super(c)] \in Classes /\ f \in Own(up[Super(c)])
        BY <3>1, <3>2
      <3>4. up[c] = up[Super(c)]
        BY <1>6, <2>2, <3>1
      <3> QED
        BY <3>3, <3>4
    <2> QED
      BY <2>1, <2>2
  <1>9. Classes \subseteq S
    <2>1. Levels(Classes, level)
      BY <1>7 DEF Below
    <2> HIDE DEF S
    <2>9. Hereditary(Classes, level, S)
      BY ONLY <1>8 DEF Hereditary
    <2> QED
      BY ONLY <2>1, <2>9, LevelInduction, Zenon
  <1>10. \E e \in Chain[d] : f \in Own(e)
    BY DEF Named
  <1>11. Declaring[d][f] = up[d]
    BY DEF Declaring, up
  <1>12. up[d] \in Classes /\ f \in Own(up[d])
    BY <1>9, <1>10
  <1>13. f \in Own(d) => up[d] = d
    BY <1>6
  <1> QED
    BY <1>11, <1>12, <1>13

-----------------------------------------------------------------------------
(***************************************************************************)
(* Memory.                                                                 *)
(***************************************************************************)

\* A new block has its size, and nothing was given back.
LEMMA BlockDef ==
    ASSUME NEW of \in {"object", "static", "chars", "array"}, NEW size \in Nat, NEW length \in Nat,
           of = "chars" => size = 2 * length
    PROVE  /\ BlockOK(Block(of, size, length))
           /\ Block(of, size, length).of = of /\ Block(of, size, length).size = size
           /\ Block(of, size, length).length = length /\ Block(of, size, length).freed = <<>>
           /\ \A i \in 0..size - 1 : Block(of, size, length).bytes[i] = <<>>
  BY DEF BlockOK, Block

\* A store of bytes leaves a block what it is.
Same(b, c) == b.of = c.of /\ b.size = c.size /\ b.length = c.length /\ b.freed = c.freed

LEMMA BytesStored ==
    ASSUME NEW b, BlockOK(b), NEW bytes, bytes = [i \in 0..b.size - 1 |-> bytes[i]]
    PROVE  /\ BlockOK([b EXCEPT !.bytes = bytes]) /\ Same([b EXCEPT !.bytes = bytes], b)
           /\ [b EXCEPT !.bytes = bytes].bytes = bytes
  BY DEF BlockOK, Same

LEMMA WrittenDef ==
    ASSUME NEW b, BlockOK(b), NEW off \in Int, NEW width \in Nat, NEW v
    PROVE  LET w == Written(b, off, width, v)
           IN  /\ BlockOK(w) /\ Same(w, b)
               /\ \A i \in 0..b.size - 1 :
                    w.bytes[i] = IF i \in off..off + width - 1 THEN <<v, i - off>> ELSE b.bytes[i]
  <1> DEFINE bytes == [i \in DOMAIN b.bytes |-> IF i \in off..off + width - 1 THEN <<v, i - off>> ELSE b.bytes[i]]
             w == Written(b, off, width, v)
  <1>1. DOMAIN b.bytes = 0..b.size - 1 /\ b.size \in Nat
    BY DEF BlockOK
  <1>2. w = [b EXCEPT !.bytes = bytes]
    BY DEF Written
  <1>3. bytes = [i \in 0..b.size - 1 |-> bytes[i]]
    BY <1>1
  <1>4. \A i \in 0..b.size - 1 : bytes[i] = IF i \in off..off + width - 1 THEN <<v, i - off>> ELSE b.bytes[i]
    BY <1>1
  <1> HIDE DEF bytes, w
  <1>5. BlockOK(w) /\ Same(w, b) /\ w.bytes = bytes
    BY <1>2, <1>3, BytesStored
  <1> QED
    BY <1>4, <1>5 DEF w

\* Blocks are only added, and what a block is stays.
Grown ==
    /\ blocks' \in Seq(ToSet(blocks')) /\ DOMAIN blocks \subseteq DOMAIN blocks'
    /\ \A b \in DOMAIN blocks' : BlockOK(blocks'[b])
    /\ \A b \in DOMAIN blocks : Same(blocks'[b], blocks[b])
    /\ \A b \in DOMAIN blocks' \ DOMAIN blocks : blocks'[b].freed = <<>>

LEMMA InSequence ==
    ASSUME NEW S, NEW s \in Seq(S)
    PROVE  s \in Seq(ToSet(s))
  <1>1. Len(s) \in Nat /\ DOMAIN s = 1..Len(s) /\ s = [i \in 1..Len(s) |-> s[i]]
    OBVIOUS
  <1>2. \A i \in 1..Len(s) : s[i] \in ToSet(s)
    BY <1>1 DEF ToSet
  <1> HIDE DEF ToSet
  <1>3. s \in [1..Len(s) -> ToSet(s)]
    BY <1>1, <1>2
  <1> QED
    BY <1>1, <1>3

LEMMA StoreGrows ==
    ASSUME Shaped, NEW b \in DOMAIN blocks, NEW x, BlockOK(x), Same(x, blocks[b]),
           blocks' = [blocks EXCEPT ![b] = x]
    PROVE  Grown /\ DOMAIN blocks' = DOMAIN blocks /\ Len(blocks') = Len(blocks)
  <1> DEFINE S == ToSet(blocks) \cup {x}
  <1>1. blocks \in Seq(S) /\ x \in S
    <2>1. blocks \in Seq(ToSet(blocks))
      BY DEF Shaped
    <2> HIDE DEF ToSet
    <2> QED
      BY <2>1
  <1>2. blocks' \in Seq(S) /\ DOMAIN blocks' = DOMAIN blocks /\ Len(blocks') = Len(blocks)
    <2> HIDE DEF S
    <2> QED
      BY <1>1
  <1>3. blocks' \in Seq(ToSet(blocks'))
    <2> HIDE DEF S
    <2> QED
      BY <1>2, InSequence
  <1>4. \A c \in DOMAIN blocks : blocks'[c] = IF c = b THEN x ELSE blocks[c]
    OBVIOUS
  <1> QED
    BY <1>2, <1>3, <1>4 DEF Grown, Shaped, Same

LEMMA AppendGrows ==
    ASSUME Shaped, NEW x, BlockOK(x), x.freed = <<>>, blocks' = Append(blocks, x)
    PROVE  /\ Grown /\ Len(blocks') = Len(blocks) + 1 /\ Len(blocks) \in Nat
           /\ DOMAIN blocks = 1..Len(blocks) /\ DOMAIN blocks' = 1..Len(blocks) + 1
           /\ blocks'[Len(blocks) + 1] = x
           /\ \A b \in DOMAIN blocks : blocks'[b] = blocks[b]
  <1> DEFINE S == ToSet(blocks) \cup {x}
  <1>1. blocks \in Seq(S) /\ x \in S
    <2>1. blocks \in Seq(ToSet(blocks))
      BY DEF Shaped
    <2> HIDE DEF ToSet
    <2> QED
      BY <2>1
  <1> HIDE DEF S
  <1>2. /\ blocks' \in Seq(S) /\ Len(blocks') = Len(blocks) + 1 /\ Len(blocks) \in Nat
        /\ DOMAIN blocks = 1..Len(blocks) /\ DOMAIN blocks' = 1..Len(blocks) + 1
    BY <1>1
  <1>3. blocks'[Len(blocks) + 1] = x /\ \A b \in DOMAIN blocks : blocks'[b] = blocks[b]
    BY <1>1
  <1>4. blocks' \in Seq(ToSet(blocks'))
    BY <1>2, InSequence
  <1>5. DOMAIN blocks' = DOMAIN blocks \cup {Len(blocks) + 1}
    BY <1>2
  <1>6. \A b \in DOMAIN blocks' : BlockOK(blocks'[b])
    BY <1>3, <1>5 DEF Shaped
  <1> QED
    BY <1>2, <1>3, <1>4, <1>5, <1>6 DEF Grown, Same

-----------------------------------------------------------------------------
(***************************************************************************)
(* The invariant, a table at a time.                                       *)
(***************************************************************************)

ObjectsShaped == objects \in Seq([class : Classes, ptr : DOMAIN blocks, live : BOOLEAN])
StaticsShaped ==
    DOMAIN statics \subseteq StaticRefs /\ \A r \in DOMAIN statics : statics[r] \in DOMAIN blocks
AllKept == Cardinality(arrays) < Capacity => AllArrays \subseteq arrays
HeapInv == Shaped /\ HeapTypeOK /\ Unreleased /\ ReleasedAsAllocated

LEMMA ObjectDef ==
    ASSUME Shaped, ObjectsPlaced, NEW k \in DOMAIN objects
    PROVE  /\ Len(objects) \in Nat /\ DOMAIN objects = 1..Len(objects)
           /\ objects[k].class \in Classes /\ objects[k].ptr \in DOMAIN blocks
           /\ objects[k].live \in BOOLEAN
           /\ blocks[objects[k].ptr].of = "object"
           /\ blocks[objects[k].ptr].size = FullSize[objects[k].class]
  <1> DEFINE R == [class : Classes, ptr : DOMAIN blocks, live : BOOLEAN]
  <1>1. objects \in Seq(R)
    BY DEF Shaped
  <1>2. \A o \in R : o.class \in Classes /\ o.ptr \in DOMAIN blocks /\ o.live \in BOOLEAN
    OBVIOUS
  <1> HIDE DEF R
  <1>3. Len(objects) \in Nat /\ DOMAIN objects = 1..Len(objects) /\ objects[k] \in R
    BY <1>1
  <1> QED
    BY <1>2, <1>3 DEF ObjectsPlaced

LEMMA ObjectsStay ==
    ASSUME Shaped, ObjectsPlaced, Grown, UNCHANGED objects
    PROVE  ObjectsShaped' /\ ObjectsPlaced'
  <1>1. ObjectsShaped'
    <2> DEFINE R == [class : Classes, ptr : DOMAIN blocks, live : BOOLEAN]
               Q == [class : Classes, ptr : DOMAIN blocks', live : BOOLEAN]
    <2>1. R \subseteq Q
      BY DEF Grown
    <2>2. objects \in Seq(R)
      BY DEF Shaped
    <2> HIDE DEF R, Q
    <2>3. objects' \in Seq(Q)
      BY <2>1, <2>2
    <2> QED
      BY <2>3 DEF Q, ObjectsShaped
  <1>2. ASSUME NEW k \in DOMAIN objects
        PROVE  objects[k].ptr \in DOMAIN blocks /\ Same(blocks'[objects[k].ptr], blocks[objects[k].ptr])
    BY ObjectDef DEF Grown
  <1>3. ObjectsPlaced'
    BY <1>2 DEF ObjectsPlaced, Same, Inside
  <1> QED
    BY <1>1, <1>3

LEMMA ObjectAdded ==
    ASSUME Shaped, ObjectsPlaced, Grown, NEW c \in Classes, NEW p \in DOMAIN blocks' \ DOMAIN blocks,
           blocks'[p].of = "object", blocks'[p].size = FullSize[c],
           objects' = Append(objects, [class |-> c, ptr |-> p, live |-> TRUE])
    PROVE  ObjectsShaped' /\ ObjectsPlaced'
  <1> DEFINE R == [class : Classes, ptr : DOMAIN blocks, live : BOOLEAN]
             Q == [class : Classes, ptr : DOMAIN blocks', live : BOOLEAN]
             new == [class |-> c, ptr |-> p, live |-> TRUE]
             n == Len(objects)
  <1>1. R \subseteq Q /\ new \in Q
    BY DEF Grown
  <1>2. objects \in Seq(R)
    BY DEF Shaped
  <1>3. new.class = c /\ new.ptr = p
    OBVIOUS
  <1> HIDE DEF R, Q, new
  <1>4. /\ objects' \in Seq(Q) /\ n \in Nat /\ DOMAIN objects = 1..n /\ DOMAIN objects' = 1..n + 1
        /\ objects'[n + 1] = new /\ \A k \in 1..n : objects'[k] = objects[k]
    BY <1>1, <1>2 DEF new
  <1>5. ObjectsShaped'
    BY <1>4 DEF ObjectsShaped, Q
  <1>6. ASSUME NEW k \in 1..n
        PROVE  objects[k].ptr \in DOMAIN blocks /\ Same(blocks'[objects[k].ptr], blocks[objects[k].ptr])
    BY <1>4, ObjectDef DEF Grown
  <1>7. ASSUME NEW s \in Slots[c]
        PROVE  Inside(blocks'[p], Offset[s[1]][s[2]], Width(s[1], s[2]))
    <2>1. /\ Offset[s[1]][s[2]] \in Nat /\ Width(s[1], s[2]) \in 1..8 /\ FullSize[c] \in Nat
          /\ Offset[s[1]][s[2]] + Width(s[1], s[2]) <= FullSize[c]
      BY SlotInside
    <2> QED
      BY <2>1 DEF Inside
  <1>8. ASSUME NEW k \in 1..n + 1
        PROVE  LET b == blocks'[objects'[k].ptr]
               IN  /\ b.of = "object" /\ b.size = FullSize[objects'[k].class]
                   /\ \A s \in Slots[objects'[k].class] : Inside(b, Offset[s[1]][s[2]], Width(s[1], s[2]))
                   /\ \A j \in 1..n + 1 : objects'[j].ptr = objects'[k].ptr => j = k
    <2>1. CASE k = n + 1
      <3>1. objects'[k].ptr = p /\ objects'[k].class = c
        BY <1>3, <1>4, <2>1
      <3>2. \A j \in 1..n : objects'[j].ptr # p
        BY <1>4, <1>6
      <3>3. \A j \in 1..n + 1 : objects'[j].ptr = objects'[k].ptr => j = k
        BY <1>4, <2>1, <3>1, <3>2
      <3> QED
        BY <1>7, <3>1, <3>3
    <2>2. CASE k # n + 1
      <3>1. k \in 1..n /\ k \in DOMAIN objects /\ objects'[k] = objects[k]
        BY <1>4, <2>2
      <3>2. objects'[n + 1].ptr # objects'[k].ptr
        BY <1>3, <1>4, <1>6, <3>1
      <3>3. \A j \in 1..n : objects'[j].ptr = objects'[k].ptr => j = k
        BY <1>4, <3>1 DEF ObjectsPlaced
      <3>4. \A j \in 1..n + 1 : objects'[j].ptr = objects'[k].ptr => j = k
        <4> TAKE j \in 1..n + 1
        <4>1. j = n + 1 \/ j \in 1..n
          BY <1>4
        <4> QED
          BY <3>2, <3>3, <4>1
      <3>5. Same(blocks'[objects[k].ptr], blocks[objects[k].ptr])
        BY <1>6, <3>1
      <3> QED
        BY <3>1, <3>4, <3>5 DEF ObjectsPlaced, Same, Inside
    <2> QED
      BY <2>1, <2>2
  <1>9. ObjectsPlaced'
    BY <1>4, <1>8 DEF ObjectsPlaced
  <1> QED
    BY <1>5, <1>9

LEMMA StaticsStay ==
    ASSUME Shaped, StaticsPlaced, Grown, UNCHANGED statics
    PROVE  StaticsShaped' /\ StaticsPlaced'
  <1>1. StaticsShaped'
    BY DEF Shaped, Grown, StaticsShaped
  <1>2. \A r \in DOMAIN statics : Same(blocks'[statics[r]], blocks[statics[r]])
    BY DEF Shaped, Grown
  <1>3. StaticsPlaced'
    BY <1>2 DEF StaticsPlaced, Same
  <1> QED
    BY <1>1, <1>3

LEMMA ArraysStay ==
    ASSUME Grown, NEW a, a \subseteq AllArrays
    PROVE  a \subseteq AllArrays'
  BY DEF Grown, AllArrays, Same

\* An operation that makes no array the slab could take.
LEMMA KeptBeside ==
    ASSUME ReleasedAsAllocated, Grown, UNCHANGED arrays,
           \A b \in DOMAIN blocks' \ DOMAIN blocks : b \notin AllArrays'
    PROVE  AllKept'
  <1>1. AllArrays' \subseteq AllArrays
    BY DEF Grown, Same, AllArrays
  <1> QED
    BY <1>1 DEF AllKept, ReleasedAsAllocated

\* One that makes an array and registers it.
LEMMA KeptWith ==
    ASSUME ReleasedAsAllocated, Grown, NEW b, arrays' = Registered(b),
           \A a \in DOMAIN blocks' \ DOMAIN blocks : a \in AllArrays' => a = b
    PROVE  AllKept'
  <1>1. AllArrays' \subseteq AllArrays \cup {b}
    BY DEF Grown, Same, AllArrays
  <1>2. CASE Cardinality(arrays) < Capacity
    BY <1>1, <1>2 DEF AllKept, ReleasedAsAllocated, Registered
  <1>3. CASE ~(Cardinality(arrays) < Capacity)
    BY <1>3 DEF AllKept, Registered
  <1> QED
    BY <1>2, <1>3

LEMMA StillUnreleased ==
    ASSUME Unreleased, Grown, status = "running", status' # "dropped", AllKept'
    PROVE  Unreleased' /\ ReleasedAsAllocated'
  <1>1. \A b \in DOMAIN blocks' : blocks'[b].freed = <<>>
    BY DEF Unreleased, Grown, Same
  <1> QED
    BY <1>1 DEF Unreleased, ReleasedAsAllocated, AllKept

LEMMA NothingGrows ==
    ASSUME Shaped, UNCHANGED blocks
    PROVE  Grown
  BY DEF Shaped, Grown, Same

\* What an operation leaves to show: that blocks were only added, not more
\* than two, and that the tables are right.
LEMMA OperationKeeps ==
    ASSUME HeapInv, NEW dev, Operation(dev), Grown, Len(blocks') \in Nat, Len(blocks') <= Len(blocks) + 2,
           status' \in {"running", "error", "panic", "wild", "stray"},
           ObjectsShaped' /\ ObjectsPlaced', StaticsShaped' /\ StaticsPlaced', arrays' \subseteq AllArrays',
           AllKept'
    PROVE  HeapInv'
  <1>1. steps \in 0..Fuel /\ Len(blocks) <= 2 * steps /\ steps' = steps + 1 /\ steps < Fuel /\ status = "running"
    BY DEF HeapInv, Shaped, Operation
  <1>2. Len(blocks) \in Nat /\ Fuel \in Nat
    BY BoundsAssumption DEF HeapInv, Shaped
  <1>3. steps' \in 0..Fuel /\ Len(blocks') <= 2 * steps'
    BY <1>1, <1>2
  <1>4. Shaped'
    BY <1>3 DEF Shaped, Grown, ObjectsShaped, StaticsShaped
  <1>5. HeapTypeOK'
    BY DEF HeapTypeOK
  <1>6. Unreleased' /\ ReleasedAsAllocated'
    BY <1>1, StillUnreleased DEF HeapInv
  <1> QED
    BY <1>4, <1>5, <1>6 DEF HeapInv

-----------------------------------------------------------------------------
(***************************************************************************)
(* The invariant, an operation at a time.                                  *)
(***************************************************************************)

LEMMA NothingStored ==
    ASSUME HeapInv, NEW dev, Operation(dev), UNCHANGED <<blocks, objects, statics, arrays>>,
           status' \in {"running", "error", "panic", "wild", "stray"}
    PROVE  HeapInv'
  <1>1. Shaped /\ ObjectsPlaced /\ StaticsPlaced /\ arrays \subseteq AllArrays
    BY DEF HeapInv, HeapTypeOK
  <1>2. Grown
    BY <1>1, NothingGrows
  <1>3. Len(blocks') \in Nat /\ Len(blocks') <= Len(blocks) + 2
    BY <1>1 DEF Shaped
  <1>4. ObjectsShaped' /\ ObjectsPlaced' /\ StaticsShaped' /\ StaticsPlaced'
    BY <1>1, <1>2, ObjectsStay, StaticsStay
  <1>5. arrays' \subseteq AllArrays'
    BY <1>1, <1>2, ArraysStay
  <1>6. AllKept'
    BY <1>2, KeptBeside DEF HeapInv
  <1> QED
    BY <1>2, <1>3, <1>4, <1>5, <1>6, OperationKeeps

\* A store to a block there is.
LEMMA StoreKeeps ==
    ASSUME HeapInv, NEW dev, Operation(dev), NEW b \in DOMAIN blocks,
           NEW off \in Int, NEW width \in Nat, NEW v,
           blocks' = [blocks EXCEPT ![b] = Written(@, off, width, v)],
           UNCHANGED <<objects, statics, arrays>>, status' = "running"
    PROVE  HeapInv'
  <1>1. Shaped /\ ObjectsPlaced /\ StaticsPlaced /\ arrays \subseteq AllArrays
    BY DEF HeapInv, HeapTypeOK
  <1> DEFINE x == Written(blocks[b], off, width, v)
  <1>2. BlockOK(x) /\ Same(x, blocks[b])
    BY <1>1, WrittenDef DEF Shaped
  <1>3. blocks' = [blocks EXCEPT ![b] = x]
    OBVIOUS
  <1> HIDE DEF x
  <1>4. Grown /\ DOMAIN blocks' = DOMAIN blocks /\ Len(blocks') = Len(blocks)
    BY <1>1, <1>2, <1>3, StoreGrows
  <1>5. Len(blocks') \in Nat /\ Len(blocks') <= Len(blocks) + 2
    BY <1>1, <1>4 DEF Shaped
  <1>6. ObjectsShaped' /\ ObjectsPlaced' /\ StaticsShaped' /\ StaticsPlaced'
    BY <1>1, <1>4, ObjectsStay, StaticsStay
  <1>7. arrays' \subseteq AllArrays'
    BY <1>1, <1>4, ArraysStay
  <1>8. AllKept'
    BY <1>4, KeptBeside DEF HeapInv
  <1> QED
    BY <1>4, <1>5, <1>6, <1>7, <1>8, OperationKeeps

LEMMA NewKeeps ==
    ASSUME HeapInv, New
    PROVE  HeapInv'
  <1>1. Shaped /\ ObjectsPlaced /\ StaticsPlaced /\ arrays \subseteq AllArrays
    BY DEF HeapInv, HeapTypeOK
  <1>2. PICK c \in Classes :
            /\ Operation(Len(objects) = Capacity)
            /\ blocks' = Append(blocks, AllocateClass(c))
            /\ IF Len(objects) < Capacity
               THEN /\ objects' = Append(objects, [class |-> c, ptr |-> Len(blocks) + 1, live |-> TRUE])
                    /\ Returns(<<Len(objects)>>)
               ELSE objects' = objects /\ Ends("error")
            /\ UNCHANGED <<arrays, statics>>
    BY DEF New
  <1>3. FullSize[c] \in Nat
    BY FullSizeDef
  <1> DEFINE x == AllocateClass(c)
             p == Len(blocks) + 1
  <1>4. BlockOK(x) /\ x.of = "object" /\ x.size = FullSize[c] /\ x.freed = <<>>
    BY <1>3, BlockDef DEF AllocateClass
  <1>5. blocks' = Append(blocks, x)
    BY <1>2
  <1> HIDE DEF x
  <1>6. /\ Grown /\ Len(blocks') = Len(blocks) + 1 /\ Len(blocks) \in Nat
        /\ DOMAIN blocks = 1..Len(blocks) /\ DOMAIN blocks' = 1..Len(blocks) + 1 /\ blocks'[p] = x
    BY <1>1, <1>4, <1>5, AppendGrows
  <1>7. p \in DOMAIN blocks' \ DOMAIN blocks /\ Len(blocks') \in Nat /\ Len(blocks') <= Len(blocks) + 2
    BY <1>6
  <1>8. ObjectsShaped' /\ ObjectsPlaced'
    <2>1. CASE Len(objects) < Capacity
      BY <1>1, <1>2, <1>4, <1>6, <1>7, <2>1, ObjectAdded
    <2>2. CASE ~(Len(objects) < Capacity)
      BY <1>1, <1>2, <1>6, <2>2, ObjectsStay
    <2> QED
      BY <2>1, <2>2
  <1>9. StaticsShaped' /\ StaticsPlaced' /\ arrays' \subseteq AllArrays'
    BY <1>1, <1>2, <1>6, StaticsStay, ArraysStay
  <1>10. status' \in {"running", "error", "panic", "wild", "stray"}
    BY <1>2 DEF Operation, Returns, Ends
  <1>11. AllKept'
    <2>1. \A b \in DOMAIN blocks' \ DOMAIN blocks : b = p
      BY <1>6
    <2>2. p \notin AllArrays'
      BY <1>4, <1>6 DEF AllArrays
    <2> QED
      BY <1>2, <1>6, <2>1, <2>2, KeptBeside DEF HeapInv
  <1> QED
    BY <1>2, <1>6, <1>7, <1>8, <1>9, <1>10, <1>11, OperationKeeps

LEMMA DestroyObjectKeeps ==
    ASSUME HeapInv, DestroyObject
    PROVE  HeapInv'
  <1>1. Shaped /\ ObjectsPlaced /\ StaticsPlaced /\ arrays \subseteq AllArrays
    BY DEF HeapInv, HeapTypeOK
  <1>2. PICK k \in DOMAIN objects :
            /\ Operation(TRUE) /\ objects' = [objects EXCEPT ![k].live = FALSE]
            /\ Returns(<<>>) /\ UNCHANGED <<blocks, arrays, statics>>
    BY DEF DestroyObject
  <1>3. Grown /\ Len(blocks') \in Nat /\ Len(blocks') <= Len(blocks) + 2
    BY <1>1, <1>2, NothingGrows DEF Shaped
  <1> DEFINE R == [class : Classes, ptr : DOMAIN blocks, live : BOOLEAN]
             o == [objects[k] EXCEPT !.live = FALSE]
  <1>4. objects \in Seq(R)
    BY <1>1 DEF Shaped
  <1>5. \A r \in R : LET q == [r EXCEPT !.live = FALSE]
                     IN  q \in R /\ q.class = r.class /\ q.ptr = r.ptr
    OBVIOUS
  <1> HIDE DEF R
  <1>6. objects[k] \in R
    BY <1>4
  <1>7. o \in R /\ o.class = objects[k].class /\ o.ptr = objects[k].ptr
    BY <1>5, <1>6
  <1>8. objects' = [objects EXCEPT ![k] = o]
    BY <1>2
  <1> HIDE DEF o
  <1>9. objects' \in Seq(R) /\ DOMAIN objects' = DOMAIN objects
    BY <1>4, <1>7, <1>8
  <1>10. ASSUME NEW j \in DOMAIN objects
         PROVE  objects'[j].class = objects[j].class /\ objects'[j].ptr = objects[j].ptr
    BY <1>7, <1>8
  <1>11. ObjectsShaped'
    BY <1>2, <1>9 DEF ObjectsShaped, R
  <1>12. ObjectsPlaced'
    BY <1>1, <1>2, <1>9, <1>10 DEF ObjectsPlaced, Inside
  <1>13. StaticsShaped' /\ StaticsPlaced' /\ arrays' \subseteq AllArrays'
    BY <1>1, <1>2, <1>3, StaticsStay, ArraysStay
  <1>14. status' = "running"
    BY <1>2 DEF Operation, Returns
  <1>15. AllKept'
    BY <1>2, <1>3, KeptBeside DEF HeapInv
  <1> QED
    BY <1>2, <1>3, <1>11, <1>12, <1>13, <1>14, <1>15, OperationKeeps

LEMMA InstanceDef ==
    ASSUME NEW d \in Classes, NEW f \in Instance[d]
    PROVE  f \in Named[d] /\ ~Info(Declaring[d][f], f).static
  BY DEF Instance

\* What a reference a live object is known by refers to.
LEMMA KnownDef ==
    ASSUME Shaped, ObjectsPlaced, NEW ref \in Refs \cup {0}, Known(ref)
    PROVE  /\ Key(ref) + 1 \in DOMAIN objects /\ At(ref) = objects[Key(ref) + 1]
           /\ At(ref).class \in Classes /\ At(ref).ptr \in DOMAIN blocks
           /\ blocks[At(ref).ptr].of = "object" /\ blocks[At(ref).ptr].size = FullSize[At(ref).class]
  <1>1. Len(objects) \in Nat /\ DOMAIN objects = 1..Len(objects)
    BY DEF Shaped
  <1>2. Key(ref) \in Nat /\ Key(ref) < Len(objects)
    BY <1>1 DEF Known, Key, Refs
  <1>3. Key(ref) + 1 \in DOMAIN objects
    BY <1>1, <1>2
  <1> QED
    BY <1>3, ObjectDef DEF At

\* A putfield whose reference is taken to be `to`.
Stores(ref, to, d, f, v) ==
    LET b == At(to).ptr
        here == Known(to) /\ f \in Own(d)
        fits == Inside(blocks[b], Offset[d][f], 8)
    IN  /\ Operation(\/ ref = NoRef \/ v = NoRef \/ TwoOperands(Info(Declaring[d][f], f).fd)
                     \/ ~here \/ ~fits \/ Disturbs(At(to).class, d, f))
        /\ IF ~here THEN Ends("panic") /\ Stay
           ELSE IF ~fits THEN Ends("wild") /\ Stay
           ELSE /\ blocks' = [blocks EXCEPT ![b] = Written(@, Offset[d][f], 8, Key(v))]
                /\ Returns(<<>>) /\ UNCHANGED Tables
StoresIn(ref, d, f) ==
    LET fd == Info(Declaring[d][f], f).fd
        receivers == IF TwoOperands(fd) THEN {ref, 0} ELSE {ref}
    IN  /\ ref # NoRef => Typed(ref, d)
        /\ \E to \in receivers, v \in Storable(fd) : Stores(ref, to, d, f, v)

LEMMA PutFieldKeeps ==
    ASSUME HeapInv, PutField
    PROVE  HeapInv'
  <1>1. Shaped /\ ObjectsPlaced
    BY DEF HeapInv, HeapTypeOK
  <1>2. PICK ref \in Refs : \E d \in Classes : \E f \in Instance[d] : StoresIn(ref, d, f)
    BY DEF PutField, StoresIn, Stores
  <1>2a. PICK to \in Refs \cup {0}, d \in Classes : \E f, v : Stores(ref, to, d, f, v)
    BY <1>2 DEF StoresIn
  <1>3. PICK f, v : Stores(ref, to, d, f, v)
    BY <1>2a
  <1>4. PICK dev : Operation(dev)
    BY <1>3 DEF Stores
  <1> DEFINE fine == Known(to) /\ f \in Own(d) /\ Inside(blocks[At(to).ptr], Offset[d][f], 8)
  <1>5. CASE fine
    <2>1. At(to).ptr \in DOMAIN blocks
      BY <1>1, <1>5, KnownDef
    <2>2. Offset[d][f] \in Int
      BY <1>5, FieldInside
    <2>3. /\ blocks' = [blocks EXCEPT ![At(to).ptr] = Written(@, Offset[d][f], 8, Key(v))]
          /\ status' = "running" /\ UNCHANGED <<objects, statics, arrays>>
      BY <1>3, <1>5 DEF Stores, Operation, Returns, Tables
    <2> QED
      BY <1>4, <2>1, <2>2, <2>3, StoreKeeps
  <1>6. CASE ~fine
    <2>1. status' \in {"panic", "wild"} /\ UNCHANGED <<blocks, objects, statics, arrays>>
      BY <1>3, <1>6 DEF Stores, Ends, Stay, Tables
    <2> QED
      BY <1>4, <2>1, NothingStored
  <1> QED
    BY <1>5, <1>6

LEMMA GetFieldKeeps ==
    ASSUME HeapInv, GetField
    PROVE  HeapInv'
  <1>1. /\ \E dev : Operation(dev)
        /\ Stay /\ \/ \E xs : Returns(xs) 
                   \/ \E how \in {"error", "panic"} : Ends(how)
    BY DEF GetField
  <1>2. PICK dev : Operation(dev)
    BY <1>1
  <1>3. status' \in {"running", "error", "panic"} /\ UNCHANGED <<blocks, objects, statics, arrays>>
    BY <1>1 DEF Operation, Returns, Ends, Stay, Tables
  <1> QED
    BY <1>2, <1>3, NothingStored

LEMMA StaticDef ==
    ASSUME NEW r \in StaticRefs
    PROVE  /\ r = <<r[1], r[2]>> /\ r[1] \in Classes /\ r[2] \in Named[r[1]]
           /\ SizeOf(StaticFd(r)) \in 1..8 /\ Declaring[r[1]][r[2]] \in Classes
           /\ StaticFd(r).dims \in Nat /\ StaticFd(r).elem \in Base \cup {"L"}
  <1>1. PICK d \in Classes : \E f \in {g \in Named[d] : Info(Declaring[d][g], g).static} : r = <<d, f>>
    BY DEF StaticRefs
  <1>2. PICK f \in Named[d] : r = <<d, f>>
    BY <1>1
  <1>3. Declaring[d][f] \in Classes /\ f \in Own(Declaring[d][f])
    BY DeclaringDef
  <1>4. /\ Width(Declaring[d][f], f) \in 1..8
        /\ Info(Declaring[d][f], f).fd.dims \in Nat
        /\ Info(Declaring[d][f], f).fd.elem \in Base \cup {"L"}
    BY <1>3, PositionDef
  <1>5. r[1] = d /\ r[2] = f
    BY <1>2
  <1> QED
    BY <1>2, <1>3, <1>4, <1>5 DEF StaticFd, Width

Assigns(r, w) ==
    LET size == SizeOf(StaticFd(r))
        b == IF r \in DOMAIN statics THEN statics[r] ELSE Len(blocks) + 1
    IN  /\ Operation(Elsewhere(r) \/ w = NoRef \/ TwoOperands(StaticFd(r)))
        /\ blocks' = IF r \in DOMAIN statics
                     THEN [blocks EXCEPT ![b] = Written(@, 0, size, Key(w))]
                     ELSE Append(blocks, Written(Block("static", size, 0), 0, size, Key(w)))
        /\ statics' = [k \in DOMAIN statics \cup {r} |-> IF k = r THEN b ELSE statics[k]]
        /\ Returns(<<>>) /\ UNCHANGED <<objects, arrays>>

LEMMA PutStaticKeeps ==
    ASSUME HeapInv, PutStatic
    PROVE  HeapInv'
  <1>1. Shaped /\ ObjectsPlaced /\ StaticsPlaced /\ arrays \subseteq AllArrays
    BY DEF HeapInv, HeapTypeOK
  <1>30. PICK r \in StaticRefs : \E w \in Storable(StaticFd(r)) : Assigns(r, w)
    BY DEF PutStatic, Assigns
  <1>0. PICK w \in Storable(StaticFd(r)) : Assigns(r, w)
    BY <1>30
  <1>2. PICK v, dev :
            LET size == SizeOf(StaticFd(r))
                b == IF r \in DOMAIN statics THEN statics[r] ELSE Len(blocks) + 1
            IN  /\ Operation(dev) /\ v = Key(w)
                /\ dev = (Elsewhere(r) \/ w = NoRef \/ TwoOperands(StaticFd(r)))
                /\ blocks' = IF r \in DOMAIN statics THEN [blocks EXCEPT ![b] = Written(@, 0, size, v)]
                             ELSE Append(blocks, Written(Block("static", size, 0), 0, size, v))
                /\ statics' = [k \in DOMAIN statics \cup {r} |-> IF k = r THEN b ELSE statics[k]]
                /\ Returns(<<>>) /\ UNCHANGED <<objects, arrays>>
    BY <1>0 DEF Assigns
  <1> DEFINE size == SizeOf(StaticFd(r))
  <1>3. size \in 1..8
    BY StaticDef
  <1>7. Operation(dev)
    BY <1>2
  <1>4. status' = "running"
    BY <1>2 DEF Operation, Returns
  <1> HIDE DEF size
  <1>5. CASE r \in DOMAIN statics
    <2> DEFINE x == Written(blocks[statics[r]], 0, size, v)
    <2>1. statics[r] \in DOMAIN blocks /\ BlockOK(blocks[statics[r]])
      BY <1>1, <1>5 DEF Shaped
    <2>2. BlockOK(x) /\ Same(x, blocks[statics[r]])
      BY <1>3, <2>1, WrittenDef
    <2>3. blocks' = [blocks EXCEPT ![statics[r]] = x]
      BY <1>2, <1>5 DEF size
    <2> HIDE DEF x
    <2>4. Grown /\ DOMAIN blocks' = DOMAIN blocks /\ Len(blocks') = Len(blocks) /\ Len(blocks) \in Nat
      <3>1. Len(blocks) \in Nat
        BY <1>1 DEF Shaped
      <3>2. Grown /\ DOMAIN blocks' = DOMAIN blocks /\ Len(blocks') = Len(blocks)
        BY <1>1, <2>1, <2>2, <2>3, StoreGrows
      <3> QED
        BY <3>1, <3>2
    <2>5. DOMAIN statics' = DOMAIN statics /\ \A k \in DOMAIN statics : statics'[k] = statics[k]
      BY <1>2, <1>5
    <2>6. StaticsShaped'
      BY <1>1, <2>4, <2>5 DEF Shaped, Grown, StaticsShaped
    <2>7. \A k \in DOMAIN statics : Same(blocks'[statics[k]], blocks[statics[k]])
      BY <1>1, <2>4 DEF Shaped, Grown
    <2>8. StaticsPlaced'
      BY <1>1, <2>5, <2>7 DEF StaticsPlaced, Same
    <2>9. ObjectsShaped' /\ ObjectsPlaced' /\ arrays' \subseteq AllArrays'
      BY <1>1, <1>2, <2>4, ObjectsStay, ArraysStay
    <2>10. Len(blocks') \in Nat /\ Len(blocks') <= Len(blocks) + 2
      BY <2>4
    <2>11. AllKept'
      BY <1>2, <2>4, KeptBeside DEF HeapInv
    <2> QED
      BY <1>4, <1>7, <2>4, <2>6, <2>8, <2>9, <2>10, <2>11, OperationKeeps
  <1>6. CASE r \notin DOMAIN statics
    <2> DEFINE x == Written(Block("static", size, 0), 0, size, v)
               p == Len(blocks) + 1
    <2>1. BlockOK(x) /\ x.of = "static" /\ x.size = size /\ x.freed = <<>>
      <3> DEFINE b == Block("static", size, 0)
      <3>1. BlockOK(b) /\ b.of = "static" /\ b.size = size /\ b.freed = <<>>
        <4>1. size \in Nat
          BY <1>3
        <4> QED
          BY <4>1, BlockDef
      <3>2. BlockOK(x) /\ Same(x, Block("static", size, 0))
        BY <1>3, <3>1, WrittenDef
      <3> QED
        BY <3>1, <3>2 DEF Same
    <2>2. blocks' = Append(blocks, x)
      BY <1>2, <1>6 DEF size
    <2> HIDE DEF x
    <2>3. /\ Grown /\ Len(blocks') = Len(blocks) + 1 /\ Len(blocks) \in Nat
          /\ DOMAIN blocks = 1..Len(blocks) /\ DOMAIN blocks' = 1..Len(blocks) + 1 /\ blocks'[p] = x
      BY <1>1, <2>1, <2>2, AppendGrows
    <2>4. p \in DOMAIN blocks' \ DOMAIN blocks /\ Len(blocks') \in Nat /\ Len(blocks') <= Len(blocks) + 2
      BY <2>3
    <2>5. statics' = [k \in DOMAIN statics \cup {r} |-> IF k = r THEN p ELSE statics[k]]
      BY <1>2, <1>6
    <2>6. ASSUME NEW k \in DOMAIN statics
          PROVE  statics'[k] = statics[k] /\ statics[k] \in DOMAIN blocks
      BY <1>1, <1>6, <2>5 DEF Shaped
    <2>7. statics'[r] = p /\ DOMAIN statics' = DOMAIN statics \cup {r}
      BY <2>5
    <2>8. StaticsShaped'
      BY <1>1, <2>3, <2>4, <2>6, <2>7 DEF Shaped, Grown, StaticsShaped
    <2>9. \A k \in DOMAIN statics : Same(blocks'[statics[k]], blocks[statics[k]])
      BY <2>3, <2>6 DEF Grown
    <2>10. \A k \in DOMAIN statics : statics'[k] # p
      BY <2>4, <2>6
    <2>11. StaticsPlaced'
      BY <1>1, <2>1, <2>3, <2>6, <2>7, <2>9, <2>10 DEF StaticsPlaced, Same, size
    <2>12. ObjectsShaped' /\ ObjectsPlaced' /\ arrays' \subseteq AllArrays'
      BY <1>1, <1>2, <2>3, ObjectsStay, ArraysStay
    <2>13. AllKept'
      <3>1. \A b \in DOMAIN blocks' \ DOMAIN blocks : b = p
        BY <2>3
      <3>2. p \notin AllArrays'
        BY <2>1, <2>3 DEF AllArrays
      <3> QED
        BY <1>2, <2>3, <3>1, <3>2, KeptBeside DEF HeapInv
    <2> QED
      BY <1>4, <1>7, <2>3, <2>4, <2>8, <2>11, <2>12, <2>13, OperationKeeps
  <1> QED
    BY <1>5, <1>6

\* The operations that read.
LEMMA ReadsKeep ==
    ASSUME HeapInv, GetStatic \/ CharLoad \/ ArrayLength \/ OtherLoad \/ PrintString
    PROVE  HeapInv'
  <1>1. /\ \E dev : Operation(dev)
        /\ Stay /\ \/ \E xs : Returns(xs)
                   \/ \E how \in {"wild", "panic"} : Ends(how)
    <2>1. CASE GetStatic
      BY <2>1 DEF GetStatic
    <2>2. CASE CharLoad
      BY <2>2 DEF CharLoad
    <2>3. CASE ArrayLength
      BY <2>3 DEF ArrayLength
    <2>4. CASE OtherLoad
      BY <2>4 DEF OtherLoad
    <2>5. CASE PrintString
      BY <2>5 DEF PrintString
    <2> QED
      BY <2>1, <2>2, <2>3, <2>4, <2>5
  <1>2. PICK dev : Operation(dev)
    BY <1>1
  <1>3. status' \in {"running", "wild", "panic"} /\ UNCHANGED <<blocks, objects, statics, arrays>>
    BY <1>1 DEF Operation, Returns, Ends, Stay, Tables
  <1> QED
    BY <1>2, <1>3, NothingStored

LEMMA ElementSizeDef ==
    ASSUME NEW t \in 4..11
    PROVE  ElementSize[t] \in 1..8 /\ (t = 5 => ElementSize[t] = 2)
  BY DEF ElementSize

LEMMA RegisteredDef ==
    ASSUME Grown, arrays \subseteq AllArrays, NEW b \in AllArrays'
    PROVE  Registered(b) \subseteq AllArrays'
  BY ArraysStay DEF Registered

LEMMA NewArrayKeeps ==
    ASSUME HeapInv, NewArray
    PROVE  HeapInv'
  <1>1. Shaped /\ ObjectsPlaced /\ StaticsPlaced /\ arrays \subseteq AllArrays
    BY DEF HeapInv, HeapTypeOK
  <1>2. PICK t \in 4..11, n \in Lengths :
            LET size == ElementSize[t] * n
                b == Len(blocks) + 1
            IN  /\ Operation(n < 0 \/ size > MaxSize)
                /\ IF n < 0 THEN Ends("panic") /\ Stay
                   ELSE /\ blocks' = Append(blocks, Block(IF t = 5 THEN "chars" ELSE "array", size, n))
                        /\ UNCHANGED <<objects, statics>>
                        /\ IF size > MaxSize THEN Ends("panic") /\ arrays' = arrays
                           ELSE Returns(<<b>>) /\ arrays' = Registered(b)
    BY DEF NewArray
  <1> DEFINE size == ElementSize[t] * n
             of == IF t = 5 THEN "chars" ELSE "array"
             x == Block(of, size, n)
             p == Len(blocks) + 1
  <1>3. n \in Int /\ MaxSize \in Nat
    BY ValuesAssumption, BoundsAssumption
  <1>4. PICK dev : Operation(dev)
    BY <1>2
  <1>5. CASE n < 0
    <2>1. status' = "panic" /\ UNCHANGED <<blocks, objects, statics, arrays>>
      BY <1>2, <1>5 DEF Ends, Stay, Tables
    <2> QED
      BY <1>4, <2>1, NothingStored
  <1>6. CASE ~(n < 0)
    <2>1. n \in Nat /\ size \in Nat /\ (t = 5 => size = 2 * n)
      BY <1>3, <1>6, ElementSizeDef
    <2> HIDE DEF size
    <2>2. of \in {"chars", "array"} /\ (of = "chars" => size = 2 * n)
      BY <2>1
    <2> HIDE DEF of
    <2>3. BlockOK(x) /\ x.of \in {"chars", "array"} /\ x.size = size /\ x.freed = <<>>
      BY <2>1, <2>2, BlockDef
    <2>4. blocks' = Append(blocks, x) /\ UNCHANGED <<objects, statics>>
      BY <1>2, <1>6 DEF size, of
    <2> HIDE DEF x
    <2>5. /\ Grown /\ Len(blocks') = Len(blocks) + 1 /\ Len(blocks) \in Nat
          /\ DOMAIN blocks = 1..Len(blocks) /\ DOMAIN blocks' = 1..Len(blocks) + 1 /\ blocks'[p] = x
      BY <1>1, <2>3, <2>4, AppendGrows
    <2>6. p \in DOMAIN blocks' /\ Len(blocks') \in Nat /\ Len(blocks') <= Len(blocks) + 2
      BY <2>5
    <2>7. arrays' \subseteq AllArrays'
      <3>1. CASE size > MaxSize
        BY <1>1, <1>2, <1>6, <2>5, <3>1, ArraysStay DEF size
      <3>2. CASE ~(size > MaxSize)
        <4>1. size <= MaxSize
          BY <1>3, <2>1, <3>2
        <4>2. p \in AllArrays'
          BY <2>3, <2>5, <2>6, <4>1 DEF AllArrays
        <4>3. arrays' = Registered(p)
          BY <1>2, <1>6, <3>2 DEF size
        <4> QED
          BY <1>1, <2>5, <4>2, <4>3, RegisteredDef
      <3> QED
        BY <3>1, <3>2
    <2>8. ObjectsShaped' /\ ObjectsPlaced' /\ StaticsShaped' /\ StaticsPlaced'
      BY <1>1, <2>4, <2>5, ObjectsStay, StaticsStay
    <2>9. status' \in {"running", "panic"}
      BY <1>2, <1>6 DEF Operation, Returns, Ends
    <2>10. AllKept'
      <3>1. \A b \in DOMAIN blocks' \ DOMAIN blocks : b = p
        BY <2>5
      <3>2. CASE size > MaxSize
        <4>1. ~(x.size <= MaxSize) /\ UNCHANGED arrays
          BY <1>2, <1>3, <1>6, <2>1, <2>3, <3>2 DEF size
        <4>2. p \notin AllArrays'
          BY <2>5, <4>1 DEF AllArrays
        <4> QED
          BY <2>5, <3>1, <4>1, <4>2, KeptBeside DEF HeapInv
      <3>3. CASE ~(size > MaxSize)
        <4>1. arrays' = Registered(p)
          BY <1>2, <1>6, <3>3 DEF size
        <4> QED
          BY <2>5, <3>1, <4>1, KeptWith DEF HeapInv
      <3> QED
        BY <3>2, <3>3
    <2> QED
      BY <1>4, <2>5, <2>6, <2>7, <2>8, <2>9, <2>10, OperationKeeps
  <1> QED
    BY <1>5, <1>6

LEMMA CharStoreKeeps ==
    ASSUME HeapInv, CharStore
    PROVE  HeapInv'
  <1>1. PICK a \in CharArrays, i \in -1..2 * MaxSize, v \in Values :
            LET b == blocks[a]
            IN  /\ Operation(i \notin 0..b.length - 1)
                /\ IF i < 0 \/ i >= b.size THEN Ends("panic") /\ Stay
                   ELSE IF ~Inside(b, Element(i), 2) THEN Ends("stray") /\ Stay
                   ELSE /\ blocks' = [blocks EXCEPT ![a] = Written(@, Element(i), 2, v)]
                        /\ Returns(<<>>) /\ UNCHANGED Tables
    BY DEF CharStore
  <1>2. PICK dev : Operation(dev)
    BY <1>1
  <1>3. a \in DOMAIN blocks /\ Element(i) \in Int
    BY DEF CharArrays, AllArrays, Element
  <1>4. CASE (i < 0 \/ i >= blocks[a].size) \/ ~Inside(blocks[a], Element(i), 2)
    <2>1. status' \in {"panic", "stray"} /\ UNCHANGED <<blocks, objects, statics, arrays>>
      BY <1>1, <1>4 DEF Ends, Stay, Tables
    <2> QED
      BY <1>2, <2>1, NothingStored
  <1>5. CASE ~((i < 0 \/ i >= blocks[a].size) \/ ~Inside(blocks[a], Element(i), 2))
    <2>1. /\ blocks' = [blocks EXCEPT ![a] = Written(@, Element(i), 2, v)]
          /\ status' = "running" /\ UNCHANGED <<objects, statics, arrays>>
      BY <1>1, <1>5 DEF Operation, Returns, Tables
    <2> QED
      BY <1>2, <1>3, <2>1, StoreKeeps
  <1> QED
    BY <1>4, <1>5

LEMMA AppendTwoGrows ==
    ASSUME Shaped, NEW x, NEW y, BlockOK(x), x.freed = <<>>, BlockOK(y), y.freed = <<>>,
           blocks' = blocks \o <<x, y>>
    PROVE  /\ Grown /\ Len(blocks') = Len(blocks) + 2 /\ Len(blocks) \in Nat
           /\ DOMAIN blocks = 1..Len(blocks) /\ DOMAIN blocks' = 1..Len(blocks) + 2
           /\ blocks'[Len(blocks) + 1] = x /\ blocks'[Len(blocks) + 2] = y
           /\ \A b \in DOMAIN blocks : blocks'[b] = blocks[b]
  <1> DEFINE S == ToSet(blocks) \cup {x, y}
  <1>1. blocks \in Seq(S) /\ x \in S /\ y \in S
    <2>1. blocks \in Seq(ToSet(blocks))
      BY DEF Shaped
    <2> HIDE DEF ToSet
    <2> QED
      BY <2>1
  <1> HIDE DEF S
  <1>2. /\ blocks' \in Seq(S) /\ Len(blocks') = Len(blocks) + 2 /\ Len(blocks) \in Nat
        /\ DOMAIN blocks = 1..Len(blocks) /\ DOMAIN blocks' = 1..Len(blocks) + 2
    BY <1>1
  <1>3. /\ blocks'[Len(blocks) + 1] = x /\ blocks'[Len(blocks) + 2] = y
        /\ \A b \in DOMAIN blocks : blocks'[b] = blocks[b]
    BY <1>1
  <1>4. blocks' \in Seq(ToSet(blocks'))
    BY <1>2, InSequence
  <1>5. DOMAIN blocks' = DOMAIN blocks \cup {Len(blocks) + 1, Len(blocks) + 2}
    BY <1>2
  <1>6. \A b \in DOMAIN blocks' : BlockOK(blocks'[b])
    BY <1>3, <1>5 DEF Shaped
  <1> QED
    BY <1>2, <1>3, <1>4, <1>5, <1>6 DEF Grown, Same

\* The field that refers to the characters is an own one, 8 bytes wide.
LEMMA TextDef ==
    /\ Text \in Classes /\ Chars \in Own(Text) /\ <<Text, Chars>> \in Slots[Text]
    /\ Width(Text, Chars) = 8 /\ Offset[Text][Chars] \in Nat /\ FullSize[Text] \in Nat
    /\ Offset[Text][Chars] + 8 <= FullSize[Text]
  <1>1. Text \in Classes /\ Chars \in Own(Text) /\ Width(Text, Chars) = 8
    <2>1. Text \in Classes /\ Chars \in Own(Text) /\ Info(Text, Chars).fd.dims > 0
      BY HierarchyAssumption, TextAssumption
    <2>2. SizeOf(Info(Text, Chars).fd) = 8
      <3> DEFINE fd == Info(Text, Chars).fd
      <3>1. fd.dims > 0
        BY <2>1
      <3> HIDE DEF fd
      <3>2. SizeOf(fd) = 8
        BY ONLY <3>1, Zenon DEF SizeOf
      <3> QED
        BY ONLY <3>2, Zenon DEF fd
    <2> QED
      BY <2>1, <2>2 DEF Width
  <1>2. Text \in Chain[Text]
    BY <1>1, ChainDef
  <1>3. <<Text, Chars>> \in Slots[Text]
    BY <1>1, <1>2, TextAssumption DEF Slots
  <1>4. <<Text, Chars>>[1] = Text /\ <<Text, Chars>>[2] = Chars
    OBVIOUS
  <1> QED
    BY <1>1, <1>3, <1>4, SlotInside

\* The object and the array that create_string makes of a text.
TextBlock(ptr) == Written(AllocateClass(Text), Offset[Text][Chars], 8, ptr)
CharsBlock(text) ==
    [Block("chars", 2 * Len(text), Len(text)) EXCEPT
        !.bytes = [p \in DOMAIN @ |-> <<text[p \div 2 + 1], p % 2>>]]

LEMMA TextBlockDef ==
    ASSUME NEW ptr
    PROVE  /\ BlockOK(TextBlock(ptr)) /\ TextBlock(ptr).of = "object"
           /\ TextBlock(ptr).size = FullSize[Text] /\ TextBlock(ptr).freed = <<>>
           /\ \A i \in 0..FullSize[Text] - 1 :
                TextBlock(ptr).bytes[i] =
                    IF i \in Offset[Text][Chars]..Offset[Text][Chars] + 7
                    THEN <<ptr, i - Offset[Text][Chars]>> ELSE <<>>
  <1> DEFINE b == AllocateClass(Text)
             off == Offset[Text][Chars]
  <1>1. off \in Nat /\ FullSize[Text] \in Nat
    BY TextDef
  <1>2. /\ BlockOK(b) /\ b.of = "object" /\ b.size = FullSize[Text] /\ b.freed = <<>>
        /\ \A i \in 0..FullSize[Text] - 1 : b.bytes[i] = <<>>
    BY <1>1, BlockDef DEF AllocateClass
  <1> HIDE DEF b, off
  <1>3. /\ BlockOK(Written(b, off, 8, ptr)) /\ Same(Written(b, off, 8, ptr), b)
        /\ \A i \in 0..b.size - 1 :
             Written(b, off, 8, ptr).bytes[i] =
                IF i \in off..off + 8 - 1 THEN <<ptr, i - off>> ELSE b.bytes[i]
    BY <1>1, <1>2, WrittenDef
  <1>4. off + 8 - 1 = off + 7
    BY <1>1
  <1>5. TextBlock(ptr) = Written(b, off, 8, ptr)
    BY DEF TextBlock, b, off
  <1>6. \A i \in 0..FullSize[Text] - 1 :
            TextBlock(ptr).bytes[i] = IF i \in off..off + 7 THEN <<ptr, i - off>> ELSE <<>>
    BY <1>2, <1>3, <1>4, <1>5
  <1> QED
    BY <1>2, <1>3, <1>5, <1>6 DEF Same, off

LEMMA CharsBlockDef ==
    ASSUME NEW text \in Literals
    PROVE  LET b == CharsBlock(text)
           IN  /\ Len(text) \in Nat /\ BlockOK(b) /\ b.of = "chars" /\ b.size = 2 * Len(text)
               /\ b.length = Len(text) /\ b.freed = <<>> /\ b.size <= MaxSize
               /\ \A p \in 0..2 * Len(text) - 1 : b.bytes[p] = <<text[p \div 2 + 1], p % 2>>
  <1> DEFINE n == Len(text)
             b == Block("chars", 2 * n, n)
             bytes == [p \in DOMAIN b.bytes |-> <<text[p \div 2 + 1], p % 2>>]
             c == CharsBlock(text)
  <1>1. n \in Nat /\ 2 * n <= MaxSize
    <2>1. text \in Seq(Char16) /\ 2 * Len(text) <= MaxSize
      BY LiteralsAssumption, Zenon
    <2>2. \A S, t : t \in Seq(S) => Len(t) \in Nat
      OBVIOUS
    <2> QED
      BY <2>1, <2>2, Zenon
  <1>2. BlockOK(b) /\ b.of = "chars" /\ b.size = 2 * n /\ b.length = n /\ b.freed = <<>>
    BY <1>1, BlockDef
  <1>3. DOMAIN b.bytes = 0..2 * n - 1
    BY <1>2 DEF BlockOK
  <1>4. c = [b EXCEPT !.bytes = bytes]
    BY DEF CharsBlock
  <1>5. bytes = [p \in 0..b.size - 1 |-> bytes[p]]
    BY <1>2, <1>3
  <1>6. \A p \in 0..2 * n - 1 : bytes[p] = <<text[p \div 2 + 1], p % 2>>
    BY <1>3
  <1> HIDE DEF b, bytes, c, n
  <1>7. BlockOK(c) /\ Same(c, b) /\ c.bytes = bytes
    BY <1>2, <1>4, <1>5, BytesStored
  <1> QED
    BY <1>1, <1>2, <1>6, <1>7 DEF Same, c, n

LEMMA CreateStringDef ==
    ASSUME CreateString
    PROVE  \E text \in Literals :
            LET ptr == Len(blocks) + 2
            IN  /\ Operation(Len(objects) = Capacity) /\ statics' = statics
                /\ IF Len(objects) = Capacity
                   THEN blocks' = Append(blocks, AllocateClass(Text)) /\ Ends("error")
                        /\ UNCHANGED <<objects, arrays>>
                   ELSE /\ blocks' = blocks \o <<TextBlock(ptr), CharsBlock(text)>>
                        /\ objects' = Append(objects, [class |-> Text, ptr |-> ptr - 1, live |-> TRUE])
                        /\ arrays' = Registered(ptr)
                        /\ Returns(<<Len(objects)>>)
  BY DEF CreateString, TextBlock, CharsBlock

LEMMA CreateStringKeeps ==
    ASSUME HeapInv, CreateString
    PROVE  HeapInv'
  <1>1. Shaped /\ ObjectsPlaced /\ StaticsPlaced /\ arrays \subseteq AllArrays
    BY DEF HeapInv, HeapTypeOK
  <1> DEFINE ptr == Len(blocks) + 2
  <1>2. PICK text \in Literals :
            /\ Operation(Len(objects) = Capacity) /\ statics' = statics
            /\ IF Len(objects) = Capacity
               THEN blocks' = Append(blocks, AllocateClass(Text)) /\ Ends("error")
                    /\ UNCHANGED <<objects, arrays>>
               ELSE /\ blocks' = blocks \o <<TextBlock(ptr), CharsBlock(text)>>
                    /\ objects' = Append(objects, [class |-> Text, ptr |-> ptr - 1, live |-> TRUE])
                    /\ arrays' = Registered(ptr)
                    /\ Returns(<<Len(objects)>>)
    BY CreateStringDef
  <1>3. PICK dev : Operation(dev)
    BY <1>2
  <1>4. CASE Len(objects) = Capacity
    <2> DEFINE x == AllocateClass(Text)
    <2>1. BlockOK(x) /\ x.of = "object" /\ x.freed = <<>>
      BY TextDef, BlockDef DEF AllocateClass
    <2>2. blocks' = Append(blocks, x) /\ status' = "error" /\ UNCHANGED <<objects, statics, arrays>>
      BY <1>2, <1>4 DEF Ends
    <2> HIDE DEF x
    <2>3. /\ Grown /\ Len(blocks') = Len(blocks) + 1 /\ Len(blocks) \in Nat
          /\ DOMAIN blocks = 1..Len(blocks) /\ DOMAIN blocks' = 1..Len(blocks) + 1
          /\ blocks'[Len(blocks) + 1] = x
      BY <1>1, <2>1, <2>2, AppendGrows
    <2>4. Len(blocks') \in Nat /\ Len(blocks') <= Len(blocks) + 2
      BY <2>3
    <2>5. ObjectsShaped' /\ ObjectsPlaced' /\ StaticsShaped' /\ StaticsPlaced' /\ arrays' \subseteq AllArrays'
      BY <1>1, <2>2, <2>3, ObjectsStay, StaticsStay, ArraysStay
    <2>6. AllKept'
      <3>1. \A b \in DOMAIN blocks' \ DOMAIN blocks : b = Len(blocks) + 1
        BY <2>3
      <3>2. Len(blocks) + 1 \notin AllArrays'
        BY <2>1, <2>3 DEF AllArrays
      <3> QED
        BY <2>2, <2>3, <3>1, <3>2, KeptBeside DEF HeapInv
    <2> QED
      BY <1>3, <2>2, <2>3, <2>4, <2>5, <2>6, OperationKeeps
  <1>5. CASE Len(objects) # Capacity
    <2> DEFINE x == TextBlock(ptr)
               y == CharsBlock(text)
               p == Len(blocks) + 1
    <2>1. BlockOK(x) /\ x.of = "object" /\ x.size = FullSize[Text] /\ x.freed = <<>>
      BY TextBlockDef
    <2>2. BlockOK(y) /\ y.of = "chars" /\ y.size <= MaxSize /\ y.freed = <<>>
      BY CharsBlockDef
    <2>3. /\ blocks' = blocks \o <<x, y>> /\ status' = "running" /\ UNCHANGED statics
          /\ objects' = Append(objects, [class |-> Text, ptr |-> ptr - 1, live |-> TRUE])
          /\ arrays' = Registered(ptr)
      BY <1>2, <1>5 DEF Operation, Returns
    <2> HIDE DEF x, y
    <2>4. /\ Grown /\ Len(blocks') = Len(blocks) + 2 /\ Len(blocks) \in Nat
          /\ DOMAIN blocks = 1..Len(blocks) /\ DOMAIN blocks' = 1..Len(blocks) + 2
          /\ blocks'[Len(blocks) + 1] = x /\ blocks'[Len(blocks) + 2] = y
      BY <1>1, <2>1, <2>2, <2>3, AppendTwoGrows
    <2>5. /\ ptr - 1 = p /\ p \in DOMAIN blocks' \ DOMAIN blocks /\ ptr \in DOMAIN blocks'
          /\ Len(blocks') \in Nat /\ Len(blocks') <= Len(blocks) + 2
      BY <2>4
    <2>6. ptr \in AllArrays'
      BY <2>2, <2>4, <2>5 DEF AllArrays
    <2>7. arrays' \subseteq AllArrays'
      BY <1>1, <2>3, <2>4, <2>6, RegisteredDef
    <2>8. objects' = Append(objects, [class |-> Text, ptr |-> p, live |-> TRUE])
      BY <2>3, <2>5
    <2>9. ObjectsShaped' /\ ObjectsPlaced'
      BY <1>1, <2>1, <2>4, <2>5, <2>8, TextDef, ObjectAdded
    <2>10. StaticsShaped' /\ StaticsPlaced'
      BY <1>1, <2>3, <2>4, StaticsStay
    <2>11. AllKept'
      <3>1. \A b \in DOMAIN blocks' \ DOMAIN blocks : b = p \/ b = ptr
        BY <2>4
      <3>2. p \notin AllArrays'
        BY <2>1, <2>4 DEF AllArrays
      <3> QED
        BY <2>3, <2>4, <3>1, <3>2, KeptWith DEF HeapInv
    <2> QED
      BY <1>3, <2>3, <2>4, <2>5, <2>7, <2>9, <2>10, <2>11, OperationKeeps
  <1> QED
    BY <1>4, <1>5

\* When the heap is dropped every block of the slabs is given back with the
\* size it was allocated with.
LEMMA DropKeeps ==
    ASSUME HeapInv, Drop
    PROVE  HeapInv'
  <1>1. Shaped /\ ObjectsPlaced /\ StaticsPlaced /\ arrays \subseteq AllArrays
    BY DEF HeapInv, HeapTypeOK
  <1> DEFINE ptrs == {objects[k].ptr : k \in {j \in DOMAIN objects : objects[j].live}}
             class(p) == objects[CHOOSE k \in DOMAIN objects : objects[k].ptr = p].class
             back(b) == IF b \in arrays THEN <<FullArray(blocks[b])>>
                        ELSE IF b \in ptrs THEN <<FullSize[class(b)]>> ELSE <<>>
  <1>2. /\ status # "dropped" /\ status' = "dropped" /\ UNCHANGED <<objects, arrays, statics, steps>>
        /\ blocks' = [b \in DOMAIN blocks |->
               IF b \in arrays THEN [blocks[b] EXCEPT !.freed = Append(@, FullArray(blocks[b]))]
               ELSE IF b \in ptrs THEN [blocks[b] EXCEPT !.freed = Append(@, FullSize[class(b)])]
               ELSE blocks[b]]
    BY DEF Drop
  <1>3. \A b \in DOMAIN blocks : blocks[b].freed = <<>>
    BY <1>2 DEF HeapInv, Unreleased
  <1>4. \A x : Append(<<>>, x) = <<x>>
    OBVIOUS
  <1>5. ASSUME NEW b \in DOMAIN blocks
        PROVE  blocks'[b] = [blocks[b] EXCEPT !.freed = back(b)]
    <2>1. blocks[b] = [blocks[b] EXCEPT !.freed = <<>>]
      <3>1. BlockOK(blocks[b]) /\ blocks[b].freed = <<>>
        BY <1>1, <1>3 DEF Shaped
      <3> QED
        BY <3>1 DEF BlockOK
    <2>2. CASE b \in arrays
      BY <1>2, <1>3, <1>4, <2>2
    <2>3. CASE b \notin arrays /\ b \in ptrs
      BY <1>2, <1>3, <1>4, <2>3
    <2>4. CASE b \notin arrays /\ b \notin ptrs
      BY <1>2, <2>1, <2>4
    <2> QED
      BY <2>2, <2>3, <2>4
  <1> HIDE DEF back
  <1>6. ASSUME NEW b \in DOMAIN blocks
        PROVE  /\ BlockOK(blocks'[b]) /\ blocks'[b].of = blocks[b].of /\ blocks'[b].size = blocks[b].size
               /\ blocks'[b].length = blocks[b].length /\ blocks'[b].freed = back(b)
    <2>1. BlockOK(blocks[b]) /\ blocks'[b] = [blocks[b] EXCEPT !.freed = back(b)]
      BY <1>1, <1>5 DEF Shaped
    <2> QED
      BY <2>1 DEF BlockOK
  <1>7. DOMAIN blocks' = DOMAIN blocks /\ Len(blocks) \in Nat /\ DOMAIN blocks = 1..Len(blocks)
    <2>1. Len(blocks) \in Nat /\ DOMAIN blocks = 1..Len(blocks)
      BY <1>1 DEF Shaped
    <2> QED
      BY <1>2, <2>1
  <1>8. blocks' \in Seq(ToSet(blocks')) /\ Len(blocks') = Len(blocks)
    <2>1. blocks' = [b \in 1..Len(blocks) |-> blocks'[b]]
      BY <1>2, <1>7
    <2>2. \A b \in 1..Len(blocks) : blocks'[b] \in ToSet(blocks')
      BY <1>7 DEF ToSet
    <2> HIDE DEF ToSet
    <2>3. blocks' \in [1..Len(blocks) -> ToSet(blocks')]
      BY <2>1, <2>2
    <2> QED
      BY <1>7, <2>3
  <1>9. Shaped'
    <2>1. objects' \in Seq([class : Classes, ptr : DOMAIN blocks', live : BOOLEAN])
      BY <1>1, <1>2, <1>7 DEF Shaped
    <2>2. steps' \in 0..Fuel /\ Len(blocks') <= 2 * steps'
      BY <1>1, <1>2, <1>8 DEF Shaped
    <2>3. DOMAIN statics' \subseteq StaticRefs /\ \A r \in DOMAIN statics' : statics'[r] \in DOMAIN blocks'
      BY <1>1, <1>2, <1>7 DEF Shaped
    <2>4. \A b \in DOMAIN blocks' : BlockOK(blocks'[b])
      BY <1>6, <1>7
    <2> QED
      BY <1>8, <2>1, <2>2, <2>3, <2>4 DEF Shaped
  <1>10. HeapTypeOK'
    <2>1. ObjectsPlaced'
      <3>1. \A k \in DOMAIN objects : objects[k].ptr \in DOMAIN blocks
        BY <1>1, ObjectDef
      <3> QED
        BY <1>1, <1>2, <1>6, <3>1 DEF ObjectsPlaced, Inside
    <2>2. StaticsPlaced'
      <3>1. \A r \in DOMAIN statics : statics[r] \in DOMAIN blocks
        BY <1>1 DEF Shaped
      <3> QED
        BY <1>1, <1>2, <1>6, <3>1 DEF StaticsPlaced
    <2>3. arrays' \subseteq AllArrays'
      BY <1>1, <1>2, <1>6, <1>7 DEF AllArrays
    <2> QED
      BY <1>2, <2>1, <2>2, <2>3 DEF HeapTypeOK
  <1>11. ptrs \subseteq DOMAIN blocks /\ arrays \subseteq DOMAIN blocks
    BY <1>1, ObjectDef DEF AllArrays
  <1>12. ASSUME NEW b \in ptrs
         PROVE  blocks[b].of = "object" /\ blocks[b].size = FullSize[class(b)]
    <2>1. \E k \in DOMAIN objects : objects[k].ptr = b
      OBVIOUS
    <2> DEFINE k == CHOOSE k \in DOMAIN objects : objects[k].ptr = b
    <2>2. k \in DOMAIN objects /\ objects[k].ptr = b
      BY <2>1
    <2> HIDE DEF k
    <2>3. blocks[b].of = "object" /\ blocks[b].size = FullSize[objects[k].class]
      BY <1>1, <2>2, ObjectDef
    <2> QED
      BY <2>3 DEF k
  <1>13. \A b \in arrays : blocks[b].of # "object"
    BY <1>1 DEF AllArrays
  <1>14. ASSUME NEW b \in DOMAIN blocks, back(b) # <<>>
         PROVE  back(b) = <<blocks[b].size + (IF blocks[b].of = "object" THEN 0 ELSE Header)>>
    <2>1. blocks[b].size \in Nat
      BY <1>1 DEF Shaped, BlockOK
    <2>2. CASE b \in arrays
      BY <1>13, <2>2 DEF back, FullArray
    <2>3. CASE b \notin arrays
      <3>1. b \in ptrs /\ back(b) = <<FullSize[class(b)]>>
        BY <1>14, <2>3 DEF back
      <3> HIDE DEF ptrs, class
      <3> QED
        BY <1>12, <2>1, <3>1
    <2> QED
      BY <2>2, <2>3
  <1>15. \A b \in DOMAIN blocks : back(b) # <<>> <=> b \in arrays \cup ptrs
    <2> HIDE DEF ptrs, class
    <2> QED
      BY DEF back
  <1>16. ReleasedAsAllocated'
    <2>1. \A b \in DOMAIN blocks' : blocks'[b].freed # <<>> =>
            blocks'[b].freed = <<blocks'[b].size + (IF blocks'[b].of = "object" THEN 0 ELSE Header)>>
      BY <1>6, <1>7, <1>14
    <2>2. {b \in DOMAIN blocks' : blocks'[b].freed # <<>>} = arrays \cup ptrs
      <3> HIDE DEF ptrs
      <3> QED
        BY <1>6, <1>7, <1>11, <1>15
    <2>3. ptrs = {objects'[k].ptr : k \in {j \in DOMAIN objects' : objects'[j].live}} /\ arrays' = arrays
      BY <1>2
    <2>4. Cardinality(arrays') < Capacity => AllArrays' \subseteq arrays'
      <3>1. AllArrays' = AllArrays
        BY <1>6, <1>7 DEF AllArrays
      <3> QED
        BY <1>2, <3>1 DEF HeapInv, ReleasedAsAllocated
    <2> HIDE DEF ptrs
    <2> QED
      BY ONLY <2>1, <2>2, <2>3, <2>4, Zenon DEF ReleasedAsAllocated
  <1>17. Unreleased'
    BY <1>2 DEF Unreleased
  <1> QED
    BY <1>9, <1>10, <1>16, <1>17 DEF HeapInv

LEMMA HeapInvInit ==
    ASSUME Init
    PROVE  HeapInv
  <1>1. /\ blocks = <<>> /\ objects = <<>> /\ arrays = {} /\ statics = [k \in {} |-> 0]
        /\ status = "running" /\ steps = 0
    BY DEF Init
  <1>2. DOMAIN blocks = {} /\ Len(blocks) = 0 /\ DOMAIN objects = {} /\ DOMAIN statics = {}
    BY <1>1
  <1>3. Shaped
    <2>1. blocks \in Seq(ToSet(blocks)) /\ objects \in Seq([class : Classes, ptr : DOMAIN blocks, live : BOOLEAN])
      BY <1>1
    <2>2. steps \in 0..Fuel /\ Len(blocks) <= 2 * steps
      BY <1>1, <1>2, BoundsAssumption
    <2> QED
      BY <1>2, <2>1, <2>2 DEF Shaped
  <1>4. HeapTypeOK
    BY <1>1, <1>2 DEF HeapTypeOK, ObjectsPlaced, StaticsPlaced
  <1>5. AllArrays = {}
    BY <1>2 DEF AllArrays
  <1> QED
    BY <1>1, <1>2, <1>3, <1>4, <1>5 DEF HeapInv, Unreleased, ReleasedAsAllocated

LEMMA HeapInvNext ==
    ASSUME HeapInv, [Next]_vars
    PROVE  HeapInv'
  <1>1. CASE New
    BY <1>1, NewKeeps
  <1>2. CASE DestroyObject
    BY <1>2, DestroyObjectKeeps
  <1>3. CASE PutField
    BY <1>3, PutFieldKeeps
  <1>4. CASE GetField
    BY <1>4, GetFieldKeeps
  <1>5. CASE PutStatic
    BY <1>5, PutStaticKeeps
  <1>6. CASE GetStatic \/ CharLoad \/ ArrayLength \/ OtherLoad \/ PrintString
    BY <1>6, ReadsKeep
  <1>7. CASE NewArray
    BY <1>7, NewArrayKeeps
  <1>8. CASE CharStore
    BY <1>8, CharStoreKeeps
  <1>9. CASE CreateString
    BY <1>9, CreateStringKeeps
  <1>10. CASE Drop
    BY <1>10, DropKeeps
  <1>11. CASE UNCHANGED vars
    BY <1>11 DEF vars, HeapInv, Shaped, HeapTypeOK, Unreleased, ReleasedAsAllocated,
                 ObjectsPlaced, StaticsPlaced, AllArrays, Inside
  <1> QED
    BY <1>1, <1>2, <1>3, <1>4, <1>5, <1>6, <1>7, <1>8, <1>9, <1>10, <1>11 DEF Next

LEMMA HeapInvariant == Spec => []HeapInv
  BY HeapInvInit, HeapInvNext, PTL DEF Spec

\* Every variable of every object, whatever the classes and their fields, lies
\* within the memory allocate_class takes for it, and no two entries of the
\* tables of the heap share a block.
THEOREM HeapWellFormed == Spec => []HeapTypeOK
  <1>1. HeapInv => HeapTypeOK
    BY DEF HeapInv
  <1> QED
    BY <1>1, HeapInvariant, PTL

\* Dropping the heap gives back what its slabs hold, once, with the size it
\* was allocated with (heap.rs, Drop).
THEOREM DropGivesBack == Spec => []ReleasedAsAllocated
  <1>1. HeapInv => ReleasedAsAllocated
    BY DEF HeapInv
  <1> QED
    BY <1>1, HeapInvariant, PTL

-----------------------------------------------------------------------------
(***************************************************************************)
(* Reads.                                                                  *)
(***************************************************************************)

LEMMA ReadFresh ==
    ASSUME NEW b, NEW off, NEW width, b.bytes[off] = <<>>
    PROVE  Read(b, off, width) = Junk
  BY DEF Read

LEMMA ReadStored ==
    ASSUME NEW b, NEW off \in Nat, NEW width \in 1..8, NEW v,
           \A i \in 0..width - 1 : b.bytes[off + i] = <<v, i>>
    PROVE  Read(b, off, width) = v
  <1>1. b.bytes[off] = <<v, 0>>
    <2>1. 0 \in 0..width - 1 /\ off + 0 = off
      OBVIOUS
    <2> QED
      BY <2>1
  <1>2. <<v, 0>> # <<>> /\ <<v, 0>>[1] = v
    OBVIOUS
  <1> QED
    BY <1>1, <1>2 DEF Read

LEMMA ReadSame ==
    ASSUME NEW b, NEW c, NEW off \in Nat, NEW width \in 1..8,
           \A i \in 0..width - 1 : b.bytes[off + i] = c.bytes[off + i]
    PROVE  Read(b, off, width) = Read(c, off, width)
  <1>1. b.bytes[off] = c.bytes[off]
    <2>1. 0 \in 0..width - 1 /\ off + 0 = off
      OBVIOUS
    <2> QED
      BY <2>1
  <1> DEFINE first == b.bytes[off]
             all(d) == first # <<>> /\ \A i \in 0..width - 1 : d.bytes[off + i] = <<first[1], i>>
  <1>2. all(b) <=> all(c)
    OBVIOUS
  <1>3. Read(b, off, width) = (IF all(b) THEN first[1] ELSE Junk)
    BY DEF Read
  <1>4. Read(c, off, width) = (IF all(c) THEN first[1] ELSE Junk)
    BY <1>1 DEF Read
  <1> HIDE DEF all, first
  <1> QED
    BY <1>2, <1>3, <1>4

\* What was stored is read back, by a read that is no wider than the store.
LEMMA ReadWritten ==
    ASSUME NEW b, BlockOK(b), NEW off \in Nat, NEW width \in 1..8, NEW wide \in 1..8, NEW v,
           width <= wide, off + width <= b.size
    PROVE  Read(Written(b, off, wide, v), off, width) = v
  <1> DEFINE w == Written(b, off, wide, v)
  <1>1. /\ b.size \in Nat
        /\ \A i \in 0..b.size - 1 :
             w.bytes[i] = IF i \in off..off + wide - 1 THEN <<v, i - off>> ELSE b.bytes[i]
    <2>1. b.size \in Nat
      BY DEF BlockOK
    <2>2. off \in Int /\ wide \in Nat
      OBVIOUS
    <2> QED
      BY <2>1, <2>2, WrittenDef
  <1> HIDE DEF w
  <1>2. ASSUME NEW i \in 0..width - 1
        PROVE  w.bytes[off + i] = <<v, i>>
    <2>1. off + i \in 0..b.size - 1 /\ off + i \in off..off + wide - 1 /\ (off + i) - off = i
      BY <1>1
    <2> QED
      BY <1>1, <2>1
  <1> QED
    BY <1>2, ReadStored DEF w

\* A store does not reach what lies before it or after it.
LEMMA ReadBeside ==
    ASSUME NEW b, BlockOK(b), NEW off \in Nat, NEW width \in 1..8,
           NEW at \in Nat, NEW wide \in 1..8, NEW v, off + width <= b.size,
           off + width <= at \/ at + wide <= off
    PROVE  Read(Written(b, at, wide, v), off, width) = Read(b, off, width)
  <1> DEFINE w == Written(b, at, wide, v)
  <1>1. /\ b.size \in Nat
        /\ \A i \in 0..b.size - 1 :
             w.bytes[i] = IF i \in at..at + wide - 1 THEN <<v, i - at>> ELSE b.bytes[i]
    <2>1. b.size \in Nat
      BY DEF BlockOK
    <2>2. at \in Int /\ wide \in Nat
      OBVIOUS
    <2> QED
      BY <2>1, <2>2, WrittenDef
  <1> HIDE DEF w
  <1>2. ASSUME NEW i \in 0..width - 1
        PROVE  w.bytes[off + i] = b.bytes[off + i]
    <2>1. off + i \in 0..b.size - 1 /\ off + i \notin at..at + wide - 1
      BY <1>1
    <2> QED
      BY <1>1, <2>1
  <1> QED
    BY <1>2, ReadSame DEF w

\* A char that is stored is read back without its sign.
LEMMA UnsignedChar ==
    /\ \A v : v # Junk => Unsigned(Field(0, "C", <<>>), v) = v % 65536
    /\ Unsigned(Field(0, "C", <<>>), Junk) = Junk
  BY DEF Unsigned, Field

-----------------------------------------------------------------------------
(***************************************************************************)
(* What stays of the store.                                                *)
(***************************************************************************)

LEMMA FieldsSame ==
    ASSUME Shaped, ObjectsPlaced, UNCHANGED objects,
           \A k \in DOMAIN objects : blocks'[objects[k].ptr] = blocks[objects[k].ptr]
    PROVE  FieldValues' = FieldValues
  <1>1. ASSUME NEW k \in DOMAIN objects
        PROVE  Contents(k)' = Contents(k)
    BY DEF Contents
  <1> QED
    BY <1>1 DEF FieldValues

LEMMA StaticsSame ==
    ASSUME UNCHANGED statics, \A r \in DOMAIN statics : blocks'[statics[r]] = blocks[statics[r]]
    PROVE  StaticValues' = StaticValues
  BY DEF StaticValues

LEMMA ArraysSame ==
    ASSUME AllArrays' = AllArrays, \A a \in AllArrays : blocks'[a] = blocks[a]
    PROVE  ArrayValues' = ArrayValues
  <1>1. CharArrays' = CharArrays /\ CharArrays \subseteq AllArrays
    BY DEF CharArrays
  <1> QED
    BY <1>1 DEF ArrayValues

\* An operation that stores nothing.
LEMMA StoreSame ==
    ASSUME UNCHANGED <<blocks, objects, statics, arrays>>
    PROVE  UNCHANGED <<FieldValues, StaticValues, ArrayValues>>
  BY DEF FieldValues, Contents, StaticValues, ArrayValues, AllArrays, CharArrays, LoadedChar

\* A sequence of one more element.
LEMMA OneMore ==
    ASSUME NEW n \in Nat, NEW f, NEW g, f = [k \in 1..n |-> f[k]], g = [k \in 1..n + 1 |-> g[k]],
           \A k \in 1..n : g[k] = f[k]
    PROVE  g = Append(f, g[n + 1]) /\ Len(f) = n
  <1> DEFINE S == {f[k] : k \in 1..n} \cup {g[n + 1]}
  <1>1. \A k \in 1..n : f[k] \in S
    OBVIOUS
  <1>2. g[n + 1] \in S
    OBVIOUS
  <1> HIDE DEF S
  <1>3. f \in Seq(S) /\ Len(f) = n
    BY <1>1
  <1>4. \A k \in 1..n + 1 : k \in 1..n \/ k = n + 1
    OBVIOUS
  <1>5. Append(f, g[n + 1]) = [k \in 1..n + 1 |-> IF k \in 1..n THEN f[k] ELSE g[n + 1]]
    BY <1>2, <1>3
  <1> QED
    BY <1>3, <1>4, <1>5

LEMMA ObjectsAdded ==
    ASSUME Shaped, ObjectsPlaced, NEW c \in Classes, NEW p,
           \A b \in DOMAIN blocks : blocks'[b] = blocks[b],
           objects' = Append(objects, [class |-> c, ptr |-> p, live |-> TRUE])
    PROVE  /\ Len(FieldValues) = Len(objects)
           /\ FieldValues' = Append(FieldValues,
                [class |-> c, at |-> [s \in Slots[c] |->
                    Read(blocks'[p], Offset[s[1]][s[2]], Width(s[1], s[2]))]])
  <1> DEFINE n == Len(objects)
             e == [class |-> c, ptr |-> p, live |-> TRUE]
  <1>1. /\ n \in Nat /\ DOMAIN objects = 1..n /\ DOMAIN objects' = 1..n + 1 /\ objects'[n + 1] = e
        /\ \A k \in 1..n : objects'[k] = objects[k] /\ objects[k].ptr \in DOMAIN blocks
    <2> DEFINE T == [class : Classes, ptr : DOMAIN blocks, live : BOOLEAN]
               S == T \cup {e}
    <2>1. objects \in Seq(T)
      BY DEF Shaped
    <2>2. \A k \in 1..Len(objects) : objects[k].ptr \in DOMAIN blocks
      <3>1. DOMAIN objects = 1..Len(objects)
        BY <2>1
      <3> QED
        BY <3>1, ObjectDef
    <2>4. T \subseteq S /\ e \in S
      OBVIOUS
    <2> HIDE DEF S, T, e
    <2>5. objects \in Seq(S)
      BY <2>1, <2>4
    <2>6. objects' = Append(objects, e)
      BY DEF e
    <2> QED
      BY <2>2, <2>4, <2>5, <2>6
  <1>2. \A k \in 1..n : Contents(k)' = Contents(k)
    BY <1>1 DEF Contents
  <1>3. PICK m : m = n + 1
    OBVIOUS
  <1>4. Contents(m)' =
            [class |-> c, at |-> [s \in Slots[c] |->
                Read(blocks'[p], Offset[s[1]][s[2]], Width(s[1], s[2]))]]
    BY <1>1, <1>3 DEF Contents
  <1>5. FieldValues = [k \in 1..n |-> Contents(k)] /\ FieldValues' = [k \in 1..m |-> Contents(k)']
    <2>1. DOMAIN objects = 1..n /\ DOMAIN objects' = 1..m
      BY <1>1, <1>3
    <2>2. FieldValues = [k \in DOMAIN objects |-> Contents(k)]
      BY DEF FieldValues
    <2>3. FieldValues' = [k \in DOMAIN objects' |-> Contents(k)']
      BY DEF FieldValues
    <2> QED
      BY ONLY <2>1, <2>2, <2>3
  <1> DEFINE old(k) == Contents(k)
             new(k) == Contents(k)'
  <1>6. /\ FieldValues = [k \in 1..n |-> FieldValues[k]]
        /\ FieldValues' = [k \in 1..m |-> FieldValues'[k]]
        /\ \A k \in 1..n : FieldValues'[k] = FieldValues[k]
        /\ FieldValues'[m] = new(m)
    <2>1. \A k \in 1..n : new(k) = old(k)
      BY <1>2
    <2>2. FieldValues = [k \in 1..n |-> old(k)] /\ FieldValues' = [k \in 1..m |-> new(k)]
      BY <1>5
    <2>3. m \in 1..m /\ \A k \in 1..n : k \in 1..m
      BY <1>1, <1>3
    <2> HIDE DEF old, new
    <2> QED
      BY <2>1, <2>2, <2>3
  <1>7. FieldValues' = Append(FieldValues, FieldValues'[m]) /\ Len(FieldValues) = n
    BY <1>1, <1>3, <1>6, OneMore
  <1> QED
    BY <1>4, <1>6, <1>7

\* New blocks that are no arrays.
LEMMA ArraysBeside ==
    ASSUME \A b \in DOMAIN blocks : b \in DOMAIN blocks' /\ blocks'[b] = blocks[b],
           \A b \in DOMAIN blocks' \ DOMAIN blocks : blocks'[b].of \in {"object", "static"}
    PROVE  UNCHANGED ArrayValues
  <1>1. AllArrays' = AllArrays
    BY DEF AllArrays
  <1>2. \A a \in AllArrays : blocks'[a] = blocks[a]
    BY DEF AllArrays
  <1> QED
    BY <1>1, <1>2, ArraysSame

LEMMA BlockStored ==
    ASSUME Shaped, NEW b \in DOMAIN blocks, NEW off \in Int, NEW width \in Nat, NEW v,
           blocks' = [blocks EXCEPT ![b] = Written(@, off, width, v)]
    PROVE  /\ BlockOK(blocks[b]) /\ blocks'[b] = Written(blocks[b], off, width, v)
           /\ DOMAIN blocks' = DOMAIN blocks /\ \A a \in DOMAIN blocks \ {b} : blocks'[a] = blocks[a]
           /\ AllArrays' = AllArrays /\ CharArrays' = CharArrays
  <1> DEFINE x == Written(blocks[b], off, width, v)
  <1>1. BlockOK(blocks[b])
    BY DEF Shaped
  <1>2. Same(x, blocks[b])
    BY <1>1, WrittenDef
  <1>3. blocks' = [blocks EXCEPT ![b] = x]
    OBVIOUS
  <1> HIDE DEF x
  <1>4. /\ DOMAIN blocks' = DOMAIN blocks /\ blocks'[b] = x
        /\ \A a \in DOMAIN blocks \ {b} : blocks'[a] = blocks[a]
    BY <1>3
  <1>5. \A a \in DOMAIN blocks : blocks'[a].of = blocks[a].of /\ blocks'[a].size = blocks[a].size
    BY <1>2, <1>4 DEF Same
  <1>6. AllArrays' = AllArrays
    BY <1>4, <1>5 DEF AllArrays
  <1>7. CharArrays' = CharArrays
    BY <1>5, <1>6 DEF CharArrays, AllArrays
  <1> QED
    BY <1>1, <1>4, <1>6, <1>7 DEF x

LEMMA NotDeviating ==
    ASSUME NEW dev, Operation(dev), ~odd'
    PROVE  ~dev /\ ~odd
  BY DEF Operation

-----------------------------------------------------------------------------
(***************************************************************************)
(* Each operation that does not deviate is one of the store.               *)
(***************************************************************************)

LEMMA NewMaps ==
    ASSUME HeapInv, WithinCapacity, New, ~odd'
    PROVE  Store!New
  <1>1. Shaped /\ ObjectsPlaced
    BY DEF HeapInv, HeapTypeOK
  <1>2. PICK c \in Classes :
            /\ Operation(Len(objects) = Capacity)
            /\ blocks' = Append(blocks, AllocateClass(c))
            /\ IF Len(objects) < Capacity
               THEN /\ objects' = Append(objects, [class |-> c, ptr |-> Len(blocks) + 1, live |-> TRUE])
                    /\ Returns(<<Len(objects)>>)
               ELSE objects' = objects /\ Ends("error")
            /\ UNCHANGED <<arrays, statics>>
    BY DEF New
  <1> DEFINE x == AllocateClass(c)
             p == Len(blocks) + 1
  <1>3. Len(objects) < Capacity
    <2>1. Len(objects) # Capacity
      BY <1>2, NotDeviating
    <2>2. Len(objects) \in Nat /\ Capacity \in Nat
      BY <1>1, BoundsAssumption DEF Shaped
    <2> QED
      BY <2>1, <2>2 DEF WithinCapacity
  <1>4. FullSize[c] \in Nat
    BY FullSizeDef
  <1>5. /\ BlockOK(x) /\ x.of = "object" /\ x.freed = <<>>
        /\ \A i \in 0..FullSize[c] - 1 : x.bytes[i] = <<>>
    BY <1>4, BlockDef DEF AllocateClass
  <1> HIDE DEF x
  <1>6. /\ Len(blocks) \in Nat /\ DOMAIN blocks = 1..Len(blocks) /\ DOMAIN blocks' = 1..p
        /\ blocks'[p] = x /\ \A b \in DOMAIN blocks : blocks'[b] = blocks[b]
    BY <1>1, <1>2, <1>5, AppendGrows DEF x
  <1>7. objects' = Append(objects, [class |-> c, ptr |-> p, live |-> TRUE]) /\ answer' = <<Len(objects)>>
    BY <1>2, <1>3 DEF Returns
  <1>8. /\ Len(FieldValues) = Len(objects)
        /\ FieldValues' = Append(FieldValues,
             [class |-> c, at |-> [s \in Slots[c] |->
                 Read(blocks'[p], Offset[s[1]][s[2]], Width(s[1], s[2]))]])
    BY <1>1, <1>6, <1>7, ObjectsAdded
  <1>9. \A s \in Slots[c] : Read(x, Offset[s[1]][s[2]], Width(s[1], s[2])) = Junk
    <2> TAKE s \in Slots[c]
    <2>1. Offset[s[1]][s[2]] \in 0..FullSize[c] - 1
      BY SlotInside
    <2> QED
      BY <1>5, <2>1, ReadFresh
  <1>10. FieldValues' = Append(FieldValues, Store!Blank(c)) /\ answer' = <<Len(FieldValues)>>
    BY <1>6, <1>7, <1>8, <1>9 DEF Store!Blank
  <1>11. UNCHANGED StaticValues
    BY <1>1, <1>2, <1>6, StaticsSame DEF Shaped
  <1>12. UNCHANGED ArrayValues
    <2>1. \A b \in DOMAIN blocks : b \in DOMAIN blocks' /\ blocks'[b] = blocks[b]
      BY <1>6
    <2>2. \A b \in DOMAIN blocks' \ DOMAIN blocks : blocks'[b].of \in {"object", "static"}
      <3>1. DOMAIN blocks' \ DOMAIN blocks = {p}
        BY <1>6
      <3> QED
        BY <1>5, <1>6, <3>1
    <2> QED
      BY <2>1, <2>2, ArraysBeside
  <1> QED
    BY <1>10, <1>11, <1>12 DEF Store!New

\* A field of an object is stored; it reaches no other.
LEMMA PutFieldMaps ==
    ASSUME HeapInv, PutField, ~odd'
    PROVE  Store!Put
  <1>1. Shaped /\ ObjectsPlaced /\ StaticsPlaced
    BY DEF HeapInv, HeapTypeOK
  <1>23. PICK ref \in Refs, d \in Classes : \E f \in Instance[d] : StoresIn(ref, d, f)
    BY DEF PutField, StoresIn, Stores
  <1>0. PICK f \in Instance[d] : StoresIn(ref, d, f)
    BY <1>23
  <1>2. PICK to, w :
            /\ w \in Storable(Info(Declaring[d][f], f).fd)
            /\ TwoOperands(Info(Declaring[d][f], f).fd) \/ to = ref
            /\ Stores(ref, to, d, f, w)
    BY <1>0 DEF StoresIn
  <1>20. /\ ref # NoRef /\ w # NoRef /\ ~TwoOperands(Info(Declaring[d][f], f).fd)
         /\ Known(to) /\ f \in Own(d)
         /\ Inside(blocks[At(to).ptr], Offset[d][f], 8) /\ ~Disturbs(At(to).class, d, f)
    BY <1>2, NotDeviating DEF Stores
  <1>21. to = ref
    BY <1>2, <1>20
  <1>3. /\ Known(ref) /\ f \in Own(d)
        /\ Inside(blocks[At(ref).ptr], Offset[d][f], 8) /\ ~Disturbs(At(ref).class, d, f)
    BY <1>20, <1>21
  <1> DEFINE v == Key(w)
  <1>19. v \in Values \cup DOMAIN ArrayValues
    BY <1>2, <1>20 DEF Key, Storable, ArrayValues, CharArrays
  <1>24. v = Key(w)
    OBVIOUS
  <1> HIDE DEF v
  <1>22. f \in Named[d] /\ ~Info(Declaring[d][f], f).static
    BY InstanceDef
  <1>4. PICK k \in DOMAIN objects : k = Key(ref) + 1 /\ At(ref) = objects[k]
    BY <1>1, <1>3, KnownDef
  <1> DEFINE c == objects[k].class
             p == objects[k].ptr
             off == Offset[d][f]
  <1>5. c \in Classes /\ p \in DOMAIN blocks /\ blocks[p].of = "object" /\ blocks[p].size = FullSize[c]
    BY <1>1, ObjectDef
  <1>6. <<d, f>> \in Slots[c]
    <2>1. d \in Chain[c]
      BY <1>0, <1>4, <1>20 DEF StoresIn, Typed
    <2>2. ~Info(d, f).static
      BY <1>3, <1>22, DeclaringDef
    <2> QED
      BY <1>3, <1>5, <2>1, <2>2 DEF Slots
  <1>7. off \in Nat /\ Width(d, f) \in 1..8
    BY <1>3, FieldInside, PositionDef
  <1>8. /\ blocks' = [blocks EXCEPT ![p] = Written(@, off, 8, v)]
        /\ answer' = <<>> /\ UNCHANGED <<objects, statics, arrays>>
    BY <1>2, <1>3, <1>4, <1>20, <1>21, <1>24 DEF Stores, Returns, Tables
  <1>9. /\ BlockOK(blocks[p]) /\ blocks'[p] = Written(blocks[p], off, 8, v)
        /\ DOMAIN blocks' = DOMAIN blocks /\ \A a \in DOMAIN blocks \ {p} : blocks'[a] = blocks[a]
        /\ AllArrays' = AllArrays
    <2>1. off \in Int /\ 8 \in Nat
      BY <1>7
    <2> HIDE DEF off, p
    <2> QED
      BY <1>1, <1>5, <1>8, <2>1, BlockStored
  <1>10. Read(blocks'[p], off, Width(d, f)) = v
    <2>1. off + 8 <= blocks[p].size /\ blocks[p].size \in Nat
      BY <1>3, <1>4, <1>9 DEF Inside, BlockOK
    <2>2. off + Width(d, f) <= blocks[p].size
      BY <1>7, <2>1
    <2> QED
      BY <1>7, <1>9, <2>2, ReadWritten
  <1>11. ASSUME NEW s \in Slots[c] \ {<<d, f>>}
         PROVE  Read(blocks'[p], Offset[s[1]][s[2]], Width(s[1], s[2])) =
                Read(blocks[p], Offset[s[1]][s[2]], Width(s[1], s[2]))
    <2> DEFINE at == Offset[s[1]][s[2]]
               wide == Width(s[1], s[2])
    <2>1. at \in Nat /\ wide \in 1..8 /\ at + wide <= blocks[p].size
      BY <1>5, SlotInside
    <2>2. ~(at < off + 8 /\ off < at + wide)
      BY <1>3, <1>4 DEF Disturbs
    <2> HIDE DEF at, wide, off
    <2>3. at + wide <= off \/ off + 8 <= at
      BY <1>7, <2>1, <2>2
    <2> QED
      <3> DEFINE b == blocks[p]
      <3>1. BlockOK(b) /\ at + wide <= b.size /\ 8 \in 1..8
        BY <1>9, <2>1
      <3> HIDE DEF b
      <3>2. Read(Written(b, off, 8, v), at, wide) = Read(b, at, wide)
        BY <1>7, <2>1, <2>3, <3>1, ReadBeside
      <3> QED
        BY <1>9, <3>2 DEF at, wide, off, b
  <1>13. \A j \in DOMAIN objects \ {k} : Contents(j)' = Contents(j)
    <2> TAKE j \in DOMAIN objects \ {k}
    <2>1. objects[j].ptr \in DOMAIN blocks /\ objects[j].ptr # p
      <3>1. objects[j].ptr \in DOMAIN blocks
        BY <1>1, ObjectDef
      <3>2. objects[j].ptr = p => j = k
        BY <1>1 DEF ObjectsPlaced
      <3> QED
        BY <3>1, <3>2
    <2>2. blocks'[objects[j].ptr] = blocks[objects[j].ptr] /\ objects' = objects
      BY <1>8, <1>9, <2>1
    <2> QED
      BY <2>2 DEF Contents
  <1>14. Contents(k)' = [Contents(k) EXCEPT !.at[<<d, f>>] = v]
    <2> DEFINE new == [s \in Slots[c] |-> Read(blocks'[p], Offset[s[1]][s[2]], Width(s[1], s[2]))]
               old == [s \in Slots[c] |-> Read(blocks[p], Offset[s[1]][s[2]], Width(s[1], s[2]))]
    <2>1. Contents(k)' = [class |-> c, at |-> new] /\ Contents(k) = [class |-> c, at |-> old]
      BY <1>8 DEF Contents
    <2>2. new[<<d, f>>] = v /\ \A s \in Slots[c] \ {<<d, f>>} : new[s] = old[s]
      BY <1>6, <1>10, <1>11
    <2>3. new = [s \in Slots[c] |-> new[s]] /\ old = [s \in Slots[c] |-> old[s]]
      OBVIOUS
    <2> HIDE DEF new, old, c
    <2>4. new = [old EXCEPT ![<<d, f>>] = v]
      BY <1>6, <2>2, <2>3
    <2> QED
      BY <2>1, <2>4
  <1>15. FieldValues' = [FieldValues EXCEPT ![k].at[<<d, f>>] = v]
    <2> DEFINE new(j) == Contents(j)'
               old(j) == Contents(j)
    <2>1. \A j \in DOMAIN objects \ {k} : new(j) = old(j)
      BY <1>13
    <2>2. new(k) = [old(k) EXCEPT !.at[<<d, f>>] = v]
      BY <1>14
    <2>3. /\ FieldValues' = [j \in DOMAIN objects |-> new(j)]
          /\ FieldValues = [j \in DOMAIN objects |-> old(j)]
      <3>1. FieldValues' = [j \in DOMAIN objects' |-> Contents(j)']
        BY DEF FieldValues
      <3>2. FieldValues = [j \in DOMAIN objects |-> Contents(j)]
        BY DEF FieldValues
      <3> QED
        BY <1>8, <3>1, <3>2
    <2> HIDE DEF new, old
    <2> QED
      BY <2>1, <2>2, <2>3
  <1>16. k \in DOMAIN FieldValues /\ <<d, f>> \in DOMAIN FieldValues[k].at
    BY <1>6 DEF FieldValues, Contents
  <1>17. UNCHANGED StaticValues
    <2>1. \A r \in DOMAIN statics : statics[r] \in DOMAIN blocks /\ statics[r] # p
      BY <1>1, <1>5 DEF Shaped, StaticsPlaced
    <2> QED
      BY <1>8, <1>9, <2>1, StaticsSame
  <1>18. UNCHANGED ArrayValues
    <2>1. \A a \in AllArrays : a \in DOMAIN blocks /\ a # p
      BY <1>5 DEF AllArrays
    <2> QED
      BY <1>9, <2>1, ArraysSame
  <1> QED
    BY <1>8, <1>15, <1>16, <1>17, <1>18, <1>19 DEF Store!Put

Loads(ref, d, f) ==
    LET c  == At(ref).class
        fd == Info(Declaring[d][f], f).fd
        v  == Read(blocks[At(ref).ptr], Offset[c][f], 8)
        known == Known(ref) /\ f \in Own(c)
        isRef == IsReference(Info(c, f).fd)
    IN  /\ Operation(ref = NoRef \/ Declaring[d][f] # c \/ ~isRef \/ fd.dims > 0 \/ v = Junk)
        /\ IF ~known \/ ~isRef THEN Ends("error")
           ELSE IF fd.dims > 0 THEN Ends("panic")
           ELSE Returns(<<v>>)
        /\ Stay

\* getfield reads a field the class of the object has itself.
LEMMA GetFieldMaps ==
    ASSUME HeapInv, NoneDestroyed, GetField, ~odd'
    PROVE  Store!Get
  <1>1. Shaped /\ ObjectsPlaced
    BY DEF HeapInv, HeapTypeOK
  <1>20. PICK ref \in Refs, d \in Classes : \E f \in Instance[d] : Loads(ref, d, f)
    BY DEF GetField, Loads
  <1>21. PICK f \in Instance[d] : Loads(ref, d, f)
    BY <1>20
  <1>2. LET c  == At(ref).class
            fd == Info(Declaring[d][f], f).fd
            v  == Read(blocks[At(ref).ptr], Offset[c][f], 8)
            known == Known(ref) /\ f \in Own(c)
            isRef == IsReference(Info(c, f).fd)
        IN  /\ Operation(ref = NoRef \/ Declaring[d][f] # c \/ ~isRef \/ fd.dims > 0 \/ v = Junk)
            /\ IF ~known \/ ~isRef THEN Ends("error")
               ELSE IF fd.dims > 0 THEN Ends("panic")
               ELSE Returns(<<v>>)
            /\ Stay
    BY <1>21 DEF Loads
  <1>3. f \in Named[d] /\ ~Info(Declaring[d][f], f).static
    BY InstanceDef
  <1> DEFINE c == At(ref).class
  <1>4. Declaring[d][f] = c /\ SizeOf(Info(c, f).fd) = 8 /\ ~Info(c, f).static /\ f \in Own(c)
    <2>1. Declaring[d][f] = c /\ SizeOf(Info(c, f).fd) = 8 /\ ~Info(Declaring[d][f], f).static
      BY <1>2, <1>3, NotDeviating DEF IsReference, SizeOf
    <2>2. f \in Own(Declaring[d][f]) /\ Declaring[d][f] \in Classes
      BY <1>3, DeclaringDef
    <2> QED
      BY <2>1, <2>2
  <1>5. Known(ref)
    <2>1. ref # NoRef /\ ref \in 0..Len(objects) - 1 /\ Len(objects) \in Nat
      <3>1. ref # NoRef
        BY <1>2, NotDeviating
      <3>2. Len(objects) \in Nat
        BY <1>1 DEF Shaped
      <3> QED
        BY <3>1, <3>2 DEF Refs
    <2>2. Key(ref) < Len(objects) /\ Key(ref) + 1 \in 1..Len(objects)
      BY <2>1 DEF Key
    <2>3. 1..Len(objects) = DOMAIN objects /\ ~odd
      BY <1>1, <1>2, NotDeviating DEF Shaped
    <2> QED
      BY <2>2, <2>3 DEF Known, NoneDestroyed
  <1>6. PICK k \in DOMAIN objects : At(ref) = objects[k] /\ c \in Classes
    BY <1>1, <1>5, KnownDef
  <1>7. <<c, f>> \in Slots[c]
    <2>1. c \in Chain[c]
      BY <1>6, ChainDef
    <2> HIDE DEF c
    <2> QED
      BY <1>4, <1>6, <2>1 DEF Slots
  <1>8. answer' = <<Read(blocks[objects[k].ptr], Offset[c][f], Width(c, f))>> /\ Stay
    <2>1. IsReference(Info(c, f).fd) /\ ~(Info(c, f).fd.dims > 0)
      BY <1>2, <1>4, NotDeviating
    <2> QED
      BY <1>2, <1>4, <1>5, <1>6, <2>1 DEF Returns, Width
  <1>9. /\ k \in DOMAIN FieldValues /\ <<c, f>> \in DOMAIN FieldValues[k].at
        /\ answer' = <<FieldValues[k].at[<<c, f>>]>>
    <2>1. FieldValues[k] = Contents(k) /\ k \in DOMAIN FieldValues
      BY DEF FieldValues
    <2>2. objects[k].class = c
      BY <1>6
    <2> HIDE DEF c
    <2> QED
      BY <1>7, <1>8, <2>1, <2>2 DEF Contents
  <1>10. UNCHANGED <<FieldValues, StaticValues, ArrayValues>>
    BY <1>8, StoreSame DEF Stay, Tables
  <1> QED
    BY <1>9, <1>10 DEF Store!Get

\* What lies in the blocks of objects and arrays stays.
LEMMA BesideStatics ==
    ASSUME Shaped, ObjectsPlaced, UNCHANGED objects,
           \A b \in DOMAIN blocks : b \in DOMAIN blocks' /\ Same(blocks'[b], blocks[b]),
           \A b \in DOMAIN blocks : blocks[b].of # "static" => blocks'[b] = blocks[b],
           \A b \in DOMAIN blocks' \ DOMAIN blocks : blocks'[b].of = "static"
    PROVE  UNCHANGED <<FieldValues, ArrayValues>>
  <1>1. \A k \in DOMAIN objects : objects[k].ptr \in DOMAIN blocks /\ blocks[objects[k].ptr].of = "object"
    BY ObjectDef
  <1>2. UNCHANGED FieldValues
    BY <1>1, FieldsSame
  <1>3. AllArrays' = AllArrays /\ \A a \in AllArrays : blocks'[a] = blocks[a]
    BY DEF AllArrays, Same
  <1>4. UNCHANGED ArrayValues
    BY <1>3, ArraysSame
  <1> QED
    BY <1>2, <1>4

LEMMA PutStaticMaps ==
    ASSUME HeapInv, PutStatic, ~odd'
    PROVE  \E key \in {r \in StaticRefs : ~Elsewhere(r)} : Store!PutStatic(key)
  <1>1. Shaped /\ ObjectsPlaced /\ StaticsPlaced
    BY DEF HeapInv, HeapTypeOK
  <1>30. PICK r \in StaticRefs : \E w \in Storable(StaticFd(r)) : Assigns(r, w)
    BY DEF PutStatic, Assigns
  <1>0. PICK w \in Storable(StaticFd(r)) : Assigns(r, w)
    BY <1>30
  <1>2. PICK v, dev :
            LET size == SizeOf(StaticFd(r))
                b == IF r \in DOMAIN statics THEN statics[r] ELSE Len(blocks) + 1
            IN  /\ Operation(dev) /\ v = Key(w)
                /\ dev = (Elsewhere(r) \/ w = NoRef \/ TwoOperands(StaticFd(r)))
                /\ blocks' = IF r \in DOMAIN statics THEN [blocks EXCEPT ![b] = Written(@, 0, size, v)]
                             ELSE Append(blocks, Written(Block("static", size, 0), 0, size, v))
                /\ statics' = [k \in DOMAIN statics \cup {r} |-> IF k = r THEN b ELSE statics[k]]
                /\ Returns(<<>>) /\ UNCHANGED <<objects, arrays>>
    BY <1>0 DEF Assigns
  <1>3. /\ ~Elsewhere(r) /\ answer' = <<>> /\ UNCHANGED objects
        /\ v \in Values \cup DOMAIN ArrayValues
    <2>1. ~Elsewhere(r) /\ w # NoRef /\ v = Key(w) /\ answer' = <<>> /\ UNCHANGED objects
      BY <1>2, NotDeviating DEF Returns
    <2>2. v \in Values \cup CharArrays
      BY <2>1 DEF Key, Storable
    <2> QED
      BY <2>1, <2>2 DEF ArrayValues, CharArrays
  <1> DEFINE size == SizeOf(StaticFd(r))
             b == IF r \in DOMAIN statics THEN statics[r] ELSE Len(blocks) + 1
  <1>4. size \in 1..8
    BY StaticDef
  <1>5. statics' = [k \in DOMAIN statics \cup {r} |-> IF k = r THEN b ELSE statics[k]]
    BY <1>2
  <1>6. \A k \in DOMAIN statics : statics[k] \in DOMAIN blocks /\ (k # r => statics[k] # b)
    <2>1. DOMAIN blocks = 1..Len(blocks) /\ Len(blocks) \in Nat
      BY <1>1 DEF Shaped
    <2>2. \A k \in DOMAIN statics : statics[k] \in DOMAIN blocks
      BY <1>1 DEF Shaped
    <2>3. Len(blocks) + 1 \notin DOMAIN blocks
      BY <2>1
    <2> QED
      BY <1>1, <2>2, <2>3 DEF StaticsPlaced
  <1>7. /\ b \in DOMAIN blocks' /\ Read(blocks'[b], 0, size) = v
        /\ \A a \in DOMAIN blocks : a \in DOMAIN blocks' /\ Same(blocks'[a], blocks[a])
        /\ \A a \in DOMAIN blocks \ {b} : blocks'[a] = blocks[a]
        /\ DOMAIN blocks' \subseteq DOMAIN blocks \cup {b} /\ blocks'[b].of = "static"
        /\ b \in DOMAIN blocks => blocks[b].of = "static"
    <2> HIDE DEF size
    <2>1. ASSUME NEW x, BlockOK(x), x.size = size
          PROVE  Read(Written(x, 0, size, v), 0, size) = v
      <3>1. 0 + size <= x.size /\ 0 \in Nat /\ size <= size
        BY <1>4, <2>1
      <3> QED
        BY <1>4, <2>1, <3>1, ReadWritten
    <2>2. 0 \in Int /\ size \in Nat
      BY <1>4
    <2>3. CASE r \in DOMAIN statics
      <3>1. b \in DOMAIN blocks /\ blocks[b].of = "static" /\ blocks[b].size = size
        BY <1>1, <1>6, <2>3 DEF StaticsPlaced, size
      <3>2. blocks' = [blocks EXCEPT ![b] = Written(@, 0, size, v)]
        BY <1>2, <2>3 DEF size
      <3> HIDE DEF b
      <3>3. /\ BlockOK(blocks[b]) /\ blocks'[b] = Written(blocks[b], 0, size, v)
            /\ DOMAIN blocks' = DOMAIN blocks /\ \A a \in DOMAIN blocks \ {b} : blocks'[a] = blocks[a]
        BY <1>1, <2>2, <3>1, <3>2, BlockStored
      <3>4. Same(blocks'[b], blocks[b])
        <4> DEFINE x == blocks[b]
        <4>1. BlockOK(x) /\ blocks'[b] = Written(x, 0, size, v)
          BY <3>3
        <4> HIDE DEF x
        <4>2. Same(Written(x, 0, size, v), x)
          BY <2>2, <4>1, WrittenDef
        <4> QED
          BY <4>1, <4>2 DEF x
      <3>5. Read(blocks'[b], 0, size) = v
        <4> DEFINE x == blocks[b]
        <4>1. BlockOK(x) /\ x.size = size /\ blocks'[b] = Written(x, 0, size, v)
          BY <3>1, <3>3
        <4> HIDE DEF x
        <4> QED
          BY <2>1, <4>1
      <3> QED
        BY <3>1, <3>3, <3>4, <3>5 DEF Same
    <2>4. CASE r \notin DOMAIN statics
      <3> DEFINE x == Block("static", size, 0)
                 y == Written(x, 0, size, v)
      <3>1. BlockOK(x) /\ x.of = "static" /\ x.size = size /\ x.freed = <<>>
        BY <2>2, BlockDef
      <3>2. blocks' = Append(blocks, y) /\ b = Len(blocks) + 1
        BY <1>2, <2>4 DEF size
      <3> HIDE DEF x, b
      <3>3. BlockOK(y) /\ Same(y, x)
        BY <2>2, <3>1, WrittenDef
      <3>4. y.of = "static" /\ y.freed = <<>>
        BY <3>1, <3>3 DEF Same
      <3>5. Read(y, 0, size) = v
        BY <2>1, <3>1
      <3> HIDE DEF y
      <3>6. /\ Len(blocks) \in Nat /\ DOMAIN blocks = 1..Len(blocks) /\ DOMAIN blocks' = 1..Len(blocks) + 1
            /\ blocks'[Len(blocks) + 1] = y /\ \A a \in DOMAIN blocks : blocks'[a] = blocks[a]
        BY <1>1, <3>2, <3>3, <3>4, AppendGrows
      <3>7. b \in DOMAIN blocks' /\ b \notin DOMAIN blocks /\ DOMAIN blocks' = DOMAIN blocks \cup {b}
        BY <3>2, <3>6
      <3> QED
        BY <3>2, <3>4, <3>5, <3>6, <3>7 DEF Same
    <2> QED
      BY <2>3, <2>4
  <1>8. UNCHANGED <<FieldValues, ArrayValues>>
    <2>1. \A a \in DOMAIN blocks : blocks[a].of # "static" => blocks'[a] = blocks[a]
      BY <1>7
    <2>2. \A a \in DOMAIN blocks' \ DOMAIN blocks : blocks'[a].of = "static"
      BY <1>7
    <2> QED
      BY <1>1, <1>3, <1>7, <2>1, <2>2, BesideStatics
  <1>9. StaticValues' = Store!With(StaticValues, r, v)
    <2> HIDE DEF b
    <2>1. StaticValues' = [k \in DOMAIN statics \cup {r} |-> Read(blocks'[statics'[k]], 0, SizeOf(StaticFd(k)))]
      BY <1>5 DEF StaticValues
    <2>2. Read(blocks'[statics'[r]], 0, SizeOf(StaticFd(r))) = v
      BY <1>5, <1>7
    <2>3. \A k \in DOMAIN statics \ {r} : blocks'[statics'[k]] = blocks[statics[k]]
      BY <1>5, <1>6, <1>7
    <2>4. DOMAIN StaticValues = DOMAIN statics
      BY DEF StaticValues
    <2>5. \A k \in DOMAIN statics \ {r} :
              Read(blocks'[statics'[k]], 0, SizeOf(StaticFd(k))) = StaticValues[k]
      BY <2>3 DEF StaticValues
    <2> DEFINE new(k) == Read(blocks'[statics'[k]], 0, SizeOf(StaticFd(k)))
    <2>6. StaticValues' = [k \in DOMAIN statics \cup {r} |-> new(k)] /\ new(r) = v
      BY <2>1, <2>2
    <2>7. \A k \in DOMAIN statics \ {r} : new(k) = StaticValues[k]
      BY <2>5
    <2> HIDE DEF new
    <2>8. StaticValues' = [k \in DOMAIN StaticValues \cup {r} |-> IF k = r THEN v ELSE StaticValues[k]]
      BY <2>4, <2>6, <2>7
    <2> QED
      BY <2>8 DEF Store!With
  <1> QED
    BY <1>3, <1>8, <1>9 DEF Store!PutStatic

\* A static variable that was assigned is read back without its sign; the
\* value was one that has none.
LEMMA GetStaticMaps ==
    ASSUME HeapInv, GetStatic, ~odd'
    PROVE  \E key \in {r \in StaticRefs : ~Elsewhere(r)} : Store!GetStatic(key)
  <1>1. PICK r \in StaticRefs :
            LET v == Read(blocks[statics[r]], 0, SizeOf(StaticFd(r)))
                set == r \in DOMAIN statics
            IN  /\ Operation(\/ Elsewhere(r) \/ TwoOperands(StaticFd(r))
                             \/ IF set THEN Unsigned(StaticFd(r), v) # v ELSE ~IsReference(StaticFd(r)))
                /\ Returns(IF set THEN <<Unsigned(StaticFd(r), v)>> ELSE <<>>)
                /\ Stay
    BY DEF GetStatic
  <1>2. /\ ~Elsewhere(r)
        /\ answer' = IF r \in DOMAIN statics THEN <<Read(blocks[statics[r]], 0, SizeOf(StaticFd(r)))>> ELSE <<>>
    BY <1>1, NotDeviating DEF Returns
  <1>3. answer' = IF r \in DOMAIN StaticValues THEN <<StaticValues[r]>> ELSE <<>>
    BY <1>2 DEF StaticValues
  <1>4. UNCHANGED <<FieldValues, StaticValues, ArrayValues>>
    BY <1>1, StoreSame DEF Stay, Tables
  <1> QED
    BY <1>2, <1>3, <1>4 DEF Store!GetStatic

\* The elements of an array that has just been made or was read.
Elements(a) ==
    [i \in 1..blocks[a].length |-> IF a \in CharArrays THEN LoadedChar(blocks[a], i - 1) ELSE Junk]

LEMMA ArrayDef ==
    ASSUME Shaped, NEW a \in AllArrays
    PROVE  /\ a \in DOMAIN blocks /\ BlockOK(blocks[a]) /\ blocks[a].length \in Nat /\ blocks[a].size \in Nat
           /\ ArrayValues[a] = Elements(a) /\ DOMAIN Elements(a) = 1..blocks[a].length
           /\ a \in CharArrays => blocks[a].size = 2 * blocks[a].length
  <1>1. a \in DOMAIN blocks /\ BlockOK(blocks[a])
    BY DEF AllArrays, Shaped
  <1>2. /\ blocks[a].length \in Nat /\ blocks[a].size \in Nat
        /\ a \in CharArrays => blocks[a].size = 2 * blocks[a].length
    BY <1>1 DEF BlockOK, CharArrays
  <1> QED
    BY <1>1, <1>2 DEF ArrayValues, Elements

LEMMA NewArrayMaps ==
    ASSUME HeapInv, NewArray, ~odd'
    PROVE  Store!NewArray
  <1>1. Shaped /\ ObjectsPlaced
    BY DEF HeapInv, HeapTypeOK
  <1>2. PICK t \in 4..11, n \in Lengths :
            LET size == ElementSize[t] * n
                b == Len(blocks) + 1
            IN  /\ Operation(n < 0 \/ size > MaxSize)
                /\ IF n < 0 THEN Ends("panic") /\ Stay
                   ELSE /\ blocks' = Append(blocks, Block(IF t = 5 THEN "chars" ELSE "array", size, n))
                        /\ UNCHANGED <<objects, statics>>
                        /\ IF size > MaxSize THEN Ends("panic") /\ arrays' = arrays
                           ELSE Returns(<<b>>) /\ arrays' = Registered(b)
    BY DEF NewArray
  <1> DEFINE size == ElementSize[t] * n
             of == IF t = 5 THEN "chars" ELSE "array"
             x == Block(of, size, n)
  <1>3. n \in Nat /\ size \in Nat /\ size <= MaxSize /\ (t = 5 => size = 2 * n)
    <2>1. n \in Int /\ MaxSize \in Nat
      BY ValuesAssumption, BoundsAssumption
    <2>2. ~(n < 0) /\ ~(size > MaxSize)
      BY <1>2, NotDeviating
    <2> QED
      BY <2>1, <2>2, ElementSizeDef
  <1>4. /\ blocks' = Append(blocks, x) /\ UNCHANGED <<objects, statics>>
        /\ answer' = <<Len(blocks) + 1>> /\ steps' = steps + 1 /\ steps < Fuel
    BY <1>2, <1>3 DEF Returns, Operation
  <1> HIDE DEF size
  <1>5. of \in {"chars", "array"} /\ (of = "chars" => size = 2 * n)
    BY <1>3
  <1> HIDE DEF of
  <1>6. /\ BlockOK(x) /\ x.of = of /\ x.size = size /\ x.length = n /\ x.freed = <<>>
        /\ \A i \in 0..size - 1 : x.bytes[i] = <<>>
    BY <1>3, <1>5, BlockDef
  <1> HIDE DEF x
  <1>7. PICK p : p = Len(blocks) + 1
    OBVIOUS
  <1>8. /\ Len(blocks) \in Nat /\ DOMAIN blocks = 1..Len(blocks) /\ DOMAIN blocks' = 1..Len(blocks) + 1
        /\ blocks'[p] = x /\ \A b \in DOMAIN blocks : blocks'[b] = blocks[b]
    BY <1>1, <1>4, <1>6, <1>7, AppendGrows
  <1>9. p \in 1..2 * Fuel /\ p \notin DOMAIN blocks /\ DOMAIN blocks' = DOMAIN blocks \cup {p}
    <2>1. Len(blocks) <= 2 * steps /\ steps \in Nat /\ Fuel \in Nat
      BY <1>1, BoundsAssumption DEF Shaped
    <2> QED
      BY <1>4, <1>7, <1>8, <2>1
  <1>10. AllArrays' = AllArrays \cup {p} /\ p \notin AllArrays
    BY <1>3, <1>5, <1>6, <1>8, <1>9 DEF AllArrays
  <1>11. \A a \in AllArrays : blocks'[a] = blocks[a] /\ (a \in CharArrays' <=> a \in CharArrays)
    BY <1>8, <1>10 DEF CharArrays, AllArrays
  <1>12. \A a \in AllArrays : Elements(a)' = ArrayValues[a]
    BY <1>11 DEF ArrayValues, Elements
  <1>13. \A i \in 1..n : p \in CharArrays' => LoadedChar(x, i - 1) = Junk
    <2> SUFFICES ASSUME NEW i \in 1..n, p \in CharArrays'
                 PROVE  LoadedChar(x, i - 1) = Junk
      OBVIOUS
    <2>1. size = 2 * n
      BY <1>5, <1>6, <1>8 DEF CharArrays
    <2>2. 2 * (i - 1) \in 0..size - 1
      BY <1>3, <2>1
    <2>3. Read(x, 2 * (i - 1), 2) = Junk
      BY <1>6, <2>2, ReadFresh
    <2> QED
      BY <2>3, UnsignedChar DEF LoadedChar, Element
  <1>14. Elements(p)' = [i \in 1..n |-> Junk]
    <2>1. Elements(p)' = [i \in 1..n |-> IF p \in CharArrays' THEN LoadedChar(x, i - 1) ELSE Junk]
      BY <1>6, <1>8 DEF Elements, LoadedChar
    <2> QED
      BY <1>13, <2>1
  <1>15. ArrayValues' = Store!With(ArrayValues, p, [i \in 1..n |-> Junk])
    <2> DEFINE new(a) == Elements(a)'
               blank == [i \in 1..n |-> Junk]
    <2>1. ArrayValues' = [a \in AllArrays' |-> new(a)]
      BY DEF ArrayValues, Elements
    <2>2. DOMAIN ArrayValues = AllArrays
      BY DEF ArrayValues
    <2>3. new(p) = blank /\ \A a \in AllArrays : new(a) = ArrayValues[a]
      BY <1>12, <1>14
    <2> HIDE DEF new, blank
    <2>4. ArrayValues' = [a \in AllArrays \cup {p} |-> IF a = p THEN blank ELSE ArrayValues[a]]
      BY <1>10, <2>1, <2>3
    <2> QED
      BY <2>2, <2>4 DEF Store!With, blank
  <1>16. UNCHANGED FieldValues
    <2>1. \A k \in DOMAIN objects : objects[k].ptr \in DOMAIN blocks
      BY <1>1, ObjectDef
    <2> QED
      BY <1>1, <1>4, <1>8, <2>1, FieldsSame
  <1>17. UNCHANGED StaticValues
    <2>1. \A r \in DOMAIN statics : statics[r] \in DOMAIN blocks
      BY <1>1 DEF Shaped
    <2> QED
      BY <1>4, <1>8, <2>1, StaticsSame
  <1>18. p \in 1..2 * Fuel \ DOMAIN ArrayValues
    BY <1>9, <1>10 DEF ArrayValues
  <1>19. n \in Lengths /\ n >= 0 /\ answer' = <<p>>
    BY <1>3, <1>4, <1>7
  <1> QED
    BY <1>15, <1>16, <1>17, <1>18, <1>19 DEF Store!NewArray

\* The i-th char of an array is its element i + 1, and lies within the body.
LEMMA ElementDef ==
    ASSUME Shaped, NEW a \in CharArrays, NEW i \in 0..blocks[a].length - 1
    PROVE  /\ i + 1 \in DOMAIN ArrayValues[a] /\ a \in DOMAIN ArrayValues
           /\ ArrayValues[a][i + 1] = LoadedChar(blocks[a], i)
           /\ Element(i) \in Nat /\ Element(i) + 2 <= blocks[a].size
  <1>1. a \in AllArrays
    BY DEF CharArrays
  <1>2. /\ blocks[a].length \in Nat /\ blocks[a].size = 2 * blocks[a].length
        /\ ArrayValues[a] = Elements(a)
    BY <1>1, ArrayDef
  <1>3. i + 1 \in 1..blocks[a].length /\ (i + 1) - 1 = i
    BY <1>2
  <1>4. i + 1 \in DOMAIN Elements(a) /\ Elements(a)[i + 1] = LoadedChar(blocks[a], i)
    BY <1>3 DEF Elements
  <1>5. Element(i) \in Nat /\ Element(i) + 2 <= blocks[a].size
    BY <1>2 DEF Element
  <1>6. a \in DOMAIN ArrayValues
    BY <1>1 DEF ArrayValues
  <1> QED
    BY <1>2, <1>4, <1>5, <1>6

\* A char is stored in its place and no other.
LEMMA CharStoreMaps ==
    ASSUME HeapInv, CharStore, ~odd'
    PROVE  Store!Store
  <1>1. Shaped /\ ObjectsPlaced /\ StaticsPlaced
    BY DEF HeapInv, HeapTypeOK
  <1>2. PICK a \in CharArrays, i \in -1..2 * MaxSize, v \in Values :
            LET b == blocks[a]
            IN  /\ Operation(i \notin 0..b.length - 1)
                /\ IF i < 0 \/ i >= b.size THEN Ends("panic") /\ Stay
                   ELSE IF ~Inside(b, Element(i), 2) THEN Ends("stray") /\ Stay
                   ELSE /\ blocks' = [blocks EXCEPT ![a] = Written(@, Element(i), 2, v)]
                        /\ Returns(<<>>) /\ UNCHANGED Tables
    BY DEF CharStore
  <1>3. i \in 0..blocks[a].length - 1
    BY <1>2, NotDeviating
  <1>4. /\ a \in DOMAIN blocks /\ a \in AllArrays /\ BlockOK(blocks[a]) /\ blocks[a].length \in Nat
        /\ blocks[a].size = 2 * blocks[a].length
    BY <1>1, ArrayDef DEF CharArrays
  <1>5. Element(i) \in Nat /\ Element(i) + 2 <= blocks[a].size
    BY <1>1, <1>3, ElementDef
  <1>6. /\ blocks' = [blocks EXCEPT ![a] = Written(@, Element(i), 2, v)]
        /\ answer' = <<>> /\ UNCHANGED <<objects, statics, arrays>>
    <2>1. ~(i < 0 \/ i >= blocks[a].size) /\ Inside(blocks[a], Element(i), 2)
      BY <1>3, <1>4, <1>5 DEF Inside
    <2> QED
      BY <1>2, <2>1 DEF Returns, Tables
  <1>7. /\ blocks'[a] = Written(blocks[a], Element(i), 2, v)
        /\ \A b \in DOMAIN blocks \ {a} : blocks'[b] = blocks[b]
        /\ AllArrays' = AllArrays /\ CharArrays' = CharArrays
    <2>1. Element(i) \in Int /\ 2 \in Nat
      BY <1>5
    <2> QED
      BY <1>1, <1>4, <1>6, <2>1, BlockStored
  <1> DEFINE n == blocks[a].length
             x == blocks[a]
             y == blocks'[a]
  <1>8. BlockOK(y) /\ Same(y, x)
    <2>1. Element(i) \in Int /\ 2 \in Nat /\ BlockOK(x) /\ y = Written(x, Element(i), 2, v)
      BY <1>4, <1>5, <1>7
    <2> HIDE DEF x, y
    <2> QED
      BY <2>1, WrittenDef
  <1>9. LoadedChar(y, i) = v % 65536
    <2>1. y = Written(x, Element(i), 2, v) /\ BlockOK(x) /\ Element(i) + 2 <= x.size /\ 2 \in 1..8
      BY <1>4, <1>5, <1>7
    <2> HIDE DEF x, y
    <2>2. Read(y, Element(i), 2) = v
      <3>1. 2 <= 2
        OBVIOUS
      <3> QED
        BY <1>5, <2>1, <3>1, ReadWritten
    <2>3. v # Junk
      BY ValuesAssumption
    <2> QED
      BY <2>2, <2>3, UnsignedChar DEF LoadedChar
  <1>10. ASSUME NEW j \in 0..n - 1, j # i
         PROVE  LoadedChar(y, j) = LoadedChar(x, j)
    <2>1. Element(j) \in Nat /\ Element(j) + 2 <= x.size
      BY <1>1, ElementDef
    <2>2. Element(j) + 2 <= Element(i) \/ Element(i) + 2 <= Element(j)
      BY <1>3, <1>10, <1>4 DEF Element
    <2>3. y = Written(x, Element(i), 2, v) /\ BlockOK(x) /\ 2 \in 1..8
      BY <1>4, <1>7
    <2> HIDE DEF x, y
    <2>4. Read(y, Element(j), 2) = Read(x, Element(j), 2)
      BY <1>5, <2>1, <2>2, <2>3, ReadBeside
    <2> QED
      BY <2>4 DEF LoadedChar
  <1>11. /\ a \in CharArrays'
         /\ ArrayValues[a] = [k \in 1..n |-> LoadedChar(x, k - 1)]
         /\ ArrayValues'[a] = [k \in 1..n |-> LoadedChar(y, k - 1)]
    <2>1. y.length = n
      BY <1>8 DEF Same
    <2>2. ArrayValues' = [b \in AllArrays |-> [k \in 1..blocks'[b].length |->
              IF b \in CharArrays THEN LoadedChar(blocks'[b], k - 1) ELSE Junk]]
      BY <1>7 DEF ArrayValues, LoadedChar
    <2> QED
      BY <1>4, <1>7, <2>1, <2>2 DEF ArrayValues
  <1>12. ArrayValues'[a] = [ArrayValues[a] EXCEPT ![i + 1] = v % 65536]
    <2> DEFINE old(k) == LoadedChar(x, k - 1)
               new(k) == LoadedChar(y, k - 1)
               w == v % 65536
    <2>1. i + 1 \in 1..n /\ new(i + 1) = w
      BY <1>3, <1>4, <1>9
    <2>2. \A k \in 1..n : k # i + 1 => new(k) = old(k)
      <3> SUFFICES ASSUME NEW k \in 1..n, k # i + 1
                   PROVE  new(k) = old(k)
        OBVIOUS
      <3>1. k - 1 \in 0..n - 1 /\ k - 1 # i
        BY <1>3, <1>4
      <3> QED
        BY <1>10, <3>1
    <2>3. ArrayValues[a] = [k \in 1..n |-> old(k)] /\ ArrayValues'[a] = [k \in 1..n |-> new(k)]
      BY <1>11
    <2> HIDE DEF old, new, n, w
    <2>4. ArrayValues'[a] = [ArrayValues[a] EXCEPT ![i + 1] = w]
      BY <2>1, <2>2, <2>3
    <2> QED
      BY <2>4 DEF w
  <1>13. ArrayValues' = [ArrayValues EXCEPT ![a][i + 1] = v % 65536]
    <2>1. DOMAIN ArrayValues' = AllArrays /\ DOMAIN ArrayValues = AllArrays
      BY <1>7 DEF ArrayValues
    <2>2. \A b \in AllArrays \ {a} : ArrayValues'[b] = ArrayValues[b]
      <3>1. \A b \in AllArrays \ {a} : blocks'[b] = blocks[b] /\ (b \in CharArrays' <=> b \in CharArrays)
        BY <1>7 DEF AllArrays
      <3>2. ArrayValues' = [b \in AllArrays |-> [k \in 1..blocks'[b].length |->
                IF b \in CharArrays' THEN LoadedChar(blocks'[b], k - 1) ELSE Junk]]
        BY <1>7 DEF ArrayValues, LoadedChar
      <3> QED
        BY <3>1, <3>2 DEF ArrayValues
    <2>3. ArrayValues' = [b \in AllArrays |-> ArrayValues'[b]] /\ ArrayValues = [b \in AllArrays |-> ArrayValues[b]]
      BY <1>7 DEF ArrayValues
    <2> DEFINE w == [ArrayValues[a] EXCEPT ![i + 1] = v % 65536]
    <2>4. ArrayValues'[a] = w
      BY <1>12
    <2> HIDE DEF w
    <2>5. ArrayValues' = [ArrayValues EXCEPT ![a] = w]
      BY <1>4, <2>2, <2>3, <2>4
    <2> QED
      BY <2>5 DEF w
  <1>14. UNCHANGED FieldValues
    <2>1. \A k \in DOMAIN objects : objects[k].ptr \in DOMAIN blocks \ {a}
      <3>1. blocks[a].of = "chars"
        BY DEF CharArrays
      <3> QED
        BY <1>1, <3>1, ObjectDef
    <2> QED
      BY <1>1, <1>6, <1>7, <2>1, FieldsSame
  <1>15. UNCHANGED StaticValues
    <2>1. \A r \in DOMAIN statics : statics[r] \in DOMAIN blocks \ {a}
      BY <1>1 DEF Shaped, StaticsPlaced, CharArrays
    <2> QED
      BY <1>6, <1>7, <2>1, StaticsSame
  <1>16. i + 1 \in DOMAIN ArrayValues[a] /\ a \in DOMAIN ArrayValues
    BY <1>1, <1>3, ElementDef
  <1>17. PICK e \in DOMAIN ArrayValues[a] : e = i + 1
    BY <1>16
  <1>18. ArrayValues' = [ArrayValues EXCEPT ![a][e] = Store!AsChar(v)]
    BY <1>13, <1>17 DEF Store!AsChar
  <1> QED
    BY <1>6, <1>14, <1>15, <1>16, <1>18 DEF Store!Store

LEMMA CharLoadMaps ==
    ASSUME HeapInv, CharLoad, ~odd'
    PROVE  Store!Load
  <1>1. Shaped
    BY DEF HeapInv
  <1>2. PICK a \in CharArrays, i \in -1..2 * MaxSize :
            LET b == blocks[a]
            IN  /\ Operation(i \notin 0..b.length - 1 \/ LoadedChar(b, i) = Junk)
                /\ IF i < 0 THEN Ends("panic")
                   ELSE IF ~Inside(b, Element(i), 2) THEN Ends("wild")
                   ELSE Returns(<<LoadedChar(b, i)>>)
                /\ Stay
    BY DEF CharLoad
  <1>3. i \in 0..blocks[a].length - 1
    BY <1>2, NotDeviating
  <1>4. /\ i + 1 \in DOMAIN ArrayValues[a] /\ a \in DOMAIN ArrayValues
        /\ ArrayValues[a][i + 1] = LoadedChar(blocks[a], i)
        /\ Element(i) \in Nat /\ Element(i) + 2 <= blocks[a].size
    BY <1>1, <1>3, ElementDef
  <1>5. answer' = <<LoadedChar(blocks[a], i)>>
    <2>1. ~(i < 0) /\ Inside(blocks[a], Element(i), 2)
      BY <1>3, <1>4 DEF Inside
    <2> QED
      BY <1>2, <2>1 DEF Returns
  <1>6. PICK e \in DOMAIN ArrayValues[a] : e = i + 1
    BY <1>4
  <1>7. answer' = <<ArrayValues[a][e]>>
    BY <1>4, <1>5, <1>6
  <1>8. UNCHANGED <<FieldValues, StaticValues, ArrayValues>>
    BY <1>2, StoreSame DEF Stay, Tables
  <1> QED
    BY <1>4, <1>7, <1>8 DEF Store!Load

LEMMA ArrayLengthMaps ==
    ASSUME HeapInv, ArrayLength, ~odd'
    PROVE  Store!Length
  <1>1. Shaped
    BY DEF HeapInv
  <1>2. PICK a \in AllArrays : Operation(FALSE) /\ Returns(<<blocks[a].length>>) /\ Stay
    BY DEF ArrayLength, Operation
  <1>3. blocks[a].length \in Nat /\ ArrayValues[a] = Elements(a) /\ a \in DOMAIN ArrayValues
    BY <1>1, ArrayDef DEF ArrayValues
  <1>4. Len(ArrayValues[a]) = blocks[a].length
    <2> DEFINE n == blocks[a].length
               f == ArrayValues[a]
               S == {f[k] : k \in 1..n}
    <2>1. f = [k \in 1..n |-> f[k]] /\ n \in Nat
      BY <1>3 DEF Elements
    <2>2. \A k \in 1..n : f[k] \in S
      OBVIOUS
    <2> HIDE DEF S, f, n
    <2>3. f \in Seq(S) /\ Len(f) = n
      BY <2>1, <2>2
    <2> QED
      BY <2>3 DEF f, n
  <1>5. answer' = <<Len(ArrayValues[a])>>
    BY <1>2, <1>4 DEF Returns
  <1>6. UNCHANGED <<FieldValues, StaticValues, ArrayValues>>
    BY <1>2, StoreSame DEF Stay, Tables
  <1> QED
    BY <1>3, <1>5, <1>6 DEF Store!Length

\* The text of a string object is the array its field refers to.
LEMMA PrintStringMaps ==
    ASSUME HeapInv, PrintString, ~odd'
    PROVE  Store!ReadString
  <1>1. Shaped /\ ObjectsPlaced
    BY DEF HeapInv, HeapTypeOK
  <1>2. PICK k \in DOMAIN objects :
            LET made == Read(blocks[objects[k].ptr], Offset[Text][Chars], 8) \in CharArrays
            IN  /\ objects[k].class = Text /\ Operation(~made)
                /\ IF made THEN Returns(TextAt(k)) ELSE Ends("wild")
                /\ Stay
    BY DEF PrintString
  <1> DEFINE a == Read(blocks[objects[k].ptr], Offset[Text][Chars], 8)
  <1>3. a \in CharArrays
    BY <1>2, NotDeviating
  <1>4. answer' = TextAt(k) /\ Stay /\ objects[k].class = Text
    BY <1>2, <1>3 DEF Returns
  <1>5. /\ k \in DOMAIN FieldValues /\ FieldValues[k].class = Text
        /\ FieldValues[k].at[<<Text, Chars>>] = a
    <2>1. k \in DOMAIN FieldValues /\ FieldValues[k] = Contents(k)
      BY DEF FieldValues
    <2>2. <<Text, Chars>> \in Slots[Text] /\ Width(Text, Chars) = 8
      BY TextDef
    <2> QED
      BY <1>4, <2>1, <2>2 DEF Contents
  <1> HIDE DEF a
  <1>6. a \in DOMAIN ArrayValues /\ ArrayValues[a] = Elements(a)
    BY <1>1, <1>3, ArrayDef DEF CharArrays, ArrayValues
  <1>7. TextAt(k) = Elements(a)
    <2>1. blocks[a].length \in Nat /\ blocks[a].size = 2 * blocks[a].length
      BY <1>1, <1>3, ArrayDef DEF CharArrays
    <2>2. blocks[a].size \div 2 = blocks[a].length
      BY <2>1
    <2>3. TextAt(k) = [i \in 1..blocks[a].size \div 2 |-> LoadedChar(blocks[a], i - 1)]
      BY DEF TextAt, a
    <2> QED
      BY <1>3, <2>2, <2>3 DEF Elements
  <1>8. UNCHANGED <<FieldValues, StaticValues, ArrayValues>>
    BY <1>4, StoreSame DEF Stay, Tables
  <1> QED
    BY <1>4, <1>5, <1>6, <1>7, <1>8 DEF Store!ReadString

\* A char is its own value without the sign.
LEMMA CharUnsigned ==
    ASSUME NEW ch \in Char16
    PROVE  ch % 65536 = ch
  <1>1. ch \in Int /\ 0 <= ch /\ ch < 65536
    BY SMT DEF Char16
  <1> QED
    BY <1>1, SMTT(30)

\* create_string stores the characters where caload finds them.
LEMMA CharsReadBack ==
    ASSUME NEW text \in Literals, NEW i \in 1..Len(text)
    PROVE  LoadedChar(CharsBlock(text), i - 1) = text[i]
  <1> DEFINE b == CharsBlock(text)
             off == Element(i - 1)
  <1>1. /\ Len(text) \in Nat /\ text[i] \in Char16
        /\ \A p \in 0..2 * Len(text) - 1 : b.bytes[p] = <<text[p \div 2 + 1], p % 2>>
    <2>1. text \in Seq(Char16)
      BY LiteralsAssumption
    <2>2. text[i] \in Char16
      BY <2>1
    <2> QED
      BY <2>2, CharsBlockDef
  <1> HIDE DEF b
  <1>2. off \in Nat /\ off = 2 * (i - 1)
    BY <1>1 DEF Element
  <1>3. ASSUME NEW j \in 0..1
        PROVE  b.bytes[off + j] = <<text[i], j>>
    <2>1. \A n \in Nat : \A k \in 1..n : /\ 2 * (k - 1) + j \in 0..2 * n - 1
                                          /\ (2 * (k - 1) + j) \div 2 = k - 1 /\ (2 * (k - 1) + j) % 2 = j
      OBVIOUS
    <2> HIDE DEF off
    <2>2. off + j \in 0..2 * Len(text) - 1 /\ (off + j) \div 2 = i - 1 /\ (off + j) % 2 = j
      BY <1>1, <1>2, <2>1
    <2>3. (off + j) \div 2 + 1 = i
      BY <1>1, <2>2
    <2> QED
      BY <1>1, <2>2, <2>3
  <1> HIDE DEF off
  <1>4. Read(b, off, 2) = text[i]
    <2>1. 2 \in 1..8 /\ 0..2 - 1 = 0..1
      OBVIOUS
    <2>2. \A j \in 0..2 - 1 : b.bytes[off + j] = <<text[i], j>>
      BY <1>3, <2>1
    <2> QED
      BY <1>2, <2>1, <2>2, ReadStored
  <1>5. LoadedChar(b, i - 1) = Unsigned(Field(0, "C", <<>>), text[i])
    BY <1>4 DEF LoadedChar, off
  <1>6. Unsigned(Field(0, "C", <<>>), text[i]) = text[i]
    BY <1>1, CharUnsigned, UnsignedChar
  <1> QED
    BY <1>5, <1>6 DEF b

\* A string is an object and the array its field refers to.
LEMMA CreateStringMaps ==
    ASSUME HeapInv, WithinCapacity, CreateString, ~odd'
    PROVE  Store!NewString
  <1>1. Shaped /\ ObjectsPlaced
    BY DEF HeapInv, HeapTypeOK
  <1>2. PICK text \in Literals :
            LET ptr == Len(blocks) + 2
            IN  /\ Operation(Len(objects) = Capacity) /\ statics' = statics
                /\ IF Len(objects) = Capacity
                   THEN blocks' = Append(blocks, AllocateClass(Text)) /\ Ends("error")
                        /\ UNCHANGED <<objects, arrays>>
                   ELSE /\ blocks' = blocks \o <<TextBlock(ptr), CharsBlock(text)>>
                        /\ objects' = Append(objects, [class |-> Text, ptr |-> ptr - 1, live |-> TRUE])
                        /\ arrays' = Registered(ptr)
                        /\ Returns(<<Len(objects)>>)
    BY CreateStringDef
  <1>3. Len(objects) # Capacity
    BY <1>2, NotDeviating
  <1>4. PICK p : p = Len(blocks) + 2
    OBVIOUS
  <1>5. PICK o : o = Len(blocks) + 1
    OBVIOUS
  <1>6. Len(blocks) \in Nat /\ p - 1 = o
    BY <1>1, <1>4, <1>5 DEF Shaped
  <1> DEFINE x == TextBlock(p)
             y == CharsBlock(text)
             off == Offset[Text][Chars]
  <1>7. /\ blocks' = blocks \o <<x, y>>
        /\ objects' = Append(objects, [class |-> Text, ptr |-> o, live |-> TRUE])
        /\ answer' = <<Len(objects)>> /\ UNCHANGED statics /\ steps < Fuel
    BY <1>2, <1>3, <1>4, <1>6 DEF Returns, Operation
  <1>8. /\ BlockOK(x) /\ x.of = "object" /\ x.size = FullSize[Text] /\ x.freed = <<>>
        /\ \A i \in 0..FullSize[Text] - 1 :
             x.bytes[i] = IF i \in off..off + 7 THEN <<p, i - off>> ELSE <<>>
    BY TextBlockDef
  <1>9. /\ BlockOK(y) /\ y.of = "chars" /\ y.size = 2 * Len(text) /\ y.length = Len(text)
        /\ y.freed = <<>> /\ y.size <= MaxSize /\ Len(text) \in Nat
    BY CharsBlockDef
  <1> HIDE DEF x, y
  <1>10. /\ DOMAIN blocks = 1..Len(blocks) /\ DOMAIN blocks' = 1..Len(blocks) + 2
         /\ blocks'[o] = x /\ blocks'[p] = y /\ \A b \in DOMAIN blocks : blocks'[b] = blocks[b]
    BY <1>1, <1>4, <1>5, <1>7, <1>8, <1>9, AppendTwoGrows
  <1>11. /\ p \in 1..2 * Fuel /\ p \notin DOMAIN blocks /\ DOMAIN blocks' = DOMAIN blocks \cup {o, p}
         /\ o # p
    <2>1. Len(blocks) <= 2 * steps /\ steps \in Nat /\ Fuel \in Nat
      BY <1>1, BoundsAssumption DEF Shaped
    <2> QED
      BY <1>4, <1>5, <1>6, <1>7, <1>10, <2>1
  <1>12. /\ Len(FieldValues) = Len(objects)
         /\ FieldValues' = Append(FieldValues,
              [class |-> Text, at |-> [s \in Slots[Text] |->
                  Read(blocks'[o], Offset[s[1]][s[2]], Width(s[1], s[2]))]])
    <2>1. Text \in Classes
      BY TextDef
    <2> QED
      BY <1>1, <1>7, <1>10, <2>1, ObjectsAdded
  <1>13. Read(x, off, 8) = p
    <2>1. off \in Nat /\ off + 8 <= FullSize[Text] /\ FullSize[Text] \in Nat
      BY TextDef
    <2> HIDE DEF off
    <2>2. \A i \in 0..8 - 1 : x.bytes[off + i] = <<p, i>>
      <3> TAKE i \in 0..8 - 1
      <3>1. off + i \in 0..FullSize[Text] - 1 /\ off + i \in off..off + 7 /\ (off + i) - off = i
        BY <2>1
      <3> QED
        BY <1>8, <3>1
    <2>3. 8 \in 1..8
      OBVIOUS
    <2> QED
      BY <2>1, <2>2, <2>3, ReadStored
  <1>14. ASSUME NEW s \in Slots[Text] \ {<<Text, Chars>>}
         PROVE  Read(x, Offset[s[1]][s[2]], Width(s[1], s[2])) = Junk
    <2> DEFINE at == Offset[s[1]][s[2]]
               wide == Width(s[1], s[2])
    <2>1. at \in Nat /\ wide \in 1..8 /\ at + wide <= FullSize[Text] /\ FullSize[Text] \in Nat
      BY TextDef, SlotInside
    <2>2. ~(at < off + 8 /\ off < at + wide)
      BY TextAssumption DEF Disturbs
    <2>3. off \in Nat
      BY TextDef
    <2> HIDE DEF at, wide, off
    <2>4. at \in 0..FullSize[Text] - 1 /\ at \notin off..off + 7
      BY <2>1, <2>2, <2>3
    <2>5. x.bytes[at] = <<>>
      BY <1>8, <2>4
    <2> QED
      BY <2>5, ReadFresh DEF at
  <1>15. FieldValues' = Append(FieldValues, [Store!Blank(Text) EXCEPT !.at[<<Text, Chars>>] = p])
    <2> DEFINE new == [s \in Slots[Text] |-> Read(x, Offset[s[1]][s[2]], Width(s[1], s[2]))]
               blank == [s \in Slots[Text] |-> Junk]
    <2>1. <<Text, Chars>> \in Slots[Text] /\ Width(Text, Chars) = 8
      BY TextDef
    <2>2. new[<<Text, Chars>>] = p /\ \A s \in Slots[Text] \ {<<Text, Chars>>} : new[s] = Junk
      BY <1>13, <1>14, <2>1
    <2>3. new = [s \in Slots[Text] |-> new[s]]
      OBVIOUS
    <2>4. FieldValues' = Append(FieldValues, [class |-> Text, at |-> new])
      BY <1>10, <1>12
    <2>5. Store!Blank(Text) = [class |-> Text, at |-> blank]
      BY TextDef DEF Store!Blank
    <2> HIDE DEF new
    <2>6. new = [blank EXCEPT ![<<Text, Chars>>] = p]
      BY <2>1, <2>2, <2>3
    <2> HIDE DEF blank
    <2>7. [Store!Blank(Text) EXCEPT !.at[<<Text, Chars>>] = p] = [class |-> Text, at |-> new]
      BY <2>5, <2>6
    <2> QED
      BY <2>4, <2>7
  <1>16. AllArrays' = AllArrays \cup {p} /\ p \notin AllArrays /\ p \in CharArrays'
    <2>1. p \in AllArrays' /\ o \notin AllArrays'
      BY <1>8, <1>9, <1>10, <1>11 DEF AllArrays
    <2>2. \A b \in DOMAIN blocks : b \in AllArrays' <=> b \in AllArrays
      BY <1>10, <1>11 DEF AllArrays
    <2>3. AllArrays \subseteq DOMAIN blocks /\ AllArrays' \subseteq DOMAIN blocks \cup {o, p}
      BY <1>11 DEF AllArrays
    <2>4. p \in CharArrays'
      BY <1>9, <1>10, <2>1 DEF CharArrays
    <2> QED
      BY <1>11, <2>1, <2>2, <2>3, <2>4
  <1>17. \A a \in AllArrays : blocks'[a] = blocks[a] /\ (a \in CharArrays' <=> a \in CharArrays)
    BY <1>10, <1>16 DEF CharArrays, AllArrays
  <1>18. \A a \in AllArrays : Elements(a)' = ArrayValues[a]
    BY <1>17 DEF ArrayValues, Elements
  <1>19. Elements(p)' = text
    <2>1. Elements(p)' = [i \in 1..Len(text) |-> LoadedChar(y, i - 1)]
      BY <1>9, <1>10, <1>16 DEF Elements, LoadedChar
    <2>2. \A i \in 1..Len(text) : LoadedChar(y, i - 1) = text[i]
      BY CharsReadBack DEF y
    <2>3. text = [i \in 1..Len(text) |-> text[i]]
      <3>1. \A S, u : u \in Seq(S) => u = [i \in 1..Len(u) |-> u[i]]
        OBVIOUS
      <3>2. text \in Seq(Char16)
        BY LiteralsAssumption
      <3> QED
        BY <3>1, <3>2, Zenon
    <2> QED
      BY <2>1, <2>2, <2>3
  <1>20. ArrayValues' = Store!With(ArrayValues, p, text)
    <2> DEFINE new(a) == Elements(a)'
    <2>1. ArrayValues' = [a \in AllArrays' |-> new(a)]
      BY DEF ArrayValues, Elements
    <2>2. DOMAIN ArrayValues = AllArrays
      BY DEF ArrayValues
    <2>3. new(p) = text /\ \A a \in AllArrays : new(a) = ArrayValues[a]
      BY <1>18, <1>19
    <2> HIDE DEF new
    <2>4. ArrayValues' = [a \in AllArrays \cup {p} |-> IF a = p THEN text ELSE ArrayValues[a]]
      BY <1>16, <2>1, <2>3
    <2> QED
      BY <2>2, <2>4 DEF Store!With
  <1>21. UNCHANGED StaticValues
    <2>1. \A r \in DOMAIN statics : statics[r] \in DOMAIN blocks
      BY <1>1 DEF Shaped
    <2> QED
      BY <1>7, <1>10, <2>1, StaticsSame
  <1>22. p \in 1..2 * Fuel \ DOMAIN ArrayValues /\ answer' = <<Len(FieldValues)>>
    BY <1>7, <1>11, <1>12, <1>16 DEF ArrayValues
  <1> QED
    BY <1>15, <1>20, <1>21, <1>22 DEF Store!NewString

-----------------------------------------------------------------------------
(***************************************************************************)
(* The refinement.                                                         *)
(***************************************************************************)

StoreInv == HeapInv /\ WithinCapacity /\ NoneDestroyed

\* The slab takes a new object when it has room for it.
LEMMA SlabTakes ==
    ASSUME HeapInv, WithinCapacity, Len(objects) # Capacity, NEW e, e.live,
           objects' = Append(objects, e), NoneDestroyed \/ odd', odd' \/ ~odd
    PROVE  WithinCapacity' /\ NoneDestroyed'
  <1>1. Shaped
    BY DEF HeapInv
  <1> DEFINE T == [class : Classes, ptr : DOMAIN blocks, live : BOOLEAN]
             S == T \cup {e}
  <1>2. objects \in Seq(S) /\ e \in S
    <2>1. objects \in Seq(T)
      BY <1>1 DEF Shaped
    <2>2. T \subseteq S /\ e \in S
      OBVIOUS
    <2> HIDE DEF S, T
    <2> QED
      BY <2>1, <2>2
  <1> HIDE DEF S
  <1>3. /\ Len(objects') = Len(objects) + 1 /\ Len(objects) \in Nat
        /\ DOMAIN objects' = DOMAIN objects \cup {Len(objects) + 1} /\ objects'[Len(objects) + 1] = e
        /\ \A k \in DOMAIN objects : objects'[k] = objects[k]
    BY <1>2
  <1>4. WithinCapacity'
    BY <1>3, BoundsAssumption DEF WithinCapacity
  <1>5. NoneDestroyed'
    BY <1>3 DEF NoneDestroyed
  <1> QED
    BY <1>4, <1>5

LEMMA SlabStays ==
    ASSUME WithinCapacity, NoneDestroyed, UNCHANGED objects, odd' \/ ~odd
    PROVE  WithinCapacity' /\ NoneDestroyed'
  BY DEF WithinCapacity, NoneDestroyed

LEMMA StoreInvNext ==
    ASSUME StoreInv, [Next]_vars
    PROVE  StoreInv'
  <1>1. HeapInv /\ WithinCapacity /\ NoneDestroyed
    BY DEF StoreInv
  <1>2. HeapInv'
    BY <1>1, HeapInvNext
  <1>3. CASE New
    <2>1. PICK c \in Classes :
            /\ Operation(Len(objects) = Capacity)
            /\ IF Len(objects) < Capacity
               THEN objects' = Append(objects, [class |-> c, ptr |-> Len(blocks) + 1, live |-> TRUE])
               ELSE objects' = objects
      BY <1>3 DEF New
    <2>2. ~odd
      BY <2>1 DEF Operation
    <2>3. CASE Len(objects) < Capacity
      <3> DEFINE e == [class |-> c, ptr |-> Len(blocks) + 1, live |-> TRUE]
      <3>1. e.live /\ objects' = Append(objects, e)
        BY <2>1, <2>3
      <3>2. Len(objects) # Capacity
        <4>1. Len(objects) \in Nat /\ Capacity \in Nat
          BY <1>1, BoundsAssumption DEF HeapInv, Shaped
        <4> QED
          BY <2>3, <4>1
      <3> HIDE DEF e
      <3> QED
        BY <1>1, <1>2, <2>2, <3>1, <3>2, SlabTakes DEF StoreInv
    <2>4. CASE ~(Len(objects) < Capacity)
      BY <1>1, <1>2, <2>1, <2>2, <2>4, SlabStays DEF StoreInv
    <2> QED
      BY <2>3, <2>4
  <1>4. CASE CreateString
    <2>1. PICK text \in Literals :
            /\ Operation(Len(objects) = Capacity)
            /\ IF Len(objects) = Capacity THEN objects' = objects
               ELSE objects' = Append(objects, [class |-> Text, ptr |-> Len(blocks) + 2 - 1, live |-> TRUE])
      BY <1>4 DEF CreateString
    <2>2. ~odd
      BY <2>1 DEF Operation
    <2>3. CASE Len(objects) # Capacity
      <3> DEFINE e == [class |-> Text, ptr |-> Len(blocks) + 2 - 1, live |-> TRUE]
      <3>1. e.live /\ objects' = Append(objects, e)
        BY <2>1, <2>3
      <3> HIDE DEF e
      <3> QED
        BY <1>1, <1>2, <2>2, <2>3, <3>1, SlabTakes DEF StoreInv
    <2>4. CASE Len(objects) = Capacity
      BY <1>1, <1>2, <2>1, <2>2, <2>4, SlabStays DEF StoreInv
    <2> QED
      BY <2>3, <2>4
  <1>5. CASE DestroyObject
    <2>1. PICK k \in DOMAIN objects :
            Operation(TRUE) /\ objects' = [objects EXCEPT ![k].live = FALSE]
      BY <1>5 DEF DestroyObject
    <2>2. odd'
      BY <2>1 DEF Operation
    <2>3. Len(objects') = Len(objects)
      <3> DEFINE T == [class : Classes, ptr : DOMAIN blocks, live : BOOLEAN]
      <3>1. objects \in Seq(T)
        BY <1>1 DEF HeapInv, Shaped
      <3> DEFINE y == [objects[k] EXCEPT !.live = FALSE]
      <3>2. objects' = [objects EXCEPT ![k] = y]
        BY <2>1
      <3> HIDE DEF T, y
      <3>3. objects \in Seq(T \cup {y}) /\ y \in T \cup {y}
        BY <3>1
      <3> QED
        BY <3>2, <3>3
    <2> QED
      BY <1>1, <1>2, <2>2, <2>3 DEF StoreInv, WithinCapacity, NoneDestroyed
  <1>6. CASE PutField \/ GetField \/ PutStatic \/ GetStatic \/ NewArray \/ CharStore \/ CharLoad
             \/ ArrayLength \/ OtherLoad \/ PrintString \/ Drop \/ UNCHANGED vars
    <2>1. UNCHANGED objects /\ (odd' \/ ~odd)
      <3>1. CASE PutField
        BY <3>1 DEF PutField, Operation, Stay, Tables
      <3>2. CASE GetField
        BY <3>2 DEF GetField, Operation, Stay, Tables
      <3>3. CASE PutStatic
        BY <3>3 DEF PutStatic, Operation
      <3>4. CASE GetStatic
        BY <3>4 DEF GetStatic, Operation, Stay, Tables
      <3>5. CASE NewArray
        BY <3>5 DEF NewArray, Operation, Stay, Tables
      <3>6. CASE CharStore
        BY <3>6 DEF CharStore, Operation, Stay, Tables
      <3>7. CASE CharLoad
        BY <3>7 DEF CharLoad, Operation, Stay, Tables
      <3>8. CASE ArrayLength
        BY <3>8 DEF ArrayLength, Operation, Stay, Tables
      <3>9. CASE OtherLoad
        BY <3>9 DEF OtherLoad, Operation, Stay, Tables
      <3>10. CASE PrintString
        BY <3>10 DEF PrintString, Operation, Stay, Tables
      <3>11. CASE Drop
        BY <3>11 DEF Drop
      <3>12. CASE UNCHANGED vars
        BY <3>12 DEF vars
      <3> QED
        BY <1>6, <3>1, <3>2, <3>3, <3>4, <3>5, <3>6, <3>7, <3>8, <3>9, <3>10, <3>11, <3>12
    <2> QED
      BY <1>1, <1>2, <2>1, SlabStays DEF StoreInv
  <1> QED
    BY <1>3, <1>4, <1>5, <1>6 DEF Next

LEMMA StoreInvariant == Spec => []StoreInv
  <1>1. Init => StoreInv
    <2>1. Init => WithinCapacity /\ NoneDestroyed
      BY BoundsAssumption DEF Init, WithinCapacity, NoneDestroyed
    <2> QED
      BY <2>1, HeapInvInit DEF StoreInv
  <1> QED
    BY <1>1, StoreInvNext, PTL DEF Spec

LEMMA InitMaps ==
    ASSUME Init
    PROVE  Store!Init
  <1>1. /\ blocks = <<>> /\ objects = <<>> /\ statics = [k \in {} |-> 0] /\ answer = <<>> /\ odd = FALSE
    BY DEF Init
  <1>2. DOMAIN objects = {} /\ DOMAIN blocks = {} /\ DOMAIN statics = {}
    BY <1>1
  <1>3. AllArrays = {}
    BY <1>2 DEF AllArrays
  <1>4. FieldValues = <<>>
    <2>1. FieldValues = [k \in {} |-> Contents(k)]
      BY <1>2 DEF FieldValues
    <2> QED
      BY <2>1
  <1>5. StaticValues = [k \in {} |-> Junk]
    BY <1>2 DEF StaticValues
  <1>6. ArrayValues = [p \in {} |-> <<>>]
    BY <1>3 DEF ArrayValues
  <1> QED
    BY <1>1, <1>4, <1>5, <1>6 DEF Store!Init

LEMMA StepMaps ==
    ASSUME StoreInv, [Next]_vars
    PROVE  [Store!Next]_(Store!vars)
  <1>1. HeapInv /\ WithinCapacity /\ NoneDestroyed
    BY DEF StoreInv
  <1>2. CASE odd'
    BY <1>2 DEF Store!Next
  <1>3. CASE UNCHANGED vars
    BY <1>3, StoreSame DEF vars, Store!vars
  <1>4. CASE Next /\ ~odd'
    <2>1. \E dev : Operation(dev)
      <3>1. CASE New
        BY <3>1 DEF New
      <3>2. CASE DestroyObject
        BY <3>2 DEF DestroyObject
      <3>3. CASE PutField
        <4>1. PICK ref, d, f : StoresIn(ref, d, f)
          BY <3>3 DEF PutField, StoresIn, Stores
        <4>2. PICK to, v : Stores(ref, to, d, f, v)
          BY <4>1 DEF StoresIn
        <4> QED
          BY <4>2 DEF Stores
      <3>4. CASE GetField
        BY <3>4 DEF GetField
      <3>5. CASE PutStatic
        BY <3>5 DEF PutStatic
      <3>6. CASE GetStatic
        BY <3>6 DEF GetStatic
      <3>7. CASE NewArray
        BY <3>7 DEF NewArray
      <3>8. CASE CharStore
        BY <3>8 DEF CharStore
      <3>9. CASE CharLoad
        BY <3>9 DEF CharLoad
      <3>10. CASE ArrayLength
        BY <3>10 DEF ArrayLength
      <3>11. CASE OtherLoad
        BY <3>11 DEF OtherLoad
      <3>12. CASE CreateString
        BY <3>12 DEF CreateString
      <3>13. CASE PrintString
        BY <3>13 DEF PrintString
      <3>14. CASE Drop
        BY <1>4, <3>14 DEF Drop
      <3> QED
        BY <1>4, <3>1, <3>2, <3>3, <3>4, <3>5, <3>6, <3>7, <3>8, <3>9, <3>10, <3>11, <3>12, <3>13, <3>14
           DEF Next
    <2>2. ~odd
      BY <2>1 DEF Operation
    <2>3. ~DestroyObject /\ ~OtherLoad /\ ~Drop
      BY <1>4 DEF DestroyObject, OtherLoad, Drop, Operation
    <2>4. \/ Store!New \/ Store!Put \/ Store!Get \/ Store!NewArray \/ Store!Store \/ Store!Load
          \/ Store!Length \/ Store!NewString \/ Store!ReadString
          \/ \E key \in {r \in StaticRefs : ~Elsewhere(r)} : Store!PutStatic(key) \/ Store!GetStatic(key)
      <3>1. New => Store!New
        BY <1>1, <1>4, NewMaps
      <3>2. PutField => Store!Put
        BY <1>1, <1>4, PutFieldMaps
      <3>3. GetField => Store!Get
        BY <1>1, <1>4, GetFieldMaps
      <3>4. PutStatic => \E key \in {r \in StaticRefs : ~Elsewhere(r)} : Store!PutStatic(key)
        BY <1>1, <1>4, PutStaticMaps
      <3>5. GetStatic => \E key \in {r \in StaticRefs : ~Elsewhere(r)} : Store!GetStatic(key)
        BY <1>1, <1>4, GetStaticMaps
      <3>6. NewArray => Store!NewArray
        BY <1>1, <1>4, NewArrayMaps
      <3>7. CharStore => Store!Store
        BY <1>1, <1>4, CharStoreMaps
      <3>8. CharLoad => Store!Load
        BY <1>1, <1>4, CharLoadMaps
      <3>9. ArrayLength => Store!Length
        BY <1>1, <1>4, ArrayLengthMaps
      <3>10. CreateString => Store!NewString
        BY <1>1, <1>4, CreateStringMaps
      <3>11. PrintString => Store!ReadString
        BY <1>1, <1>4, PrintStringMaps
      <3> QED
        BY <1>4, <2>3, <3>1, <3>2, <3>3, <3>4, <3>5, <3>6, <3>7, <3>8, <3>9, <3>10, <3>11, Zenon DEF Next
    <2> QED
      BY <1>4, <2>2, <2>4 DEF Store!Next
  <1> QED
    BY <1>2, <1>3, <1>4

\* What a program may rely on: as long as it does nothing on which the code is
\* known to deviate from Java, the bytes of the heap are objects, statics,
\* arrays and strings that are apart from each other, and a read returns what
\* was written last, for every hierarchy, layout of fields and bound.
THEOREM HeapStores == Spec => ImplementsStore
  <1>1. Init => Store!Init
    BY InitMaps
  <1>2. StoreInv /\ [Next]_vars => [Store!Next]_(Store!vars)
    BY StepMaps
  <1> QED
    BY <1>1, <1>2, StoreInvariant, PTL DEF Spec, ImplementsStore, Store!Spec

=============================================================================
