---------------------------- MODULE InterpProofs ----------------------------
(***************************************************************************)
(* The interpreter of one thread, proved for any hierarchies, methods,     *)
(* code and bounds: the walks of the loader find what JVMS 7 says, an      *)
(* instruction put off finds its operands again, and step keeps the        *)
(* frames, operands and local variables of the machine of JVMS 7.          *)
(***************************************************************************)
EXTENDS Interp, Recursion, FiniteSetTheorems, SequenceTheorems

-----------------------------------------------------------------------------
(***************************************************************************)
(* The walks over a hierarchy k: the recursive functions are what their    *)
(* equations say.                                                          *)
(***************************************************************************)

\* A level of each class, above those of its superclass and superinterfaces.
Ordered(k, level) ==
    /\ Levels(Classes, level)
    /\ \A c \in Classes \ {Object} : k.super[c] \in Classes /\ level[k.super[c]] < level[c]
    /\ \A c \in Classes : \A i \in k.interfaces[c] : i \in Classes /\ level[i] < level[c]

\* A hierarchy that can be linked has levels: it ends at Object, without a
\* circle.
LEMMA HierarchyOrdered ==
    ASSUME NEW k \in Hierarchies
    PROVE  \E level : Ordered(k, level)
  <1>1. Cardinality(Classes) \in Nat
    BY ClassesAssumption, FS_CardinalityType
  <1>2. Linkable(k) /\ Layered(k.super, k.interfaces)
    <2> DEFINE s == <<k.super, k.interfaces>>
    <2>1. s \in {<<j.super, j.interfaces>> : j \in Hierarchies}
      OBVIOUS
    <2>2. s[1] = k.super /\ s[2] = k.interfaces
      OBVIOUS
    <2> HIDE DEF s
    <2>3. Layered(s[1], s[2])
      BY <2>1, HierarchiesAssumption DEF s
    <2> QED
      BY <2>2, <2>3, HierarchiesAssumption
  <1>3. PICK level \in [Classes -> 0..Cardinality(Classes)] :
            \A c \in Classes : /\ c # Object => level[k.super[c]] < level[c]
                               /\ \A i \in k.interfaces[c] : level[i] < level[c]
    BY <1>2 DEF Layered
  <1>4. Levels(Classes, level)
    BY <1>1, <1>3 DEF Levels
  <1> QED
    BY <1>2, <1>3, <1>4 DEF Ordered, Linkable

\* What holds of a class when it holds of those above it holds of all.
LEMMA Upwards ==
    ASSUME NEW k \in Hierarchies, NEW S,
           \A c \in Classes : (/\ c # Object => k.super[c] \in S
                               /\ \A i \in k.interfaces[c] : i \in S) => c \in S
    PROVE  Classes \subseteq S
  <1>1. PICK level : Ordered(k, level)
    BY HierarchyOrdered
  <1>2. Hereditary(Classes, level, S)
    BY <1>1 DEF Ordered, Hereditary
  <1>3. Levels(Classes, level)
    BY <1>1 DEF Ordered
  <1> QED
    BY ONLY <1>2, <1>3, LevelInduction, Zenon

\* A walk up the superclasses to the first class where it stops.
Walk(T, stop, end) == T # {} /\ Object \in stop /\ end \in [Classes -> T]
Walked(k, T, stop, end) ==
    \E f \in [Classes -> T] :
        \A c \in Classes : f[c] = IF c \in stop THEN end[c] ELSE f[k.super[c]]

\* The function of a walk exists, by the recursion over levels.
LEMMA WalkUp ==
    ASSUME NEW k \in Hierarchies, NEW T, NEW stop, NEW end, Walk(T, stop, end)
    PROVE  Walked(k, T, stop, end)
  <1>1. PICK level : Ordered(k, level)
    BY HierarchyOrdered
  <1>2. Levels(Classes, level)
    BY <1>1 DEF Ordered
  <1> DEFINE next(c, f) == IF c \in stop THEN end[c] ELSE f[k.super[c]]
             step == [p \in Classes \X [Classes -> T] |-> next(p[1], p[2])]
  <1>3. \A c \in Classes : c \notin stop => k.super[c] \in Classes /\ level[k.super[c]] < level[c]
    BY <1>1 DEF Ordered, Walk
  <1>4. \A c \in Classes, f \in [Classes -> T] : next(c, f) \in T
    BY <1>3 DEF Walk
  <1>5. LooksDown(Classes, T, level, step)
    <2>1. step \in [Classes \X [Classes -> T] -> T]
      <3> HIDE DEF next
      <3> QED
        BY <1>4
    <2> SUFFICES ASSUME NEW c \in Classes, NEW f \in [Classes -> T], NEW g \in [Classes -> T],
                        \A d \in Classes : level[d] < level[c] => f[d] = g[d]
                 PROVE  step[<<c, f>>] = step[<<c, g>>]
      <3> HIDE DEF step
      <3> QED
        BY <2>1 DEF LooksDown, Walk
    <2>2. step[<<c, f>>] = next(c, f) /\ step[<<c, g>>] = next(c, g)
      <3> HIDE DEF next
      <3> QED
        OBVIOUS
    <2> QED
      BY <1>3, <2>2
  <1>6. PICK f \in [Classes -> T] : \A c \in Classes : f[c] = step[<<c, f>>]
    <2> HIDE DEF step
    <2>1. Solvable(Classes, T, step)
      BY ONLY <1>2, <1>5, RecursiveFunction, Zenon
    <2> QED
      BY ONLY <2>1 DEF Solvable
  <1>7. \A c \in Classes : f[c] = next(c, f)
    <2> HIDE DEF next
    <2> QED
      BY <1>6
  <1> QED
    BY <1>7 DEF Walked

\* A search over superinterfaces, and over superclasses too when `up` says so.
Searched(k, here, via, up) ==
    \E f \in [Classes -> BOOLEAN] :
        \A c \in Classes : f[c] <=> \/ c \in here
                                    \/ \E i \in k.interfaces[c] : f[i] \/ i \in via
                                    \/ up /\ c # Object /\ f[k.super[c]]

\* So does that of a search through superclasses and interfaces.
LEMMA SearchUp ==
    ASSUME NEW k \in Hierarchies, NEW here, NEW via, NEW up \in BOOLEAN
    PROVE  Searched(k, here, via, up)
  <1>1. PICK level : Ordered(k, level)
    BY HierarchyOrdered
  <1>2. Levels(Classes, level)
    BY <1>1 DEF Ordered
  <1> DEFINE next(c, f) == \/ c \in here
                           \/ \E i \in k.interfaces[c] : f[i] \/ i \in via
                           \/ up /\ c # Object /\ f[k.super[c]]
             step == [p \in Classes \X [Classes -> BOOLEAN] |-> IF next(p[1], p[2]) THEN TRUE ELSE FALSE]
  <1>3. /\ \A c \in Classes \ {Object} : k.super[c] \in Classes /\ level[k.super[c]] < level[c]
        /\ \A c \in Classes : \A i \in k.interfaces[c] : i \in Classes /\ level[i] < level[c]
    BY <1>1 DEF Ordered
  <1>5. LooksDown(Classes, BOOLEAN, level, step)
    <2>1. step \in [Classes \X [Classes -> BOOLEAN] -> BOOLEAN]
      <3> HIDE DEF next
      <3> QED
        OBVIOUS
    <2> SUFFICES ASSUME NEW c \in Classes, NEW f \in [Classes -> BOOLEAN], NEW g \in [Classes -> BOOLEAN],
                        \A d \in Classes : level[d] < level[c] => f[d] = g[d]
                 PROVE  step[<<c, f>>] = step[<<c, g>>]
      <3> HIDE DEF step
      <3> QED
        BY <2>1 DEF LooksDown
    <2>2. /\ step[<<c, f>>] = IF next(c, f) THEN TRUE ELSE FALSE
          /\ step[<<c, g>>] = IF next(c, g) THEN TRUE ELSE FALSE
      <3> HIDE DEF next
      <3> QED
        OBVIOUS
    <2>3. next(c, f) <=> next(c, g)
      <3>1. \A i \in k.interfaces[c] : f[i] = g[i]
        BY <1>3
      <3>2. c # Object => f[k.super[c]] = g[k.super[c]]
        BY <1>3
      <3> QED
        BY ONLY <3>1, <3>2
    <2> HIDE DEF next
    <2> QED
      BY <2>2, <2>3
  <1>6. PICK f \in [Classes -> BOOLEAN] : \A c \in Classes : f[c] = step[<<c, f>>]
    <2> HIDE DEF step
    <2>1. Solvable(Classes, BOOLEAN, step)
      BY ONLY <1>2, <1>5, RecursiveFunction, Zenon
    <2> QED
      BY ONLY <2>1 DEF Solvable
  <1>7. \A c \in Classes : f[c] <=> next(c, f)
    <2> TAKE c \in Classes
    <2>1. f[c] = step[<<c, f>>]
      BY <1>6
    <2>2. step[<<c, f>>] = IF next(c, f) THEN TRUE ELSE FALSE
      <3> HIDE DEF next
      <3> QED
        OBVIOUS
    <2> HIDE DEF next, step
    <2> QED
      BY <2>1, <2>2
  <1> QED
    BY <1>7 DEF Searched

\* is_superclass is what its equation says.
LEMMA IsSuperclassDef ==
    ASSUME NEW k \in Hierarchies, NEW a \in Classes
    PROVE  /\ \A c \in Classes : IsSuperclass(k, c, a) \in BOOLEAN
           /\ \A c \in Classes :
                IsSuperclass(k, c, a) <=> \/ c = a \/ a = Object
                                          \/ c # Object /\ IsSuperclass(k, k.super[c], a)
  <1> DEFINE stop == {c \in Classes : c = a \/ a = Object \/ c = Object}
             end == [c \in Classes |-> IF c = a \/ a = Object THEN TRUE ELSE FALSE]
             up == CHOOSE g : g = [c \in Classes |-> \/ c = a \/ a = Object
                                                     \/ c # Object /\ g[k.super[c]]]
  <1>0. \A c \in Classes \ {Object} : k.super[c] \in Classes
    BY HierarchiesAssumption DEF Linkable
  <1>1. Walk(BOOLEAN, stop, end)
    BY ClassesAssumption DEF Walk
  <1>2. PICK f \in [Classes -> BOOLEAN] :
            \A c \in Classes : f[c] = IF c \in stop THEN end[c] ELSE f[k.super[c]]
    <2> HIDE DEF stop, end
    <2>1. Walked(k, BOOLEAN, stop, end)
      BY ONLY <1>1, WalkUp, k \in Hierarchies, Zenon
    <2> QED
      BY ONLY <2>1 DEF Walked
  <1>3. ASSUME NEW c \in Classes
        PROVE  f[c] = (c = a \/ a = Object \/ (c # Object /\ f[k.super[c]]))
    <2>1. CASE c \in stop
      BY <1>2, <2>1
    <2>2. CASE c \notin stop
      BY <1>0, <1>2, <2>2
    <2> QED
      BY <2>1, <2>2
  <1>4. f = [c \in Classes |-> c = a \/ a = Object \/ (c # Object /\ f[k.super[c]])]
    BY <1>3
  <1>5. up = [c \in Classes |-> c = a \/ a = Object \/ (c # Object /\ up[k.super[c]])]
    BY ONLY <1>4, Zenon
  <1>6. \A c \in Classes : IsSuperclass(k, c, a) = up[c]
    BY DEF IsSuperclass
  <1> HIDE DEF up
  <1>7. \A c \in Classes : up[c] = (c = a \/ a = Object \/ (c # Object /\ up[k.super[c]]))
    BY ONLY <1>5
  <1> QED
    BY <1>0, <1>6, <1>7

\* The subtypes of JVMS 7 (6.5, checkcast) are what their equation says.
LEMMA SubtypeDef ==
    ASSUME NEW k \in Hierarchies, NEW a \in Classes
    PROVE  /\ \A c \in Classes : Subtype(k, c, a) \in BOOLEAN
           /\ \A c \in Classes :
                Subtype(k, c, a) <=> \/ c = a \/ a = Object
                                     \/ \E i \in k.interfaces[c] : Subtype(k, i, a)
                                     \/ c # Object /\ Subtype(k, k.super[c], a)
  <1> DEFINE here == {c \in Classes : c = a \/ a = Object}
             up == CHOOSE g : g = [c \in Classes |-> \/ c = a \/ a = Object
                                                     \/ \E i \in k.interfaces[c] : g[i]
                                                     \/ c # Object /\ g[k.super[c]]]
  <1>0. /\ \A c \in Classes \ {Object} : k.super[c] \in Classes
        /\ \A c \in Classes : k.interfaces[c] \subseteq Classes
    BY HierarchiesAssumption DEF Linkable
  <1>2. PICK f \in [Classes -> BOOLEAN] :
            \A c \in Classes : f[c] <=> \/ c \in here
                                        \/ \E i \in k.interfaces[c] : f[i] \/ i \in {}
                                        \/ TRUE /\ c # Object /\ f[k.super[c]]
    <2> HIDE DEF here
    <2>1. Searched(k, here, {}, TRUE)
      BY ONLY SearchUp, k \in Hierarchies, Zenon
    <2> QED
      BY ONLY <2>1 DEF Searched
  <1>3. ASSUME NEW c \in Classes
        PROVE  f[c] = (\/ c = a \/ a = Object
                       \/ \E i \in k.interfaces[c] : f[i]
                       \/ c # Object /\ f[k.super[c]])
    <2>1. c \in here <=> c = a \/ a = Object
      OBVIOUS
    <2> HIDE DEF here
    <2> QED
      BY <1>2, <2>1
  <1>4. f = [c \in Classes |-> \/ c = a \/ a = Object
                               \/ \E i \in k.interfaces[c] : f[i]
                               \/ c # Object /\ f[k.super[c]]]
    BY <1>3
  <1>5. up = [c \in Classes |-> \/ c = a \/ a = Object
                                \/ \E i \in k.interfaces[c] : up[i]
                                \/ c # Object /\ up[k.super[c]]]
    BY ONLY <1>4, Zenon
  <1>6. \A c \in Classes : Subtype(k, c, a) = up[c]
    BY DEF Subtype
  <1> HIDE DEF up
  <1>7. \A c \in Classes : up[c] = (\/ c = a \/ a = Object
                                    \/ \E i \in k.interfaces[c] : up[i]
                                    \/ c # Object /\ up[k.super[c]])
    BY ONLY <1>5
  <1>8. \A c \in Classes : \A i \in k.interfaces[c] : Subtype(k, i, a) = up[i]
    BY <1>0, <1>6
  <1>9. \A c \in Classes : c # Object => Subtype(k, k.super[c], a) = up[k.super[c]]
    BY <1>0, <1>6
  <1>10. ASSUME NEW c \in Classes
         PROVE  /\ Subtype(k, c, a) \in BOOLEAN
                /\ Subtype(k, c, a) <=> \/ c = a \/ a = Object
                                        \/ \E i \in k.interfaces[c] : Subtype(k, i, a)
                                        \/ c # Object /\ Subtype(k, k.super[c], a)
    <2>1. Subtype(k, c, a) = (\/ c = a \/ a = Object
                              \/ \E i \in k.interfaces[c] : up[i]
                              \/ c # Object /\ up[k.super[c]])
      BY ONLY c \in Classes, <1>6, <1>7
    <2>2. (\E i \in k.interfaces[c] : up[i]) <=> \E i \in k.interfaces[c] : Subtype(k, i, a)
      BY ONLY c \in Classes, <1>8
    <2>3. c # Object => (up[k.super[c]] <=> Subtype(k, k.super[c], a))
      BY ONLY c \in Classes, <1>9
    <2> QED
      BY ONLY <2>1, <2>2, <2>3
  <1> QED
    BY ONLY <1>10

\* implements is what its equation says.
LEMMA ImplementsDef ==
    ASSUME NEW k \in Hierarchies, NEW a \in Classes
    PROVE  \A c \in Classes :
                Implements(k, c, a) <=> \/ c = a \/ k.super[c] = a
                                        \/ \E i \in k.interfaces[c] :
                                              Implements(k, i, a) \/ IsSuperclass(k, i, a)
  <1> DEFINE here == {c \in Classes : c = a \/ k.super[c] = a}
             via == {c \in Classes : IsSuperclass(k, c, a)}
             up == CHOOSE g : g = [c \in Classes |-> \/ c = a \/ k.super[c] = a
                                                     \/ \E i \in k.interfaces[c] :
                                                            g[i] \/ IsSuperclass(k, i, a)]
  <1>0. \A c \in Classes : k.interfaces[c] \subseteq Classes
    BY HierarchiesAssumption DEF Linkable
  <1>2. PICK f \in [Classes -> BOOLEAN] :
            \A c \in Classes : f[c] <=> \/ c \in here
                                        \/ \E i \in k.interfaces[c] : f[i] \/ i \in via
                                        \/ FALSE /\ c # Object /\ f[k.super[c]]
    <2> HIDE DEF here, via
    <2>1. Searched(k, here, via, FALSE)
      BY ONLY SearchUp, k \in Hierarchies, Zenon
    <2> QED
      BY ONLY <2>1 DEF Searched
  <1>3. ASSUME NEW c \in Classes
        PROVE  f[c] = (\/ c = a \/ k.super[c] = a
                       \/ \E i \in k.interfaces[c] : f[i] \/ IsSuperclass(k, i, a))
    <2>1. c \in here <=> c = a \/ k.super[c] = a
      OBVIOUS
    <2>2. \A i \in k.interfaces[c] : i \in via <=> IsSuperclass(k, i, a)
      BY <1>0
    <2> HIDE DEF here, via
    <2> QED
      BY <1>2, <2>1, <2>2
  <1>4. f = [c \in Classes |-> \/ c = a \/ k.super[c] = a
                               \/ \E i \in k.interfaces[c] : f[i] \/ IsSuperclass(k, i, a)]
    BY <1>3
  <1>5. up = [c \in Classes |-> \/ c = a \/ k.super[c] = a
                                \/ \E i \in k.interfaces[c] : up[i] \/ IsSuperclass(k, i, a)]
    BY ONLY <1>4, Zenon
  <1>6. \A c \in Classes : Implements(k, c, a) = up[c]
    BY DEF Implements
  <1> HIDE DEF up
  <1>7. \A c \in Classes : up[c] = (\/ c = a \/ k.super[c] = a
                                    \/ \E i \in k.interfaces[c] : up[i] \/ IsSuperclass(k, i, a))
    BY ONLY <1>5
  <1>8. \A c \in Classes : \A i \in k.interfaces[c] : Implements(k, i, a) = up[i]
    BY <1>0, <1>6
  <1> QED
    BY <1>6, <1>7, <1>8

\* The walk over superclasses finds what is above in the hierarchy only, and
\* every class that is.
LEMMA SuperclassIsAbove ==
    ASSUME NEW k \in Hierarchies, NEW a \in Classes
    PROVE  \A c \in Classes : IsSuperclass(k, c, a) => Subtype(k, c, a)
  <1> DEFINE S == {c \in Classes : IsSuperclass(k, c, a) => Subtype(k, c, a)}
  <1>1. Classes \subseteq S
    <2>1. ASSUME NEW c \in Classes, c # Object => k.super[c] \in S, \A i \in k.interfaces[c] : i \in S
          PROVE  c \in S
      BY <2>1, IsSuperclassDef, SubtypeDef
    <2> HIDE DEF S
    <2> QED
      BY ONLY <2>1, Upwards, k \in Hierarchies, Zenon
  <1> QED
    BY <1>1

\* A class among the supertypes is found by the superclasses alone.
LEMMA AboveIsSuperclass ==
    ASSUME NEW k \in Hierarchies, NEW a \in Classes, ~k.isInterface[a]
    PROVE  \A c \in Classes : Subtype(k, c, a) => IsSuperclass(k, c, a)
  <1>0. /\ \A c \in Classes \ {Object} : k.super[c] \in Classes
        /\ \A c \in Classes : k.interfaces[c] \subseteq Classes
        /\ \A c \in Classes : k.isInterface[c] => k.super[c] = Object
        /\ \A c \in Classes : \A i \in k.interfaces[c] : k.isInterface[i]
        /\ ~k.isInterface[Object]
    BY HierarchiesAssumption DEF Linkable, Compiled
  <1> DEFINE S == {c \in Classes : Subtype(k, c, a) =>
                        IsSuperclass(k, c, a) /\ (k.isInterface[c] => a = Object)}
  <1>1. Classes \subseteq S
    <2>1. ASSUME NEW c \in Classes, c # Object => k.super[c] \in S, \A i \in k.interfaces[c] : i \in S,
                 Subtype(k, c, a)
          PROVE  IsSuperclass(k, c, a) /\ (k.isInterface[c] => a = Object)
      <3>1. CASE a = Object
        BY <3>1, IsSuperclassDef
      <3>2. CASE a # Object /\ \E i \in k.interfaces[c] : Subtype(k, i, a)
        BY <1>0, <2>1, <3>2
      <3>3. CASE a # Object /\ c # Object /\ Subtype(k, k.super[c], a)
        <4>1. k.super[c] \in S /\ k.super[c] \in Classes
          BY <1>0, <2>1, <3>3
        <4>2. IsSuperclass(k, k.super[c], a)
          BY <3>3, <4>1
        <4>3. IsSuperclass(k, c, a)
          BY <3>3, <4>2, IsSuperclassDef
        <4>4. ASSUME k.isInterface[c] PROVE FALSE
          <5>1. k.super[c] = Object
            BY <1>0, <4>4
          <5>2. Object \in Classes /\ k.interfaces[Object] = {}
            <6>1. Object \in Classes
              BY ClassesAssumption
            <6>2. PICK level : Ordered(k, level)
              BY HierarchyOrdered
            <6>3. \A i \in k.interfaces[Object] : FALSE
              BY <1>0, <6>1, <6>2 DEF Ordered, Levels
            <6> QED
              BY <6>1, <6>3
          <5>3. IsSuperclass(k, Object, a)
            BY <4>2, <5>1
          <5> QED
            BY <3>3, <5>2, <5>3, IsSuperclassDef
        <4> QED
          BY <4>3, <4>4
      <3>4. CASE a # Object /\ c = a
        BY <3>4, IsSuperclassDef
      <3> QED
        BY <2>1, <3>1, <3>2, <3>3, <3>4, SubtypeDef
    <2>2. ASSUME NEW c \in Classes, c # Object => k.super[c] \in S, \A i \in k.interfaces[c] : i \in S
          PROVE  c \in S
      BY <2>1, <2>2
    <2> HIDE DEF S
    <2> QED
      BY ONLY <2>2, Upwards, k \in Hierarchies, Zenon
  <1> QED
    BY <1>1

\* Above Object there is nothing.
LEMMA ObjectOnTop ==
    ASSUME NEW k \in Hierarchies
    PROVE  /\ k.interfaces[Object] = {}
           /\ \A a \in Classes : Subtype(k, Object, a) <=> a = Object
           /\ \A a \in Classes : IsSuperclass(k, Object, a) <=> a = Object
  <1>1. Object \in Classes
    BY ClassesAssumption
  <1>2. PICK level : Ordered(k, level)
    BY HierarchyOrdered
  <1>3. \A i \in k.interfaces[Object] : i \in Classes /\ k.isInterface[i] /\ ~k.isInterface[Object]
    BY <1>1, HierarchiesAssumption DEF Linkable, Compiled
  <1>4. \A i \in k.interfaces[Object] : level[Object] < level[i] /\ level[i] < level[Object]
    <2> TAKE i \in k.interfaces[Object]
    <2>1. i \in Classes \ {Object} /\ k.super[i] = Object
      BY <1>3, HierarchiesAssumption DEF Compiled
    <2> QED
      BY <1>1, <1>2, <2>1 DEF Ordered
  <1>5. k.interfaces[Object] = {}
    <2> SUFFICES ASSUME NEW i \in k.interfaces[Object] PROVE FALSE
      OBVIOUS
    <2>1. level[Object] \in Nat /\ level[i] \in Nat
      BY <1>1, <1>2, <1>3 DEF Ordered, Levels
    <2> QED
      BY <1>4, <2>1
  <1> QED
    BY <1>1, <1>5, SubtypeDef, IsSuperclassDef

\* check_cast: whatever it lets pass is related, and a class is its own.
LEMMA CastFinds ==
    ASSUME NEW k \in Hierarchies, NEW s \in Classes, NEW t \in Classes
    PROVE  /\ s = t => CheckCast(k, s, t) = "yes"
           /\ CheckCast(k, s, t) = "yes" => Subtype(k, s, t) \/ Subtype(k, t, s)
  <1>1. /\ k.isInterface[s] \in BOOLEAN /\ ~k.isInterface[Object] /\ Object \in Classes
        /\ k.super[t] \in Classes \/ t = Object
        /\ \A c \in Classes : k.interfaces[c] \subseteq Classes
    BY ClassesAssumption, HierarchiesAssumption DEF Linkable, Compiled
  <1>2. s = t => CheckCast(k, s, t) = "yes"
    <2>1. Implements(k, s, s) /\ IsSuperclass(k, s, s)
      BY ImplementsDef, IsSuperclassDef
    <2> QED
      BY <1>1, <2>1 DEF CheckCast
  <1>3. ASSUME k.isInterface[s]
        PROVE  \A c \in Classes : c # Object /\ Implements(k, c, s) => Subtype(k, c, s)
    <2> DEFINE S == {c \in Classes : c # Object /\ Implements(k, c, s) => Subtype(k, c, s)}
    <2>1. ASSUME NEW c \in Classes, c # Object => k.super[c] \in S, \A i \in k.interfaces[c] : i \in S,
                 c # Object, Implements(k, c, s)
          PROVE  Subtype(k, c, s)
      <3>1. CASE c = s \/ k.super[c] = s
        <4>1. Subtype(k, s, s)
          BY SubtypeDef
        <4> QED
          BY <2>1, <3>1, <4>1, SubtypeDef
      <3>2. ASSUME NEW i \in k.interfaces[c], Implements(k, i, s) \/ IsSuperclass(k, i, s)
            PROVE  Subtype(k, c, s)
        <4>1. i \in Classes /\ i # Object
          BY <1>1, HierarchiesAssumption DEF Compiled
        <4>2. Subtype(k, i, s)
          BY <2>1, <3>2, <4>1, SuperclassIsAbove
        <4> QED
          BY <4>2, SubtypeDef
      <3> QED
        BY <2>1, <3>1, <3>2, ImplementsDef
    <2>2. ASSUME NEW c \in Classes, c # Object => k.super[c] \in S, \A i \in k.interfaces[c] : i \in S
          PROVE  c \in S
      BY <2>1, <2>2
    <2>3. Classes \subseteq S
      <3> HIDE DEF S
      <3> QED
        BY ONLY <2>2, Upwards, k \in Hierarchies, Zenon
    <2> QED
      BY <2>3
  <1>4. CheckCast(k, s, t) = "yes" => Subtype(k, s, t) \/ Subtype(k, t, s)
    BY <1>3, SuperclassIsAbove DEF CheckCast
  <1> QED
    BY <1>2, <1>4

-----------------------------------------------------------------------------
(***************************************************************************)
(* Method selection.                                                       *)
(***************************************************************************)

\* The walk of invokevirtual, where it finds something at once.
LEMMA OverridingDef ==
    ASSUME NEW k \in Hierarchies, NEW m \in Methods
    PROVE  \A c \in Classes :
              LET s == k.super[c]
              IN  Overriding(k, c, m) =
                    IF c = Object THEN Panics
                    ELSE IF ~Declares(k, c, m) \/ ~Declares(k, s, m) THEN None
                    ELSE IF k.access[s][m] \in {"public", "protected"} \/ Siblings(k, c, s) THEN Some(c)
                    ELSE IF s # Object THEN Overriding(k, s, m)
                    ELSE None
  <1> DEFINE T == {Panics, None} \cup {Some(c) : c \in Classes}
             goes(c) == /\ c # Object /\ Declares(k, c, m) /\ Declares(k, k.super[c], m)
                        /\ ~(k.access[k.super[c]][m] \in {"public", "protected"} \/ Siblings(k, c, k.super[c]))
                        /\ k.super[c] # Object
             stop == {c \in Classes : ~goes(c)}
             here(c) == IF c = Object THEN Panics
                        ELSE IF ~Declares(k, c, m) \/ ~Declares(k, k.super[c], m) THEN None
                        ELSE IF k.access[k.super[c]][m] \in {"public", "protected"} \/ Siblings(k, c, k.super[c])
                             THEN Some(c)
                        ELSE None
             end == [c \in Classes |-> here(c)]
             from == CHOOSE g : g = [c \in Classes |->
                        LET s == k.super[c]
                        IN  IF c = Object THEN Panics
                            ELSE IF ~Declares(k, c, m) \/ ~Declares(k, s, m) THEN None
                            ELSE IF k.access[s][m] \in {"public", "protected"} \/ Siblings(k, c, s) THEN Some(c)
                            ELSE IF s # Object THEN g[s]
                            ELSE None]
  <1>0. \A c \in Classes \ {Object} : k.super[c] \in Classes
    BY HierarchiesAssumption DEF Linkable
  <1>1. Walk(T, stop, end)
    <2>1. \A c \in Classes : here(c) \in T
      <3> HIDE DEF Panics, None, Some
      <3> QED
        OBVIOUS
    <2>2. Object \in stop
      BY ClassesAssumption
    <2> HIDE DEF here, goes
    <2> QED
      BY <2>1, <2>2 DEF Walk
  <1>2. PICK f \in [Classes -> T] :
            \A c \in Classes : f[c] = IF c \in stop THEN end[c] ELSE f[k.super[c]]
    <2> HIDE DEF stop, end, T
    <2>1. Walked(k, T, stop, end)
      BY ONLY <1>1, WalkUp, k \in Hierarchies, Zenon
    <2> QED
      BY ONLY <2>1 DEF Walked
  <1>3. \A c \in Classes : f[c] = IF goes(c) THEN f[k.super[c]] ELSE here(c)
    <2> HIDE DEF goes, here
    <2> QED
      BY <1>2
  <1>4. f = [c \in Classes |->
                LET s == k.super[c]
                IN  IF c = Object THEN Panics
                    ELSE IF ~Declares(k, c, m) \/ ~Declares(k, s, m) THEN None
                    ELSE IF k.access[s][m] \in {"public", "protected"} \/ Siblings(k, c, s) THEN Some(c)
                    ELSE IF s # Object THEN f[s]
                    ELSE None]
    <2> HIDE DEF Panics, None, Some, Declares, Siblings
    <2> QED
      BY <1>2, <1>3
  <1>5. from = [c \in Classes |->
                LET s == k.super[c]
                IN  IF c = Object THEN Panics
                    ELSE IF ~Declares(k, c, m) \/ ~Declares(k, s, m) THEN None
                    ELSE IF k.access[s][m] \in {"public", "protected"} \/ Siblings(k, c, s) THEN Some(c)
                    ELSE IF s # Object THEN from[s]
                    ELSE None]
    BY ONLY <1>4, Zenon
  <1>6. \A c \in Classes : Overriding(k, c, m) = from[c]
    BY DEF Overriding
  <1> HIDE DEF from
  <1>7. \A c \in Classes :
            from[c] = LET s == k.super[c]
                      IN  IF c = Object THEN Panics
                          ELSE IF ~Declares(k, c, m) \/ ~Declares(k, s, m) THEN None
                          ELSE IF k.access[s][m] \in {"public", "protected"} \/ Siblings(k, c, s) THEN Some(c)
                          ELSE IF s # Object THEN from[s]
                          ELSE None
    BY ONLY <1>5
  <1>8. \A c \in Classes \ {Object} : Overriding(k, k.super[c], m) = from[k.super[c]]
    BY <1>0, <1>6
  <1> QED
    BY <1>6, <1>7, <1>8

\* What is above a class is on a lower level.
LEMMA SupertypesLower ==
    ASSUME NEW k \in Hierarchies, NEW level, Ordered(k, level)
    PROVE  \A c, b \in Classes : Subtype(k, c, b) /\ b # c => level[b] < level[c]
  <1>0. /\ \A c \in Classes \ {Object} : k.super[c] \in Classes /\ level[k.super[c]] < level[c]
        /\ \A c \in Classes : \A i \in k.interfaces[c] : i \in Classes /\ level[i] < level[c]
        /\ \A c \in Classes : level[c] \in Nat
    BY DEF Ordered, Levels
  <1> DEFINE S == {c \in Classes : \A b \in Classes : Subtype(k, c, b) /\ b # c => level[b] < level[c]}
  <1>1. ASSUME NEW c \in Classes, c # Object => k.super[c] \in S, \A i \in k.interfaces[c] : i \in S
        PROVE  c \in S
    <2> SUFFICES ASSUME NEW b \in Classes, Subtype(k, c, b), b # c PROVE level[b] < level[c]
      OBVIOUS
    <2>1. ASSUME NEW d \in Classes, d \in S, level[d] < level[c], Subtype(k, d, b)
          PROVE  level[b] < level[c]
      BY <1>0, <2>1
    <2>2. CASE \E i \in k.interfaces[c] : Subtype(k, i, b)
      BY <1>0, <1>1, <2>1, <2>2
    <2>3. CASE c # Object /\ Subtype(k, k.super[c], b)
      BY <1>0, <1>1, <2>1, <2>3
    <2>4. CASE b = Object
      <3>1. c # Object /\ Subtype(k, k.super[c], b)
        BY <1>0, <2>4, SubtypeDef
      <3> QED
        BY <2>3, <3>1
    <2> QED
      BY <2>2, <2>3, <2>4, SubtypeDef
  <1>2. Classes \subseteq S
    <2> HIDE DEF S
    <2> QED
      BY ONLY <1>1, Upwards, k \in Hierarchies, Zenon
  <1> QED
    BY <1>2

\* A declaration that overrides a's, as seen from the class itself.
LEMMA OverridesDef ==
    ASSUME NEW k \in Hierarchies, NEW a \in Classes, NEW m \in Methods
    PROVE  \A c \in Classes :
              /\ Declares(k, c, m) /\ Subtype(k, c, a)
              /\ \/ c = a
                 \/ /\ k.access[c][m] # "private"
                    /\ \/ k.access[a][m] \in {"public", "protected"}
                       \/ k.access[a][m] = "package" /\ Siblings(k, c, a)
              => Overrides(k, c, a, m)
  <1> DEFINE open(c) == \/ k.access[a][m] \in {"public", "protected"}
                        \/ k.access[a][m] = "package" /\ Siblings(k, c, a)
             next(c, f) == /\ Declares(k, c, m) /\ Subtype(k, c, a)
                           /\ \/ c = a
                              \/ /\ k.access[c][m] # "private"
                                 /\ \/ k.access[a][m] \in {"public", "protected"}
                                    \/ k.access[a][m] = "package" /\ Siblings(k, c, a)
                                    \/ \E b \in Classes \ {c, a} :
                                          /\ Subtype(k, c, b) /\ f[b]
                                          /\ \/ k.access[b][m] \in {"public", "protected"}
                                             \/ k.access[b][m] = "package" /\ Siblings(k, c, b)
             step == [p \in Classes \X [Classes -> BOOLEAN] |-> IF next(p[1], p[2]) THEN TRUE ELSE FALSE]
             over == CHOOSE g : g = [c \in Classes |-> next(c, g)]
  <1>1. PICK level : Ordered(k, level)
    BY HierarchyOrdered
  <1>2. Levels(Classes, level)
    BY <1>1 DEF Ordered
  <1>3. LooksDown(Classes, BOOLEAN, level, step)
    <2>1. step \in [Classes \X [Classes -> BOOLEAN] -> BOOLEAN]
      <3> HIDE DEF next
      <3> QED
        OBVIOUS
    <2> SUFFICES ASSUME NEW c \in Classes, NEW f \in [Classes -> BOOLEAN], NEW g \in [Classes -> BOOLEAN],
                        \A d \in Classes : level[d] < level[c] => f[d] = g[d]
                 PROVE  step[<<c, f>>] = step[<<c, g>>]
      <3> HIDE DEF step
      <3> QED
        BY <2>1 DEF LooksDown
    <2>2. /\ step[<<c, f>>] = IF next(c, f) THEN TRUE ELSE FALSE
          /\ step[<<c, g>>] = IF next(c, g) THEN TRUE ELSE FALSE
      <3> HIDE DEF next
      <3> QED
        OBVIOUS
    <2>3. next(c, f) <=> next(c, g)
      <3>1. \A b \in Classes \ {c, a} : Subtype(k, c, b) => f[b] = g[b]
        BY <1>1, SupertypesLower
      <3> QED
        BY ONLY <3>1
    <2> HIDE DEF next
    <2> QED
      BY <2>2, <2>3
  <1>4. PICK f \in [Classes -> BOOLEAN] : \A c \in Classes : f[c] = step[<<c, f>>]
    <2> HIDE DEF step
    <2>1. Solvable(Classes, BOOLEAN, step)
      BY ONLY <1>2, <1>3, RecursiveFunction, Zenon
    <2> QED
      BY ONLY <2>1 DEF Solvable
  <1>5. \A c \in Classes : f[c] = next(c, f)
    <2> TAKE c \in Classes
    <2>1. f[c] = step[<<c, f>>] /\ f[c] \in BOOLEAN
      BY <1>4
    <2>2. step[<<c, f>>] = IF next(c, f) THEN TRUE ELSE FALSE
      <3> HIDE DEF next
      <3> QED
        OBVIOUS
    <2>3. next(c, f) \in BOOLEAN
      OBVIOUS
    <2> HIDE DEF next, step
    <2> QED
      BY <2>1, <2>2, <2>3
  <1>6. f = [c \in Classes |-> next(c, f)]
    <2> HIDE DEF next
    <2> QED
      BY <1>5
  <1>7. over = [c \in Classes |-> next(c, over)]
    <2> HIDE DEF next
    <2> QED
      BY ONLY <1>6, Zenon
  <1>8. \A c \in Classes : Overrides(k, c, a, m) = over[c]
    BY DEF Overrides
  <1> HIDE DEF over
  <1>9. \A c \in Classes : over[c] = next(c, over)
    <2> HIDE DEF next
    <2> QED
      BY <1>7
  <1> QED
    BY <1>8, <1>9

\* What the walk of invokevirtual finds is what JVMS 7 selects first.
LEMMA SelectedHere ==
    ASSUME NEW k \in Hierarchies, NEW a \in Classes, NEW m \in Methods, NEW c \in Classes,
           Overrides(k, c, a, m)
    PROVE  Selected(k, c, a, m) = c
  <1> DEFINE stop == {d \in Classes : Overrides(k, d, a, m) \/ d = Object}
             end == [d \in Classes |-> d]
             up == CHOOSE g : g = [d \in Classes |->
                        IF Overrides(k, d, a, m) \/ d = Object THEN d ELSE g[k.super[d]]]
  <1>1. Walk(Classes, stop, end)
    BY ClassesAssumption DEF Walk
  <1>2. PICK f \in [Classes -> Classes] :
            \A d \in Classes : f[d] = IF d \in stop THEN end[d] ELSE f[k.super[d]]
    <2> HIDE DEF stop, end
    <2>1. Walked(k, Classes, stop, end)
      BY ONLY <1>1, WalkUp, k \in Hierarchies, Zenon
    <2> QED
      BY ONLY <2>1 DEF Walked
  <1>3. f = [d \in Classes |-> IF Overrides(k, d, a, m) \/ d = Object THEN d ELSE f[k.super[d]]]
    BY <1>2
  <1>4. up = [d \in Classes |-> IF Overrides(k, d, a, m) \/ d = Object THEN d ELSE up[k.super[d]]]
    BY ONLY <1>3, Zenon
  <1>5. Selected(k, c, a, m) = up[c]
    BY DEF Selected
  <1> HIDE DEF up
  <1> QED
    BY <1>4, <1>5

\* A virtual method found is the one JVMS 7 selects, unless the named one hides
\* in another package.
LEMMA VirtualAgrees ==
    ASSUME NEW k \in Hierarchies, NEW m \in Methods, NEW c \in Classes, NEW a \in Classes,
           ~IsInit(m), c # Object, Declares(k, c, m), Declares(k, k.super[c], m),
           k.access[k.super[c]][m] \in {"public", "protected"} \/ Siblings(k, c, k.super[c]),
           Declares(k, a, m), Subtype(k, c, a), k.access[a][m] # "private",
           ~(k.access[a][m] = "package" /\ ~Siblings(k, c, a))
    PROVE  Overriding(k, c, m) = Some(c) /\ Selected(k, c, a, m) = c
  <1>1. Overriding(k, c, m) = Some(c)
    BY OverridingDef
  <1>2. k.access[a][m] \in {"public", "protected", "package"}
    BY HierarchiesAssumption DEF Compiled, Accesses, Declares
  <1>3. c = a \/ k.access[c][m] # "private"
    BY <1>2, HierarchiesAssumption DEF Compiled
  <1>4. Overrides(k, c, a, m)
    BY <1>2, <1>3, OverridesDef
  <1> QED
    BY <1>1, <1>4, SelectedHere

\* The walk of a super call.
LEMMA SuperMethodDef ==
    ASSUME NEW k \in Hierarchies, NEW m \in Methods
    PROVE  \A c \in Classes :
              /\ SuperMethod(k, c, m) \in {Panics} \cup {Some(d) : d \in Classes}
              /\ SuperMethod(k, c, m) =
                    IF c = Object THEN Panics
                    ELSE IF Declares(k, k.super[c], m) THEN Some(k.super[c])
                    ELSE SuperMethod(k, k.super[c], m)
  <1> DEFINE T == {Panics} \cup {Some(d) : d \in Classes}
             stop == {c \in Classes : c = Object \/ Declares(k, k.super[c], m)}
             end == [c \in Classes |-> IF c = Object THEN Panics ELSE Some(k.super[c])]
             from == CHOOSE g : g = [c \in Classes |->
                        IF c = Object THEN Panics
                        ELSE IF Declares(k, k.super[c], m) THEN Some(k.super[c])
                        ELSE g[k.super[c]]]
  <1>0. \A c \in Classes \ {Object} : k.super[c] \in Classes
    BY HierarchiesAssumption DEF Linkable
  <1>1. Walk(T, stop, end)
    <2>1. \A c \in Classes : end[c] \in T
      <3> HIDE DEF Panics, Some
      <3> QED
        BY <1>0
    <2> QED
      BY <2>1, ClassesAssumption DEF Walk
  <1>2. PICK f \in [Classes -> T] :
            \A c \in Classes : f[c] = IF c \in stop THEN end[c] ELSE f[k.super[c]]
    <2> HIDE DEF stop, end, T
    <2>1. Walked(k, T, stop, end)
      BY ONLY <1>1, WalkUp, k \in Hierarchies, Zenon
    <2> QED
      BY ONLY <2>1 DEF Walked
  <1>3. f = [c \in Classes |-> IF c = Object THEN Panics
                               ELSE IF Declares(k, k.super[c], m) THEN Some(k.super[c])
                               ELSE f[k.super[c]]]
    <2> HIDE DEF Panics, Some, Declares
    <2> QED
      BY <1>2
  <1>4. from = [c \in Classes |-> IF c = Object THEN Panics
                                  ELSE IF Declares(k, k.super[c], m) THEN Some(k.super[c])
                                  ELSE from[k.super[c]]]
    BY ONLY <1>3, Zenon
  <1>5. \A c \in Classes : SuperMethod(k, c, m) = from[c]
    BY DEF SuperMethod
  <1> HIDE DEF from
  <1>6. \A c \in Classes : from[c] = IF c = Object THEN Panics
                                     ELSE IF Declares(k, k.super[c], m) THEN Some(k.super[c])
                                     ELSE from[k.super[c]]
    BY ONLY <1>4
  <1>7. \A c \in Classes :
            SuperMethod(k, c, m) = IF c = Object THEN Panics
                                   ELSE IF Declares(k, k.super[c], m) THEN Some(k.super[c])
                                   ELSE SuperMethod(k, k.super[c], m)
    BY <1>0, <1>5, <1>6
  <1> DEFINE S == {c \in Classes : SuperMethod(k, c, m) \in T}
  <1>8. Classes \subseteq S
    <2>1. ASSUME NEW c \in Classes, c # Object => k.super[c] \in S, \A i \in k.interfaces[c] : i \in S
          PROVE  c \in S
      <3> HIDE DEF Panics, Some, Declares
      <3> QED
        BY <1>0, <1>7, <2>1
    <2> HIDE DEF S
    <2> QED
      BY ONLY <2>1, Upwards, k \in Hierarchies, Zenon
  <1> QED
    BY <1>7, <1>8

\* The walk of JVMS 7 for a super call.
SpecialWalk(k, m, up) ==
    /\ up \in [Classes -> Classes]
    /\ \A c \in Classes : up[c] = IF Declares(k, c, m) \/ c = Object THEN c ELSE up[k.super[c]]
    /\ \A c, a \in Classes, init \in BOOLEAN :
          SpecialSelected(k, c, a, m, init) =
            IF ~init /\ a # c /\ Subtype(k, c, a) THEN up[k.super[c]] ELSE a

\* What JVMS 7 selects for a super call is found by a walk from the superclass.
LEMMA SpecialSelectedDef ==
    ASSUME NEW k \in Hierarchies, NEW m \in Methods
    PROVE  \E up : SpecialWalk(k, m, up)
  <1> DEFINE stop == {d \in Classes : Declares(k, d, m) \/ d = Object}
             end == [d \in Classes |-> d]
             up == CHOOSE g : g = [d \in Classes |->
                        IF Declares(k, d, m) \/ d = Object THEN d ELSE g[k.super[d]]]
  <1>1. Walk(Classes, stop, end)
    BY ClassesAssumption DEF Walk
  <1>2. PICK f \in [Classes -> Classes] :
            \A d \in Classes : f[d] = IF d \in stop THEN end[d] ELSE f[k.super[d]]
    <2> HIDE DEF stop, end
    <2>1. Walked(k, Classes, stop, end)
      BY ONLY <1>1, WalkUp, k \in Hierarchies, Zenon
    <2> QED
      BY ONLY <2>1 DEF Walked
  <1>3. f = [d \in Classes |-> IF Declares(k, d, m) \/ d = Object THEN d ELSE f[k.super[d]]]
    BY <1>2
  <1>4. up = [d \in Classes |-> IF Declares(k, d, m) \/ d = Object THEN d ELSE up[k.super[d]]]
    BY ONLY <1>3, Zenon
  <1>5. \A c, a \in Classes, init \in BOOLEAN :
          SpecialSelected(k, c, a, m, init) =
            IF ~init /\ a # c /\ Subtype(k, c, a) THEN up[k.super[c]] ELSE a
    BY DEF SpecialSelected
  <1> HIDE DEF up
  <1>6. \A d \in Classes : up[d] = IF Declares(k, d, m) \/ d = Object THEN d ELSE up[k.super[d]]
    BY ONLY <1>4
  <1> DEFINE S == {d \in Classes : up[d] \in Classes}
  <1>7. Classes \subseteq S
    <2>1. ASSUME NEW c \in Classes, c # Object => k.super[c] \in S, \A i \in k.interfaces[c] : i \in S
          PROVE  c \in S
      BY <1>6, <2>1
    <2> HIDE DEF S
    <2> QED
      BY ONLY <2>1, Upwards, k \in Hierarchies, Zenon
  <1>8. up \in [Classes -> Classes]
    BY <1>4, <1>7
  <1> QED
    BY <1>5, <1>6, <1>8 DEF SpecialWalk

\* Where it has a method to find, a super call finds a method of a class.
LEMMA SpecialTargetType ==
    ASSUME NEW k \in Hierarchies, NEW m \in Methods, NEW c \in Classes, NEW a \in Classes,
           NEW init \in BOOLEAN
    PROVE  SpecialTarget(k, c, a, m, init) \in {Panics, None} \cup {Some(d) : d \in Classes}
  <1>1. c # Object => k.super[c] \in Classes
    BY HierarchiesAssumption DEF Linkable
  <1>2. c # Object => SuperMethod(k, k.super[c], m) \in {Panics} \cup {Some(d) : d \in Classes}
    BY <1>1, SuperMethodDef
  <1> QED
    BY <1>2 DEF SpecialTarget

\* The object of a special call is of the class named or below.  A constructor
\* is the one named; where the direct superclass does not have the method, a
\* super call finds the one JVMS 7 looks for.
LEMMA SpecialAgrees ==
    ASSUME NEW k \in Hierarchies, NEW m \in Methods, NEW c \in Classes, NEW a \in Classes,
           NEW init \in BOOLEAN, Declares(k, a, m), ~k.isInterface[a],
           \/ init
           \/ c # Object /\ c # a /\ Subtype(k, c, a) /\ ~Declares(k, k.super[c], m)
    PROVE  /\ SpecialSelected(k, c, a, m, init) \in Classes
           /\ SpecialTarget(k, c, a, m, init) = Some(SpecialSelected(k, c, a, m, init))
  <1>1. PICK up : SpecialWalk(k, m, up)
    BY SpecialSelectedDef
  <1>2. CASE init
    BY <1>1, <1>2 DEF SpecialWalk, SpecialTarget
  <1>3. CASE ~init
    <2> DEFINE s == k.super[c]
               S == {d \in Classes : IsSuperclass(k, d, a) /\ d # a =>
                        d # Object /\ SuperMethod(k, d, m) = Some(up[k.super[d]])}
    <2>1. c # Object /\ s \in Classes /\ IsSuperclass(k, c, a) /\ c # a /\ ~Declares(k, s, m)
      BY <1>3, AboveIsSuperclass, HierarchiesAssumption DEF Linkable
    <2>2. ASSUME NEW d \in Classes, d # Object => k.super[d] \in S, \A i \in k.interfaces[d] : i \in S
          PROVE  d \in S
      <3> SUFFICES ASSUME IsSuperclass(k, d, a), d # a
                   PROVE  d # Object /\ SuperMethod(k, d, m) = Some(up[k.super[d]])
        OBVIOUS
      <3>1. d # Object /\ k.super[d] \in Classes
        BY ObjectOnTop, HierarchiesAssumption DEF Linkable
      <3>2. IsSuperclass(k, k.super[d], a)
        BY <3>1, IsSuperclassDef
      <3>3. CASE Declares(k, k.super[d], m)
        BY <1>1, <3>1, <3>3, SuperMethodDef DEF SpecialWalk
      <3>4. CASE ~Declares(k, k.super[d], m)
        <4>1. /\ k.super[d] # Object
              /\ SuperMethod(k, k.super[d], m) = Some(up[k.super[k.super[d]]])
          BY <2>2, <3>1, <3>2, <3>4
        <4>2. up[k.super[d]] = up[k.super[k.super[d]]]
          BY <1>1, <3>1, <3>4, <4>1 DEF SpecialWalk
        <4>3. SuperMethod(k, d, m) = SuperMethod(k, k.super[d], m)
          BY <3>1, <3>4, SuperMethodDef
        <4> QED
          BY <3>1, <4>1, <4>2, <4>3
      <3> QED
        BY <3>3, <3>4
    <2>3. Classes \subseteq S
      <3> HIDE DEF S
      <3> QED
        BY ONLY <2>2, Upwards, k \in Hierarchies, Zenon
    <2>4. IsSuperclass(k, s, a) /\ s # a
      BY <2>1, IsSuperclassDef
    <2>5. s # Object /\ SuperMethod(k, s, m) = Some(up[k.super[s]])
      BY <2>1, <2>3, <2>4
    <2>6. up[s] = up[k.super[s]] /\ up[s] \in Classes
      BY <1>1, <2>1, <2>5 DEF SpecialWalk
    <2>7. SpecialSelected(k, c, a, m, init) = up[s]
      <3>1. a # c /\ Subtype(k, c, a)
        BY <1>3
      <3> QED
        BY <1>1, <1>3, <3>1 DEF SpecialWalk
    <2>8. SpecialTarget(k, c, a, m, init) = SuperMethod(k, s, m)
      BY <1>3, <2>1 DEF SpecialTarget
    <2> QED
      BY <2>5, <2>6, <2>7, <2>8
  <1> QED
    BY <1>2, <1>3

-----------------------------------------------------------------------------
(***************************************************************************)
(* The walks of the hierarchy a program runs on.                           *)
(***************************************************************************)

\* The loaded classes do not change while the program runs ...
LEMMA HierarchyFixed ==
    ASSUME [Next]_vars
    PROVE  h' = h
  <1>1. CASE UNCHANGED vars
    BY <1>1 DEF vars
  <1>2. CASE Push \/ Load \/ Store \/ StoreLong \/ Pop \/ PopLong \/ Dup \/ Iadd \/ Ladd \/ Iinc
    BY <1>2 DEF Push, Load, Store, StoreLong, Pop, PopLong, Dup, Iadd, Ladd, Iinc, Run
  <1>3. CASE Branch \/ Goto \/ Nop \/ Return \/ EndOfCode \/ ValueReturn \/ Unimplemented
    BY <1>3 DEF Branch, Goto, Nop, Return, EndOfCode, ValueReturn, Unimplemented, Run, Fail
  <1>4. CASE InitStatic \/ InvokeStatic \/ InvokeNative
    BY <1>4 DEF InitStatic, InvokeStatic, InvokeNative, Run, Fail
  <1>5. CASE InvokeVirtual
    BY <1>5 DEF InvokeVirtual, Run, Fail
  <1>6. CASE InvokeSpecial
    BY <1>6 DEF InvokeSpecial, Run, Fail
  <1>7. CASE New \/ CheckcastObject
    BY <1>7 DEF New, CheckcastObject, Run, Fail
  <1>8. CASE GetStatic \/ PutStatic \/ PutField
    BY <1>8 DEF GetStatic, PutStatic, PutField, Run, Fail
  <1> QED
    BY <1>1, <1>2, <1>3, <1>4, <1>5, <1>6, <1>7, <1>8 DEF Next

\* ... so what is assumed of all hierarchies holds of the one it runs on.
LEMMA HierarchyGiven == Spec => [](h \in Hierarchies)
  <1>1. Init => h \in Hierarchies
    BY DEF Init
  <1>2. h \in Hierarchies /\ [Next]_vars => (h \in Hierarchies)'
    BY HierarchyFixed
  <1> QED
    BY <1>1, <1>2, PTL DEF Spec

\* check_cast, for every hierarchy the loader can have linked: an object is
\* never taken for one of an unrelated class, and always for one of its own.
THEOREM CastsStayRelated == Spec => []CastsRelated
  <1>1. h \in Hierarchies => CastsRelated
    BY CastFinds DEF CastsRelated
  <1> QED
    BY <1>1, HierarchyGiven, PTL

\* invokevirtual: where packages hide nothing, the method the walk finds is the
\* one JVMS 7 selects, for every hierarchy and every class the call names.
THEOREM SelectionCorrect == Spec => []SelectionSound
  <1>1. ASSUME h \in Hierarchies PROVE SelectionSound
    <2> SUFFICES ASSUME \/ \A c \in Classes, m \in Methods : h.access[c][m] \notin {"private", "package"}
                        \/ \A c, d \in Classes : Siblings(h, c, d),
                        NEW c \in Classes, NEW a \in Classes, NEW m \in Methods,
                        ~IsInit(m), Declares(h, a, m), Subtype(h, c, a), h.access[a][m] # "private",
                        Overriding(h, c, m).is = "some"
                 PROVE  Overriding(h, c, m).class = Selected(h, c, a, m)
      BY DEF SelectionSound
    <2>1. /\ c # Object /\ Declares(h, c, m) /\ Declares(h, h.super[c], m)
      BY <1>1, OverridingDef DEF Panics, None
    <2>2. h.super[c] \in Classes
      BY <1>1, <2>1, HierarchiesAssumption DEF Linkable
    <2>3. h.access[h.super[c]][m] \in {"public", "protected"} \/ Siblings(h, c, h.super[c])
      BY <1>1, <2>1, <2>2, HierarchiesAssumption DEF Compiled, Accesses, Declares
    <2>4. ~(h.access[a][m] = "package" /\ ~Siblings(h, c, a))
      OBVIOUS
    <2>5. Overriding(h, c, m) = Some(c) /\ Selected(h, c, a, m) = c
      BY <1>1, <2>1, <2>3, <2>4, VirtualAgrees
    <2> QED
      BY <2>5 DEF Some
  <1> QED
    BY <1>1, HierarchyGiven, PTL

-----------------------------------------------------------------------------
(***************************************************************************)
(* Operands: the values of the machine as step has them, a long or double  *)
(* in two halves.                                                          *)
(***************************************************************************)

\* A set of values with the halves of each.
Closed(S) == \A x \in S : Halves(x) \in Seq(S)
\* f has the operands of each beginning of s.
Unfolds(S, s, f) ==
    /\ f \in [0..Len(s) -> Seq(S)] /\ f[0] = <<>>
    /\ \A n \in 1..Len(s) : f[n] = f[n - 1] \o Halves(s[n])

\* The operands of a stack are those below the top value, then its halves.
LEMMA OperandsDef ==
    ASSUME NEW S, Closed(S), NEW s \in Seq(S)
    PROVE  \E f : Unfolds(S, s, f) /\ Operands(s) = f[Len(s)]
  <1> DEFINE C == 0..Len(s)
             T == Seq(S)
             level == [n \in C |-> n]
             next(n, f) == IF n = 0 THEN <<>> ELSE f[n - 1] \o Halves(s[n])
             step == [p \in C \X [C -> T] |-> next(p[1], p[2])]
             first == CHOOSE g : g = [n \in 0..Len(s) |-> IF n = 0 THEN <<>> ELSE g[n - 1] \o Halves(s[n])]
  <1>1. Len(s) \in Nat /\ \A n \in 1..Len(s) : s[n] \in S /\ Halves(s[n]) \in T
    BY LenProperties, ElementOfSeq DEF Closed
  <1>2. \A n \in C, f \in [C -> T] : next(n, f) \in T
    <2> TAKE n \in C, f \in [C -> T]
    <2>1. CASE n = 0
      BY <2>1, EmptySeq
    <2>2. CASE n # 0
      <3>1. n \in 1..Len(s) /\ n - 1 \in C
        BY <1>1, <2>2
      <3>2. f[n - 1] \in T /\ Halves(s[n]) \in T
        BY <1>1, <3>1
      <3> QED
        BY <2>2, <3>2, ConcatProperties
    <2> QED
      BY <2>1, <2>2
  <1>3. Levels(C, level)
    <2>1. level \in [C -> Nat] /\ \A n \in C : level[n] <= Len(s)
      BY <1>1
    <2>2. Len(s) \in Nat
      BY <1>1
    <2> HIDE DEF C, level
    <2> QED
      BY ONLY <2>1, <2>2 DEF Levels
  <1>4. LooksDown(C, T, level, step)
    <2>1. step \in [C \X [C -> T] -> T]
      <3> HIDE DEF C, T, next
      <3> QED
        BY <1>2
    <2>2. T # {}
      BY EmptySeq
    <2> SUFFICES ASSUME NEW n \in C, NEW f \in [C -> T], NEW g \in [C -> T],
                        \A d \in C : level[d] < level[n] => f[d] = g[d]
                 PROVE  step[<<n, f>>] = step[<<n, g>>]
      <3> HIDE DEF C, T, step, level
      <3> QED
        BY <2>1, <2>2 DEF LooksDown
    <2>3. step[<<n, f>>] = next(n, f) /\ step[<<n, g>>] = next(n, g)
      <3> HIDE DEF C, T, next
      <3> QED
        OBVIOUS
    <2>4. n # 0 => n - 1 \in C /\ level[n - 1] < level[n]
      BY <1>1
    <2>5. next(n, f) = next(n, g)
      <3>1. n # 0 => f[n - 1] = g[n - 1]
        BY <2>4
      <3> QED
        BY ONLY <3>1
    <2> HIDE DEF next, step
    <2> QED
      BY <2>3, <2>5
  <1>5. PICK f \in [C -> T] : \A n \in C : f[n] = step[<<n, f>>]
    <2> HIDE DEF C, T, level, step
    <2>1. Solvable(C, T, step)
      BY ONLY <1>3, <1>4, RecursiveFunction, Zenon
    <2> QED
      BY ONLY <2>1 DEF Solvable
  <1>6. \A n \in C : f[n] = next(n, f)
    <2> HIDE DEF C, T, next
    <2> QED
      BY <1>5
  <1>7. f = [n \in 0..Len(s) |-> IF n = 0 THEN <<>> ELSE f[n - 1] \o Halves(s[n])]
    <2> HIDE DEF T
    <2> QED
      BY <1>5, <1>6
  <1>8. first = [n \in 0..Len(s) |-> IF n = 0 THEN <<>> ELSE first[n - 1] \o Halves(s[n])]
    BY ONLY <1>7, Zenon
  <1>9. Operands(s) = first[Len(s)]
    BY DEF Operands
  <1> HIDE DEF first
  <1>10. \A n \in 0..Len(s) : first[n] = IF n = 0 THEN <<>> ELSE first[n - 1] \o Halves(s[n])
    BY ONLY <1>8
  <1> DEFINE G == {n \in C : first[n] \in T}
  <1>11. C \subseteq G
    <2>1. ASSUME NEW n \in C, \A d \in C : level[d] < level[n] => d \in G
          PROVE  n \in G
      <3>1. CASE n = 0
        BY <1>10, <3>1, EmptySeq
      <3>2. CASE n # 0
        <4>1. n \in 1..Len(s) /\ n - 1 \in C /\ level[n - 1] < level[n]
          BY <1>1, <3>2
        <4>2. n - 1 \in G
          <5> HIDE DEF G, C, level
          <5> QED
            BY <2>1, <4>1
        <4>3. first[n - 1] \in T /\ Halves(s[n]) \in T
          BY <1>1, <4>1, <4>2
        <4>4. first[n - 1] \o Halves(s[n]) \in T
          BY <4>3, ConcatProperties
        <4> QED
          BY <1>10, <3>2, <4>4
      <3> QED
        BY <3>1, <3>2
    <2> HIDE DEF C, G, level
    <2>2. Hereditary(C, level, G)
      BY ONLY <2>1 DEF Hereditary
    <2> QED
      BY ONLY <1>3, <2>2, LevelInduction, Zenon
  <1>12. first \in [0..Len(s) -> T]
    BY <1>8, <1>11
  <1>13. first[0] = <<>>
    BY <1>1, <1>10
  <1>14. \A n \in 1..Len(s) : first[n] = first[n - 1] \o Halves(s[n])
    <2> TAKE n \in 1..Len(s)
    <2>1. n \in 0..Len(s) /\ n # 0
      BY <1>1
    <2> QED
      BY <1>10, <2>1
  <1>15. Unfolds(S, s, first)
    BY <1>12, <1>13, <1>14 DEF Unfolds
  <1> QED
    BY <1>9, <1>15

\* A value pushed on the stack of JVMS 7 pushes its halves on that of step.
LEMMA OperandsPush ==
    ASSUME NEW S, Closed(S), NEW s \in Seq(S), NEW x \in S
    PROVE  /\ Operands(s) \in Seq(S) /\ Operands(<<>>) = <<>>
           /\ Operands(Append(s, x)) = Operands(s) \o Halves(x)
  <1> DEFINE t == Append(s, x)
  <1>1. /\ t \in Seq(S) /\ Len(t) = Len(s) + 1 /\ Len(s) \in Nat
        /\ \A i \in 1..Len(s) : t[i] = s[i]
        /\ t[Len(s) + 1] = x
    BY AppendProperties, LenProperties
  <1> HIDE DEF t
  <1>2. PICK f : Unfolds(S, s, f) /\ Operands(s) = f[Len(s)]
    BY OperandsDef
  <1>3. PICK g : Unfolds(S, t, g) /\ Operands(t) = g[Len(t)]
    BY <1>1, OperandsDef
  <1>4. Operands(<<>>) = <<>>
    <2>1. <<>> \in Seq(S) /\ Len(<<>>) = 0
      BY EmptySeq
    <2>2. PICK e : Unfolds(S, <<>>, e) /\ Operands(<<>>) = e[Len(<<>>)]
      BY <2>1, OperandsDef
    <2> QED
      BY <2>1, <2>2 DEF Unfolds
  <1> DEFINE A == {n \in Nat : n <= Len(s) => f[n] = g[n]}
  <1>5. 0 \in A
    BY <1>2, <1>3 DEF Unfolds
  <1>6. ASSUME NEW n \in A PROVE n + 1 \in A
    <2>1. CASE n + 1 <= Len(s)
      <3>1. n + 1 \in 1..Len(s) /\ n + 1 \in 1..Len(t) /\ (n + 1) - 1 = n /\ n <= Len(s)
        BY <1>1, <2>1
      <3>2. f[n + 1] = f[n] \o Halves(s[n + 1])
        BY <1>2, <3>1 DEF Unfolds
      <3>3. g[n + 1] = g[n] \o Halves(t[n + 1])
        BY <1>3, <3>1 DEF Unfolds
      <3>4. f[n] = g[n] /\ t[n + 1] = s[n + 1]
        BY <1>1, <3>1
      <3>5. f[n + 1] = g[n + 1]
        BY <3>2, <3>3, <3>4
      <3> QED
        BY <3>5
    <2> QED
      BY <2>1
  <1>7. A = Nat
    <2> HIDE DEF A
    <2>1. A \in SUBSET Nat
      BY DEF A
    <2> QED
      BY ONLY <1>5, <1>6, <2>1, SetInduction, Zenon
  <1>8. f[Len(s)] = g[Len(s)]
    BY <1>1, <1>7
  <1>9. g[Len(t)] = g[Len(s)] \o Halves(x)
    <2>1. Len(t) \in 1..Len(t) /\ Len(t) - 1 = Len(s)
      BY <1>1
    <2> QED
      BY <1>1, <1>3, <2>1 DEF Unfolds
  <1>10. f[Len(s)] \in Seq(S)
    BY <1>1, <1>2 DEF Unfolds
  <1> QED
    BY <1>2, <1>3, <1>4, <1>8, <1>9, <1>10 DEF t

\* step never has fewer operands than the machine of JVMS 7 has values.
LEMMA OperandsLen ==
    ASSUME NEW S, Closed(S), NEW s \in Seq(S)
    PROVE  Operands(s) \in Seq(S) /\ Len(Operands(s)) >= Len(s)
  <1>1. PICK f : Unfolds(S, s, f) /\ Operands(s) = f[Len(s)]
    BY OperandsDef
  <1>2. Len(s) \in Nat /\ \A n \in 1..Len(s) : s[n] \in S
    BY LenProperties, ElementOfSeq
  <1> DEFINE A == {n \in Nat : n <= Len(s) => Len(f[n]) >= n}
  <1>3. 0 \in A
    BY <1>1, EmptySeq DEF Unfolds
  <1>4. ASSUME NEW n \in A PROVE n + 1 \in A
    <2>1. ASSUME n + 1 <= Len(s) PROVE Len(f[n + 1]) >= n + 1
      <3>1. n + 1 \in 1..Len(s) /\ (n + 1) - 1 = n /\ n \in 0..Len(s) /\ n <= Len(s)
        BY <1>2, <2>1
      <3>2. f[n + 1] = f[n] \o Halves(s[n + 1]) /\ f[n] \in Seq(S) /\ Halves(s[n + 1]) \in Seq(S)
        BY <1>1, <1>2, <3>1 DEF Unfolds, Closed
      <3>3. Len(f[n + 1]) = Len(f[n]) + Len(Halves(s[n + 1])) /\ Len(f[n]) \in Nat
        BY <3>2, ConcatProperties, LenProperties
      <3>4. Len(Halves(s[n + 1])) \in {1, 2}
        BY DEF Halves
      <3>5. Len(f[n]) >= n /\ n \in Nat
        BY <3>1
      <3> DEFINE i == Len(f[n])
                 j == Len(Halves(s[n + 1]))
      <3>6. i \in Nat /\ j \in {1, 2} /\ i >= n /\ Len(f[n + 1]) = i + j
        BY <3>3, <3>4, <3>5
      <3> HIDE DEF i, j, A
      <3> QED
        BY ONLY <3>5, <3>6
    <2>2. n + 1 \in Nat /\ (n + 1 <= Len(s) => Len(f[n + 1]) >= n + 1)
      BY <2>1
    <2> QED
      BY <2>2
  <1>5. A = Nat
    <2> HIDE DEF A
    <2>1. A \in SUBSET Nat
      BY DEF A
    <2> QED
      BY ONLY <1>3, <1>4, <2>1, SetInduction, Zenon
  <1>6. Len(f[Len(s)]) >= Len(s)
    BY <1>2, <1>5
  <1>7. f[Len(s)] \in Seq(S)
    BY <1>1, <1>2 DEF Unfolds
  <1> QED
    BY <1>1, <1>6, <1>7

\* The n topmost elements of a stack, and what is below them.
LEMMA DropDef ==
    ASSUME NEW S, NEW s \in Seq(S), NEW n \in 0..Len(s)
    PROVE  /\ Drop(s, n) \in Seq(S) /\ Len(Drop(s, n)) = Len(s) - n
           /\ \A i \in 1..(Len(s) - n) : Drop(s, n)[i] = s[i]
           /\ Args(s, n) \in Seq(S) /\ Len(Args(s, n)) = n
           /\ \A i \in 1..n : Args(s, n)[i] = s[Len(s) - n + i]
           /\ s = Drop(s, n) \o Args(s, n)
  <1>1. Len(s) \in Nat /\ n \in Nat /\ \A i \in 1..Len(s) : s[i] \in S
    BY LenProperties, ElementOfSeq
  <1>2. /\ Drop(s, n) \in Seq(S) /\ Len(Drop(s, n)) = Len(s) - n
        /\ \A i \in 1..(Len(s) - n) : Drop(s, n)[i] = s[i]
    <2> DEFINE j == Len(s) - n
    <2>1. j \in Int /\ 1 \in Int /\ \A i \in 1..j : s[i] \in S
      BY <1>1
    <2>2. Drop(s, n) = SubSeq(s, 1, j)
      BY DEF Drop
    <2>3. j \in Nat /\ (IF 1 <= j THEN j - 1 + 1 ELSE 0) = j /\ j - 1 + 1 = j
      BY <1>1
    <2>4. \A i \in 1..j : 1 + i - 1 = i
      BY <1>1
    <2> HIDE DEF j
    <2>5. /\ SubSeq(s, 1, j) \in Seq(S) /\ Len(SubSeq(s, 1, j)) = (IF 1 <= j THEN j - 1 + 1 ELSE 0)
          /\ \A i \in 1..(j - 1 + 1) : SubSeq(s, 1, j)[i] = s[1 + i - 1]
      BY ONLY <2>1, SubSeqProperties
    <2> QED
      BY <2>2, <2>3, <2>4, <2>5 DEF j
  <1>3. /\ Args(s, n) \in Seq(S) /\ Len(Args(s, n)) = n
        /\ \A i \in 1..n : Args(s, n)[i] = s[Len(s) - n + i]
    <2> DEFINE j == Len(s) - n + 1
               l == Len(s)
    <2>1. j \in Int /\ l \in Int /\ \A i \in j..l : s[i] \in S
      BY <1>1
    <2>2. Args(s, n) = SubSeq(s, j, l)
      BY DEF Args
    <2>3. (IF j <= l THEN l - j + 1 ELSE 0) = n /\ l - j + 1 = n
      BY <1>1
    <2>4. \A i \in 1..n : j + i - 1 = Len(s) - n + i
      BY <1>1
    <2> HIDE DEF j, l
    <2>5. /\ SubSeq(s, j, l) \in Seq(S) /\ Len(SubSeq(s, j, l)) = (IF j <= l THEN l - j + 1 ELSE 0)
          /\ \A i \in 1..(l - j + 1) : SubSeq(s, j, l)[i] = s[j + i - 1]
      BY ONLY <2>1, SubSeqProperties
    <2> QED
      BY <2>2, <2>3, <2>4, <2>5
  <1>4. s = Drop(s, n) \o Args(s, n)
    <2> DEFINE d == Drop(s, n)
               a == Args(s, n)
    <2>1. /\ d \in Seq(S) /\ a \in Seq(S) /\ Len(d) = Len(s) - n /\ Len(a) = n
          /\ \A i \in 1..(Len(s) - n) : d[i] = s[i]
          /\ \A i \in 1..n : a[i] = s[Len(s) - n + i]
      BY <1>2, <1>3
    <2> HIDE DEF d, a
    <2>2. /\ d \o a \in Seq(S) /\ Len(d \o a) = Len(d) + Len(a)
          /\ \A i \in 1..(Len(d) + Len(a)) : (d \o a)[i] = IF i <= Len(d) THEN d[i] ELSE a[i - Len(d)]
      BY <2>1, ConcatProperties
    <2>3. Len(d \o a) = Len(s)
      BY <1>1, <2>1, <2>2
    <2>4. ASSUME NEW i \in 1..Len(s) PROVE s[i] = (d \o a)[i]
      <3>1. CASE i <= Len(d)
        BY <1>1, <2>1, <2>2, <3>1
      <3>2. CASE ~(i <= Len(d))
        <4>1. i - Len(d) \in 1..n /\ Len(s) - n + (i - Len(d)) = i /\ i \in 1..(Len(d) + Len(a))
          BY <1>1, <2>1, <3>2
        <4> QED
          BY <2>1, <2>2, <3>2, <4>1
      <3> QED
        BY <3>1, <3>2
    <2>5. s = d \o a
      BY <2>2, <2>3, <2>4, SeqEqual
    <2> QED
      BY <2>5 DEF d, a
  <1> QED
    BY <1>2, <1>3, <1>4

\* One argument more is one value less on the stack.
LEMMA DropOne ==
    ASSUME NEW S, NEW s \in Seq(S), NEW n \in 0..(Len(s) - 1)
    PROVE  /\ Drop(s, n) = Append(Drop(s, n + 1), s[Len(s) - n])
           /\ Args(s, n + 1) = <<s[Len(s) - n]>> \o Args(s, n)
           /\ s[Len(s) - n] \in S
  <1>1. Len(s) \in Nat /\ n \in 0..Len(s) /\ n + 1 \in 0..Len(s) /\ n \in Nat
    BY LenProperties
  <1> DEFINE d == Drop(s, n)
             e == Drop(s, n + 1)
             a == Args(s, n)
             b == Args(s, n + 1)
             x == s[Len(s) - n]
  <1>2. /\ d \in Seq(S) /\ Len(d) = Len(s) - n /\ \A i \in 1..(Len(s) - n) : d[i] = s[i]
        /\ a \in Seq(S) /\ Len(a) = n /\ \A i \in 1..n : a[i] = s[Len(s) - n + i]
    BY <1>1, DropDef
  <1>3. /\ e \in Seq(S) /\ Len(e) = Len(s) - (n + 1)
        /\ \A i \in 1..(Len(s) - (n + 1)) : e[i] = s[i]
        /\ b \in Seq(S) /\ Len(b) = n + 1 /\ \A i \in 1..(n + 1) : b[i] = s[Len(s) - (n + 1) + i]
    BY <1>1, DropDef
  <1>4. x \in S
    <2>1. Len(s) - n \in 1..Len(s)
      BY <1>1
    <2> QED
      BY <2>1, ElementOfSeq
  <1> HIDE DEF d, e, a, b
  <1>5. d = Append(e, x)
    <2>0. Len(d) = Len(s) - n /\ Len(e) = Len(s) - (n + 1)
      BY <1>2, <1>3
    <2>1. /\ Append(e, x) \in Seq(S) /\ Len(Append(e, x)) = Len(e) + 1
          /\ \A i \in 1..Len(e) : Append(e, x)[i] = e[i]
          /\ Append(e, x)[Len(e) + 1] = x
      BY <1>3, <1>4, AppendProperties
    <2>2. Len(d) = Len(Append(e, x))
      BY <1>1, <1>2, <1>3, <2>1
    <2>3. ASSUME NEW i \in 1..Len(d) PROVE d[i] = Append(e, x)[i]
      <3>1. CASE i = Len(e) + 1
        <4>1. i = Len(s) - n /\ i \in 1..(Len(s) - n)
          BY ONLY <1>1, <2>0, <3>1, i \in 1..Len(d)
        <4>2. d[i] = x
          BY <1>2, <4>1
        <4> QED
          BY <2>1, <3>1, <4>2
      <3>2. CASE i # Len(e) + 1
        <4>1. i \in 1..Len(e) /\ i \in 1..(Len(s) - n) /\ i \in 1..(Len(s) - (n + 1))
          BY ONLY <1>1, <2>0, <3>2, Len(e) \in Nat, i \in 1..Len(d)
        <4> QED
          BY <1>2, <1>3, <2>1, <4>1
      <3> QED
        BY <3>1, <3>2
    <2> QED
      BY <1>2, <2>1, <2>2, <2>3, SeqEqual
  <1>6. b = <<x>> \o a
    <2>1. <<x>> \in Seq(S) /\ Len(<<x>>) = 1 /\ <<x>>[1] = x
      BY <1>4
    <2>2. /\ <<x>> \o a \in Seq(S) /\ Len(<<x>> \o a) = 1 + n
          /\ \A i \in 1..(1 + n) : (<<x>> \o a)[i] = IF i <= 1 THEN <<x>>[i] ELSE a[i - 1]
      BY <1>2, <2>1, ConcatProperties
    <2>3. Len(b) = Len(<<x>> \o a)
      BY <1>1, <1>3, <2>2
    <2>4. ASSUME NEW i \in 1..Len(b) PROVE b[i] = (<<x>> \o a)[i]
      <3>1. CASE i = 1
        <4>1. Len(s) - (n + 1) + i = Len(s) - n /\ i \in 1..(n + 1) /\ i \in 1..(1 + n) /\ i <= 1
          BY <1>1, <3>1
        <4>2. b[i] = s[Len(s) - (n + 1) + i]
          BY <1>3, <4>1
        <4>3. b[i] = x
          BY <4>1, <4>2
        <4>4. (<<x>> \o a)[i] = <<x>>[i]
          BY <2>2, <4>1
        <4> QED
          BY <2>1, <3>1, <4>3, <4>4
      <3>2. CASE i # 1
        <4>1. /\ i - 1 \in 1..n /\ i \in 1..(n + 1) /\ i \in 1..(1 + n) /\ ~(i <= 1)
              /\ Len(s) - (n + 1) + i = Len(s) - n + (i - 1)
          BY <1>1, <1>3, <3>2
        <4>2. b[i] = s[Len(s) - (n + 1) + i]
          BY <1>3, <4>1
        <4>3. a[i - 1] = s[Len(s) - n + (i - 1)]
          BY <1>2, <4>1
        <4>4. (<<x>> \o a)[i] = a[i - 1]
          BY <2>2, <4>1
        <4> QED
          BY <4>1, <4>2, <4>3, <4>4
      <3> QED
        BY <3>1, <3>2
    <2> QED
      BY <1>3, <2>2, <2>3, <2>4, SeqEqual
  <1> QED
    BY <1>4, <1>5, <1>6 DEF d, e, a, b

\* What was pushed last is what is popped and looked at first.
LEMMA DropConcat ==
    ASSUME NEW S, NEW u \in Seq(S), NEW a \in Seq(S)
    PROVE  /\ Drop(u \o a, Len(a)) = u /\ Len(u \o a) = Len(u) + Len(a)
           /\ \A k \in 0..(Len(a) - 1) : Peek(u \o a, k) = a[Len(a) - k]
  <1> DEFINE t == u \o a
             n == Len(a)
  <1>1. /\ t \in Seq(S) /\ Len(t) = Len(u) + n /\ Len(u) \in Nat /\ n \in Nat
        /\ \A i \in 1..(Len(u) + n) : t[i] = IF i <= Len(u) THEN u[i] ELSE a[i - Len(u)]
    BY ConcatProperties, LenProperties
  <1> HIDE DEF t, n
  <1>2. Drop(t, n) = u
    <2>1. n \in 0..Len(t)
      BY <1>1
    <2>2. /\ Drop(t, n) \in Seq(S) /\ Len(Drop(t, n)) = Len(t) - n
          /\ \A i \in 1..(Len(t) - n) : Drop(t, n)[i] = t[i]
      BY ONLY <1>1, <2>1, DropDef
    <2>3. Len(Drop(t, n)) = Len(u)
      BY <1>1, <2>2
    <2>4. ASSUME NEW i \in 1..Len(Drop(t, n)) PROVE Drop(t, n)[i] = u[i]
      <3>1. i \in 1..(Len(t) - n) /\ i \in 1..(Len(u) + n) /\ i <= Len(u)
        BY <1>1, <2>3
      <3> QED
        BY <1>1, <2>2, <3>1
    <2> QED
      BY <2>2, <2>3, <2>4, SeqEqual
  <1>3. ASSUME NEW k \in 0..(n - 1) PROVE Peek(t, k) = a[n - k]
    <2>1. /\ Len(t) - k \in 1..(Len(u) + n) /\ ~(Len(t) - k <= Len(u))
          /\ (Len(t) - k) - Len(u) = n - k
      BY <1>1
    <2>2. t[Len(t) - k] = a[(Len(t) - k) - Len(u)]
      BY <1>1, <2>1
    <2> QED
      BY <2>1, <2>2 DEF Peek
  <1> QED
    BY <1>1, <1>2, <1>3 DEF t, n

\* The topmost n values take one operand each.
Single(s, n) == \A k \in 0..(n - 1) : Category(Peek(s, k)) = 1

\* Values of one operand each are the same on top of both stacks.
LEMMA OperandsSplit ==
    ASSUME NEW S, Closed(S), NEW s \in Seq(S), NEW n \in 0..Len(s), Single(s, n)
    PROVE  Operands(s) = Operands(Drop(s, n)) \o Args(s, n)
  <1>1. Len(s) \in Nat /\ n \in Nat
    BY LenProperties
  <1> DEFINE split(j) == Operands(s) = Operands(Drop(s, j)) \o Args(s, j)
             A == {j \in Nat : j <= n => split(j)}
  <1>2. 0 \in A
    <2>1. 0 \in 0..Len(s)
      BY <1>1
    <2>2. Drop(s, 0) = s
      <3>1. Drop(s, 0) = SubSeq(s, 1, Len(s))
        BY <1>1 DEF Drop
      <3> QED
        BY <3>1, SubSeqFull
    <2>3. Args(s, 0) = <<>>
      BY <2>1, DropDef, EmptySeq
    <2>4. Operands(s) \in Seq(S)
      BY OperandsLen
    <2>5. Operands(s) \o <<>> = Operands(s)
      BY <2>4, ConcatEmptySeq
    <2> QED
      BY <2>2, <2>3, <2>5
  <1>3. ASSUME NEW j \in A PROVE j + 1 \in A
    <2> SUFFICES ASSUME j + 1 <= n PROVE split(j + 1)
      OBVIOUS
    <2>1. j \in 0..(Len(s) - 1) /\ j + 1 \in 0..Len(s) /\ j \in 0..Len(s) /\ j \in 0..(n - 1) /\ j <= n
      BY <1>1
    <2>2. split(j)
      BY <2>1
    <2> DEFINE d == Drop(s, j)
               e == Drop(s, j + 1)
               a == Args(s, j)
               x == s[Len(s) - j]
    <2>3. /\ d = Append(e, x) /\ Args(s, j + 1) = <<x>> \o a /\ x \in S
      BY <2>1, DropOne
    <2>4. e \in Seq(S) /\ a \in Seq(S)
      BY <2>1, DropDef
    <2>5. Halves(x) = <<x>>
      BY <2>1 DEF Single, Peek, Halves
    <2> HIDE DEF d, e, a, x, A
    <2>6. Operands(d) = Operands(e) \o <<x>>
      BY <2>3, <2>4, <2>5, OperandsPush
    <2>7. Operands(e) \in Seq(S) /\ <<x>> \in Seq(S)
      BY <2>3, <2>4, OperandsLen
    <2>8. (Operands(e) \o <<x>>) \o a = Operands(e) \o (<<x>> \o a)
      BY <2>4, <2>7, ConcatAssociative
    <2>9. Operands(s) = Operands(d) \o a
      BY <2>2 DEF d, a
    <2>10. Operands(s) = Operands(e) \o Args(s, j + 1)
      BY <2>3, <2>6, <2>8, <2>9
    <2> QED
      BY <2>10 DEF e
  <1>4. A = Nat
    <2> HIDE DEF A
    <2>1. A \in SUBSET Nat
      BY DEF A
    <2> QED
      BY ONLY <1>2, <1>3, <2>1, SetInduction, Zenon
  <1>5. n \in A
    <2> HIDE DEF A
    <2> QED BY <1>1, <1>4
  <1> QED
    BY <1>1, <1>5

\* They are the topmost n operands, and popping them pops those.
LEMMA PopSingles ==
    ASSUME NEW S, Closed(S), NEW s \in Seq(S), NEW n \in 0..Len(s), Single(s, n)
    PROVE  /\ Drop(Operands(s), n) = Operands(Drop(s, n))
           /\ Len(Operands(s)) = Len(Operands(Drop(s, n))) + n
           /\ \A k \in 0..(n - 1) : Peek(Operands(s), k) = Peek(s, k)
           /\ Args(Operands(s), n) = Args(s, n)
  <1> DEFINE u == Operands(Drop(s, n))
             a == Args(s, n)
  <1>1. Len(s) \in Nat /\ n \in Nat
    BY LenProperties
  <1>2. Drop(s, n) \in Seq(S) /\ a \in Seq(S) /\ Len(a) = n
        /\ \A i \in 1..n : a[i] = s[Len(s) - n + i]
    BY DropDef
  <1>3. u \in Seq(S)
    BY <1>2, OperandsLen
  <1>4. Operands(s) = u \o a
    BY OperandsSplit
  <1> HIDE DEF u, a
  <1>5. /\ Drop(u \o a, Len(a)) = u /\ Len(u \o a) = Len(u) + Len(a)
        /\ \A k \in 0..(Len(a) - 1) : Peek(u \o a, k) = a[Len(a) - k]
    <2>1. u \in Seq(S) /\ a \in Seq(S)
      BY <1>2, <1>3
    <2> QED
      BY ONLY <2>1, DropConcat, Zenon
  <1>6. ASSUME NEW k \in 0..(n - 1) PROVE Peek(u \o a, k) = Peek(s, k)
    <2>1. n - k \in 1..n /\ Len(s) - n + (n - k) = Len(s) - k
      BY <1>1
    <2>2. Peek(u \o a, k) = a[n - k]
      BY <1>2, <1>5
    <2>3. a[n - k] = s[Len(s) - n + (n - k)]
      BY <1>2, <2>1
    <2> QED
      BY <2>1, <2>2, <2>3 DEF Peek
  <1>7. Args(u \o a, n) = a
    <2> DEFINE t == u \o a
    <2>1. t \in Seq(S) /\ Len(t) = Len(u) + n /\ Len(u) \in Nat
          /\ \A i \in 1..(Len(u) + n) : t[i] = IF i <= Len(u) THEN u[i] ELSE a[i - Len(u)]
      BY <1>2, <1>3, ConcatProperties, LenProperties
    <2> HIDE DEF t
    <2>2. n \in 0..Len(t)
      BY <1>1, <2>1
    <2>3. /\ Args(t, n) \in Seq(S) /\ Len(Args(t, n)) = n
          /\ \A i \in 1..n : Args(t, n)[i] = t[Len(t) - n + i]
      BY ONLY <2>1, <2>2, DropDef
    <2>4. ASSUME NEW i \in 1..n PROVE Args(t, n)[i] = a[i]
      <3>1. Len(t) - n + i = Len(u) + i /\ Len(u) + i \in 1..(Len(u) + n)
            /\ ~(Len(u) + i <= Len(u)) /\ (Len(u) + i) - Len(u) = i
        BY <1>1, <2>1
      <3>2. t[Len(u) + i] = a[(Len(u) + i) - Len(u)]
        BY <2>1, <3>1
      <3> QED
        BY <2>3, <3>1, <3>2
    <2> HIDE DEF Args
    <2>5. Args(t, n) = a
      BY <1>2, <2>3, <2>4, SeqEqual
    <2> QED
      BY <2>5 DEF t
  <1> QED
    BY <1>2, <1>4, <1>5, <1>6, <1>7 DEF u, a

\* A long or double on top takes two operands.
LEMMA PopDouble ==
    ASSUME NEW S, Closed(S), NEW s \in Seq(S), s # <<>>, Category(Last(s)) = 2
    PROVE  /\ Drop(Operands(s), 2) = Operands(Drop(s, 1))
           /\ Len(Operands(s)) = Len(Operands(Drop(s, 1))) + 2
           /\ Peek(Operands(s), 0) = Last(s)
           /\ Peek(Operands(s), 1) = Op(Last(s).t, 0)
  <1>1. Len(s) \in Nat \ {0} /\ 0 \in 0..(Len(s) - 1) /\ 1 \in 0..Len(s) /\ Len(s) - 0 = Len(s)
    BY EmptySeq
  <1> DEFINE e == Drop(s, 1)
             x == Last(s)
             u == Operands(e)
             a == <<Op(x.t, 0), x>>
  <1>2. Drop(s, 0) = s
    <2>1. Drop(s, 0) = SubSeq(s, 1, Len(s))
      BY <1>1 DEF Drop
    <2> QED
      BY <2>1, SubSeqFull
  <1>3. s = Append(e, x) /\ x \in S
    <2>1. Drop(s, 0) = Append(Drop(s, 0 + 1), s[Len(s) - 0]) /\ s[Len(s) - 0] \in S
      BY <1>1, DropOne
    <2>2. Drop(s, 0 + 1) = e /\ s[Len(s) - 0] = x
      BY <1>1 DEF Last
    <2> QED
      BY <1>2, <2>1, <2>2
  <1>4. e \in Seq(S)
    BY <1>1, DropDef
  <1>5. Halves(x) = a
    BY DEF Halves
  <1> HIDE DEF x, e
  <1>6. Operands(s) = u \o a /\ u \in Seq(S) /\ a \in Seq(S)
    <2>1. Operands(Append(e, x)) = Operands(e) \o Halves(x) /\ Operands(e) \in Seq(S)
      BY <1>3, <1>4, OperandsPush
    <2>2. Halves(x) \in Seq(S)
      BY <1>3 DEF Closed
    <2> QED
      BY <1>3, <1>5, <2>1, <2>2
  <1>7. Len(a) = 2 /\ a[2] = x /\ a[1] = Op(x.t, 0)
    OBVIOUS
  <1> HIDE DEF u, a
  <1>8. /\ Drop(u \o a, Len(a)) = u /\ Len(u \o a) = Len(u) + Len(a)
        /\ \A k \in 0..(Len(a) - 1) : Peek(u \o a, k) = a[Len(a) - k]
    BY <1>6, DropConcat
  <1>9. Peek(u \o a, 0) = x /\ Peek(u \o a, 1) = Op(x.t, 0)
    <2>1. 0 \in 0..(Len(a) - 1) /\ 1 \in 0..(Len(a) - 1) /\ Len(a) - 0 = 2 /\ Len(a) - 1 = 1
      BY <1>7
    <2> QED
      BY <1>7, <1>8, <2>1
  <1> QED
    BY <1>6, <1>7, <1>8, <1>9 DEF u, x, e

-----------------------------------------------------------------------------
(***************************************************************************)
(* The inductive invariant.                                                *)
(***************************************************************************)

\* Operands and local variables when the heap has n objects.
Operand(n) ==
    {x \in [t : OperandTypes, v : Int] :
        (IsRef(x) => x.v \in 0..(n - 1)) /\ (x.t = "NullReference" => x = Null)}
Variables(n) == UNION {[D -> Operand(n)] : D \in SUBSET Slots}

AnyIns ==
    [op : {"static", "virtual", "special", "new", "checkcast", "getstatic", "putstatic", "putfield"},
     m : Methods \cup {NoMethod} \cup UNION {k.fields : k \in Hierarchies}, c : Classes]
Putting(n) == [ins : AnyIns, stack : Seq(Operand(n)), locals : Variables(n)]
CodeFrames(n) ==
    [class : Classes, ret : {"V", "I", "L"}, stack : Seq(Operand(n)), locals : Variables(n),
     done : BOOLEAN, parked : {<<>>} \cup {<<p>> : p \in Putting(n)}]
JavaFrames(n) ==
    [class : Classes, ret : {"V", "I", "L"}, stack : Seq(Operand(n)), locals : Variables(n)]

\* A frame of step and the frame of the machine it stands for; a long or
\* double in a local variable would have no counterpart.
Match(f, j) ==
    /\ f.class = j.class /\ f.ret = j.ret /\ f.locals = j.locals
    /\ f.stack = Operands(j.stack)
    /\ \A i \in DOMAIN j.locals : Category(j.locals[i]) = 1
Alike(fs, js) == Len(fs) = Len(js) /\ \A k \in 1..Len(js) : Match(fs[k], js[k])

\* The instruction a frame has put off finds what it was put off with; above
\* such a frame is one of a <clinit>, which hands nothing back to it.
Untouched(f) ==
    f.parked # <<>> => f.stack = f.parked[1].stack /\ f.locals = f.parked[1].locals
Settled(fs) ==
    \A k \in 1..Len(fs) :
        /\ fs[k].done => k = Len(fs)
        /\ Untouched(fs[k])
        /\ fs[k].parked # <<>> /\ k < Len(fs) => fs[k + 1].ret = "V"
LiveOf(fs) == IF fs # <<>> /\ fs[Len(fs)].done THEN Drop(fs, 1) ELSE fs

InterpInv ==
    /\ h \in Hierarchies /\ status \in {"running", "error", "panic"}
    /\ objects \in Seq(Classes) /\ objects # <<>>
    /\ frames \in Seq(CodeFrames(Len(objects))) /\ java \in Seq(JavaFrames(Len(objects)))
    /\ Settled(frames)
    /\ ~odd => status = "running" /\ Alike(LiveOf(frames), java)

\* The halves of an operand are operands, and more objects make no operand bad.
LEMMA OperandClosed ==
    ASSUME NEW n \in Nat
    PROVE  Closed(Operand(n))
  <1> SUFFICES ASSUME NEW x \in Operand(n) PROVE Halves(x) \in Seq(Operand(n))
    BY DEF Closed
  <1>1. CASE Category(x) = 2
    <2>1. Op(x.t, 0) \in Operand(n)
      BY <1>1 DEF Operand, Op, Category, IsRef, OperandTypes
    <2> QED
      BY <1>1, <2>1 DEF Halves
  <1> QED
    BY <1>1 DEF Halves

\* A new object makes no frame and no operand a bad one.
LEMMA FramesGrow ==
    ASSUME NEW n \in Nat
    PROVE  /\ CodeFrames(n) \subseteq CodeFrames(n + 1) /\ JavaFrames(n) \subseteq JavaFrames(n + 1)
           /\ Operand(n) \subseteq Operand(n + 1)
  <1>1. Operand(n) \subseteq Operand(n + 1)
    BY DEF Operand
  <1>2. Seq(Operand(n)) \subseteq Seq(Operand(n + 1))
    BY <1>1
  <1>3. Variables(n) \subseteq Variables(n + 1)
    BY <1>1 DEF Variables
  <1>4. Putting(n) \subseteq Putting(n + 1)
    BY <1>2, <1>3 DEF Putting
  <1> QED
    BY <1>1, <1>2, <1>3, <1>4 DEF CodeFrames, JavaFrames

\* The frames after a step: another innermost frame, and more on top of it.
Stacked(r, fs, g, more) ==
    /\ Len(r) = Len(fs) + Len(more) /\ Len(fs) \in Nat \ {0} /\ Len(more) \in Nat
    /\ \A i \in 1..(Len(fs) + Len(more)) :
        r[i] = IF i < Len(fs) THEN fs[i] ELSE IF i = Len(fs) THEN g ELSE more[i - Len(fs)]

\* With replaces the innermost frame only.
LEMMA WithDef ==
    ASSUME NEW S, NEW fs \in Seq(S), fs # <<>>, NEW g \in S, NEW more \in Seq(S)
    PROVE  With(fs, g) \o more \in Seq(S) /\ Stacked(With(fs, g) \o more, fs, g, more)
  <1> DEFINE w == With(fs, g)
             r == w \o more
  <1>1. Len(fs) \in Nat \ {0} /\ Len(more) \in Nat
    BY LenProperties, EmptySeq
  <1>2. /\ w \in Seq(S) /\ Len(w) = Len(fs)
        /\ \A i \in 1..Len(fs) : w[i] = IF i = Len(fs) THEN g ELSE fs[i]
    BY <1>1 DEF With
  <1> HIDE DEF w
  <1>3. /\ r \in Seq(S) /\ Len(r) = Len(w) + Len(more)
        /\ \A i \in 1..(Len(w) + Len(more)) : r[i] = IF i <= Len(w) THEN w[i] ELSE more[i - Len(w)]
    BY <1>2, ConcatProperties
  <1> HIDE DEF r
  <1>4. ASSUME NEW i \in 1..(Len(fs) + Len(more))
        PROVE  r[i] = IF i < Len(fs) THEN fs[i] ELSE IF i = Len(fs) THEN g ELSE more[i - Len(fs)]
    <2>1. i \in 1..(Len(w) + Len(more)) /\ (i <= Len(w) <=> i \in 1..Len(fs))
      BY <1>1, <1>2
    <2>2. r[i] = IF i <= Len(w) THEN w[i] ELSE more[i - Len(w)]
      BY <1>3, <2>1
    <2> QED
      BY <1>1, <1>2, <2>1, <2>2
  <1> QED
    BY <1>1, <1>2, <1>3, <1>4 DEF r, w, Stacked

\* What an innermost frame g and frames `more` above it must be like.
Placed(f, g, more, n) ==
    /\ g \in CodeFrames(n) /\ ~g.done /\ g.ret = f.ret /\ Untouched(g)
    /\ more \in Seq(CodeFrames(n))
    /\ \A i \in 1..Len(more) : ~more[i].done /\ Untouched(more[i]) /\ more[i].parked = <<>>
    /\ g.parked # <<>> /\ more # <<>> => more[1].ret = "V"

\* A step on the innermost frame disturbs nothing that another frame has put
\* off.
LEMMA StepSettled ==
    ASSUME NEW n \in Nat, NEW fs \in Seq(CodeFrames(n)), fs # <<>>, Settled(fs),
           NEW g, NEW more, Placed(fs[Len(fs)], g, more, n)
    PROVE  LET r == With(fs, g) \o more
           IN  r \in Seq(CodeFrames(n)) /\ Settled(r) /\ LiveOf(r) = r
  <1> DEFINE r == With(fs, g) \o more
             l == Len(fs)
  <1>1. /\ g \in CodeFrames(n) /\ more \in Seq(CodeFrames(n))
        /\ ~g.done /\ g.ret = fs[l].ret /\ Untouched(g)
        /\ \A i \in 1..Len(more) : ~more[i].done /\ Untouched(more[i]) /\ more[i].parked = <<>>
        /\ g.parked # <<>> /\ more # <<>> => more[1].ret = "V"
    BY DEF Placed
  <1>2. /\ r \in Seq(CodeFrames(n)) /\ Len(r) = l + Len(more)
        /\ l \in Nat \ {0} /\ Len(more) \in Nat
        /\ \A i \in 1..(l + Len(more)) :
            r[i] = IF i < l THEN fs[i] ELSE IF i = l THEN g ELSE more[i - l]
    <2>1. r \in Seq(CodeFrames(n)) /\ Stacked(r, fs, g, more)
      BY ONLY <1>1, WithDef, fs \in Seq(CodeFrames(n)), fs # <<>>, Zenon
    <2> QED
      BY <2>1 DEF Stacked
  <1> HIDE DEF r, l
  <1>3. \A k \in 1..l : /\ fs[k].done => k = l
                        /\ Untouched(fs[k])
                        /\ fs[k].parked # <<>> /\ k < l => fs[k + 1].ret = "V"
    BY DEF Settled, l
  <1>4. ASSUME NEW k \in 1..Len(r)
        PROVE  /\ ~r[k].done /\ Untouched(r[k])
               /\ r[k].parked # <<>> /\ k < Len(r) => r[k + 1].ret = "V"
    <2>1. k \in 1..(l + Len(more)) /\ (k < Len(r) => k + 1 \in 1..(l + Len(more)))
      BY <1>2
    <2>2. CASE k < l
      <3>1. k \in 1..l /\ k # l /\ r[k] = fs[k] /\ k < Len(r)
        BY <1>2, <2>1, <2>2
      <3>2. ~fs[k].done /\ Untouched(fs[k]) /\ (fs[k].parked # <<>> => fs[k + 1].ret = "V")
        BY <1>3, <3>1, <2>2
      <3>3. k + 1 < l => r[k + 1] = fs[k + 1]
        BY <1>2, <2>1, <3>1
      <3>4. k + 1 = l => r[k + 1] = g /\ g.ret = fs[k + 1].ret
        BY <1>1, <1>2, <2>1, <3>1
      <3>5. k + 1 < l \/ k + 1 = l
        BY <1>2, <2>2
      <3> QED
        BY <3>1, <3>2, <3>3, <3>4, <3>5
    <2>3. CASE k = l
      <3>1. r[k] = g
        BY <1>2, <2>1, <2>3
      <3>2. ASSUME k < Len(r) PROVE more # <<>> /\ r[k + 1] = more[1]
        <4>1. Len(more) # 0 /\ k + 1 \in 1..(l + Len(more)) /\ ~(k + 1 < l) /\ k + 1 # l /\ (k + 1) - l = 1
          BY <1>2, <2>3, <3>2
        <4> QED
          BY <1>2, <4>1
      <3> QED
        BY <1>1, <3>1, <3>2
    <2>4. CASE k > l
      <3>1. k - l \in 1..Len(more) /\ r[k] = more[k - l]
        BY <1>2, <2>1, <2>4
      <3> QED
        BY <1>1, <3>1
    <2> QED
      BY <1>2, <2>2, <2>3, <2>4
  <1>5. Settled(r)
    BY <1>4 DEF Settled
  <1>6. LiveOf(r) = r
    <2>1. Len(r) \in 1..Len(r)
      BY <1>2
    <2> QED
      BY <1>4, <2>1 DEF LiveOf
  <1> QED
    BY <1>2, <1>5, <1>6 DEF r

\* A step of both machines on their innermost frames leaves the outer ones
\* matched.
LEMMA StepAlike ==
    ASSUME NEW n \in Nat, NEW fs \in Seq(CodeFrames(n)), fs # <<>>, NEW js \in Seq(JavaFrames(n)),
           Alike(fs, js), NEW g \in CodeFrames(n), NEW more \in Seq(CodeFrames(n)),
           NEW j \in JavaFrames(n), Match(g, j), NEW jmore \in Seq(JavaFrames(n)), Alike(more, jmore)
    PROVE  /\ Alike(With(fs, g) \o more, With(js, j) \o jmore)
           /\ With(js, j) \o jmore \in Seq(JavaFrames(n))
  <1> DEFINE r == With(fs, g) \o more
             q == With(js, j) \o jmore
             l == Len(fs)
  <1>0. Len(js) = l /\ Len(jmore) = Len(more) /\ js # <<>>
    BY EmptySeq, LenProperties DEF Alike
  <1>1. /\ r \in Seq(CodeFrames(n)) /\ Len(r) = l + Len(more)
        /\ l \in Nat \ {0} /\ Len(more) \in Nat
        /\ \A i \in 1..(l + Len(more)) :
            r[i] = IF i < l THEN fs[i] ELSE IF i = l THEN g ELSE more[i - l]
    <2>1. r \in Seq(CodeFrames(n)) /\ Stacked(r, fs, g, more)
      BY WithDef, Zenon
    <2> QED
      BY <2>1 DEF Stacked
  <1>2. /\ q \in Seq(JavaFrames(n)) /\ Len(q) = l + Len(more)
        /\ \A i \in 1..(l + Len(more)) :
            q[i] = IF i < l THEN js[i] ELSE IF i = l THEN j ELSE jmore[i - l]
    <2>1. q \in Seq(JavaFrames(n)) /\ Stacked(q, js, j, jmore)
      BY <1>0, WithDef, Zenon
    <2> QED
      BY <1>0, <2>1 DEF Stacked
  <1> HIDE DEF r, q, l
  <1>3. /\ \A k \in 1..l : Match(fs[k], js[k])
        /\ \A k \in 1..Len(more) : Match(more[k], jmore[k])
    BY <1>0 DEF Alike
  <1>4. ASSUME NEW k \in 1..(l + Len(more)) PROVE Match(r[k], q[k])
    <2>1. CASE k < l
      BY <1>1, <1>2, <1>3, <2>1
    <2>2. CASE k = l
      BY <1>1, <1>2, <2>2
    <2>3. CASE k > l
      <3>1. k - l \in 1..Len(more)
        BY <1>1, <2>3
      <3>2. r[k] = more[k - l] /\ q[k] = jmore[k - l]
        BY <1>1, <1>2, <2>3
      <3> QED
        BY <1>3, <3>1, <3>2
    <2> QED
      BY <1>1, <2>1, <2>2, <2>3
  <1> QED
    BY <1>1, <1>2, <1>4 DEF Alike, r, q

\* What the machine does at a step that step takes as it should.
Answered(js, g, more, n) ==
    \E j \in JavaFrames(n), jmore \in Seq(JavaFrames(n)) :
        js = With(java, j) \o jmore /\ Match(g, j) /\ Alike(more, jmore)

\* When an instruction is fetched both machines stand at the same frames.
LEMMA FetchDef ==
    ASSUME InterpInv, Fetch
    PROVE  /\ ~odd /\ status = "running" /\ frames # <<>> /\ ~Top.done /\ java # <<>>
           /\ Alike(frames, java) /\ Len(frames) = Len(java) /\ Match(Top, JTop)
           /\ Len(objects) \in Nat \ {0} /\ Len(frames) \in Nat \ {0}
           /\ Top \in CodeFrames(Len(objects)) /\ JTop \in JavaFrames(Len(objects))
  <1>1. ~odd /\ status = "running" /\ frames # <<>> /\ ~Top.done
    BY DEF Fetch
  <1>2. LiveOf(frames) = frames
    BY <1>1 DEF LiveOf, Top
  <1>3. Alike(frames, java) /\ Len(frames) = Len(java)
    BY <1>1, <1>2 DEF InterpInv, Alike
  <1>4. /\ Len(objects) \in Nat \ {0} /\ Len(frames) \in Nat \ {0}
        /\ frames \in Seq(CodeFrames(Len(objects))) /\ java \in Seq(JavaFrames(Len(objects)))
    BY <1>1, LenProperties, EmptySeq DEF InterpInv
  <1>5. java # <<>> /\ Len(frames) \in 1..Len(frames) /\ Len(java) \in 1..Len(java)
    BY <1>3, <1>4, EmptySeq
  <1>6. Match(Top, JTop)
    BY <1>3, <1>5 DEF Alike, Top, JTop
  <1>7. Top \in CodeFrames(Len(objects)) /\ JTop \in JavaFrames(Len(objects))
    BY <1>4, <1>5, ElementOfSeq DEF Top, JTop
  <1> QED
    BY <1>1, <1>3, <1>4, <1>5, <1>6, <1>7

\* An instruction that stays in its frame or calls keeps the invariant if the
\* frames it leaves match.
LEMMA StepInv ==
    ASSUME InterpInv, Fetch, NEW n \in Nat, n = Len(objects'),
           objects' \in Seq(Classes), objects' # <<>>,
           frames \in Seq(CodeFrames(n)), java \in Seq(JavaFrames(n)),
           NEW dev, NEW g, NEW more, NEW js, Run(dev, With(frames, g) \o more, js),
           Placed(Top, g, more, n), dev \/ Answered(js, g, more, n)
    PROVE  InterpInv'
  <1>1. /\ ~odd /\ status = "running" /\ frames # <<>> /\ Alike(frames, java)
    BY FetchDef
  <1> DEFINE r == With(frames, g) \o more
  <1>2. r \in Seq(CodeFrames(n)) /\ Settled(r) /\ LiveOf(r) = r
    <2>1. Settled(frames) /\ Placed(frames[Len(frames)], g, more, n)
      BY DEF InterpInv, Top
    <2> QED
      BY ONLY <1>1, <2>1, n \in Nat, frames \in Seq(CodeFrames(n)), StepSettled, Zenon
  <1>3. frames' = r /\ java' = (IF dev THEN java ELSE js) /\ odd' = dev /\ h' = h /\ status' = status
    BY DEF Run
  <1>4. ASSUME ~dev PROVE js \in Seq(JavaFrames(n)) /\ Alike(r, js)
    <2>1. PICK j \in JavaFrames(n), jmore \in Seq(JavaFrames(n)) :
            js = With(java, j) \o jmore /\ Match(g, j) /\ Alike(more, jmore)
      BY <1>4 DEF Answered
    <2>2. g \in CodeFrames(n) /\ more \in Seq(CodeFrames(n))
      BY DEF Placed
    <2>3. /\ Alike(r, With(java, j) \o jmore) /\ With(java, j) \o jmore \in Seq(JavaFrames(n))
      BY <1>1, <2>1, <2>2, StepAlike, Zenon
    <2> QED
      BY <2>1, <2>3
  <1> HIDE DEF r
  <1>5. java' \in Seq(JavaFrames(n))
    BY <1>3, <1>4
  <1>6. ~odd' => Alike(LiveOf(frames'), java')
    BY <1>2, <1>3, <1>4
  <1> QED
    BY <1>1, <1>2, <1>3, <1>5, <1>6 DEF InterpInv

\* The same for one that changes the innermost frame only.
LEMMA TopInv ==
    ASSUME InterpInv, Fetch, objects' = objects,
           NEW dev, NEW g, NEW js, Run(dev, With(frames, g), js),
           Placed(Top, g, <<>>, Len(objects)),
           dev \/ \E j \in JavaFrames(Len(objects)) : js = With(java, j) /\ Match(g, j)
    PROVE  InterpInv'
  <1>1. /\ Len(objects) \in Nat /\ objects \in Seq(Classes) /\ objects # <<>>
        /\ frames \in Seq(CodeFrames(Len(objects))) /\ java \in Seq(JavaFrames(Len(objects)))
        /\ frames # <<>> /\ java # <<>>
    BY FetchDef DEF InterpInv
  <1>2. With(frames, g) \o <<>> = With(frames, g)
    <2>1. With(frames, g) \in Seq(CodeFrames(Len(objects)))
      BY <1>1 DEF Placed, With
    <2> QED
      BY <2>1, ConcatEmptySeq
  <1>3. ASSUME ~dev PROVE Answered(js, g, <<>>, Len(objects))
    <2>1. PICK j \in JavaFrames(Len(objects)) : js = With(java, j) /\ Match(g, j)
      BY <1>3
    <2>2. With(java, j) \in Seq(JavaFrames(Len(objects)))
      BY <1>1 DEF With
    <2>3. With(java, j) \o <<>> = With(java, j)
      BY <2>2, ConcatEmptySeq
    <2>4. <<>> \in Seq(JavaFrames(Len(objects))) /\ Alike(<<>>, <<>>)
      BY DEF Alike
    <2> QED
      BY <2>1, <2>3, <2>4 DEF Answered
  <1>4. Run(dev, With(frames, g) \o <<>>, js)
    BY <1>2
  <1> QED
    BY ONLY <1>1, <1>3, <1>4, InterpInv, Fetch, objects' = objects, StepInv,
            Placed(Top, g, <<>>, Len(objects))

\* The same for one that pushes a frame.
LEMMA CallInv ==
    ASSUME InterpInv, Fetch, objects' = objects,
           NEW dev, NEW g, NEW e, NEW js, Run(dev, Append(With(frames, g), e), js),
           Placed(Top, g, <<e>>, Len(objects)),
           \/ dev
           \/ \E j, d \in JavaFrames(Len(objects)) :
                js = Append(With(java, j), d) /\ Match(g, j) /\ Match(e, d)
    PROVE  InterpInv'
  <1>1. /\ Len(objects) \in Nat /\ objects \in Seq(Classes) /\ objects # <<>>
        /\ frames \in Seq(CodeFrames(Len(objects))) /\ java \in Seq(JavaFrames(Len(objects)))
        /\ frames # <<>> /\ java # <<>>
    BY FetchDef DEF InterpInv
  <1>2. Append(With(frames, g), e) = With(frames, g) \o <<e>>
    <2>1. With(frames, g) \in Seq(CodeFrames(Len(objects)))
      BY <1>1 DEF Placed, With
    <2>2. e \in CodeFrames(Len(objects))
      BY DEF Placed
    <2> QED
      BY <2>1, <2>2, AppendIsConcat
  <1>3. ASSUME ~dev PROVE Answered(js, g, <<e>>, Len(objects))
    <2>1. PICK j, d \in JavaFrames(Len(objects)) :
                js = Append(With(java, j), d) /\ Match(g, j) /\ Match(e, d)
      BY <1>3
    <2>2. With(java, j) \in Seq(JavaFrames(Len(objects)))
      BY <1>1 DEF With
    <2>3. Append(With(java, j), d) = With(java, j) \o <<d>>
      BY <2>2, AppendIsConcat
    <2>4. <<d>> \in Seq(JavaFrames(Len(objects))) /\ Alike(<<e>>, <<d>>)
      BY <2>1 DEF Alike
    <2> QED
      BY <2>1, <2>3, <2>4 DEF Answered
  <1>4. Run(dev, With(frames, g) \o <<e>>, js)
    BY <1>2
  <1> QED
    BY ONLY <1>1, <1>3, <1>4, InterpInv, Fetch, objects' = objects, StepInv,
            Placed(Top, g, <<e>>, Len(objects))

\* The same instruction on a frame of step and on the frame of the machine.
LEMMA CodePush ==
    ASSUME NEW n \in Nat, NEW f \in CodeFrames(n), NEW xs \in Seq(Operand(n))
    PROVE  LET g == Pushed(f, xs)
           IN  /\ g \in CodeFrames(n) /\ g.stack = f.stack \o xs /\ g.class = f.class
               /\ g.ret = f.ret /\ g.locals = f.locals /\ g.done = f.done /\ g.parked = f.parked
  <1> DEFINE s == f.stack \o xs
  <1>1. s \in Seq(Operand(n))
    BY ConcatProperties DEF CodeFrames
  <1>2. Pushed(f, xs) = [f EXCEPT !.stack = s]
    BY DEF Pushed
  <1> HIDE DEF s
  <1>3. LET g == [f EXCEPT !.stack = s]
        IN  /\ g \in CodeFrames(n) /\ g.stack = s /\ g.class = f.class
            /\ g.ret = f.ret /\ g.locals = f.locals /\ g.done = f.done /\ g.parked = f.parked
    BY <1>1 DEF CodeFrames
  <1> QED
    BY <1>2, <1>3 DEF s

\* Popping from a frame of step takes away operands and nothing else.
LEMMA CodePop ==
    ASSUME NEW n \in Nat, NEW f \in CodeFrames(n), NEW k \in 0..Len(f.stack)
    PROVE  LET g == Popped(f, k)
           IN  /\ g \in CodeFrames(n) /\ g.stack = Drop(f.stack, k) /\ g.class = f.class
               /\ g.ret = f.ret /\ g.locals = f.locals /\ g.done = f.done /\ g.parked = f.parked
  <1> DEFINE s == Drop(f.stack, k)
  <1>1. s \in Seq(Operand(n))
    BY DropDef DEF CodeFrames
  <1>2. Popped(f, k) = [f EXCEPT !.stack = s]
    BY DEF Popped
  <1> HIDE DEF s
  <1>3. LET g == [f EXCEPT !.stack = s]
        IN  /\ g \in CodeFrames(n) /\ g.stack = s /\ g.class = f.class
            /\ g.ret = f.ret /\ g.locals = f.locals /\ g.done = f.done /\ g.parked = f.parked
    BY <1>1 DEF CodeFrames
  <1> QED
    BY <1>2, <1>3 DEF s

\* Pushing onto a frame of JVMS 7 adds values and nothing else.
LEMMA JavaPush ==
    ASSUME NEW n \in Nat, NEW f \in JavaFrames(n), NEW xs \in Seq(Operand(n))
    PROVE  LET g == Pushed(f, xs)
           IN  /\ g \in JavaFrames(n) /\ g.stack = f.stack \o xs /\ g.class = f.class
               /\ g.ret = f.ret /\ g.locals = f.locals
  <1> DEFINE s == f.stack \o xs
  <1>1. s \in Seq(Operand(n))
    BY ConcatProperties DEF JavaFrames
  <1>2. Pushed(f, xs) = [f EXCEPT !.stack = s]
    BY DEF Pushed
  <1> HIDE DEF s
  <1>3. LET g == [f EXCEPT !.stack = s]
        IN  /\ g \in JavaFrames(n) /\ g.stack = s /\ g.class = f.class
            /\ g.ret = f.ret /\ g.locals = f.locals
    BY <1>1 DEF JavaFrames
  <1> QED
    BY <1>2, <1>3 DEF s

\* Popping from a frame of JVMS 7 takes away values and nothing else.
LEMMA JavaPop ==
    ASSUME NEW n \in Nat, NEW f \in JavaFrames(n), NEW k \in 0..Len(f.stack)
    PROVE  LET g == Popped(f, k)
           IN  /\ g \in JavaFrames(n) /\ g.stack = Drop(f.stack, k) /\ g.class = f.class
               /\ g.ret = f.ret /\ g.locals = f.locals
  <1> DEFINE s == Drop(f.stack, k)
  <1>1. s \in Seq(Operand(n))
    BY DropDef DEF JavaFrames
  <1>2. Popped(f, k) = [f EXCEPT !.stack = s]
    BY DEF Popped
  <1> HIDE DEF s
  <1>3. LET g == [f EXCEPT !.stack = s]
        IN  /\ g \in JavaFrames(n) /\ g.stack = s /\ g.class = f.class
            /\ g.ret = f.ret /\ g.locals = f.locals
    BY <1>1 DEF JavaFrames
  <1> QED
    BY <1>2, <1>3 DEF s

\* What lies on a stack is of the stack's type.
LEMMA PeekType ==
    ASSUME NEW S, NEW s \in Seq(S), NEW k \in 0..(Len(s) - 1)
    PROVE  Peek(s, k) \in S
  <1>1. Len(s) - k \in 1..Len(s)
    BY LenProperties
  <1> QED
    BY <1>1, ElementOfSeq DEF Peek

\* Frames that match do so after one value is pushed on both.
LEMMA MatchPush ==
    ASSUME NEW n \in Nat, NEW f \in CodeFrames(n), NEW j \in JavaFrames(n), Match(f, j),
           NEW x \in Operand(n)
    PROVE  /\ Halves(x) \in Seq(Operand(n)) /\ Pushed(j, <<x>>) \in JavaFrames(n)
           /\ Match(Pushed(f, Halves(x)), Pushed(j, <<x>>))
  <1>1. Closed(Operand(n)) /\ Halves(x) \in Seq(Operand(n)) /\ <<x>> \in Seq(Operand(n))
    BY OperandClosed DEF Closed
  <1>2. j.stack \in Seq(Operand(n)) /\ f.stack = Operands(j.stack)
    BY DEF JavaFrames, Match
  <1>3. j.stack \o <<x>> = Append(j.stack, x)
    BY <1>2, AppendIsConcat
  <1>4. Operands(Append(j.stack, x)) = f.stack \o Halves(x)
    BY <1>1, <1>2, OperandsPush
  <1>5. /\ Pushed(j, <<x>>) \in JavaFrames(n) /\ Pushed(j, <<x>>).stack = j.stack \o <<x>>
        /\ Pushed(j, <<x>>).class = j.class /\ Pushed(j, <<x>>).ret = j.ret
        /\ Pushed(j, <<x>>).locals = j.locals
    BY <1>1, JavaPush
  <1>6. LET g == Pushed(f, Halves(x))
        IN  g.stack = f.stack \o Halves(x) /\ g.class = f.class /\ g.ret = f.ret /\ g.locals = f.locals
    BY <1>1, CodePush
  <1> HIDE DEF Match
  <1> QED
    BY <1>1, <1>3, <1>4, <1>5, <1>6 DEF Match

\* Frames that match do so after values of one operand each are popped from
\* both.
LEMMA MatchPop ==
    ASSUME NEW n \in Nat, NEW f \in CodeFrames(n), NEW j \in JavaFrames(n), Match(f, j),
           NEW k \in 0..Len(j.stack), Single(j.stack, k)
    PROVE  /\ k \in 0..Len(f.stack) /\ Popped(f, k) \in CodeFrames(n) /\ Popped(j, k) \in JavaFrames(n)
           /\ Match(Popped(f, k), Popped(j, k))
           /\ \A i \in 0..(k - 1) : Peek(f.stack, i) = Peek(j.stack, i) /\ Peek(j.stack, i) \in Operand(n)
           /\ Args(f.stack, k) = Args(j.stack, k)
  <1>1. Closed(Operand(n)) /\ j.stack \in Seq(Operand(n)) /\ f.stack = Operands(j.stack)
    BY OperandClosed DEF JavaFrames, Match
  <1>2. /\ Drop(f.stack, k) = Operands(Drop(j.stack, k))
        /\ Len(f.stack) = Len(Operands(Drop(j.stack, k))) + k
        /\ \A i \in 0..(k - 1) : Peek(f.stack, i) = Peek(j.stack, i)
        /\ Args(f.stack, k) = Args(j.stack, k)
    BY <1>1, PopSingles
  <1>3. Drop(j.stack, k) \in Seq(Operand(n))
    BY <1>1, DropDef
  <1>4. Len(Operands(Drop(j.stack, k))) \in Nat
    BY <1>1, <1>3, OperandsLen, LenProperties
  <1>5. k \in 0..Len(f.stack)
    BY <1>2, <1>4
  <1>6. LET g == Popped(f, k)
        IN  /\ g \in CodeFrames(n) /\ g.stack = Drop(f.stack, k) /\ g.class = f.class
            /\ g.ret = f.ret /\ g.locals = f.locals
    BY <1>5, CodePop
  <1>7. LET g == Popped(j, k)
        IN  /\ g \in JavaFrames(n) /\ g.stack = Drop(j.stack, k) /\ g.class = j.class
            /\ g.ret = j.ret /\ g.locals = j.locals
    BY JavaPop
  <1>8. Match(Popped(f, k), Popped(j, k))
    BY <1>2, <1>6, <1>7 DEF Match
  <1>9. \A i \in 0..(k - 1) : Peek(j.stack, i) \in Operand(n)
    <2>1. Len(j.stack) \in Nat /\ \A i \in 0..(k - 1) : i \in 0..(Len(j.stack) - 1)
      BY <1>1, LenProperties
    <2> QED
      BY <1>1, <2>1, PeekType
  <1> QED
    BY <1>2, <1>5, <1>6, <1>7, <1>8, <1>9

\* The stack of step is at least as high as that of the machine.
LEMMA MatchLen ==
    ASSUME NEW n \in Nat, NEW f \in CodeFrames(n), NEW j \in JavaFrames(n), Match(f, j)
    PROVE  /\ f.stack \in Seq(Operand(n)) /\ j.stack \in Seq(Operand(n))
           /\ Len(f.stack) \in Nat /\ Len(j.stack) \in Nat /\ Len(f.stack) >= Len(j.stack)
  <1>1. Closed(Operand(n)) /\ j.stack \in Seq(Operand(n)) /\ f.stack = Operands(j.stack)
        /\ f.stack \in Seq(Operand(n))
    BY OperandClosed DEF JavaFrames, CodeFrames, Match
  <1> QED
    BY <1>1, OperandsLen, LenProperties

\* Frames that match do so after the same local variables are given to both.
LEMMA MatchLocals ==
    ASSUME NEW n \in Nat, NEW f \in CodeFrames(n), NEW j \in JavaFrames(n), Match(f, j),
           NEW v \in Variables(n), \A i \in DOMAIN v : Category(v[i]) = 1
    PROVE  /\ [j EXCEPT !.locals = v] \in JavaFrames(n)
           /\ Match([f EXCEPT !.locals = v], [j EXCEPT !.locals = v])
  <1> DEFINE g == [f EXCEPT !.locals = v]
             d == [j EXCEPT !.locals = v]
  <1>1. /\ g.stack = f.stack /\ g.class = f.class /\ g.ret = f.ret /\ g.locals = v
        /\ d.stack = j.stack /\ d.class = j.class /\ d.ret = j.ret /\ d.locals = v
        /\ d \in JavaFrames(n)
    BY DEF CodeFrames, JavaFrames
  <1> HIDE DEF g, d
  <1>2. Match(g, d)
    BY <1>1 DEF Match
  <1> QED
    BY <1>1, <1>2 DEF g, d

\* A frame that puts nothing off, alone or below one that is called.
LEMMA PlacedTop ==
    ASSUME NEW n \in Nat, NEW f, NEW g \in CodeFrames(n), ~g.done, g.ret = f.ret, g.parked = <<>>
    PROVE  /\ Placed(f, g, <<>>, n)
           /\ \A e \in CodeFrames(n) : ~e.done /\ e.parked = <<>> => Placed(f, g, <<e>>, n)
  BY DEF Placed, Untouched

-----------------------------------------------------------------------------
(***************************************************************************)
(* Every step keeps the invariant.                                         *)
(***************************************************************************)

\* What instructions push: numbers, null, keys of objects there are.
LEMMA OperandMade ==
    ASSUME NEW n \in Nat \ {0}
    PROVE  /\ Null \in Operand(n)
           /\ \A t \in {"Int", "Float", "Long", "Double"}, v \in Int : Op(t, v) \in Operand(n)
           /\ \A v \in 0..(n - 1) : Refer(v) \in Operand(n)
  <1>1. Null \in Operand(n)
    BY DEF Operand, OperandTypes, Null, Op, IsRef
  <1>2. \A t \in {"Int", "Float", "Long", "Double"}, v \in Int : Op(t, v) \in Operand(n)
    BY DEF Operand, OperandTypes, Op, IsRef
  <1>3. \A v \in 0..(n - 1) : Refer(v) \in Operand(n)
    BY DEF Operand, OperandTypes, Refer, Op, IsRef
  <1> QED
    BY <1>1, <1>2, <1>3

\* A constant is pushed as JVMS 7 means it, but for the instructions named.
LEMMA ConstantPushed ==
    ASSUME NEW n \in Nat \ {0}, NEW k \in Hierarchies, NEW c \in k.constants
    PROVE  /\ PushedBy(c) \in Seq(Operand(n))
           /\ \/ Mistaken(c)
              \/ \E x \in Operand(n) : Meant(c) = <<x>> /\ PushedBy(c) = Halves(x)
  <1>1. c.op \in ConstantOps /\ c.n \in Int
    BY CodeAssumption
  <1>2. Closed(Operand(n))
    BY OperandClosed
  <1>3. CASE c.op = "bipush"
    <2>1. Op("Int", c.n) \in Operand(n) /\ Halves(Op("Int", c.n)) = <<Op("Int", c.n)>>
      BY <1>1, OperandMade DEF Halves, Category, Op
    <2> QED
      BY <1>1, <1>3, <2>1 DEF PushedBy, Meant, Mistaken
  <1>4. CASE c.op = "dconst"
    <2>1. Op("Double", c.n + 11) \in Operand(n)
      BY <1>1, OperandMade
    <2>2. Halves(Op("Double", c.n + 11)) \in Seq(Operand(n))
      BY <1>2, <2>1 DEF Closed
    <2> QED
      BY <1>4, <2>2 DEF PushedBy, Mistaken
  <1>5. CASE c.op = "ldc_class"
    BY <1>5 DEF PushedBy, Mistaken
  <1>6. CASE c.op = "ldc_string"
    <2>1. Refer(0) \in Operand(n) /\ Halves(Refer(0)) = <<Refer(0)>>
      BY OperandMade DEF Halves, Category, Op, Refer
    <2>2. PushedBy(c) = <<Refer(0)>> /\ Meant(c) = <<Refer(0)>>
      BY <1>6 DEF PushedBy, Meant
    <2> QED
      BY <2>1, <2>2
  <1>7. CASE c.op = "aconst_null"
    <2>1. Null \in Operand(n) /\ Halves(Null) = <<Null>>
      BY OperandMade DEF Halves, Category, Op, Null
    <2>2. PushedBy(c) = <<Null>> /\ Meant(c) = <<Null>>
      BY <1>7 DEF PushedBy, Meant
    <2> QED
      BY <2>1, <2>2
  <1>8. CASE c.op \in {"iconst", "sipush", "ldc_int"}
    <2>1. Op("Int", c.n) \in Operand(n) /\ Halves(Op("Int", c.n)) = <<Op("Int", c.n)>>
      BY <1>1, OperandMade DEF Halves, Category, Op
    <2>2. PushedBy(c) = <<Op("Int", c.n)>> /\ Meant(c) = <<Op("Int", c.n)>>
      BY <1>8 DEF PushedBy, Meant
    <2> QED
      BY <2>1, <2>2
  <1>9. CASE c.op = "lconst"
    <2>1. Op("Long", c.n) \in Operand(n)
      BY <1>1, OperandMade
    <2>2. Halves(Op("Long", c.n)) \in Seq(Operand(n))
      BY <1>2, <2>1 DEF Closed
    <2>3. PushedBy(c) = Halves(Op("Long", c.n)) /\ Meant(c) = <<Op("Long", c.n)>>
      BY <1>9 DEF PushedBy, Meant
    <2> QED
      BY <2>1, <2>2, <2>3
  <1>10. CASE c.op = "fconst"
    <2>1. Op("Float", c.n) \in Operand(n) /\ Halves(Op("Float", c.n)) = <<Op("Float", c.n)>>
      BY <1>1, OperandMade DEF Halves, Category, Op
    <2>2. PushedBy(c) = <<Op("Float", c.n)>> /\ Meant(c) = <<Op("Float", c.n)>>
      BY <1>10 DEF PushedBy, Meant
    <2> QED
      BY <2>1, <2>2
  <1>11. CASE c.op = "ldc_float"
    <2> DEFINE x == Op("Float", Truncated(c.n))
    <2>1. Truncated(c.n) \in Int
      BY <1>1, BoundsAssumption DEF Truncated
    <2>2. x \in Operand(n) /\ Halves(x) = <<x>>
      BY <2>1, OperandMade DEF Halves, Category, Op
    <2>3. PushedBy(c) = <<x>> /\ Meant(c) = <<x>>
      BY <1>11 DEF PushedBy, Meant
    <2> QED
      BY <2>2, <2>3
  <1> QED
    BY <1>1, <1>3, <1>4, <1>5, <1>6, <1>7, <1>8, <1>9, <1>10, <1>11 DEF ConstantOps

\* Constants keep the invariant.
LEMMA PushInv ==
    ASSUME InterpInv, Push
    PROVE  InterpInv'
  <1> DEFINE n == Len(objects)
             dev(c) == Mistaken(c)
  <1>1. PICK c \in h.constants :
            /\ Fresh /\ objects' = objects
            /\ Run(dev(c), With(frames, Pushed(Top, PushedBy(c))), With(java, Pushed(JTop, Meant(c))))
    BY DEF Push
  <1>2. /\ Fetch /\ Top.parked = <<>> /\ ~Top.done /\ n \in Nat \ {0} /\ h \in Hierarchies
        /\ Top \in CodeFrames(n) /\ JTop \in JavaFrames(n) /\ Match(Top, JTop)
    BY <1>1, FetchDef DEF Fresh, InterpInv
  <1> HIDE DEF n
  <1>3. /\ PushedBy(c) \in Seq(Operand(n))
        /\ dev(c) \/ \E x \in Operand(n) : Meant(c) = <<x>> /\ PushedBy(c) = Halves(x)
    BY <1>1, <1>2, ConstantPushed
  <1> HIDE DEF dev
  <1>4. Placed(Top, Pushed(Top, PushedBy(c)), <<>>, n)
    <2>1. LET g == Pushed(Top, PushedBy(c))
          IN  g \in CodeFrames(n) /\ g.ret = Top.ret /\ g.done = Top.done /\ g.parked = Top.parked
      BY <1>2, <1>3, CodePush
    <2> QED
      BY <1>2, <2>1, PlacedTop
  <1>5. dev(c) \/ \E j \in JavaFrames(n) :
            With(java, Pushed(JTop, Meant(c))) = With(java, j) /\ Match(Pushed(Top, PushedBy(c)), j)
    BY <1>2, <1>3, MatchPush
  <1> QED
    BY <1>1, <1>2, <1>4, <1>5, TopInv DEF n

\* Local variables.
LEMMA VariableDef ==
    ASSUME NEW n \in Nat, NEW v \in Variables(n)
    PROVE  /\ DOMAIN v \subseteq Slots /\ \A i \in DOMAIN v : v[i] \in Operand(n)
           /\ v = [i \in DOMAIN v |-> v[i]]
  BY DEF Variables

\* A variable that is written holds what was written, the others what they held.
LEMMA PutDef ==
    ASSUME NEW n \in Nat, NEW v \in Variables(n), NEW i \in Slots, NEW x \in Operand(n)
    PROVE  /\ Put(v, i, x) \in Variables(n)
           /\ (\A d \in DOMAIN v : Category(v[d]) = 1) /\ Category(x) = 1 =>
                \A d \in DOMAIN Put(v, i, x) : Category(Put(v, i, x)[d]) = 1
  <1> DEFINE D == DOMAIN v \cup {i}
             p == [d \in D |-> IF d = i THEN x ELSE v[d]]
  <1>1. D \in SUBSET Slots /\ p \in [D -> Operand(n)]
    BY VariableDef
  <1>2. p \in Variables(n)
    BY <1>1 DEF Variables
  <1>3. Put(v, i, x) = p
    BY DEF Put
  <1> QED
    BY <1>2, <1>3

\* What every action below starts from.
LEMMA FreshDef ==
    ASSUME InterpInv, Fresh
    PROVE  LET n == Len(objects)
           IN  /\ Fetch /\ Top.parked = <<>> /\ ~Top.done /\ n \in Nat \ {0} /\ n \in Nat
               /\ h \in Hierarchies
               /\ Top \in CodeFrames(n) /\ JTop \in JavaFrames(n) /\ Match(Top, JTop)
               /\ Top.stack \in Seq(Operand(n)) /\ JTop.stack \in Seq(Operand(n))
               /\ Len(Top.stack) \in Nat /\ Len(JTop.stack) \in Nat /\ Len(Top.stack) >= Len(JTop.stack)
               /\ Top.locals \in Variables(n) /\ JTop.locals = Top.locals
               /\ \A i \in DOMAIN JTop.locals : Category(JTop.locals[i]) = 1
  <1>1. Fetch /\ Top.parked = <<>>
    BY DEF Fresh
  <1>2. /\ ~Top.done /\ Len(objects) \in Nat \ {0} /\ h \in Hierarchies
        /\ Top \in CodeFrames(Len(objects)) /\ JTop \in JavaFrames(Len(objects)) /\ Match(Top, JTop)
    BY <1>1, FetchDef DEF InterpInv
  <1>3. /\ Top.locals \in Variables(Len(objects)) /\ JTop.locals = Top.locals
        /\ \A i \in DOMAIN JTop.locals : Category(JTop.locals[i]) = 1
    BY <1>2 DEF CodeFrames, Match
  <1> QED
    BY <1>1, <1>2, <1>3, MatchLen

\* The topmost value, when it is of category 1, is the topmost operand.
LEMMA TopValue ==
    ASSUME InterpInv, Fetch, JTop.stack # <<>>, Category(Last(JTop.stack)) = 1
    PROVE  /\ Last(Top.stack) = Last(JTop.stack) /\ Last(JTop.stack) \in Operand(Len(objects))
           /\ 1 \in 0..Len(JTop.stack) /\ 1 \in 0..Len(Top.stack) /\ Single(JTop.stack, 1)
           /\ Match(Popped(Top, 1), Popped(JTop, 1)) /\ Popped(JTop, 1) \in JavaFrames(Len(objects))
  <1> DEFINE n == Len(objects)
             x == Last(JTop.stack)
  <1>2. /\ n \in Nat /\ Top \in CodeFrames(n) /\ JTop \in JavaFrames(n) /\ Match(Top, JTop)
        /\ Top.stack \in Seq(Operand(n)) /\ JTop.stack \in Seq(Operand(n)) /\ Len(JTop.stack) \in Nat
        /\ Len(Top.stack) \in Nat
    BY FetchDef, MatchLen
  <1> HIDE DEF n
  <1>3. 1 \in 0..Len(JTop.stack) /\ Peek(JTop.stack, 0) = x /\ Single(JTop.stack, 1)
        /\ Peek(Top.stack, 0) = Last(Top.stack)
    <2>1. Len(JTop.stack) # 0 /\ Len(JTop.stack) - 0 = Len(JTop.stack) /\ Len(Top.stack) - 0 = Len(Top.stack)
      BY <1>2, EmptySeq
    <2>2. 1 \in 0..Len(JTop.stack) /\ Peek(JTop.stack, 0) = x /\ Peek(Top.stack, 0) = Last(Top.stack)
      BY <1>2, <2>1 DEF Peek, Last
    <2>4. \A k \in 0..(1 - 1) : k = 0
      OBVIOUS
    <2> QED
      BY <2>2, <2>4 DEF Single
  <1>4. 0 \in 0..(1 - 1)
    OBVIOUS
  <1> HIDE DEF x
  <1>5. /\ 1 \in 0..Len(Top.stack) /\ Popped(JTop, 1) \in JavaFrames(n)
        /\ Match(Popped(Top, 1), Popped(JTop, 1))
        /\ Last(Top.stack) = x /\ x \in Operand(n)
    BY <1>2, <1>3, <1>4, MatchPop
  <1> QED
    BY <1>3, <1>5 DEF n, x

\* Loads of an operand do.
LEMMA LoadInv ==
    ASSUME InterpInv, Load
    PROVE  InterpInv'
  <1> DEFINE n == Len(objects)
  <1>1. PICK i \in DOMAIN JTop.locals :
            /\ Fresh /\ objects' = objects
            /\ Run(FALSE, With(frames, Pushed(Top, <<Top.locals[i]>>)),
                   With(java, Pushed(JTop, <<JTop.locals[i]>>)))
    BY DEF Load
  <1>2. /\ Fetch /\ Top.parked = <<>> /\ ~Top.done /\ n \in Nat
        /\ Top \in CodeFrames(n) /\ JTop \in JavaFrames(n) /\ Match(Top, JTop)
        /\ Top.locals \in Variables(n) /\ JTop.locals = Top.locals
        /\ \A d \in DOMAIN JTop.locals : Category(JTop.locals[d]) = 1
    BY <1>1, FreshDef
  <1> DEFINE x == JTop.locals[i]
             g == Pushed(Top, <<x>>)
  <1>3. x \in Operand(n) /\ Halves(x) = <<x>>
    BY <1>1, <1>2, VariableDef DEF Halves
  <1> HIDE DEF n
  <1>4. g \in CodeFrames(n) /\ g.ret = Top.ret /\ g.done = Top.done /\ g.parked = Top.parked
    <2>1. <<x>> \in Seq(Operand(n))
      BY <1>3
    <2> HIDE DEF x
    <2> QED
      BY <1>2, <2>1, CodePush
  <1>5. Pushed(JTop, <<x>>) \in JavaFrames(n) /\ Match(g, Pushed(JTop, <<x>>))
    BY <1>2, <1>3, MatchPush
  <1> HIDE DEF g
  <1>6. Placed(Top, g, <<>>, n)
    BY <1>2, <1>4, PlacedTop
  <1>7. Run(FALSE, With(frames, g), With(java, Pushed(JTop, <<x>>)))
    BY <1>1, <1>2 DEF g
  <1> QED
    BY <1>1, <1>2, <1>5, <1>6, <1>7, TopInv DEF n

\* Stores of an operand do.
LEMMA StoreInv ==
    ASSUME InterpInv, Store
    PROVE  InterpInv'
  <1> DEFINE n == Len(objects)
             x == Last(JTop.stack)
  <1>1. PICK i \in 0..MaxLocal :
            /\ Fresh /\ objects' = objects /\ JTop.stack # <<>>
            /\ x.t = "Int" \/ IsRef(x)
            /\ Run(FALSE, With(frames, [Popped(Top, 1) EXCEPT !.locals = Put(@, i, Last(Top.stack))]),
                   With(java, [Popped(JTop, 1) EXCEPT !.locals = Put(@, i, x)]))
    BY DEF Store
  <1>2. /\ Fetch /\ Top.parked = <<>> /\ ~Top.done /\ n \in Nat
        /\ Top \in CodeFrames(n) /\ JTop \in JavaFrames(n) /\ Match(Top, JTop)
        /\ Top.locals \in Variables(n) /\ JTop.locals = Top.locals
        /\ Top.stack \in Seq(Operand(n)) /\ JTop.stack \in Seq(Operand(n)) /\ Len(JTop.stack) \in Nat
        /\ Len(Top.stack) \in Nat
        /\ \A d \in DOMAIN JTop.locals : Category(JTop.locals[d]) = 1
    BY <1>1, FreshDef
  <1> HIDE DEF n
  <1> DEFINE f == Popped(Top, 1)
             j == Popped(JTop, 1)
             v == Put(Top.locals, i, x)
             g == [f EXCEPT !.locals = v]
             d == [j EXCEPT !.locals = v]
  <1>3. Category(x) = 1
    BY <1>1 DEF Category, IsRef
  <1>4. /\ f \in CodeFrames(n) /\ j \in JavaFrames(n) /\ Match(f, j)
        /\ Last(Top.stack) = x /\ x \in Operand(n)
        /\ 1 \in 0..Len(JTop.stack) /\ 1 \in 0..Len(Top.stack)
    <2>1. /\ j \in JavaFrames(n) /\ Match(f, j) /\ Last(Top.stack) = x /\ x \in Operand(n)
          /\ 1 \in 0..Len(JTop.stack) /\ 1 \in 0..Len(Top.stack)
      BY <1>1, <1>2, <1>3, TopValue DEF n
    <2>2. f \in CodeFrames(n)
      BY <1>2, <2>1, CodePop
    <2> QED
      BY <2>1, <2>2
  <1>5. /\ f.ret = Top.ret /\ f.locals = Top.locals /\ f.done = Top.done /\ f.parked = Top.parked
        /\ j.locals = Top.locals
    BY <1>2, <1>3, <1>4, CodePop, JavaPop
  <1>6. v \in Variables(n) /\ \A k \in DOMAIN v : Category(v[k]) = 1
    <2>1. i \in Slots
      BY BoundsAssumption DEF Slots
    <2> HIDE DEF x
    <2> QED
      BY <1>2, <1>3, <1>4, <2>1, PutDef
  <1> HIDE DEF v, f, j, x
  <1>7. g \in CodeFrames(n) /\ g.ret = f.ret /\ g.done = f.done /\ g.parked = f.parked
    BY <1>4, <1>6 DEF CodeFrames
  <1>8. d \in JavaFrames(n) /\ Match(g, d)
    BY <1>2, <1>4, <1>6, MatchLocals
  <1>9. Run(FALSE, With(frames, g), With(java, d))
    BY <1>1, <1>4, <1>5 DEF f, j, v
  <1> HIDE DEF g, d
  <1>10. Placed(Top, g, <<>>, n)
    BY <1>2, <1>5, <1>7, PlacedTop
  <1> QED
    BY <1>1, <1>2, <1>8, <1>9, <1>10, TopInv DEF n

\* lstore does: step stores one operand and makes up the other.
LEMMA StoreLongInv ==
    ASSUME InterpInv, StoreLong
    PROVE  InterpInv'
  <1> DEFINE n == Len(objects)
             y == Last(Top.stack)
  <1>1. PICK i \in 0..MaxLocal :
            /\ Fresh /\ objects' = objects /\ JTop.stack # <<>>
            /\ Run(TRUE, With(frames, [Popped(Top, 1) EXCEPT
                    !.locals = Put(Put(@, i + 1, y), i, Op("Long", 0))]), java)
    BY DEF StoreLong
  <1>2. /\ Fetch /\ Top.parked = <<>> /\ ~Top.done /\ n \in Nat /\ n \in Nat \ {0}
        /\ Top \in CodeFrames(n) /\ Top.locals \in Variables(n)
        /\ Top.stack \in Seq(Operand(n)) /\ Len(JTop.stack) \in Nat /\ JTop.stack \in Seq(Operand(n))
        /\ Len(Top.stack) \in Nat /\ Len(Top.stack) >= Len(JTop.stack)
    BY <1>1, FreshDef
  <1> HIDE DEF n
  <1>3. 1 \in 0..Len(Top.stack) /\ y \in Operand(n)
    <2>1. Len(JTop.stack) # 0
      BY <1>1, <1>2, EmptySeq
    <2>2. Len(Top.stack) \in 1..Len(Top.stack)
      BY <1>2, <2>1
    <2>3. Top.stack[Len(Top.stack)] \in Operand(n)
      BY <1>2, <2>2, ElementOfSeq
    <2> QED
      BY <2>2, <2>3 DEF Last
  <1> DEFINE f == Popped(Top, 1)
             u == Put(Top.locals, i + 1, y)
             v == Put(u, i, Op("Long", 0))
             g == [f EXCEPT !.locals = v]
  <1>4. /\ f \in CodeFrames(n) /\ f.ret = Top.ret /\ f.locals = Top.locals
        /\ f.done = Top.done /\ f.parked = Top.parked
    BY <1>2, <1>3, CodePop
  <1> HIDE DEF y
  <1>5. v \in Variables(n)
    <2>1. i \in Slots /\ i + 1 \in Slots
      BY BoundsAssumption DEF Slots
    <2>2. u \in Variables(n)
      BY <1>2, <1>3, <2>1, PutDef
    <2>3. Op("Long", 0) \in Operand(n)
      BY <1>2, OperandMade
    <2> HIDE DEF u
    <2> QED
      BY <1>2, <2>1, <2>2, <2>3, PutDef
  <1> HIDE DEF v, f
  <1>6. g \in CodeFrames(n) /\ g.ret = f.ret /\ g.done = f.done /\ g.parked = f.parked
    BY <1>4, <1>5 DEF CodeFrames
  <1>7. Run(TRUE, With(frames, g), java)
    BY <1>1, <1>4 DEF f, v
  <1> HIDE DEF g
  <1>8. Placed(Top, g, <<>>, n)
    BY <1>2, <1>4, <1>6, PlacedTop
  <1> QED
    BY <1>1, <1>2, <1>7, <1>8, TopInv DEF n

\* Operands popped, by step alone or by both.
LEMMA PopPlaced ==
    ASSUME InterpInv, Fresh, NEW k \in 0..Len(Top.stack)
    PROVE  /\ Placed(Top, Popped(Top, k), <<>>, Len(objects))
           /\ Popped(Top, k) \in CodeFrames(Len(objects)) /\ Popped(Top, k).ret = Top.ret
           /\ ~Popped(Top, k).done /\ Popped(Top, k).parked = <<>>
  <1> DEFINE n == Len(objects)
             g == Popped(Top, k)
  <1>1. Top.parked = <<>> /\ ~Top.done /\ n \in Nat /\ Top \in CodeFrames(n)
    BY FreshDef
  <1> HIDE DEF n
  <1>2. g \in CodeFrames(n) /\ g.ret = Top.ret /\ g.done = Top.done /\ g.parked = Top.parked
    BY <1>1, CodePop
  <1> HIDE DEF g
  <1>3. Placed(Top, g, <<>>, n)
    BY <1>1, <1>2, PlacedTop
  <1> QED
    BY <1>1, <1>2, <1>3 DEF g, n

\* pop does, and pop2 of two values.
LEMMA PopInv ==
    ASSUME InterpInv, Pop
    PROVE  InterpInv'
  <1>1. PICK n \in 1..2 :
            /\ Fresh /\ objects' = objects /\ Len(JTop.stack) >= n
            /\ \A k \in 0..n - 1 : Category(Peek(JTop.stack, k)) = 1
            /\ Run(FALSE, With(frames, Popped(Top, n)), With(java, Popped(JTop, n)))
    BY DEF Pop
  <1>2. /\ Fetch /\ Len(objects) \in Nat
        /\ Top \in CodeFrames(Len(objects)) /\ JTop \in JavaFrames(Len(objects)) /\ Match(Top, JTop)
        /\ Len(JTop.stack) \in Nat
    BY <1>1, FreshDef
  <1>3. n \in 0..Len(JTop.stack) /\ Single(JTop.stack, n)
    BY <1>1, <1>2 DEF Single
  <1>4. /\ n \in 0..Len(Top.stack)
        /\ Popped(JTop, n) \in JavaFrames(Len(objects)) /\ Match(Popped(Top, n), Popped(JTop, n))
    BY <1>2, <1>3, MatchPop
  <1>5. Placed(Top, Popped(Top, n), <<>>, Len(objects))
    BY <1>1, <1>4, PopPlaced
  <1> QED
    BY <1>1, <1>2, <1>4, <1>5, TopInv

\* pop2 of a long or double does: step takes one of its operands.
LEMMA PopLongInv ==
    ASSUME InterpInv, PopLong
    PROVE  InterpInv'
  <1>1. /\ Fresh /\ objects' = objects /\ JTop.stack # <<>>
        /\ Run(TRUE, With(frames, Popped(Top, 1)), java)
    BY DEF PopLong
  <1>2. /\ Fetch /\ Len(JTop.stack) \in Nat /\ JTop.stack \in Seq(Operand(Len(objects)))
        /\ Len(Top.stack) \in Nat /\ Len(Top.stack) >= Len(JTop.stack)
    BY <1>1, FreshDef
  <1>3. 1 \in 0..Len(Top.stack)
    <2>1. Len(JTop.stack) # 0
      BY <1>1, <1>2, EmptySeq
    <2> QED
      BY <1>2, <2>1
  <1>4. Placed(Top, Popped(Top, 1), <<>>, Len(objects))
    BY <1>1, <1>3, PopPlaced
  <1> QED
    BY <1>1, <1>2, <1>4, TopInv

\* dup does.
LEMMA DupInv ==
    ASSUME InterpInv, Dup
    PROVE  InterpInv'
  <1> DEFINE n == Len(objects)
             x == Last(JTop.stack)
             g == Pushed(Top, <<x>>)
  <1>1. /\ Fresh /\ objects' = objects /\ JTop.stack # <<>> /\ Category(x) = 1
        /\ Run(FALSE, With(frames, Pushed(Top, <<Last(Top.stack)>>)), With(java, Pushed(JTop, <<x>>)))
    BY DEF Dup
  <1>2. /\ Fetch /\ Top.parked = <<>> /\ ~Top.done /\ n \in Nat
        /\ Top \in CodeFrames(n) /\ JTop \in JavaFrames(n) /\ Match(Top, JTop)
    BY <1>1, FreshDef
  <1>3. Last(Top.stack) = x /\ x \in Operand(n) /\ Halves(x) = <<x>>
    BY <1>1, <1>2, TopValue DEF Halves
  <1> HIDE DEF n, x
  <1>4. g \in CodeFrames(n) /\ g.ret = Top.ret /\ g.done = Top.done /\ g.parked = Top.parked
    <2>1. <<x>> \in Seq(Operand(n))
      BY <1>3
    <2> QED
      BY <1>2, <2>1, CodePush
  <1>5. Pushed(JTop, <<x>>) \in JavaFrames(n) /\ Match(g, Pushed(JTop, <<x>>))
    BY <1>2, <1>3, MatchPush
  <1>6. Run(FALSE, With(frames, g), With(java, Pushed(JTop, <<x>>)))
    BY <1>1, <1>3
  <1> HIDE DEF g
  <1>7. Placed(Top, g, <<>>, n)
    BY <1>2, <1>4, PlacedTop
  <1> QED
    BY <1>1, <1>2, <1>5, <1>6, <1>7, TopInv DEF n

\* iadd does: two operands give one, on both stacks.
LEMMA IaddInv ==
    ASSUME InterpInv, Iadd
    PROVE  InterpInv'
  <1> DEFINE n == Len(objects)
             a == Last(JTop.stack)
             b == Peek(JTop.stack, 1)
             x == Op("Int", a.v + b.v)
             f == Popped(Top, 2)
             j == Popped(JTop, 2)
             g == Pushed(f, <<x>>)
             d == Pushed(j, <<x>>)
  <1>1. /\ Fresh /\ objects' = objects /\ TwoOf("Int")
        /\ Run(FALSE, With(frames, Sum2(Top, "Int")), With(java, Sum2(JTop, "Int")))
    BY DEF Iadd
  <1>2. /\ Fetch /\ n \in Nat /\ n \in Nat \ {0}
        /\ Top \in CodeFrames(n) /\ JTop \in JavaFrames(n) /\ Match(Top, JTop)
        /\ Top.stack \in Seq(Operand(n)) /\ Len(JTop.stack) \in Nat /\ Len(Top.stack) \in Nat
    BY <1>1, FreshDef
  <1> HIDE DEF n
  <1>3. /\ 2 \in 0..Len(JTop.stack) /\ Single(JTop.stack, 2)
        /\ Last(JTop.stack) = Peek(JTop.stack, 0) /\ Last(Top.stack) = Peek(Top.stack, 0)
    <2>1. Len(JTop.stack) - 0 = Len(JTop.stack) /\ Len(Top.stack) - 0 = Len(Top.stack)
      BY <1>2
    <2> QED
      BY <1>1, <1>2, <2>1 DEF TwoOf, Single, Category, Peek, Last
  <1>4. /\ 2 \in 0..Len(Top.stack) /\ f \in CodeFrames(n) /\ j \in JavaFrames(n) /\ Match(f, j)
        /\ \A i \in 0..(2 - 1) : Peek(Top.stack, i) = Peek(JTop.stack, i) /\ Peek(JTop.stack, i) \in Operand(n)
    BY <1>2, <1>3, MatchPop
  <1>5. 0 \in 0..(2 - 1) /\ 1 \in 0..(2 - 1)
    OBVIOUS
  <1>6. /\ Last(Top.stack) = a /\ Peek(Top.stack, 1) = b
        /\ a \in Operand(n) /\ b \in Operand(n)
    BY <1>3, <1>4, <1>5
  <1>7. x \in Operand(n) /\ Halves(x) = <<x>>
    <2>1. a.v + b.v \in Int
      BY <1>6 DEF Operand
    <2> QED
      BY <1>2, <2>1, OperandMade DEF Halves, Category, Op
  <1>8. Run(FALSE, With(frames, g), With(java, d))
    BY <1>1, <1>6 DEF Sum2
  <1>9. ~f.done /\ f.ret = Top.ret /\ f.parked = <<>>
    BY <1>1, <1>4, PopPlaced
  <1> HIDE DEF x, f, j
  <1>10. g \in CodeFrames(n) /\ g.ret = f.ret /\ g.done = f.done /\ g.parked = f.parked
    <2>1. <<x>> \in Seq(Operand(n))
      BY <1>7
    <2> QED
      BY <1>2, <1>4, <2>1, CodePush
  <1>11. d \in JavaFrames(n) /\ Match(g, d)
    BY <1>2, <1>4, <1>7, MatchPush
  <1> HIDE DEF g, d
  <1>12. Placed(Top, g, <<>>, n)
    BY <1>2, <1>9, <1>10, PlacedTop
  <1> QED
    BY <1>1, <1>2, <1>8, <1>11, <1>12, TopInv DEF n

\* ladd does: step adds the two halves of one long.
LEMMA LaddInv ==
    ASSUME InterpInv, Ladd
    PROVE  InterpInv'
  <1> DEFINE n == Len(objects)
             a == Last(Top.stack)
             b == Peek(Top.stack, 1)
             x == Op("Int", a.v + b.v)
             f == Popped(Top, 2)
             g == Pushed(f, <<x>>)
  <1>1. Fresh /\ objects' = objects /\ TwoOf("Long") /\ Run(TRUE, With(frames, Sum2(Top, "Int")), java)
    BY DEF Ladd
  <1>2. /\ Fetch /\ n \in Nat /\ n \in Nat \ {0} /\ Top \in CodeFrames(n)
        /\ Top.stack \in Seq(Operand(n)) /\ Len(JTop.stack) \in Nat /\ Len(Top.stack) \in Nat
        /\ Len(Top.stack) >= Len(JTop.stack)
    BY <1>1, FreshDef
  <1> HIDE DEF n
  <1>3. 2 \in 0..Len(Top.stack) /\ a \in Operand(n) /\ b \in Operand(n)
    <2>1. Len(Top.stack) \in 1..Len(Top.stack) /\ Len(Top.stack) - 1 \in 1..Len(Top.stack) /\ Len(Top.stack) > 1
      BY <1>1, <1>2 DEF TwoOf
    <2>2. Top.stack[Len(Top.stack)] \in Operand(n) /\ Top.stack[Len(Top.stack) - 1] \in Operand(n)
      BY <1>2, <2>1, ElementOfSeq
    <2> QED
      BY <2>1, <2>2 DEF Last, Peek
  <1>4. x \in Operand(n)
    <2>1. a.v + b.v \in Int
      BY <1>3 DEF Operand
    <2> QED
      BY <1>2, <2>1, OperandMade
  <1>5. Run(TRUE, With(frames, g), java)
    BY <1>1 DEF Sum2
  <1>6. f \in CodeFrames(n) /\ ~f.done /\ f.ret = Top.ret /\ f.parked = <<>>
    BY <1>1, <1>3, PopPlaced DEF n
  <1> HIDE DEF x, f
  <1>7. g \in CodeFrames(n) /\ g.ret = f.ret /\ g.done = f.done /\ g.parked = f.parked
    <2>1. <<x>> \in Seq(Operand(n))
      BY <1>4
    <2> QED
      BY <1>2, <1>6, <2>1, CodePush
  <1> HIDE DEF g
  <1>8. Placed(Top, g, <<>>, n)
    BY <1>2, <1>6, <1>7, PlacedTop
  <1> QED
    BY <1>1, <1>2, <1>5, <1>8, TopInv DEF n

\* iinc does where increment and index are the same number; else the run ends.
LEMMA IincInv ==
    ASSUME InterpInv, Iinc
    PROVE  InterpInv'
  <1> DEFINE n == Len(objects)
  <1>1. PICK i \in DOMAIN JTop.locals, k \in -1..MaxLocal :
            /\ Fresh /\ objects' = objects /\ JTop.locals[i].t = "Int"
            /\ Run(k # i, With(frames, [Top EXCEPT !.locals = Put(@, Slot(k), Op("Int", Top.locals[i].v + k))]),
                   With(java, [JTop EXCEPT !.locals[i].v = @ + k]))
    BY DEF Iinc
  <1>2. /\ Fetch /\ Top.parked = <<>> /\ ~Top.done /\ n \in Nat /\ n \in Nat \ {0}
        /\ Top \in CodeFrames(n) /\ JTop \in JavaFrames(n) /\ Match(Top, JTop)
        /\ Top.locals \in Variables(n) /\ JTop.locals = Top.locals
        /\ \A d \in DOMAIN JTop.locals : Category(JTop.locals[d]) = 1
    BY <1>1, FreshDef
  <1> HIDE DEF n
  <1> DEFINE w == Top.locals
             x == Op("Int", w[i].v + k)
             v == Put(w, Slot(k), x)
             g == [Top EXCEPT !.locals = v]
             d == [JTop EXCEPT !.locals = v]
  <1>3. w[i] \in Operand(n) /\ w[i].t = "Int" /\ i \in DOMAIN w
    BY <1>1, <1>2, VariableDef
  <1>4. x \in Operand(n) /\ Category(x) = 1
    <2>1. w[i].v + k \in Int
      BY <1>3 DEF Operand
    <2> QED
      BY <1>2, <2>1, OperandMade DEF Category, Op
  <1>5. v \in Variables(n) /\ \A l \in DOMAIN v : Category(v[l]) = 1
    <2>1. Slot(k) \in Slots
      <3>1. CASE k = -1
        BY <3>1 DEF Slots
      <3>2. CASE k # -1
        <4>1. k \in 0..MaxLocal
          BY <3>2, BoundsAssumption
        <4> QED
          BY <4>1, BoundsAssumption DEF Slots, Slot
      <3> QED
        BY <3>1, <3>2
    <2> HIDE DEF x, w
    <2>2. \A l \in DOMAIN w : Category(w[l]) = 1
      BY <1>2 DEF w
    <2> QED
      BY <1>2, <1>4, <2>1, <2>2, PutDef DEF w
  <1>6. k = i => [JTop EXCEPT !.locals[i].v = @ + k] = d
    <2> SUFFICES ASSUME k = i PROVE [JTop EXCEPT !.locals[i].v = @ + k] = d
      OBVIOUS
    <2>0. Slot(k) = i
      <3>1. i \in Slots /\ i \in Int /\ k \in Int
        BY <1>2, <1>3, VariableDef, BoundsAssumption DEF Slots, Slot
      <3>2. i >= 0
        BY <3>1, BoundsAssumption DEF Slots, Slot
      <3> QED
        BY <3>1, <3>2 DEF Slot
    <2>1. [w[i] EXCEPT !.v = w[i].v + k] = x
      BY <1>3 DEF Operand, Op
    <2>2. [w EXCEPT ![i] = x] = v
      <3> HIDE DEF x
      <3>1. w = [l \in DOMAIN w |-> w[l]]
        BY <1>2, VariableDef
      <3> HIDE DEF w
      <3> QED
        BY <1>3, <2>0, <3>1 DEF Put
    <2>3. [w EXCEPT ![i].v = @ + k] = [w EXCEPT ![i] = [w[i] EXCEPT !.v = w[i].v + k]]
      OBVIOUS
    <2>4. [JTop EXCEPT !.locals[i].v = @ + k] = [JTop EXCEPT !.locals = [w EXCEPT ![i].v = @ + k]]
      BY <1>2
    <2> QED
      BY <2>1, <2>2, <2>3, <2>4
  <1> HIDE DEF v
  <1>7. g \in CodeFrames(n) /\ g.ret = Top.ret /\ g.done = Top.done /\ g.parked = Top.parked
    BY <1>2, <1>5 DEF CodeFrames
  <1>8. d \in JavaFrames(n) /\ Match(g, d)
    BY <1>2, <1>5, MatchLocals
  <1>9. Run(k # i, With(frames, g), With(java, [JTop EXCEPT !.locals[i].v = @ + k]))
    BY <1>1, <1>2 DEF v
  <1> HIDE DEF g, d
  <1>10. Placed(Top, g, <<>>, n)
    BY <1>2, <1>7, PlacedTop
  <1>11. k # i \/ \E j \in JavaFrames(n) :
            With(java, [JTop EXCEPT !.locals[i].v = @ + k]) = With(java, j) /\ Match(g, j)
    BY <1>6, <1>8
  <1> QED
    BY <1>1, <1>2, <1>9, <1>10, <1>11, TopInv DEF n

\* A branch that is not taken does; one that is ends the run.
LEMMA BranchInv ==
    ASSUME InterpInv, Branch
    PROVE  InterpInv'
  <1> DEFINE taken(cond, n) ==
        Holds(cond, Peek(JTop.stack, n - 1).v, IF n = 1 THEN 0 ELSE Last(JTop.stack).v)
  <1>1. PICK cond \in Conditions, n \in 1..2 :
            /\ Fresh /\ objects' = objects /\ Len(JTop.stack) >= n
            /\ \A k \in 0..n - 1 : Peek(JTop.stack, k).t = "Int"
            /\ Run(taken(cond, n), With(frames, Popped(Top, n)), With(java, Popped(JTop, n)))
    BY DEF Branch
  <1> HIDE DEF taken
  <1>2. /\ Fetch /\ Len(objects) \in Nat
        /\ Top \in CodeFrames(Len(objects)) /\ JTop \in JavaFrames(Len(objects)) /\ Match(Top, JTop)
        /\ Len(JTop.stack) \in Nat
    BY <1>1, FreshDef
  <1>3. n \in 0..Len(JTop.stack) /\ Single(JTop.stack, n)
    BY <1>1, <1>2 DEF Single, Category
  <1>4. /\ n \in 0..Len(Top.stack)
        /\ Popped(JTop, n) \in JavaFrames(Len(objects)) /\ Match(Popped(Top, n), Popped(JTop, n))
    BY <1>2, <1>3, MatchPop
  <1>5. Placed(Top, Popped(Top, n), <<>>, Len(objects))
    BY <1>1, <1>4, PopPlaced
  <1> QED
    BY <1>1, <1>2, <1>4, <1>5, TopInv

\* The innermost frame put in its own place changes nothing.
LEMMA WithTop ==
    ASSUME InterpInv, Fetch
    PROVE  With(frames, Top) = frames /\ With(java, JTop) = java
  <1>1. /\ frames # <<>> /\ java # <<>>
        /\ frames \in Seq(CodeFrames(Len(objects))) /\ java \in Seq(JavaFrames(Len(objects)))
    BY FetchDef DEF InterpInv
  <1> QED
    BY <1>1 DEF With, Top, JTop

\* goto and nop do.
LEMMA GotoInv ==
    ASSUME InterpInv, Goto \/ Nop
    PROVE  InterpInv'
  <1>1. Fresh /\ objects' = objects /\ (Run(TRUE, frames, java) \/ Run(FALSE, frames, java))
    BY DEF Goto, Nop
  <1>2. /\ Fetch /\ Top.parked = <<>> /\ ~Top.done /\ Len(objects) \in Nat
        /\ Top \in CodeFrames(Len(objects)) /\ JTop \in JavaFrames(Len(objects)) /\ Match(Top, JTop)
    BY <1>1, FreshDef
  <1>3. With(frames, Top) = frames /\ With(java, JTop) = java
    BY <1>2, WithTop
  <1>4. Placed(Top, Top, <<>>, Len(objects))
    BY <1>2, PlacedTop
  <1>5. \E j \in JavaFrames(Len(objects)) : java = With(java, j) /\ Match(Top, j)
    BY <1>2, <1>3
  <1>6. Run(TRUE, With(frames, Top), java) \/ Run(FALSE, With(frames, Top), java)
    BY <1>1, <1>3
  <1> QED
    BY <1>1, <1>2, <1>4, <1>5, <1>6, TopInv

\* An error or a panic ends the run; it has to be one that was to be expected.
LEMMA FailedInv ==
    ASSUME InterpInv, objects' = objects, NEW dev, dev, NEW how \in {"error", "panic"}, Fail(dev, how)
    PROVE  InterpInv'
  <1>1. /\ h' \in Hierarchies /\ status' \in {"running", "error", "panic"} /\ odd'
        /\ frames' = frames /\ java' = java
    BY DEF Fail, InterpInv
  <1> QED
    BY <1>1 DEF InterpInv

\* Opcodes without an arm do: the run ends.
LEMMA UnimplementedInv ==
    ASSUME InterpInv, Unimplemented
    PROVE  InterpInv'
  BY FailedInv DEF Unimplemented

\* Without the innermost frame.
LEMMA DropFrame ==
    ASSUME NEW S, NEW fs \in Seq(S), fs # <<>>
    PROVE  /\ Drop(fs, 1) \in Seq(S) /\ Len(fs) \in Nat \ {0} /\ Len(Drop(fs, 1)) = Len(fs) - 1
           /\ \A i \in 1..(Len(fs) - 1) : Drop(fs, 1)[i] = fs[i]
  <1>1. Len(fs) \in Nat \ {0}
    BY EmptySeq, LenProperties
  <1>2. 1 \in 0..Len(fs)
    BY <1>1
  <1> QED
    BY <1>1, <1>2, DropDef

\* Without its innermost frame a frame stack is as settled as before ...
LEMMA DropSettled ==
    ASSUME NEW n, NEW fs \in Seq(CodeFrames(n)), fs # <<>>, Settled(fs)
    PROVE  Settled(Drop(fs, 1)) /\ LiveOf(Drop(fs, 1)) = Drop(fs, 1)
  <1> DEFINE r == Drop(fs, 1)
  <1>1. /\ r \in Seq(CodeFrames(n)) /\ Len(fs) \in Nat \ {0} /\ Len(r) = Len(fs) - 1
        /\ \A i \in 1..(Len(fs) - 1) : r[i] = fs[i]
    BY DropFrame
  <1> HIDE DEF r
  <1>2. \A k \in 1..Len(fs) :
        /\ fs[k].done => k = Len(fs)
        /\ Untouched(fs[k])
        /\ fs[k].parked # <<>> /\ k < Len(fs) => fs[k + 1].ret = "V"
    BY DEF Settled
  <1>3. ASSUME NEW k \in 1..Len(r)
        PROVE  /\ ~r[k].done /\ Untouched(r[k])
               /\ r[k].parked # <<>> /\ k < Len(r) => r[k + 1].ret = "V"
    <2>1. k \in 1..Len(fs) /\ k \in 1..(Len(fs) - 1) /\ k # Len(fs) /\ k < Len(fs)
      BY <1>1
    <2>2. r[k] = fs[k]
      BY <1>1, <2>1
    <2>3. k < Len(r) => r[k + 1] = fs[k + 1]
      BY <1>1, <2>1
    <2> QED
      BY <1>2, <2>1, <2>2, <2>3
  <1>4. Settled(r)
    BY <1>3 DEF Settled
  <1>5. LiveOf(r) = r
    <2>1. r # <<>> => Len(r) \in 1..Len(r)
      BY <1>1, EmptySeq
    <2> QED
      BY <1>3, <2>1 DEF LiveOf
  <1> QED
    BY <1>4, <1>5 DEF r

\* ... and matches the machine's without its own.
LEMMA DropAlike ==
    ASSUME NEW n, NEW fs \in Seq(CodeFrames(n)), fs # <<>>, NEW js \in Seq(JavaFrames(n)), Alike(fs, js)
    PROVE  Alike(Drop(fs, 1), Drop(js, 1)) /\ Drop(js, 1) \in Seq(JavaFrames(n))
  <1>0. Len(fs) = Len(js) /\ js # <<>> /\ \A k \in 1..Len(js) : Match(fs[k], js[k])
    BY EmptySeq, LenProperties DEF Alike
  <1>1. /\ Len(fs) \in Nat \ {0} /\ Len(Drop(fs, 1)) = Len(fs) - 1
        /\ \A i \in 1..(Len(fs) - 1) : Drop(fs, 1)[i] = fs[i]
    BY DropFrame
  <1>2. /\ Drop(js, 1) \in Seq(JavaFrames(n)) /\ Len(Drop(js, 1)) = Len(js) - 1
        /\ \A i \in 1..(Len(js) - 1) : Drop(js, 1)[i] = js[i]
    BY <1>0, DropFrame
  <1> DEFINE r == Drop(fs, 1)
             q == Drop(js, 1)
  <1> HIDE DEF r, q
  <1>3. \A k \in 1..(Len(js) - 1) : Match(r[k], q[k])
    BY <1>0, <1>1, <1>2 DEF r, q
  <1> QED
    BY <1>0, <1>1, <1>2, <1>3 DEF Alike, r, q

\* return does: the frame is done, that of JVMS 7 is popped.
LEMMA ReturnInv ==
    ASSUME InterpInv, Return
    PROVE  InterpInv'
  <1> DEFINE n == Len(objects)
             g == [Top EXCEPT !.done = TRUE]
             r == With(frames, g)
             l == Len(frames)
  <1>1. /\ Fresh /\ objects' = objects
        /\ \/ Run(FALSE, r, Drop(java, 1))
           \/ Run(TRUE, frames, java)
    BY DEF Return
  <1>2. CASE Run(TRUE, frames, java)
    BY <1>2, <1>1 DEF Run, InterpInv
  <1>3. CASE Run(FALSE, r, Drop(java, 1))
    <2>1. /\ frames # <<>> /\ Alike(frames, java) /\ l \in Nat \ {0} /\ status = "running"
          /\ Top \in CodeFrames(n) /\ Top.parked = <<>> /\ n \in Nat
          /\ frames \in Seq(CodeFrames(n)) /\ java \in Seq(JavaFrames(n)) /\ Settled(frames)
      BY <1>1, FetchDef DEF Fresh, InterpInv
    <2> HIDE DEF n, l
    <2>2. g \in CodeFrames(n) /\ g.ret = Top.ret /\ g.parked = <<>> /\ g.done
      BY <2>1 DEF CodeFrames
    <2>3. Untouched(g)
      BY <2>2 DEF Untouched
    <2> HIDE DEF g
    <2>4. /\ r \in Seq(CodeFrames(n)) /\ Len(r) = l /\ r[l] = g
          /\ \A i \in 1..l : i # l => r[i] = frames[i]
      BY <2>1, <2>2 DEF With, l
    <2> HIDE DEF r
    <2>5. Settled(r)
      <3>1. \A k \in 1..l :
                /\ frames[k].done => k = l
                /\ Untouched(frames[k])
                /\ frames[k].parked # <<>> /\ k < l => frames[k + 1].ret = "V"
        BY <2>1 DEF Settled, l
      <3>2. ASSUME NEW k \in 1..l
            PROVE  /\ r[k].done => k = l
                   /\ Untouched(r[k])
                   /\ r[k].parked # <<>> /\ k < l => r[k + 1].ret = "V"
        <4>1. CASE k = l
          BY <2>2, <2>3, <2>4, <4>1
        <4>2. CASE k # l
          <5>1. r[k] = frames[k] /\ k + 1 \in 1..l
            BY <2>1, <2>4, <4>2
          <5>2. r[k + 1].ret = frames[k + 1].ret
            BY <2>2, <2>4, <5>1 DEF Top, l
          <5> QED
            BY <3>1, <4>2, <5>1, <5>2
        <4> QED
          BY <4>1, <4>2
      <3> QED
        BY <2>4, <3>2 DEF Settled
    <2>6. LiveOf(r) = Drop(frames, 1)
      <3>1. r # <<>> /\ r[Len(r)].done
        BY <2>1, <2>2, <2>4, EmptySeq
      <3>2. /\ Drop(r, 1) \in Seq(CodeFrames(n)) /\ Len(Drop(r, 1)) = Len(r) - 1
            /\ \A i \in 1..(Len(r) - 1) : Drop(r, 1)[i] = r[i]
        BY <2>4, <3>1, DropFrame
      <3>3. /\ Drop(frames, 1) \in Seq(CodeFrames(n)) /\ Len(Drop(frames, 1)) = l - 1
            /\ \A i \in 1..(l - 1) : Drop(frames, 1)[i] = frames[i]
        BY <2>1, DropFrame DEF l
      <3>4. ASSUME NEW i \in 1..Len(Drop(r, 1)) PROVE Drop(r, 1)[i] = Drop(frames, 1)[i]
        <4>1. i \in 1..l /\ i # l /\ i \in 1..(l - 1) /\ i \in 1..(Len(r) - 1)
          BY <2>1, <2>4, <3>2
        <4> QED
          BY <2>4, <3>2, <3>3, <4>1
      <3>5. Len(Drop(r, 1)) = Len(Drop(frames, 1))
        BY <2>4, <3>2, <3>3
      <3>6. Drop(r, 1) = Drop(frames, 1)
        BY ONLY <3>2, <3>3, <3>4, <3>5, SeqEqual
      <3> QED
        BY <3>1, <3>6 DEF LiveOf
    <2>7. Alike(Drop(frames, 1), Drop(java, 1)) /\ Drop(java, 1) \in Seq(JavaFrames(n))
      BY <2>1, DropAlike
    <2>8. frames' = r /\ java' = Drop(java, 1) /\ h' = h /\ status' = status /\ objects' = objects
      BY <1>1, <1>3 DEF Run
    <2> QED
      BY <2>1, <2>4, <2>5, <2>6, <2>7, <2>8 DEF InterpInv, n
  <1> HIDE DEF r
  <1> QED
    BY <1>1, <1>2, <1>3

\* A frame at the end of its code is popped, which JVMS 7 has done at its
\* return.
LEMMA EndOfCodeInv ==
    ASSUME InterpInv, EndOfCode
    PROVE  InterpInv'
  <1> DEFINE r == Drop(frames, 1)
  <1>1. /\ frames # <<>> /\ Top.done /\ frames' = r
        /\ h' = h /\ objects' = objects /\ status' = status /\ java' = java /\ odd' = odd
    BY DEF EndOfCode
  <1>2. frames \in Seq(CodeFrames(Len(objects))) /\ Settled(frames)
    BY DEF InterpInv
  <1>3. Settled(r) /\ LiveOf(r) = r
    BY <1>1, <1>2, DropSettled
  <1>4. r \in Seq(CodeFrames(Len(objects)))
    BY <1>1, <1>2, DropFrame
  <1>5. LiveOf(frames) = r
    BY <1>1 DEF LiveOf, Top
  <1> HIDE DEF r
  <1> QED
    BY <1>1, <1>3, <1>4, <1>5 DEF InterpInv

\* ireturn and areturn do: the caller gets the value, and has put nothing off.
LEMMA ValueReturnInv ==
    ASSUME InterpInv, ValueReturn
    PROVE  InterpInv'
  <1> DEFINE n == Len(objects)
             l == Len(frames)
             x == Last(JTop.stack)
             fs == Drop(frames, 1)
             js == Drop(java, 1)
             g == Pushed(frames[l - 1], <<x>>)
             d == Pushed(java[l - 1], <<x>>)
             back(s) == With(Drop(s, 1), Pushed(s[Len(s) - 1], <<Last(s[Len(s)].stack)>>))
  <1>1. /\ Fresh /\ objects' = objects /\ JTop.stack # <<>> /\ Len(java) > 1
        /\ JTop.ret \in {"I", "L"} /\ Category(x) = 1
        /\ Run(FALSE, back(frames), back(java))
    BY DEF ValueReturn, Category, IsRef
  <1>2. /\ Fetch /\ n \in Nat /\ Match(Top, JTop) /\ Alike(frames, java) /\ Len(java) = l /\ l \in Nat
        /\ frames # <<>> /\ java # <<>> /\ status = "running"
        /\ frames \in Seq(CodeFrames(n)) /\ java \in Seq(JavaFrames(n)) /\ Settled(frames)
    BY <1>1, FetchDef DEF Fresh, InterpInv
  <1>3. Last(Top.stack) = x /\ x \in Operand(n) /\ Halves(x) = <<x>>
    BY <1>1, <1>2, TopValue DEF Halves
  <1>4. back(frames) = With(fs, g) /\ back(java) = With(js, d)
    BY <1>2, <1>3 DEF Top, JTop
  <1> HIDE DEF back, x, n
  <1>5. /\ fs \in Seq(CodeFrames(n)) /\ Len(fs) = l - 1 /\ \A i \in 1..(l - 1) : fs[i] = frames[i]
        /\ js \in Seq(JavaFrames(n)) /\ Len(js) = l - 1 /\ \A i \in 1..(l - 1) : js[i] = java[i]
    BY <1>2, DropFrame
  <1>6. Settled(fs) /\ LiveOf(fs) = fs /\ Alike(fs, js)
    BY <1>2, DropSettled, DropAlike
  <1>7. l - 1 \in 1..l /\ l - 1 \in 1..(l - 1) /\ l - 1 < l /\ (l - 1) + 1 = l /\ l - 1 # l
    BY <1>1, <1>2
  <1> HIDE DEF l, fs, js
  <1>8. /\ fs # <<>> /\ fs[Len(fs)] = frames[l - 1] /\ js[Len(js)] = java[l - 1]
        /\ frames[l - 1] \in CodeFrames(n) /\ java[l - 1] \in JavaFrames(n)
        /\ Match(frames[l - 1], java[l - 1])
    <2>1. fs # <<>> /\ fs[Len(fs)] = frames[l - 1] /\ js[Len(js)] = java[l - 1]
      BY <1>5, <1>7, EmptySeq
    <2>2. frames[l - 1] \in CodeFrames(n) /\ java[l - 1] \in JavaFrames(n)
      BY <1>2, <1>7, ElementOfSeq DEF l
    <2>3. Match(frames[l - 1], java[l - 1])
      BY <1>2, <1>7 DEF Alike
    <2> QED
      BY <2>1, <2>2, <2>3
  <1>9. frames[l - 1].parked = <<>> /\ ~frames[l - 1].done
    <2>1. frames[l].ret # "V"
      BY <1>1, <1>2 DEF Match, Top, l
    <2>2. /\ frames[l - 1].done => l - 1 = l
          /\ frames[l - 1].parked # <<>> /\ l - 1 < l => frames[(l - 1) + 1].ret = "V"
      BY <1>2, <1>7 DEF Settled, l
    <2> QED
      BY <1>7, <2>1, <2>2
  <1>10. g \in CodeFrames(n) /\ g.ret = frames[l - 1].ret /\ ~g.done /\ g.parked = <<>>
    <2> DEFINE e == frames[l - 1]
               xs == <<x>>
    <2>1. xs \in Seq(Operand(n)) /\ e \in CodeFrames(n) /\ ~e.done /\ e.parked = <<>>
      BY <1>3, <1>8, <1>9
    <2>2. g = Pushed(e, xs)
      OBVIOUS
    <2> HIDE DEF e, xs, g
    <2>3. /\ Pushed(e, xs) \in CodeFrames(n) /\ Pushed(e, xs).ret = e.ret
          /\ Pushed(e, xs).done = e.done /\ Pushed(e, xs).parked = e.parked
      BY <1>2, <2>1, CodePush
    <2> QED
      BY <2>1, <2>2, <2>3 DEF e
  <1>11. d \in JavaFrames(n) /\ Match(g, d)
    BY <1>2, <1>3, <1>8, MatchPush
  <1> HIDE DEF g, d
  <1>12. Placed(fs[Len(fs)], g, <<>>, n)
    BY <1>2, <1>8, <1>10, PlacedTop
  <1>13. With(fs, g) \o <<>> = With(fs, g) /\ With(js, d) \o <<>> = With(js, d)
    <2>1. js # <<>>
      BY <1>5, <1>7, EmptySeq
    <2>2. With(fs, g) \in Seq(CodeFrames(n)) /\ With(js, d) \in Seq(JavaFrames(n))
      BY <1>5, <1>8, <1>10, <1>11, <2>1 DEF With
    <2> QED
      BY <2>2, ConcatEmptySeq
  <1>14. With(fs, g) \in Seq(CodeFrames(n)) /\ Settled(With(fs, g)) /\ LiveOf(With(fs, g)) = With(fs, g)
    <2> DEFINE m == <<>>
               r == With(fs, g) \o m
    <2>1. Placed(fs[Len(fs)], g, m, n) /\ r = With(fs, g)
      BY <1>12, <1>13
    <2> HIDE DEF m
    <2>2. r \in Seq(CodeFrames(n)) /\ Settled(r) /\ LiveOf(r) = r
      <3>1. n \in Nat /\ fs \in Seq(CodeFrames(n)) /\ fs # <<>> /\ Settled(fs)
        BY <1>2, <1>5, <1>6, <1>8
      <3> HIDE DEF m, r
      <3>2. Placed(fs[Len(fs)], g, m, n)
        BY <2>1
      <3>3. LET q == With(fs, g) \o m
            IN  q \in Seq(CodeFrames(n)) /\ Settled(q) /\ LiveOf(q) = q
        BY ONLY <3>1, <3>2, StepSettled
      <3> QED
        BY <3>3 DEF r
    <2> QED
      BY <2>1, <2>2
  <1>15. Alike(With(fs, g), With(js, d)) /\ With(js, d) \in Seq(JavaFrames(n))
    <2>1. <<>> \in Seq(CodeFrames(n)) /\ <<>> \in Seq(JavaFrames(n)) /\ Alike(<<>>, <<>>)
      BY DEF Alike
    <2>2. /\ Alike(With(fs, g) \o <<>>, With(js, d) \o <<>>)
          /\ With(js, d) \o <<>> \in Seq(JavaFrames(n))
      BY <1>2, <1>5, <1>6, <1>8, <1>10, <1>11, <2>1, StepAlike, Zenon
    <2> QED
      BY <1>13, <2>2
  <1>16. frames' = With(fs, g) /\ java' = With(js, d) /\ h' = h /\ status' = status /\ objects' = objects
    BY <1>1, <1>4 DEF Run
  <1> QED
    BY <1>2, <1>14, <1>15, <1>16 DEF InterpInv, n

\* The frames of a call.
LEMMA FrameMade ==
    ASSUME NEW n \in Nat \ {0}, NEW c \in Classes, NEW ret \in {"V", "I", "L"}, NEW v \in Variables(n)
    PROVE  /\ LET e == Frame(c, ret, v)
              IN  e \in CodeFrames(n) /\ ~e.done /\ e.parked = <<>> /\ e.ret = ret
           /\ JFrame(c, ret, v) \in JavaFrames(n)
           /\ (\A i \in DOMAIN v : Category(v[i]) = 1) => Match(Frame(c, ret, v), JFrame(c, ret, v))
  <1>1. Operands(<<>>) = <<>>
    <2>1. Closed(Operand(n)) /\ <<>> \in Seq(Operand(n)) /\ Null \in Operand(n)
      BY OperandClosed, OperandMade
    <2> QED
      BY <2>1, OperandsPush
  <1>2. Frame(c, ret, v) \in CodeFrames(n)
    BY DEF Frame, CodeFrames
  <1>3. JFrame(c, ret, v) \in JavaFrames(n)
    BY DEF JFrame, JavaFrames
  <1>4. ~Frame(c, ret, v).done /\ Frame(c, ret, v).parked = <<>> /\ Frame(c, ret, v).ret = ret
    BY DEF Frame
  <1>5. (\A i \in DOMAIN v : Category(v[i]) = 1) => Match(Frame(c, ret, v), JFrame(c, ret, v))
    BY <1>1 DEF Frame, JFrame, Match
  <1> QED
    BY <1>2, <1>3, <1>4, <1>5

\* A new frame has no local variables.
LEMMA NoLocalsMade ==
    ASSUME NEW n \in Nat
    PROVE  NoLocals \in Variables(n) /\ \A i \in DOMAIN NoLocals : Category(NoLocals[i]) = 1
  <1>1. NoLocals \in [{} -> Operand(n)] /\ DOMAIN NoLocals = {}
    BY DEF NoLocals
  <1>2. {} \in SUBSET Slots
    OBVIOUS
  <1> HIDE DEF NoLocals
  <1> QED
    BY <1>1, <1>2 DEF Variables

\* What an instruction that can be put off is.
LEMMA LazyType ==
    ASSUME NEW ins \in Lazy, h \in Hierarchies
    PROVE  ins \in AnyIns
  <1>1. h.names \subseteq Classes
    BY CodeAssumption
  <1>2. CASE ins \in {Ins(op, m, c) : op \in {"static", "virtual", "special"}, m \in Methods, c \in h.names}
    <2>1. PICK op \in {"static", "virtual", "special"}, m \in Methods, c \in h.names : ins = Ins(op, m, c)
      BY <1>2
    <2> QED
      BY <1>1, <2>1 DEF AnyIns, Ins
  <1>3. CASE ins \in {Ins(op, NoMethod, c) : op \in {"new", "checkcast"}, c \in h.names}
    <2>1. PICK op \in {"new", "checkcast"}, c \in h.names : ins = Ins(op, NoMethod, c)
      BY <1>3
    <2> QED
      BY <1>1, <2>1 DEF AnyIns, Ins
  <1>4. CASE ins \in {Ins(op, f, c) : op \in {"getstatic", "putstatic", "putfield"},
                                     f \in h.fields, c \in h.names}
    <2>1. PICK op \in {"getstatic", "putstatic", "putfield"}, f \in h.fields, c \in h.names :
            ins = Ins(op, f, c)
      BY <1>4
    <2>2. f \in UNION {k.fields : k \in Hierarchies}
      OBVIOUS
    <2> QED
      BY <1>1, <2>1, <2>2 DEF AnyIns, Ins
  <1> QED
    BY <1>2, <1>3, <1>4 DEF Lazy

\* init_static! does: the instruction is put off with operands and variables as
\* they are.
LEMMA InitStaticInv ==
    ASSUME InterpInv, InitStatic
    PROVE  InterpInv'
  <1> DEFINE n == Len(objects)
             kept(ins) == [ins |-> ins, stack |-> Top.stack, locals |-> Top.locals]
             g(ins) == [Top EXCEPT !.parked = <<kept(ins)>>]
             more(cs) == [k \in DOMAIN cs |-> Frame(cs[k], "V", NoLocals)]
             jmore(cs) == [k \in DOMAIN cs |-> JFrame(cs[k], "V", NoLocals)]
  <1>1. PICK ins \in Lazy, cs \in h.clinits :
            /\ Fresh /\ objects' = objects
            /\ Run(FALSE, With(frames, g(ins)) \o more(cs), java \o jmore(cs))
    BY DEF InitStatic
  <1>2. /\ Fetch /\ ~Top.done /\ n \in Nat \ {0} /\ h \in Hierarchies
        /\ Top \in CodeFrames(n) /\ JTop \in JavaFrames(n) /\ Match(Top, JTop)
    BY <1>1, FreshDef
  <1> HIDE DEF n
  <1>3. cs \in Seq(Classes)
    BY <1>2, CodeAssumption
  <1>4. kept(ins) \in Putting(n) /\ kept(ins).stack = Top.stack /\ kept(ins).locals = Top.locals
    <2>1. ins \in AnyIns
      BY <1>2, LazyType
    <2> QED
      BY <1>2, <2>1 DEF Putting, CodeFrames
  <1> HIDE DEF kept
  <1>5. /\ g(ins) \in CodeFrames(n) /\ g(ins).ret = Top.ret /\ ~g(ins).done
        /\ g(ins).parked = <<kept(ins)>> /\ g(ins).stack = Top.stack /\ g(ins).locals = Top.locals
        /\ g(ins).class = Top.class
    BY <1>2, <1>4 DEF CodeFrames
  <1> HIDE DEF g
  <1>6. Untouched(g(ins)) /\ Match(g(ins), JTop)
    BY <1>2, <1>4, <1>5 DEF Untouched, Match
  <1>7. ASSUME NEW k \in 1..Len(cs)
        PROVE  /\ Frame(cs[k], "V", NoLocals) \in CodeFrames(n)
               /\ ~Frame(cs[k], "V", NoLocals).done /\ Frame(cs[k], "V", NoLocals).parked = <<>>
               /\ Frame(cs[k], "V", NoLocals).ret = "V"
               /\ JFrame(cs[k], "V", NoLocals) \in JavaFrames(n)
               /\ Match(Frame(cs[k], "V", NoLocals), JFrame(cs[k], "V", NoLocals))
    <2>1. cs[k] \in Classes /\ NoLocals \in Variables(n)
          /\ \A i \in DOMAIN NoLocals : Category(NoLocals[i]) = 1
      BY <1>2, <1>3, NoLocalsMade, ElementOfSeq
    <2> QED
      BY <1>2, <2>1, FrameMade
  <1> DEFINE e == more(cs)
             d == jmore(cs)
  <1>8. /\ e \in Seq(CodeFrames(n)) /\ Len(e) = Len(cs) /\ d \in Seq(JavaFrames(n)) /\ Len(d) = Len(cs)
        /\ Len(cs) \in Nat
        /\ \A k \in 1..Len(cs) : e[k] = Frame(cs[k], "V", NoLocals) /\ d[k] = JFrame(cs[k], "V", NoLocals)
    <2>1. DOMAIN cs = 1..Len(cs) /\ Len(cs) \in Nat
      BY <1>3, LenProperties
    <2> QED
      BY <1>7, <2>1
  <1> HIDE DEF more, jmore, e, d
  <1>9. Alike(e, d)
    BY <1>7, <1>8 DEF Alike
  <1>10. Placed(Top, g(ins), e, n)
    <2>1. \A i \in 1..Len(e) : ~e[i].done /\ e[i].parked = <<>> /\ Untouched(e[i])
      BY <1>7, <1>8 DEF Untouched
    <2>2. e # <<>> => e[1].ret = "V"
      <3>1. e # <<>> => 1 \in 1..Len(cs)
        BY <1>8, EmptySeq
      <3> QED
        BY <1>7, <1>8, <3>1
    <2> QED
      BY <1>5, <1>6, <1>8, <2>1, <2>2 DEF Placed
  <1>11. Answered(java \o d, g(ins), e, n)
    <2>1. With(java, JTop) = java
      BY <1>2, WithTop
    <2> QED
      BY <1>2, <1>6, <1>8, <1>9, <2>1 DEF Answered
  <1>12. Run(FALSE, With(frames, g(ins)) \o e, java \o d)
    BY <1>1 DEF e, d
  <1>13. /\ n \in Nat /\ n = Len(objects') /\ objects' \in Seq(Classes) /\ objects' # <<>>
         /\ frames \in Seq(CodeFrames(n)) /\ java \in Seq(JavaFrames(n))
    BY <1>1, <1>2 DEF InterpInv, n
  <1> QED
    BY ONLY <1>2, <1>10, <1>11, <1>12, <1>13, InterpInv, StepInv

\* Descriptors and the operands they accept.
LEMMA PassesDef ==
    ASSUME NEW n \in Nat, NEW fd, fd.dims \in Nat, fd.elem \in Base \cup {"L"}, NEW x \in Operand(n),
           Passes(fd, x)
    PROVE  /\ fd.elem \notin {"J", "D"} => Category(x) = 1
           /\ fd.elem \in {"J", "D"} => Category(x) = 2
           /\ fd.elem # "C" /\ x # Null => MatchesOperand(fd, x.t) /\ fd.dims = 0
  <1>1. x.t \in OperandTypes
    BY DEF Operand
  <1>2. CASE MatchesOperand(fd, x.t)
    <2>1. fd.dims = 0
      BY <1>1, <1>2 DEF MatchesOperand, OperandTypes
    <2>2. CASE fd.elem = "J"
      BY <1>2, <2>1, <2>2 DEF MatchesOperand, Category
    <2>3. CASE fd.elem = "D"
      BY <1>2, <2>1, <2>3 DEF MatchesOperand, Category
    <2>4. CASE fd.elem \in {"B", "S", "Z", "I"}
      BY <1>2, <2>1, <2>4 DEF MatchesOperand, Category
    <2>5. CASE fd.elem = "C"
      BY <1>2, <2>1, <2>5 DEF MatchesOperand, Category
    <2>6. CASE fd.elem = "F"
      BY <1>2, <2>1, <2>6 DEF MatchesOperand, Category
    <2>7. CASE fd.elem = "L"
      BY <1>2, <2>1, <2>7 DEF MatchesOperand, Category
    <2> QED
      BY <2>2, <2>3, <2>4, <2>5, <2>6, <2>7 DEF Base
  <1>3. CASE fd.elem = "L" /\ x = Null
    BY <1>3 DEF Category, Null, Op
  <1>4. CASE fd.elem = "C" /\ fd.dims = 0 /\ x.t = "Int"
    BY <1>4 DEF Category
  <1> QED
    BY <1>2, <1>3, <1>4 DEF Passes

\* What is accepted as the one descriptor is accepted as the other.
LEMMA MatchesElem ==
    ASSUME NEW fd, NEW fe, fd.dims = 0, fe.dims = 0, fd.elem = fe.elem, NEW t
    PROVE  MatchesOperand(fd, t) = MatchesOperand(fe, t)
  BY DEF MatchesOperand

\* A method takes as many operands as its parameters and its object.
LEMMA MethodDef ==
    ASSUME NEW m \in Methods
    PROVE  /\ NumArgs(m) \in Nat /\ NumArgs(m) <= MaxLocal + 2 /\ Ret(m) \in {"V", "I", "L"}
           /\ Needed(m) \in Nat /\ Needed(m) = NumArgs(m) + (IF IsStatic(m) THEN 0 ELSE 1)
           /\ IsInit(m) \in BOOLEAN /\ IsStatic(m) \in BOOLEAN
           /\ \A k \in 1..NumArgs(m) : /\ Params(m)[k].dims \in Nat
                                      /\ Params(m)[k].elem \in Base \cup {"L"}
  <1>1. /\ Params(m) \in Seq(ToSet(Params(m))) /\ Len(Params(m)) <= MaxLocal + 2
        /\ \A i \in DOMAIN Params(m) : /\ Params(m)[i].dims \in Nat
                                      /\ Params(m)[i].elem \in Base \cup {"L"}
        /\ Ret(m) \in {"V", "I", "L"} /\ IsStatic(m) \in BOOLEAN /\ IsInit(m) \in BOOLEAN
    BY MethodsAssumption
  <1>2. Len(Params(m)) \in Nat /\ DOMAIN Params(m) = 1..Len(Params(m))
    BY <1>1, LenProperties
  <1> QED
    BY <1>1, <1>2 DEF NumArgs, Needed

\* The operands of a call.
LEMMA ArgDef ==
    ASSUME InterpInv, Fetch, NEW m \in Methods, NEW c, CanCall(m, c)
    PROVE  /\ NumArgs(m) \in 0..Len(JTop.stack) /\ Needed(m) \in 0..Len(JTop.stack)
           /\ Needed(m) \in 0..Len(Top.stack)
           /\ \A k \in 1..NumArgs(m) :
                /\ JArg(m, k) = Peek(JTop.stack, NumArgs(m) - k)
                /\ JArg(m, k) \in Operand(Len(objects)) /\ Passes(Params(m)[k], JArg(m, k))
           /\ ~IsStatic(m) => JObject(m) \in Operand(Len(objects)) /\ IsRef(JObject(m))
  <1> DEFINE n == Len(objects)
             s == JTop.stack
             a == NumArgs(m)
  <1>1. /\ n \in Nat /\ s \in Seq(Operand(n)) /\ Len(s) \in Nat /\ Len(Top.stack) \in Nat
        /\ Len(Top.stack) >= Len(s)
    BY FetchDef, MatchLen
  <1>2. /\ Len(s) >= Needed(m) /\ \A k \in 1..a : Passes(Params(m)[k], JArg(m, k))
        /\ ~IsStatic(m) => IsRef(JObject(m))
    BY DEF CanCall
  <1>3. /\ a \in Nat /\ Needed(m) \in Nat /\ Needed(m) = a + (IF IsStatic(m) THEN 0 ELSE 1)
        /\ IsStatic(m) \in BOOLEAN
    BY MethodDef
  <1> HIDE DEF n, a
  <1>4. /\ a \in 0..Len(s) /\ Needed(m) \in 0..Len(s) /\ Needed(m) \in 0..Len(Top.stack)
        /\ ~IsStatic(m) => a \in 0..(Len(s) - 1)
    BY <1>1, <1>2, <1>3
  <1>5. ~IsStatic(m) => JObject(m) \in Operand(n)
    BY <1>1, <1>4, PeekType DEF JObject, a
  <1>6. ASSUME NEW k \in 1..a
        PROVE  JArg(m, k) = Peek(s, a - k) /\ JArg(m, k) \in Operand(n)
    <2>1. Args(s, a)[k] = s[Len(s) - a + k]
      BY <1>1, <1>4, DropDef
    <2>2. Len(s) - a + k = Len(s) - (a - k) /\ a - k \in 0..(Len(s) - 1)
      BY <1>1, <1>4
    <2>3. Peek(s, a - k) \in Operand(n)
      BY <1>1, <2>2, PeekType
    <2> QED
      BY <2>1, <2>2, <2>3 DEF JArg, a, Peek
  <1> QED
    BY <1>2, <1>4, <1>5, <1>6 DEF n, a

Narrow(m) == \A k \in 1..NumArgs(m) : Params(m)[k].elem \notin {"J", "D"}

\* Arguments that fit one operand each are the same on both stacks.
LEMMA ArgSingle ==
    ASSUME InterpInv, Fetch, NEW m \in Methods, NEW c, CanCall(m, c), Narrow(m)
    PROVE  /\ Single(JTop.stack, Needed(m))
           /\ \A i \in 0..(Needed(m) - 1) : Peek(Top.stack, i) = Peek(JTop.stack, i)
  <1> DEFINE n == Len(objects)
             s == JTop.stack
             a == NumArgs(m)
  <1>1. /\ n \in Nat /\ Top \in CodeFrames(n) /\ JTop \in JavaFrames(n) /\ Match(Top, JTop)
    BY FetchDef
  <1>2. /\ a \in Nat /\ Needed(m) \in Nat /\ Needed(m) = a + (IF IsStatic(m) THEN 0 ELSE 1)
        /\ IsStatic(m) \in BOOLEAN
        /\ \A k \in 1..a : Params(m)[k].dims \in Nat /\ Params(m)[k].elem \in Base \cup {"L"}
    BY MethodDef
  <1>3. /\ Needed(m) \in 0..Len(s)
        /\ \A k \in 1..a : /\ JArg(m, k) = Peek(s, a - k)
                           /\ JArg(m, k) \in Operand(n) /\ Passes(Params(m)[k], JArg(m, k))
        /\ ~IsStatic(m) => IsRef(JObject(m))
    BY ArgDef
  <1>4. \A k \in 1..a : Params(m)[k].elem \notin {"J", "D"}
    BY DEF Narrow
  <1> HIDE DEF n, a, s
  <1>5. ASSUME NEW k \in 1..a PROVE Category(JArg(m, k)) = 1
    BY <1>1, <1>2, <1>3, <1>4, PassesDef
  <1>6. ASSUME NEW i \in 0..(Needed(m) - 1) PROVE Category(Peek(s, i)) = 1
    <2>1. CASE i < a
      <3>1. a - i \in 1..a /\ a - (a - i) = i
        BY <1>2, <2>1
      <3>2. JArg(m, a - i) = Peek(s, a - (a - i))
        BY <1>3, <3>1
      <3> QED
        BY <1>5, <3>1, <3>2
    <2>2. CASE ~(i < a)
      <3>1. i = a /\ ~IsStatic(m)
        BY <1>2, <2>2
      <3>2. IsRef(Peek(s, i))
        BY <1>3, <3>1 DEF JObject, s, a
      <3> QED
        BY <3>2 DEF Category, IsRef
    <2> QED
      BY <2>1, <2>2
  <1>7. Single(s, Needed(m))
    BY <1>6 DEF Single
  <1>8. \A i \in 0..(Needed(m) - 1) : Peek(Top.stack, i) = Peek(s, i)
    BY <1>1, <1>3, <1>7, MatchPop DEF s
  <1> QED
    BY <1>7, <1>8 DEF s

\* An instruction is taken, for the first time or again.
LEMMA TakeDef ==
    ASSUME InterpInv, NEW ins, Take(ins)
    PROVE  LET n == Len(objects)
           IN  /\ Fetch /\ Legal(ins) /\ n \in Nat \ {0} /\ n \in Nat /\ h \in Hierarchies
               /\ Unparked \in CodeFrames(n) /\ Unparked.stack = Top.stack /\ Unparked.ret = Top.ret
               /\ Unparked.locals = Top.locals /\ Unparked.class = Top.class
               /\ ~Unparked.done /\ Unparked.parked = <<>>
               /\ JTop \in JavaFrames(n) /\ Match(Unparked, JTop) /\ Match(Top, JTop)
               /\ Top.stack \in Seq(Operand(n)) /\ JTop.stack \in Seq(Operand(n))
               /\ Len(Top.stack) \in Nat /\ Len(JTop.stack) \in Nat /\ Len(Top.stack) >= Len(JTop.stack)
  <1> DEFINE n == Len(objects)
             u == Unparked
  <1>1. Fetch /\ Legal(ins)
    BY DEF Take
  <1>2. /\ n \in Nat \ {0} /\ h \in Hierarchies /\ ~Top.done
        /\ Top \in CodeFrames(n) /\ JTop \in JavaFrames(n) /\ Match(Top, JTop)
    BY <1>1, FetchDef DEF InterpInv
  <1> HIDE DEF n
  <1>3. /\ u \in CodeFrames(n) /\ u.stack = Top.stack /\ u.ret = Top.ret /\ u.locals = Top.locals
        /\ u.class = Top.class /\ ~u.done /\ u.parked = <<>>
    BY <1>2 DEF CodeFrames, Unparked
  <1> HIDE DEF u
  <1>4. Match(u, JTop)
    BY <1>2, <1>3 DEF Match
  <1> QED
    BY <1>1, <1>2, <1>3, <1>4, MatchLen DEF n, u

\* The frames step leaves after a call, and those of the machine.
LEMMA CallPlaced ==
    ASSUME InterpInv, NEW ins, Take(ins), NEW m \in Methods, Needed(m) \in 0..Len(Top.stack),
           NEW c \in Classes, NEW v \in Variables(Len(objects))
    PROVE  Placed(Top, Popped(Unparked, Needed(m)), <<Frame(c, Ret(m), v)>>, Len(objects))
  <1> DEFINE n == Len(objects)
             e == Frame(c, Ret(m), v)
             g == Popped(Unparked, Needed(m))
  <1>1. /\ n \in Nat \ {0} /\ Unparked \in CodeFrames(n) /\ Unparked.stack = Top.stack
        /\ Unparked.ret = Top.ret /\ ~Unparked.done /\ Unparked.parked = <<>>
    BY TakeDef
  <1>2. Ret(m) \in {"V", "I", "L"}
    BY MethodDef
  <1>3. e \in CodeFrames(n) /\ ~e.done /\ e.parked = <<>>
    BY <1>1, <1>2, FrameMade
  <1> HIDE DEF n
  <1>4. g \in CodeFrames(n) /\ g.ret = Unparked.ret /\ g.done = Unparked.done /\ g.parked = Unparked.parked
    <2>1. Needed(m) \in 0..Len(Unparked.stack)
      BY <1>1
    <2> HIDE DEF Unparked
    <2> QED
      BY <1>1, <2>1, CodePop
  <1> HIDE DEF e, g
  <1>5. Placed(Top, g, <<e>>, n)
    BY <1>1, <1>3, <1>4, PlacedTop
  <1> QED
    BY <1>5 DEF e, g, n

\* The machine hands over the object and the arguments, in their order; they
\* are the topmost operands of step when none is a long or double.
JLocals(m) == [i \in 0..Needed(m) - 1 |-> Args(JTop.stack, Needed(m))[i + 1]]

\* A call that takes arguments of one operand each matches that of JVMS 7.
LEMMA CallAlike ==
    ASSUME InterpInv, NEW ins, Take(ins), NEW m \in Methods, NEW d \in Classes, CanCall(m, d),
           Narrow(m), NEW c \in Classes
    PROVE  /\ JLocals(m) = [i \in 0..Needed(m) - 1 |-> Peek(Top.stack, Needed(m) - 1 - i)]
           /\ JLocals(m) \in Variables(Len(objects))
           /\ \E j, e \in JavaFrames(Len(objects)) :
                /\ JCall(m, c) = Append(With(java, j), e)
                /\ Match(Popped(Unparked, Needed(m)), j)
                /\ Match(Frame(c, Ret(m), JLocals(m)), e)
  <1> DEFINE n == Len(objects)
             k == Needed(m)
             s == JTop.stack
             v == JLocals(m)
             j == Popped(JTop, k)
             e == JFrame(c, Ret(m), v)
  <1>1. /\ Fetch /\ n \in Nat \ {0} /\ n \in Nat /\ Unparked \in CodeFrames(n) /\ JTop \in JavaFrames(n)
        /\ Match(Unparked, JTop) /\ s \in Seq(Operand(n)) /\ Len(s) \in Nat
    BY TakeDef
  <1>2. k \in Nat /\ k <= MaxLocal + 3 /\ Ret(m) \in {"V", "I", "L"}
    BY MethodDef, BoundsAssumption
  <1>3. k \in 0..Len(s) /\ Single(s, k) /\ \A i \in 0..(k - 1) : Peek(Top.stack, i) = Peek(s, i)
    BY <1>1, ArgDef, ArgSingle
  <1>4. JCall(m, c) = Append(With(java, j), e)
    BY DEF JCall, JLocals
  <1> HIDE DEF n, k, s, v
  <1>5. ASSUME NEW i \in 0..(k - 1)
        PROVE  /\ Args(s, k)[i + 1] = Peek(s, k - 1 - i) /\ k - 1 - i \in 0..(k - 1)
               /\ Peek(s, k - 1 - i) \in Operand(n) /\ Category(Peek(s, k - 1 - i)) = 1
    <2>1. i + 1 \in 1..k /\ k - 1 - i \in 0..(k - 1) /\ k - 1 - i \in 0..(Len(s) - 1)
          /\ Len(s) - k + (i + 1) = Len(s) - (k - 1 - i)
      BY <1>1, <1>2, <1>3
    <2>2. Args(s, k)[i + 1] = s[Len(s) - k + (i + 1)]
      BY <1>1, <1>3, <2>1, DropDef
    <2>3. Peek(s, k - 1 - i) \in Operand(n)
      BY <1>1, <2>1, PeekType
    <2>4. Category(Peek(s, k - 1 - i)) = 1
      BY <1>3, <2>1 DEF Single
    <2> QED
      BY <2>1, <2>2, <2>3, <2>4 DEF Peek
  <1>6. v = [i \in 0..(k - 1) |-> Peek(Top.stack, k - 1 - i)]
    BY <1>3, <1>5 DEF JLocals, v, k, s
  <1>7. v \in Variables(n) /\ \A i \in DOMAIN v : Category(v[i]) = 1
    <2>1. v \in [0..(k - 1) -> Operand(n)] /\ \A i \in 0..(k - 1) : Category(v[i]) = 1
      BY <1>3, <1>5, <1>6
    <2>2. 0..(k - 1) \in SUBSET Slots
      BY <1>2, BoundsAssumption DEF Slots
    <2> QED
      BY <2>1, <2>2 DEF Variables
  <1>8. j \in JavaFrames(n) /\ Match(Popped(Unparked, k), j)
    <2> HIDE DEF Unparked
    <2> QED
      BY <1>1, <1>3, MatchPop DEF s
  <1>9. e \in JavaFrames(n) /\ Match(Frame(c, Ret(m), v), e)
    BY <1>1, <1>2, <1>7, FrameMade
  <1> HIDE DEF j, e
  <1> QED
    BY <1>4, <1>6, <1>7, <1>8, <1>9 DEF n, k, v

\* A call that is taken: typed in any case, and as the machine calls where the
\* instruction is not one on which step deviates.
LEMMA CallStep ==
    ASSUME InterpInv, NEW ins, Take(ins), objects' = objects, NEW m \in Methods, NEW d \in Classes,
           CanCall(m, d), NEW dev, NEW t \in Classes, NEW v \in Variables(Len(objects)), NEW js,
           Run(dev, Call(m, t, v), js),
           dev \/ (Narrow(m) /\ v = JLocals(m) /\ js = JCall(m, t))
    PROVE  InterpInv'
  <1> DEFINE g == Popped(Unparked, Needed(m))
             e == Frame(t, Ret(m), v)
  <1>1. Fetch
    BY TakeDef
  <1>2. Needed(m) \in 0..Len(Top.stack)
    BY <1>1, ArgDef
  <1>3. Placed(Top, g, <<e>>, Len(objects))
    BY <1>2, CallPlaced
  <1>4. Run(dev, Append(With(frames, g), e), js)
    BY DEF Call
  <1>5. dev \/ \E j, f \in JavaFrames(Len(objects)) :
                js = Append(With(java, j), f) /\ Match(g, j) /\ Match(e, f)
    BY CallAlike
  <1> HIDE DEF g, e
  <1> QED
    BY <1>1, <1>3, <1>4, <1>5, CallInv

\* invokestatic does.
LEMMA InvokeStaticInv ==
    ASSUME InterpInv, InvokeStatic
    PROVE  InterpInv'
  <1> DEFINE n == Len(objects)
             dev(m, c) == ~Declares(h, c, m) \/ NumArgs(m) > 1
                            \/ \E k \in 1..NumArgs(m) : Params(m)[k].elem \in {"J", "D"}
             v(m) == [i \in 0..NumArgs(m) - 1 |-> Peek(Top.stack, i)]
  <1>1. PICK m \in Methods, c \in h.names :
            /\ Take(Ins("static", m, c)) /\ objects' = objects
            /\ IF ~Declares(h, c, m) THEN Fail(dev(m, c), "error")
               ELSE Run(dev(m, c), Call(m, c, v(m)), JCall(m, c))
    BY DEF InvokeStatic
  <1>2. /\ Legal(Ins("static", m, c)) /\ n \in Nat /\ h \in Hierarchies /\ Fetch
        /\ Top.stack \in Seq(Operand(n)) /\ Len(Top.stack) \in Nat
    BY <1>1, TakeDef
  <1>3. IsStatic(m) /\ CanCall(m, c) /\ c \in Classes
    <2>1. IsStatic(m) /\ CanCall(m, c)
      BY <1>2 DEF Legal, Ins
    <2>2. h.names \subseteq Classes
      BY <1>2, CodeAssumption
    <2> QED
      BY <2>1, <2>2
  <1> HIDE DEF n
  <1>4. /\ NumArgs(m) \in Nat /\ NumArgs(m) <= MaxLocal + 2 /\ Needed(m) = NumArgs(m)
        /\ Needed(m) \in 0..Len(Top.stack)
    BY <1>2, <1>3, MethodDef, ArgDef
  <1>5. v(m) \in Variables(n)
    <2>1. \A i \in 0..(NumArgs(m) - 1) : i \in 0..(Len(Top.stack) - 1)
      BY <1>2, <1>4
    <2>2. \A i \in 0..(NumArgs(m) - 1) : Peek(Top.stack, i) \in Operand(n)
      BY <1>2, <2>1, PeekType
    <2>3. v(m) \in [0..(NumArgs(m) - 1) -> Operand(n)]
      BY <2>2
    <2>4. 0..(NumArgs(m) - 1) \in SUBSET Slots
      BY <1>4, BoundsAssumption DEF Slots
    <2> HIDE DEF v
    <2> QED
      BY <2>3, <2>4 DEF Variables
  <1>6. CASE ~Declares(h, c, m)
    BY <1>1, <1>6, FailedInv
  <1>7. CASE Declares(h, c, m)
    <2>1. ASSUME ~dev(m, c) PROVE Narrow(m) /\ v(m) = JLocals(m)
      <3>1. Narrow(m) /\ ~(NumArgs(m) > 1)
        BY <2>1 DEF Narrow
      <3>2. JLocals(m) = [i \in 0..Needed(m) - 1 |-> Peek(Top.stack, Needed(m) - 1 - i)]
        BY <1>1, <1>3, <3>1, CallAlike
      <3>3. \A i \in 0..(NumArgs(m) - 1) : NumArgs(m) - 1 - i = i
        BY <1>4, <3>1
      <3> QED
        BY <1>4, <3>1, <3>2, <3>3
    <2>2. Run(dev(m, c), Call(m, c, v(m)), JCall(m, c))
      BY <1>1, <1>7
    <2> HIDE DEF v, dev
    <2> QED
      BY <1>1, <1>3, <1>5, <2>1, <2>2, CallStep DEF n
  <1> QED
    BY <1>6, <1>7

\* The loader's walk for a virtual method panics, finds a class, or finds none.
LEMMA OverridingType ==
    ASSUME NEW k \in Hierarchies, NEW m \in Methods
    PROVE  \A c \in Classes : Overriding(k, c, m) \in {Panics, None} \cup {Some(d) : d \in Classes}
  <1> DEFINE T == {Panics, None} \cup {Some(d) : d \in Classes}
             S == {c \in Classes : Overriding(k, c, m) \in T}
  <1>1. ASSUME NEW c \in Classes, c # Object => k.super[c] \in S PROVE c \in S
    BY <1>1, OverridingDef
  <1> HIDE DEF T
  <1>2. Classes \subseteq S
    <2> HIDE DEF S
    <2>1. \A c \in Classes : (/\ c # Object => k.super[c] \in S
                              /\ \A i \in k.interfaces[c] : i \in S) => c \in S
      BY <1>1
    <2> QED
      BY ONLY <2>1, k \in Hierarchies, Upwards, Zenon
  <1> QED
    BY <1>2 DEF T

\* The operand taken for the object: the object itself, or half of an argument
\* where that is a long or double.
LEMMA ObjectOperand ==
    ASSUME InterpInv, Fetch, NEW m \in Methods, NEW c, CanCall(m, c), ~IsStatic(m), NumArgs(m) <= 1
    PROVE  /\ Peek(Top.stack, NumArgs(m)).v \in 0..(Len(objects) - 1)
           /\ Narrow(m) => Peek(Top.stack, NumArgs(m)) = JObject(m)
  <1> DEFINE n == Len(objects)
             a == NumArgs(m)
             s == JTop.stack
  <1>1. /\ n \in Nat \ {0} /\ n \in Nat /\ s \in Seq(Operand(n)) /\ Len(s) \in Nat
        /\ Top.stack = Operands(s)
    BY FetchDef, MatchLen DEF Match
  <1>2. /\ a \in Nat /\ Needed(m) = a + 1 /\ Needed(m) \in 0..Len(s)
        /\ \A k \in 1..a : /\ JArg(m, k) = Peek(s, a - k) /\ JArg(m, k) \in Operand(n)
                           /\ Passes(Params(m)[k], JArg(m, k))
                           /\ Params(m)[k].dims \in Nat /\ Params(m)[k].elem \in Base \cup {"L"}
        /\ JObject(m) \in Operand(n) /\ IsRef(JObject(m))
    BY MethodDef, ArgDef
  <1> HIDE DEF n
  <1>3. CASE Narrow(m)
    <2>1. a \in 0..(Needed(m) - 1)
      BY <1>2
    <2>2. Peek(Top.stack, a) = Peek(s, a)
      BY <1>3, <2>1, ArgSingle
    <2>3. Peek(s, a) = JObject(m)
      BY DEF JObject
    <2>4. JObject(m).v \in 0..(n - 1)
      BY <1>2 DEF Operand
    <2> QED
      BY <2>2, <2>3, <2>4 DEF n
  <1>4. CASE ~Narrow(m)
    <2>1. PICK k \in 1..a : Params(m)[k].elem \in {"J", "D"}
      BY <1>4 DEF Narrow
    <2>2. k = 1 /\ a = 1 /\ a - k = 0
      BY <1>2, <2>1
    <2>3. Category(Peek(s, 0)) = 2
      BY <1>1, <1>2, <2>1, <2>2, PassesDef
    <2>4. s # <<>> /\ Peek(s, 0) = Last(s)
      <3>1. Len(s) - 0 = Len(s) /\ Len(s) # 0
        BY <1>1, <1>2
      <3> QED
        BY <3>1 DEF Peek, Last
    <2>5. Closed(Operand(n))
      BY <1>1, OperandClosed
    <2>6. Peek(Operands(s), 1) = Op(Last(s).t, 0)
      BY <1>1, <2>3, <2>4, <2>5, PopDouble
    <2>7. Peek(Top.stack, a).v = 0
      BY <1>1, <2>2, <2>6 DEF Op
    <2> QED
      BY <1>1, <1>4, <2>7 DEF n
  <1> QED
    BY <1>3, <1>4

\* invokevirtual does: the method found is that of JVMS 7 (VirtualAgrees).
LEMMA InvokeVirtualInv ==
    ASSUME InterpInv, InvokeVirtual
    PROVE  InterpInv'
  <1> DEFINE n == Len(objects)
             a(m) == NumArgs(m)
             obj(m) == Peek(Top.stack, NumArgs(m))
             jclass(m) == ClassOf(JObject(m))
             target(m) == Overriding(h, ClassOf(obj(m)), m)
             hidden(m, c) == h.access[c][m] = "package" /\ ~Siblings(h, jclass(m), c)
             dev(m, c) == \/ a(m) > 1 \/ OddArgs(m) \/ JObject(m) = Null
                          \/ ~Declares(h, c, m) \/ hidden(m, c) \/ ~Found(jclass(m), m)
             v(m) == [LocalsFrom(a(m)) EXCEPT ![0] = Refer(obj(m).v)]
  <1>1. PICK m \in Methods, c \in h.names :
            /\ Take(Ins("virtual", m, c)) /\ objects' = objects
            /\ IF ~Matching(m) \/ a(m) > 1 THEN Fail(dev(m, c), "panic")
               ELSE IF ~Declares(h, c, m) \/ target(m).is = "none" THEN Fail(dev(m, c), "error")
               ELSE IF target(m).is = "panic" THEN Fail(dev(m, c), "panic")
               ELSE Run(dev(m, c), Call(m, target(m).class, v(m)), JCall(m, Selected(h, jclass(m), c, m)))
    BY DEF InvokeVirtual
  <1>2. /\ Legal(Ins("virtual", m, c)) /\ n \in Nat /\ n \in Nat \ {0} /\ h \in Hierarchies /\ Fetch
        /\ Top.stack \in Seq(Operand(n)) /\ Len(Top.stack) \in Nat
    BY <1>1, TakeDef
  <1>3. /\ ~IsStatic(m) /\ ~IsInit(m) /\ CanCall(m, c) /\ c \in Classes
        /\ h.access[c][m] # "private" /\ objects \in Seq(Classes)
    <2>1. ~IsStatic(m) /\ ~IsInit(m) /\ CanCall(m, c) /\ h.access[c][m] # "private"
      BY <1>2 DEF Legal, Ins
    <2>2. h.names \subseteq Classes
      BY <1>2, CodeAssumption
    <2> QED
      BY <2>1, <2>2 DEF InterpInv
  <1>4. /\ a(m) \in Nat /\ a(m) <= MaxLocal + 2 /\ Needed(m) = a(m) + 1 /\ Needed(m) \in 0..Len(Top.stack)
        /\ \A k \in 1..a(m) : /\ JArg(m, k) = Peek(JTop.stack, a(m) - k) /\ JArg(m, k) \in Operand(n)
                              /\ Passes(Params(m)[k], JArg(m, k))
                              /\ Params(m)[k].dims \in Nat /\ Params(m)[k].elem \in Base \cup {"L"}
        /\ JObject(m) \in Operand(n) /\ IsRef(JObject(m))
    BY <1>2, <1>3, MethodDef, ArgDef
  <1>5. ASSUME a(m) <= 1
        PROVE  /\ obj(m).v \in 0..(n - 1)
               /\ Narrow(m) => obj(m) = JObject(m)
               /\ ClassOf(obj(m)) \in Classes /\ v(m) \in Variables(n)
               /\ v(m) = [i \in 0..a(m) |-> IF i = 0 THEN Refer(obj(m).v) ELSE Peek(Top.stack, a(m) - i)]
    <2>1. obj(m).v \in 0..(n - 1) /\ (Narrow(m) => obj(m) = JObject(m))
      BY <1>2, <1>3, <1>5, ObjectOperand
    <2>2. ClassOf(obj(m)) \in Classes
      <3>1. obj(m).v + 1 \in 1..n
        BY <1>2, <2>1
      <3> HIDE DEF obj
      <3> QED
        BY <1>3, <3>1, ElementOfSeq DEF ClassOf
    <2>3. v(m) = [i \in 0..a(m) |-> IF i = 0 THEN Refer(obj(m).v) ELSE Peek(Top.stack, a(m) - i)]
      <3> HIDE DEF obj
      <3> QED
        BY DEF LocalsFrom
    <2>4. Refer(obj(m).v) \in Operand(n)
      BY <1>2, <2>1, OperandMade
    <2>5. \A i \in 0..a(m) : a(m) - i \in 0..(Len(Top.stack) - 1)
      BY <1>2, <1>4
    <2>6. \A i \in 0..a(m) : Peek(Top.stack, a(m) - i) \in Operand(n)
      BY <1>2, <2>5, PeekType
    <2>7. v(m) \in [0..a(m) -> Operand(n)]
      <3> HIDE DEF v, obj
      <3> QED
        BY <2>3, <2>4, <2>6
    <2>8. 0..a(m) \in SUBSET Slots
      BY <1>4, BoundsAssumption DEF Slots
    <2>9. v(m) \in Variables(n)
      <3> HIDE DEF v
      <3> QED
        BY <2>7, <2>8 DEF Variables
    <2> QED
      BY <2>1, <2>2, <2>3, <2>9
  <1>6. ASSUME ~dev(m, c)
        PROVE  /\ a(m) <= 1 /\ Narrow(m) /\ Matching(m) /\ Declares(h, c, m)
               /\ target(m) = Some(jclass(m)) /\ Selected(h, jclass(m), c, m) = jclass(m)
               /\ v(m) = JLocals(m)
    <2>1. /\ a(m) <= 1 /\ ~OddArgs(m) /\ JObject(m) # Null /\ Declares(h, c, m)
          /\ ~hidden(m, c) /\ Found(jclass(m), m)
      BY <1>4, <1>6
    <2>2. /\ \A k \in 1..a(m) : Params(m)[k].elem \notin {"J", "D", "C"} /\ JArg(m, k) # Null
          /\ Narrow(m)
      BY <2>1 DEF OddArgs, Narrow
    <2>3. obj(m) = JObject(m) /\ jclass(m) = ClassOf(obj(m)) /\ jclass(m) \in Classes
      BY <1>5, <2>1, <2>2
    <2>4. Refer(obj(m).v) = obj(m)
      <3>1. JObject(m).t = "ClassReference"
        BY <1>4, <2>1 DEF Operand, IsRef
      <3>2. JObject(m) = [t |-> JObject(m).t, v |-> JObject(m).v]
        BY <1>4 DEF Operand
      <3> QED
        BY <2>3, <3>1, <3>2 DEF Refer, Op
    <2>5. target(m) = Some(jclass(m)) /\ Selected(h, jclass(m), c, m) = jclass(m)
      <3>1. Subtype(h, jclass(m), c)
        BY <1>3, <2>1 DEF CanCall
      <3>2. /\ jclass(m) # Object /\ Declares(h, jclass(m), m) /\ Declares(h, h.super[jclass(m)], m)
            /\ h.access[h.super[jclass(m)]][m] \in {"public", "protected"}
                 \/ Siblings(h, jclass(m), h.super[jclass(m)])
        BY <2>1 DEF Found
      <3>3. ~(h.access[c][m] = "package" /\ ~Siblings(h, jclass(m), c))
        BY <2>1
      <3> HIDE DEF jclass
      <3>4. Overriding(h, jclass(m), m) = Some(jclass(m)) /\ Selected(h, jclass(m), c, m) = jclass(m)
        BY <1>2, <1>3, <2>1, <2>3, <3>1, <3>2, <3>3, VirtualAgrees
      <3> QED
        BY <2>3, <3>4
    <2>6. Matching(m)
      <3> SUFFICES ASSUME NEW i \in 1..a(m) PROVE MatchesOperand(Params(m)[i], Peek(Top.stack, i - 1).t)
        BY DEF Matching
      <3>1. i = 1 /\ a(m) = 1 /\ i - 1 = 0 /\ a(m) - i = 0 /\ 0 \in 0..(Needed(m) - 1)
        BY <1>4, <2>1
      <3>2. Peek(Top.stack, 0) = JArg(m, i)
        BY <1>2, <1>3, <1>4, <2>2, <3>1, ArgSingle
      <3>3. MatchesOperand(Params(m)[i], JArg(m, i).t)
        BY <1>2, <1>4, <2>2, PassesDef
      <3> QED
        BY <3>1, <3>2, <3>3
    <2>7. v(m) = JLocals(m)
      <3>1. JLocals(m) = [i \in 0..Needed(m) - 1 |-> Peek(Top.stack, Needed(m) - 1 - i)]
        BY <1>1, <1>3, <2>2, CallAlike
      <3>2. Needed(m) - 1 = a(m) /\ a(m) - 0 = a(m)
        BY <1>4
      <3>3. v(m) = [i \in 0..a(m) |-> IF i = 0 THEN Refer(obj(m).v) ELSE Peek(Top.stack, a(m) - i)]
        BY <1>5, <2>1
      <3>4. \A i \in 0..a(m) : (IF i = 0 THEN Refer(obj(m).v) ELSE Peek(Top.stack, a(m) - i))
                                  = Peek(Top.stack, a(m) - i)
        BY <2>4, <3>2
      <3>5. [i \in 0..a(m) |-> IF i = 0 THEN Refer(obj(m).v) ELSE Peek(Top.stack, a(m) - i)]
              = [i \in 0..a(m) |-> Peek(Top.stack, a(m) - i)]
        BY <3>4
      <3> HIDE DEF v, obj, a
      <3>6. JLocals(m) = [i \in 0..a(m) |-> Peek(Top.stack, a(m) - i)]
        BY <3>1, <3>2
      <3> QED
        BY <3>3, <3>5, <3>6
    <2> QED
      BY <2>1, <2>2, <2>5, <2>6, <2>7
  <1>7. CASE ~Matching(m) \/ a(m) > 1
    <2>1. dev(m, c) /\ Fail(dev(m, c), "panic")
      <3> HIDE DEF dev
      <3> QED BY <1>1, <1>4, <1>6, <1>7
    <2> HIDE DEF dev
    <2> QED
      BY <1>1, <2>1, FailedInv
  <1>8. CASE ~(~Matching(m) \/ a(m) > 1)
    <2>1. a(m) <= 1
      BY <1>4, <1>8
    <2>2. target(m) \in {Panics, None} \cup {Some(d) : d \in Classes}
      BY <1>2, <1>5, <2>1, OverridingType
    <2> HIDE DEF dev, target, v
    <2>3. CASE ~Declares(h, c, m) \/ target(m).is = "none"
      <3>1. Fail(dev(m, c), "error")
        BY <1>1, <1>8, <2>3
      <3>2. dev(m, c)
        BY <1>6, <2>3 DEF Some
      <3> QED
        BY <1>1, <3>1, <3>2, FailedInv
    <2>4. CASE Declares(h, c, m) /\ target(m).is = "panic"
      <3>1. Fail(dev(m, c), "panic")
        BY <1>1, <1>8, <2>4
      <3>2. dev(m, c)
        BY <1>6, <2>4 DEF Some
      <3> QED
        BY <1>1, <3>1, <3>2, FailedInv
    <2>5. CASE Declares(h, c, m) /\ target(m).is # "none" /\ target(m).is # "panic"
      <3> DEFINE t == target(m).class
                 js == JCall(m, Selected(h, jclass(m), c, m))
      <3>1. Run(dev(m, c), Call(m, t, v(m)), js)
        BY <1>1, <1>8, <2>5
      <3>2. t \in Classes
        BY <2>2, <2>5 DEF Panics, None, Some
      <3>3. dev(m, c) \/ (Narrow(m) /\ v(m) = JLocals(m) /\ js = JCall(m, t))
        <4>1. ~dev(m, c) => Selected(h, jclass(m), c, m) = t
          BY <1>6 DEF Some
        <4> QED
          BY <1>6, <4>1
      <3>4. v(m) \in Variables(n)
        BY <1>5, <2>1
      <3> HIDE DEF t, js
      <3> QED
        BY <1>1, <1>3, <3>1, <3>2, <3>3, <3>4, CallStep DEF n
    <2> QED
      BY <2>3, <2>4, <2>5
  <1> QED
    BY <1>7, <1>8

\* With parameters that read the same in either order, the comparison in the
\* order of popping is that of each argument with its own parameter.
LEMMA MatchingDef ==
    ASSUME InterpInv, Fetch, NEW m \in Methods, NEW c, CanCall(m, c), Narrow(m), ~OddArgs(m),
           \A k \in 1..NumArgs(m) : Params(m)[k].elem = Params(m)[NumArgs(m) + 1 - k].elem
    PROVE  Matching(m)
  <1> DEFINE a == NumArgs(m)
             n == Len(objects)
  <1> SUFFICES ASSUME NEW i \in 1..a PROVE MatchesOperand(Params(m)[i], Peek(Top.stack, i - 1).t)
    BY DEF Matching
  <1>1. /\ a \in Nat /\ Needed(m) \in Nat /\ Needed(m) >= a
        /\ \A k \in 1..a : Params(m)[k].dims \in Nat /\ Params(m)[k].elem \in Base \cup {"L"}
    BY MethodDef
  <1>2. \A k \in 1..a : /\ JArg(m, k) = Peek(JTop.stack, a - k) /\ JArg(m, k) \in Operand(n)
                        /\ Passes(Params(m)[k], JArg(m, k))
    BY ArgDef
  <1>3. n \in Nat /\ \A k \in 1..a : Params(m)[k].elem # "C" /\ JArg(m, k) # Null
    BY FetchDef DEF OddArgs
  <1>4. \A k \in 1..a : Params(m)[k].elem = Params(m)[a + 1 - k].elem
    OBVIOUS
  <1> HIDE DEF a, n
  <1>5. \A k \in 1..a : MatchesOperand(Params(m)[k], JArg(m, k).t) /\ Params(m)[k].dims = 0
    BY <1>1, <1>2, <1>3, PassesDef
  <1> DEFINE k == a + 1 - i
  <1>6. k \in 1..a /\ a - k = i - 1 /\ i - 1 \in 0..(Needed(m) - 1)
    BY <1>1
  <1>7. Params(m)[i].elem = Params(m)[k].elem
    BY <1>4
  <1> HIDE DEF k
  <1>8. Peek(Top.stack, i - 1) = JArg(m, k)
    BY <1>2, <1>6, ArgSingle
  <1>9. MatchesOperand(Params(m)[i], JArg(m, k).t) = MatchesOperand(Params(m)[k], JArg(m, k).t)
    BY <1>5, <1>6, <1>7, MatchesElem
  <1> QED
    BY <1>5, <1>6, <1>8, <1>9

\* invokespecial does, of initialisers, private methods and superclasses.
LEMMA InvokeSpecialInv ==
    ASSUME InterpInv, InvokeSpecial
    PROVE  InterpInv'
  <1> DEFINE n == Len(objects)
             a(m) == NumArgs(m)
             target(m, c) == SpecialTarget(h, Top.class, c, m, IsInit(m))
             high(m, c) == ~IsInit(m) /\ (c = JTop.class \/ Declares(h, h.super[JTop.class], m))
             mixed(m) == \E k \in 1..a(m) : Params(m)[k].elem # Params(m)[a(m) + 1 - k].elem
             dev(m, c) == \/ high(m, c) \/ mixed(m) \/ OddArgs(m) \/ JObject(m) = Null
                          \/ ~Declares(h, c, m)
             v(m) == LocalsFrom(a(m))
             sel(m, c) == SpecialSelected(h, JTop.class, c, m, IsInit(m))
  <1>1. PICK m \in Methods, c \in h.names :
            /\ Take(Ins("special", m, c)) /\ objects' = objects
            /\ IF target(m, c).is = "panic" THEN Fail(dev(m, c), "panic")
               ELSE IF target(m, c).is = "none" THEN Fail(dev(m, c), "error")
               ELSE IF ~Matching(m) THEN Fail(dev(m, c), "panic")
               ELSE Run(dev(m, c), Call(m, target(m, c).class, v(m)), JCall(m, sel(m, c)))
    BY DEF InvokeSpecial
  <1>2. /\ Legal(Ins("special", m, c)) /\ n \in Nat /\ n \in Nat \ {0} /\ h \in Hierarchies /\ Fetch
        /\ Top.stack \in Seq(Operand(n)) /\ Len(Top.stack) \in Nat
    BY <1>1, TakeDef
  <1>3. /\ ~IsStatic(m) /\ CanCall(m, c) /\ c \in Classes /\ ~h.isInterface[c]
        /\ IsInit(m) \/ (JTop.class # Object /\ Subtype(h, JTop.class, c))
        /\ IsInit(m) \in BOOLEAN
        /\ Top.class = JTop.class /\ JTop.class \in Classes
    <2>1. /\ ~IsStatic(m) /\ CanCall(m, c)
          /\ IsInit(m) \/ (JTop.class # Object /\ Subtype(h, JTop.class, c))
      BY <1>2 DEF Legal, Ins
    <2>2. h.names \subseteq Classes
      BY <1>2, CodeAssumption
    <2>3. Top.class = JTop.class /\ JTop.class \in Classes
      BY <1>2, FetchDef DEF Match, JavaFrames
    <2> QED
      BY <2>1, <2>2, <2>3, MethodDef DEF CanCall
  <1>4. /\ a(m) \in Nat /\ a(m) <= MaxLocal + 2 /\ Needed(m) = a(m) + 1 /\ Needed(m) \in 0..Len(Top.stack)
    BY <1>2, <1>3, MethodDef, ArgDef
  <1>5. /\ v(m) \in Variables(n)
        /\ v(m) = [i \in 0..a(m) |-> Peek(Top.stack, a(m) - i)]
    <2>1. \A i \in 0..a(m) : a(m) - i \in 0..(Len(Top.stack) - 1)
      BY <1>2, <1>4
    <2>2. \A i \in 0..a(m) : Peek(Top.stack, a(m) - i) \in Operand(n)
      BY <1>2, <2>1, PeekType
    <2>3. v(m) = [i \in 0..a(m) |-> Peek(Top.stack, a(m) - i)]
      BY DEF LocalsFrom
    <2>4. v(m) \in [0..a(m) -> Operand(n)]
      <3> HIDE DEF v
      <3> QED
        BY <2>2, <2>3
    <2>5. 0..a(m) \in SUBSET Slots
      BY <1>4, BoundsAssumption DEF Slots
    <2>6. v(m) \in Variables(n)
      <3> HIDE DEF v
      <3> QED
        BY <2>4, <2>5 DEF Variables
    <2> QED
      BY <2>3, <2>6
  <1>6. ASSUME ~dev(m, c)
        PROVE  /\ Narrow(m) /\ Matching(m)
               /\ target(m, c) = Some(sel(m, c)) /\ v(m) = JLocals(m)
    <2>1. ~high(m, c) /\ ~mixed(m) /\ ~OddArgs(m) /\ Declares(h, c, m)
      BY <1>6
    <2>2. Narrow(m)
      BY <2>1 DEF OddArgs, Narrow
    <2>3. target(m, c) = Some(sel(m, c))
      <3>1. \/ IsInit(m)
            \/ /\ JTop.class # Object /\ JTop.class # c /\ Subtype(h, JTop.class, c)
               /\ ~Declares(h, h.super[JTop.class], m)
        BY <1>3, <2>1
      <3>2. SpecialTarget(h, JTop.class, c, m, IsInit(m)) = Some(SpecialSelected(h, JTop.class, c, m, IsInit(m)))
        BY <1>2, <1>3, <2>1, <3>1, SpecialAgrees
      <3> QED
        BY <1>3, <3>2
    <2>4. Matching(m)
      BY <1>2, <1>3, <2>1, <2>2, MatchingDef
    <2>5. v(m) = JLocals(m)
      <3>1. JLocals(m) = [i \in 0..Needed(m) - 1 |-> Peek(Top.stack, Needed(m) - 1 - i)]
        BY <1>1, <1>3, <2>2, CallAlike
      <3>2. Needed(m) - 1 = a(m)
        BY <1>4
      <3> HIDE DEF v, a
      <3>3. JLocals(m) = [i \in 0..a(m) |-> Peek(Top.stack, a(m) - i)]
        BY <3>1, <3>2
      <3> QED
        BY <1>5, <3>3
    <2> QED
      BY <2>2, <2>3, <2>4, <2>5
  <1>7. target(m, c) \in {Panics, None} \cup {Some(d) : d \in Classes}
    BY <1>2, <1>3, SpecialTargetType
  <1> HIDE DEF dev, target, v, sel
  <1>8. CASE target(m, c).is = "panic"
    <2>1. Fail(dev(m, c), "panic")
      BY <1>1, <1>8
    <2>2. dev(m, c)
      BY <1>6, <1>8 DEF Some
    <2> QED
      BY <1>1, <2>1, <2>2, FailedInv
  <1>9. CASE target(m, c).is = "none"
    <2>1. Fail(dev(m, c), "error")
      BY <1>1, <1>9
    <2>2. dev(m, c)
      BY <1>6, <1>9 DEF Some
    <2> QED
      BY <1>1, <2>1, <2>2, FailedInv
  <1>10. CASE target(m, c).is # "panic" /\ target(m, c).is # "none" /\ ~Matching(m)
    <2>1. Fail(dev(m, c), "panic")
      BY <1>1, <1>10
    <2>2. dev(m, c)
      BY <1>6, <1>10
    <2> QED
      BY <1>1, <2>1, <2>2, FailedInv
  <1>11. CASE target(m, c).is # "panic" /\ target(m, c).is # "none" /\ Matching(m)
    <2> DEFINE t == target(m, c).class
               js == JCall(m, sel(m, c))
    <2>1. Run(dev(m, c), Call(m, t, v(m)), js)
      BY <1>1, <1>11
    <2>2. t \in Classes
      BY <1>7, <1>11 DEF Panics, None, Some
    <2>3. dev(m, c) \/ (Narrow(m) /\ v(m) = JLocals(m) /\ js = JCall(m, t))
      <3>1. ~dev(m, c) => sel(m, c) = t
        BY <1>6 DEF Some
      <3> QED
        BY <1>6, <3>1
    <2> HIDE DEF t, js
    <2> QED
      BY <1>1, <1>3, <1>5, <2>1, <2>2, <2>3, CallStep DEF n
  <1> QED
    BY <1>8, <1>9, <1>10, <1>11

\* A long or double is popped by step as two operands.
LEMMA MatchPopDouble ==
    ASSUME NEW n \in Nat, NEW f \in CodeFrames(n), NEW j \in JavaFrames(n), Match(f, j),
           j.stack # <<>>, Category(Last(j.stack)) = 2
    PROVE  /\ 2 \in 0..Len(f.stack) /\ Popped(j, 1) \in JavaFrames(n)
           /\ Match(Popped(f, 2), Popped(j, 1))
  <1>1. Closed(Operand(n)) /\ j.stack \in Seq(Operand(n)) /\ f.stack = Operands(j.stack)
        /\ Len(j.stack) \in Nat
    BY OperandClosed, LenProperties DEF JavaFrames, Match
  <1>2. 1 \in 0..Len(j.stack)
    <2>1. Len(j.stack) # 0
      BY <1>1, EmptySeq
    <2> QED
      BY <1>1, <2>1
  <1>3. /\ Drop(f.stack, 2) = Operands(Drop(j.stack, 1))
        /\ Len(f.stack) = Len(Operands(Drop(j.stack, 1))) + 2
    BY <1>1, PopDouble
  <1>4. Drop(j.stack, 1) \in Seq(Operand(n))
    BY <1>1, <1>2, DropDef
  <1>5. Len(Operands(Drop(j.stack, 1))) \in Nat
    BY <1>1, <1>4, OperandsLen, LenProperties
  <1>6. 2 \in 0..Len(f.stack)
    BY <1>3, <1>5
  <1>7. LET g == Popped(f, 2)
        IN  /\ g \in CodeFrames(n) /\ g.stack = Drop(f.stack, 2) /\ g.class = f.class
            /\ g.ret = f.ret /\ g.locals = f.locals
    BY <1>6, CodePop
  <1>8. LET g == Popped(j, 1)
        IN  /\ g \in JavaFrames(n) /\ g.stack = Drop(j.stack, 1) /\ g.class = j.class
            /\ g.ret = j.ret /\ g.locals = j.locals
    BY <1>2, JavaPop
  <1> QED
    BY <1>3, <1>6, <1>7, <1>8 DEF Match

\* The argument of a native method is taken whole.
LEMMA NativePops ==
    ASSUME InterpInv, Fresh, NEW nat \in Natives, Len(JTop.stack) >= Len(nat.params),
           \A k \in 1..Len(nat.params) : MatchesOperand(nat.params[k], Args(JTop.stack, Len(nat.params))[k].t)
    PROVE  LET l == Len(nat.params)
               pops == IF l > 0 /\ nat.params[1].elem = "J" THEN 2 ELSE l
           IN  /\ pops \in 0..Len(Top.stack) /\ Popped(JTop, l) \in JavaFrames(Len(objects))
               /\ Match(Popped(Top, pops), Popped(JTop, l))
  <1> DEFINE n == Len(objects)
             l == Len(nat.params)
             pops == IF l > 0 /\ nat.params[1].elem = "J" THEN 2 ELSE l
             s == JTop.stack
  <1>1. /\ n \in Nat /\ Top \in CodeFrames(n) /\ JTop \in JavaFrames(n) /\ Match(Top, JTop)
        /\ s \in Seq(Operand(n)) /\ Len(s) \in Nat /\ Len(s) >= l
    BY FreshDef
  <1>2. CASE nat.params = <<>>
    <2>1. l = 0 /\ pops = 0 /\ 0 \in 0..Len(s) /\ Single(s, 0)
      BY <1>1, <1>2 DEF Single
    <2> HIDE DEF n, l, pops
    <2>2. /\ 0 \in 0..Len(Top.stack) /\ Popped(JTop, 0) \in JavaFrames(n)
          /\ Match(Popped(Top, 0), Popped(JTop, 0))
      BY <1>1, <2>1, MatchPop
    <2> QED
      BY <2>1, <2>2 DEF n, l, pops
  <1>3. CASE nat.params = <<nat.params[1]>> /\ nat.params[1].dims = 0 /\ nat.params[1].elem \in {"I", "J", "L"}
    <2>1. l = 1 /\ pops = (IF nat.params[1].elem = "J" THEN 2 ELSE 1)
      <3> DEFINE p == nat.params[1]
      <3>1. nat.params = <<p>>
        BY <1>3
      <3> HIDE DEF p
      <3>2. l = 1
        BY <3>1
      <3> QED
        BY <3>2
    <2>2. 1 \in 0..Len(s) /\ 0 \in 0..(Len(s) - 1) /\ s # <<>> /\ Len(s) - 1 + 1 = Len(s) /\ Len(s) - 0 = Len(s)
      BY <1>1, <2>1
    <2>3. Args(s, 1)[1] = Last(s)
      <3> HIDE DEF n, s
      <3>1. \A i \in 1..1 : Args(s, 1)[i] = s[Len(s) - 1 + i]
        BY <1>1, <2>2, DropDef
      <3>2. Args(s, 1)[1] = s[Len(s) - 1 + 1]
        BY <3>1
      <3> QED
        BY <2>2, <3>2 DEF Last
    <2>4. MatchesOperand(nat.params[1], Last(s).t)
      BY <2>1, <2>3
    <2>5. CASE nat.params[1].elem = "J"
      <3>1. Category(Last(s)) = 2
        BY <1>3, <2>4, <2>5 DEF MatchesOperand, Category
      <3> HIDE DEF n, l, pops
      <3>2. /\ 2 \in 0..Len(Top.stack) /\ Popped(JTop, 1) \in JavaFrames(n)
            /\ Match(Popped(Top, 2), Popped(JTop, 1))
        BY <1>1, <2>2, <3>1, MatchPopDouble
      <3> QED
        BY <2>1, <2>5, <3>2 DEF n, l, pops
    <2>6. CASE nat.params[1].elem # "J"
      <3>1. Category(Last(s)) = 1
        <4>1. CASE nat.params[1].elem = "I"
          BY <1>3, <2>4, <4>1 DEF MatchesOperand, Category
        <4>2. CASE nat.params[1].elem = "L"
          BY <1>3, <2>4, <4>2 DEF MatchesOperand, Category
        <4> QED
          BY <1>3, <2>6, <4>1, <4>2
      <3>2. Single(s, 1)
        <4>1. \A k \in 0..(1 - 1) : k = 0
          OBVIOUS
        <4> QED
          BY <2>2, <3>1, <4>1 DEF Single, Peek, Last
      <3> HIDE DEF n, l, pops
      <3>3. /\ 1 \in 0..Len(Top.stack) /\ Popped(JTop, 1) \in JavaFrames(n)
            /\ Match(Popped(Top, 1), Popped(JTop, 1))
        BY <1>1, <2>2, <3>2, MatchPop
      <3> QED
        BY <2>1, <2>6, <3>3 DEF n, l, pops
    <2> QED
      BY <2>5, <2>6
  <1> QED
    BY <1>2, <1>3, NativesAssumption

\* A call of a native method does, of one parameter at most.
LEMMA InvokeNativeInv ==
    ASSUME InterpInv, InvokeNative
    PROVE  InterpInv'
  <1> DEFINE n == Len(objects)
             l(nat) == Len(nat.params)
             pops(nat) == IF l(nat) > 0 /\ nat.params[1].elem = "J" THEN 2 ELSE l(nat)
             out(nat) == CASE nat.out = "long" -> <<Op("Long", 1)>>
                           [] nat.out = "int"  -> <<Op("Int", 1)>>
                           [] OTHER            -> <<>>
  <1>1. PICK nat \in Natives :
            /\ Fresh /\ objects' = objects /\ Len(JTop.stack) >= l(nat)
            /\ \A k \in 1..l(nat) : MatchesOperand(nat.params[k], Args(JTop.stack, l(nat))[k].t)
            /\ IF nat.out = "panic" THEN Fail(TRUE, "panic")
               ELSE Run(nat.out = "long", With(frames, Pushed(Popped(Top, pops(nat)), out(nat))),
                        With(java, Pushed(Popped(JTop, l(nat)), out(nat))))
    BY DEF InvokeNative
  <1>2. Fetch /\ n \in Nat /\ n \in Nat \ {0}
    BY <1>1, FreshDef
  <1> DEFINE f == Popped(Top, pops(nat))
             j == Popped(JTop, l(nat))
             g == Pushed(f, out(nat))
             d == Pushed(j, out(nat))
  <1>3. pops(nat) \in 0..Len(Top.stack) /\ j \in JavaFrames(n) /\ Match(f, j)
    BY <1>1, NativePops
  <1> HIDE DEF pops
  <1>4. f \in CodeFrames(n) /\ f.ret = Top.ret /\ ~f.done /\ f.parked = <<>>
    BY <1>1, <1>3, PopPlaced
  <1> HIDE DEF l, n, f, j
  <1>5. nat.out \in {"panic", "long", "int", "none"}
    BY NativesAssumption
  <1>6. CASE nat.out = "panic"
    BY <1>1, <1>6, FailedInv
  <1>7. CASE nat.out = "none"
    <2>1. out(nat) = <<>>
      BY <1>7
    <2>2. f.stack \in Seq(Operand(n)) /\ j.stack \in Seq(Operand(n))
      BY <1>3, <1>4 DEF CodeFrames, JavaFrames
    <2>3. g = f /\ d = j
      <3>1. f.stack \o <<>> = f.stack /\ j.stack \o <<>> = j.stack
        BY <2>2, ConcatEmptySeq
      <3>2. [f EXCEPT !.stack = f.stack] = f /\ [j EXCEPT !.stack = j.stack] = j
        BY <1>3, <1>4 DEF CodeFrames, JavaFrames
      <3> QED
        BY <2>1, <3>1, <3>2 DEF Pushed
    <2>4. Run(FALSE, With(frames, f), With(java, j))
      BY <1>1, <1>7, <2>3 DEF f, j
    <2>5. Placed(Top, f, <<>>, n)
      BY <1>2, <1>4, PlacedTop
    <2> QED
      BY <1>1, <1>2, <1>3, <2>4, <2>5, TopInv DEF n
  <1>8. CASE nat.out \in {"long", "int"}
    <2> DEFINE x == IF nat.out = "long" THEN Op("Long", 1) ELSE Op("Int", 1)
    <2>1. out(nat) = <<x>>
      BY <1>8
    <2>2. x \in Operand(n)
      BY <1>2, OperandMade
    <2>3. nat.out = "int" => Halves(x) = <<x>>
      BY DEF Halves, Category, Op
    <2> HIDE DEF x
    <2>4. Pushed(f, <<x>>) \in CodeFrames(n) /\ Pushed(f, <<x>>).ret = f.ret
          /\ Pushed(f, <<x>>).done = f.done /\ Pushed(f, <<x>>).parked = f.parked
      <3>1. <<x>> \in Seq(Operand(n))
        BY <2>2
      <3> QED
        BY <1>2, <1>4, <3>1, CodePush
    <2>5. Pushed(j, <<x>>) \in JavaFrames(n) /\ Match(Pushed(f, Halves(x)), Pushed(j, <<x>>))
      BY <1>2, <1>3, <1>4, <2>2, MatchPush
    <2>6. Placed(Top, Pushed(f, <<x>>), <<>>, n)
      BY <1>2, <1>4, <2>4, PlacedTop
    <2>7. Run(nat.out = "long", With(frames, Pushed(f, <<x>>)), With(java, Pushed(j, <<x>>)))
      BY <1>1, <1>8, <2>1 DEF f, j
    <2>8. nat.out = "long" \/ \E i \in JavaFrames(n) :
                With(java, Pushed(j, <<x>>)) = With(java, i) /\ Match(Pushed(f, <<x>>), i)
      BY <1>8, <2>3, <2>5
    <2> QED
      BY <1>1, <1>2, <2>6, <2>7, <2>8, TopInv DEF n
  <1> QED
    BY <1>5, <1>6, <1>7, <1>8

\* new does: the key is that of the object appended to the slab.
LEMMA NewInv ==
    ASSUME InterpInv, New
    PROVE  InterpInv'
  <1> DEFINE n == Len(objects)
             x == Refer(n)
             g == Pushed(Unparked, <<x>>)
             d == Pushed(JTop, <<x>>)
  <1>1. PICK c \in h.names :
            /\ Take(Ins("new", NoMethod, c)) /\ objects' = Append(objects, c)
            /\ Run(FALSE, With(frames, g), With(java, d))
    BY DEF New
  <1>2. /\ Fetch /\ n \in Nat /\ h \in Hierarchies /\ Unparked \in CodeFrames(n)
        /\ Unparked.ret = Top.ret /\ ~Unparked.done /\ Unparked.parked = <<>>
        /\ JTop \in JavaFrames(n) /\ Match(Unparked, JTop)
    BY <1>1, TakeDef
  <1>3. /\ objects \in Seq(Classes) /\ objects # <<>>
        /\ frames \in Seq(CodeFrames(n)) /\ java \in Seq(JavaFrames(n))
        /\ frames # <<>> /\ java # <<>>
    BY <1>2, FetchDef DEF InterpInv
  <1>4. /\ objects' \in Seq(Classes) /\ Len(objects') = n + 1 /\ objects' # <<>>
    <2>1. c \in Classes
      BY <1>2, CodeAssumption
    <2> QED
      BY <1>1, <1>2, <1>3, <2>1, AppendProperties
  <1> DEFINE k == n + 1
  <1>5. k \in Nat \ {0} /\ k \in Nat /\ n \in 0..(k - 1)
    BY <1>2
  <1>6. CodeFrames(n) \subseteq CodeFrames(k) /\ JavaFrames(n) \subseteq JavaFrames(k)
    BY <1>2, FramesGrow
  <1> HIDE DEF k, n, Unparked
  <1>7. /\ Unparked \in CodeFrames(k) /\ JTop \in JavaFrames(k)
        /\ frames \in Seq(CodeFrames(k)) /\ java \in Seq(JavaFrames(k))
    BY <1>2, <1>3, <1>6
  <1>8. x \in Operand(k) /\ Halves(x) = <<x>>
    BY <1>5, OperandMade DEF Halves, Category, Refer, Op
  <1> HIDE DEF x
  <1>9. g \in CodeFrames(k) /\ g.ret = Unparked.ret /\ g.done = Unparked.done /\ g.parked = Unparked.parked
    <2>1. <<x>> \in Seq(Operand(k))
      BY <1>8
    <2> QED
      BY <1>5, <1>7, <2>1, CodePush
  <1>10. d \in JavaFrames(k) /\ Match(g, d)
    BY <1>2, <1>5, <1>7, <1>8, MatchPush
  <1> HIDE DEF g, d
  <1>11. Placed(Top, g, <<>>, k)
    BY <1>2, <1>5, <1>9, PlacedTop
  <1>12. With(frames, g) \o <<>> = With(frames, g) /\ With(java, d) \o <<>> = With(java, d)
    <2>1. With(frames, g) \in Seq(CodeFrames(k)) /\ With(java, d) \in Seq(JavaFrames(k))
      BY <1>3, <1>7, <1>9, <1>10 DEF With
    <2> QED
      BY <2>1, ConcatEmptySeq
  <1>13. Answered(With(java, d), g, <<>>, k)
    <2>1. <<>> \in Seq(JavaFrames(k)) /\ Alike(<<>>, <<>>)
      BY DEF Alike
    <2> QED
      BY <1>10, <1>12, <2>1 DEF Answered
  <1>14. Run(FALSE, With(frames, g) \o <<>>, With(java, d))
    BY <1>1, <1>12
  <1>15. k = Len(objects')
    BY <1>4 DEF k
  <1> QED
    BY ONLY <1>2, <1>4, <1>5, <1>7, <1>11, <1>13, <1>14, <1>15, InterpInv, StepInv

\* checkcast does: it accepts what JVMS 7 accepts, or the run ends.
LEMMA CheckcastInv ==
    ASSUME InterpInv, CheckcastObject
    PROVE  InterpInv'
  <1> DEFINE n == Len(objects)
             x == Last(Top.stack)
             dev(c) == x = Null \/ ClassOf(x) # c
  <1>1. PICK c \in h.names :
            /\ Take(Ins("checkcast", NoMethod, c)) /\ objects' = objects
            /\ IF x = Null THEN Run(dev(c), With(frames, Popped(Unparked, 1)), java)
               ELSE IF CheckCast(h, ClassOf(x), c) # "yes" THEN Fail(dev(c), "panic")
               ELSE Run(dev(c), With(frames, Unparked), java)
    BY DEF CheckcastObject
  <1>2. /\ Fetch /\ Legal(Ins("checkcast", NoMethod, c)) /\ n \in Nat /\ h \in Hierarchies
        /\ Unparked \in CodeFrames(n) /\ Unparked.stack = Top.stack
        /\ Unparked.ret = Top.ret /\ ~Unparked.done /\ Unparked.parked = <<>>
        /\ JTop \in JavaFrames(n) /\ Match(Unparked, JTop)
    BY <1>1, TakeDef
  <1>3. JTop.stack # <<>> /\ Category(Last(JTop.stack)) = 1
    BY <1>2 DEF Legal, Ins, Category, IsRef
  <1>4. 1 \in 0..Len(Top.stack)
    BY <1>2, <1>3, TopValue
  <1>5. c \in Classes
    BY <1>2, CodeAssumption
  <1>6. CASE x = Null
    <2> DEFINE g == Popped(Unparked, 1)
    <2>1. 1 \in 0..Len(Unparked.stack)
      BY <1>2, <1>4
    <2>2. Run(dev(c), With(frames, g), java) /\ dev(c)
      BY <1>1, <1>6
    <2> HIDE DEF n, Unparked, dev
    <2>3. g \in CodeFrames(n) /\ g.ret = Unparked.ret /\ g.done = Unparked.done /\ g.parked = Unparked.parked
      BY <1>2, <2>1, CodePop
    <2> HIDE DEF g
    <2>4. Placed(Top, g, <<>>, n)
      BY <1>2, <2>3, PlacedTop
    <2> QED
      BY <1>1, <1>2, <2>2, <2>4, TopInv DEF n
  <1>7. CASE x # Null /\ CheckCast(h, ClassOf(x), c) # "yes"
    <2>1. Fail(dev(c), "panic")
      BY <1>1, <1>7
    <2>2. dev(c)
      <3> SUFFICES ASSUME ClassOf(x) = c PROVE FALSE
        OBVIOUS
      <3>1. CheckCast(h, c, c) = "yes"
        BY <1>2, <1>5, CastFinds
      <3> QED
        BY <1>7, <3>1
    <2> HIDE DEF dev
    <2> QED
      BY <1>1, <2>1, <2>2, FailedInv
  <1>8. CASE x # Null /\ CheckCast(h, ClassOf(x), c) = "yes"
    <2>1. Run(dev(c), With(frames, Unparked), java)
      BY <1>1, <1>8
    <2> HIDE DEF n, Unparked, dev
    <2>2. Placed(Top, Unparked, <<>>, n)
      BY <1>2, PlacedTop
    <2>3. \E j \in JavaFrames(n) : java = With(java, j) /\ Match(Unparked, j)
      BY <1>2, WithTop
    <2> QED
      BY <1>1, <1>2, <2>1, <2>2, <2>3, TopInv DEF n
  <1> QED
    BY <1>6, <1>7, <1>8

\* An instruction that may be put off and pushes one operand.
LEMMA TakePush ==
    ASSUME InterpInv, NEW ins, Take(ins), objects' = objects, NEW x \in Operand(Len(objects)),
           NEW dev, NEW js, Run(dev, With(frames, Pushed(Unparked, <<x>>)), js),
           dev \/ (Category(x) = 1 /\ js = With(java, Pushed(JTop, <<x>>)))
    PROVE  InterpInv'
  <1> DEFINE n == Len(objects)
             u == Unparked
             g == Pushed(u, <<x>>)
  <1>1. /\ Fetch /\ n \in Nat /\ u \in CodeFrames(n) /\ u.ret = Top.ret /\ ~u.done /\ u.parked = <<>>
        /\ JTop \in JavaFrames(n) /\ Match(u, JTop)
    BY TakeDef
  <1>2. <<x>> \in Seq(Operand(n))
    OBVIOUS
  <1> HIDE DEF n, u
  <1>3. g \in CodeFrames(n) /\ g.ret = u.ret /\ g.done = u.done /\ g.parked = u.parked
    BY <1>1, <1>2, CodePush
  <1>4. ASSUME ~dev
        PROVE  \E j \in JavaFrames(n) : js = With(java, j) /\ Match(g, j)
    <2>1. Halves(x) = <<x>>
      BY <1>4 DEF Halves
    <2>2. Pushed(JTop, <<x>>) \in JavaFrames(n) /\ Match(g, Pushed(JTop, <<x>>))
      <3>1. x \in Operand(n)
        BY DEF n
      <3> QED
        BY <1>1, <2>1, <3>1, MatchPush
    <2> QED
      BY <1>4, <2>2
  <1>5. Run(dev, With(frames, g), js)
    BY DEF u
  <1> HIDE DEF g
  <1>6. Placed(Top, g, <<>>, n)
    BY <1>1, <1>3, PlacedTop
  <1> QED
    BY <1>1, <1>4, <1>5, <1>6, TopInv DEF n

\* One that pops operands.
LEMMA TakePop ==
    ASSUME InterpInv, NEW ins, Take(ins), objects' = objects, NEW k \in Nat, Len(JTop.stack) >= k,
           NEW dev, NEW js, Run(dev, With(frames, Popped(Unparked, k)), js),
           dev \/ (Single(JTop.stack, k) /\ js = With(java, Popped(JTop, k)))
    PROVE  InterpInv'
  <1> DEFINE n == Len(objects)
             u == Unparked
             g == Popped(u, k)
  <1>1. /\ Fetch /\ n \in Nat /\ u \in CodeFrames(n) /\ u.ret = Top.ret /\ ~u.done /\ u.parked = <<>>
        /\ JTop \in JavaFrames(n) /\ Match(u, JTop) /\ u.stack = Top.stack
        /\ Len(Top.stack) \in Nat /\ Len(JTop.stack) \in Nat /\ Len(Top.stack) >= Len(JTop.stack)
    BY TakeDef
  <1> HIDE DEF n, u
  <1>2. k \in 0..Len(u.stack) /\ k \in 0..Len(JTop.stack)
    BY <1>1
  <1>3. g \in CodeFrames(n) /\ g.ret = u.ret /\ g.done = u.done /\ g.parked = u.parked
    BY <1>1, <1>2, CodePop
  <1>4. ASSUME ~dev
        PROVE  \E j \in JavaFrames(n) : js = With(java, j) /\ Match(g, j)
    <2>1. Popped(JTop, k) \in JavaFrames(n) /\ Match(g, Popped(JTop, k))
      BY <1>1, <1>2, <1>4, MatchPop
    <2> QED
      BY <1>4, <2>1
  <1>5. Run(dev, With(frames, g), js)
    BY DEF u
  <1> HIDE DEF g
  <1>6. Placed(Top, g, <<>>, n)
    BY <1>1, <1>3, PlacedTop
  <1> QED
    BY <1>1, <1>4, <1>5, <1>6, TopInv DEF n

\* What a static holds is an operand.
LEMMA HeldType ==
    ASSUME NEW n \in Nat \ {0}, n = Len(objects), NEW k \in Hierarchies, NEW f \in k.fields
    PROVE  Held(f) \subseteq Operand(n)
  <1>1. Kind(f) \in {"Int", "Float", "Long", "Double", "Reference"}
    BY CodeAssumption
  <1>2. CASE Kind(f) = "Reference"
    <2>1. /\ Null \in Operand(n) /\ \A v \in 0..(n - 1) : Refer(v) \in Operand(n)
      BY OperandMade
    <2> QED
      BY <1>2, <2>1 DEF Held
  <1>3. CASE Kind(f) # "Reference"
    <2>1. Op(Kind(f), 1) \in Operand(n)
      BY <1>1, <1>3, OperandMade
    <2> QED
      BY <1>3, <2>1 DEF Held
  <1> QED
    BY <1>2, <1>3

\* getstatic does: an operand that is one in JVMS 7 too, or the run ends.
LEMMA GetStaticInv ==
    ASSUME InterpInv, GetStatic
    PROVE  InterpInv'
  <1> DEFINE n == Len(objects)
  <1>1. PICK f \in h.fields, c \in h.names :
            /\ Take(Ins("getstatic", f, c)) /\ objects' = objects
            /\ \/ \E x \in Held(f) : Run(Category(x) = 2, With(frames, Pushed(Unparked, <<x>>)),
                                         With(java, Pushed(JTop, <<x>>)))
               \/ Run(TRUE, With(frames, Pushed(Unparked, <<Null>>)), java)
    BY DEF GetStatic
  <1>2. n \in Nat \ {0} /\ h \in Hierarchies
    BY <1>1, TakeDef
  <1>3. Held(f) \subseteq Operand(n) /\ Null \in Operand(n)
    BY <1>1, <1>2, HeldType, OperandMade
  <1>4. ASSUME NEW x \in Held(f),
               Run(Category(x) = 2, With(frames, Pushed(Unparked, <<x>>)), With(java, Pushed(JTop, <<x>>)))
        PROVE  InterpInv'
    <2>1. Category(x) = 2 \/ Category(x) = 1
      BY DEF Category
    <2> QED
      BY <1>1, <1>3, <1>4, <2>1, TakePush
  <1>5. ASSUME Run(TRUE, With(frames, Pushed(Unparked, <<Null>>)), java)
        PROVE  InterpInv'
    BY <1>1, <1>3, <1>5, TakePush
  <1> QED
    BY <1>1, <1>4, <1>5

\* What the verifier asks for a field to be written.
LEMMA LegalPut ==
    ASSUME NEW f, NEW c
    PROVE  /\ Legal(Ins("putstatic", f, c)) => JTop.stack # <<>>
           /\ Legal(Ins("putfield", f, c)) => Len(JTop.stack) > 1 /\ IsRef(Peek(JTop.stack, 1))
  <1>1. Ins("putstatic", f, c).op = "putstatic" /\ Ins("putfield", f, c).op = "putfield"
    BY DEF Ins
  <1>2. ASSUME NEW ins, ins.op = "putstatic", Legal(ins) PROVE JTop.stack # <<>>
    BY <1>2 DEF Legal
  <1>3. ASSUME NEW ins, ins.op = "putfield", Legal(ins)
        PROVE  Len(JTop.stack) > 1 /\ IsRef(Peek(JTop.stack, 1))
    BY <1>3 DEF Legal
  <1> QED
    BY <1>1, <1>2, <1>3

\* putstatic does: a value of category 1 is one operand.
LEMMA PutStaticInv ==
    ASSUME InterpInv, PutStatic
    PROVE  InterpInv'
  <1> DEFINE x == Last(JTop.stack)
             dev == x = Null \/ Category(x) = 2
  <1>1. PICK f \in h.fields, c \in h.names :
            /\ Take(Ins("putstatic", f, c)) /\ objects' = objects
            /\ Run(dev, With(frames, Popped(Unparked, 1)), With(java, Popped(JTop, 1)))
    BY DEF PutStatic
  <1>2. Fetch /\ JTop.stack # <<>>
    BY <1>1, LegalPut DEF Take
  <1>3. Len(JTop.stack) \in Nat /\ JTop.stack \in Seq(Operand(Len(objects)))
    BY <1>1, TakeDef
  <1>4. Len(JTop.stack) >= 1
    BY <1>2, <1>3, EmptySeq
  <1>5. ~dev => Single(JTop.stack, 1)
    <2>1. Category(x) \in {1, 2}
      BY DEF Category
    <2>2. ~dev => Category(x) = 1
      BY <2>1
    <2> QED
      BY <1>2, <2>2, TopValue
  <1> HIDE DEF dev, x
  <1> QED
    BY <1>1, <1>4, <1>5, TakePop

\* putfield does: a value of category 1 is one operand, the object the next.
LEMMA PutFieldInv ==
    ASSUME InterpInv, PutField
    PROVE  InterpInv'
  <1> DEFINE x == Last(JTop.stack)
             dev == x = Null \/ Category(x) = 2 \/ Peek(JTop.stack, 1) = Null
  <1>1. PICK f \in h.fields, c \in h.names :
            /\ Take(Ins("putfield", f, c)) /\ objects' = objects
            /\ \/ Run(dev, With(frames, Popped(Unparked, 2)), With(java, Popped(JTop, 2)))
               \/ Fail(TRUE, "panic")
    BY DEF PutField
  <1>2. Len(JTop.stack) > 1 /\ IsRef(Peek(JTop.stack, 1))
    BY <1>1, LegalPut DEF Take
  <1>3. Len(JTop.stack) \in Nat
    BY <1>1, TakeDef
  <1>4. Len(JTop.stack) >= 2
    BY <1>2, <1>3
  <1>5. ~dev => Single(JTop.stack, 2)
    <2>1. Peek(JTop.stack, 0) = x
      BY <1>3 DEF Peek, Last
    <2>2. Category(Peek(JTop.stack, 1)) = 1 /\ Category(x) \in {1, 2}
      BY <1>2 DEF Category, IsRef
    <2>3. \A i \in 0..(2 - 1) : i = 0 \/ i = 1
      OBVIOUS
    <2> HIDE DEF x
    <2> QED
      BY <2>1, <2>2, <2>3 DEF Single
  <1> HIDE DEF dev, x
  <1>6. CASE Fail(TRUE, "panic")
    BY <1>1, <1>6, FailedInv DEF Take
  <1>7. CASE Run(dev, With(frames, Popped(Unparked, 2)), With(java, Popped(JTop, 2)))
    BY <1>1, <1>4, <1>5, <1>7, TakePop
  <1> QED
    BY <1>1, <1>6, <1>7

-----------------------------------------------------------------------------
(***************************************************************************)
(* The theorems.                                                           *)
(***************************************************************************)

\* The frames spawned for main satisfy the invariant.
LEMMA InitInv == Init => InterpInv
  <1> SUFFICES ASSUME Init PROVE InterpInv
    OBVIOUS
  <1> DEFINE f == Frame(h.main, "V", NoLocals)
             j == JFrame(h.main, "V", NoLocals)
  <1>1. /\ h \in Hierarchies /\ frames = <<f>> /\ java = <<j>> /\ objects = <<Text>>
        /\ status = "running" /\ h.main \in Classes
    BY CodeAssumption DEF Init
  <1>2. objects \in Seq(Classes) /\ objects # <<>> /\ Len(objects) = 1
    BY <1>1, ClassesAssumption
  <1>3. /\ f \in CodeFrames(1) /\ ~f.done /\ f.parked = <<>> /\ j \in JavaFrames(1) /\ Match(f, j)
    <2>1. NoLocals \in Variables(1) /\ \A i \in DOMAIN NoLocals : Category(NoLocals[i]) = 1
      BY NoLocalsMade
    <2> QED
      BY <1>1, <2>1, FrameMade
  <1> HIDE DEF f, j
  <1>4. frames \in Seq(CodeFrames(1)) /\ java \in Seq(JavaFrames(1)) /\ Len(frames) = 1 /\ Len(java) = 1
        /\ frames[1] = f /\ java[1] = j /\ frames # <<>>
    BY <1>1, <1>3
  <1>5. Settled(frames)
    BY <1>3, <1>4 DEF Settled, Untouched
  <1>6. LiveOf(frames) = frames /\ Alike(frames, java)
    BY <1>3, <1>4 DEF LiveOf, Alike
  <1> QED
    BY <1>1, <1>2, <1>4, <1>5, <1>6 DEF InterpInv

\* Every step keeps it.
LEMMA NextInv ==
    ASSUME InterpInv, [Next]_vars
    PROVE  InterpInv'
  <1>1. CASE UNCHANGED vars
    BY <1>1 DEF vars, InterpInv
  <1>2. CASE Next
    BY <1>2, PushInv, LoadInv, StoreInv, StoreLongInv, PopInv, PopLongInv, DupInv, IaddInv, LaddInv,
       IincInv, BranchInv, GotoInv, ReturnInv, EndOfCodeInv, ValueReturnInv, UnimplementedInv,
       InitStaticInv, InvokeStaticInv, InvokeNativeInv, InvokeVirtualInv, InvokeSpecialInv,
       NewInv, CheckcastInv, GetStaticInv, PutStaticInv, PutFieldInv, Zenon DEF Next
  <1> QED
    BY <1>1, <1>2

\* The invariant holds of every behaviour.
LEMMA InvariantHolds == Spec => []InterpInv
  <1> QED
    BY InitInv, NextInv, PTL DEF Spec

\* A reference on a stack or in a local variable is the key of an object of the
\* heap, whatever instructions step takes, those it does wrong included.
THEOREM InterpTyped == Spec => []InterpTypeOK
  <1>1. InterpInv => InterpTypeOK
    <2> SUFFICES ASSUME InterpInv PROVE InterpTypeOK
      OBVIOUS
    <2> DEFINE n == Len(objects)
    <2>1. /\ n \in Nat /\ frames \in Seq(CodeFrames(n)) /\ DOMAIN frames = 1..Len(frames)
          /\ status \in {"running", "error", "panic"} /\ Settled(frames)
      BY LenProperties DEF InterpInv
    <2> HIDE DEF n
    <2>2. ASSUME NEW k \in 1..Len(frames)
          PROVE  LET f == frames[k]
                     values == ToSet(f.stack) \cup {f.locals[i] : i \in DOMAIN f.locals}
                 IN  /\ f.class \in Classes /\ DOMAIN f.locals \subseteq Slots
                     /\ \A x \in values : x.t \in OperandTypes /\ (IsRef(x) => x.v < n)
                     /\ f.done => k = Len(frames)
      <3> DEFINE f == frames[k]
                 s == f.stack
                 v == f.locals
      <3>1. f \in CodeFrames(n)
        BY <2>1, ElementOfSeq
      <3>2. f.class \in Classes /\ s \in Seq(Operand(n)) /\ v \in Variables(n)
        BY <3>1 DEF CodeFrames
      <3>3. DOMAIN v \subseteq Slots /\ \A i \in DOMAIN v : v[i] \in Operand(n)
        BY <2>1, <3>2, VariableDef
      <3>4. f.done => k = Len(frames)
        BY <2>1 DEF Settled
      <3> HIDE DEF f, s, v
      <3>5. DOMAIN s = 1..Len(s) /\ \A i \in 1..Len(s) : s[i] \in Operand(n)
        BY <3>2, ElementOfSeq, LenProperties
      <3>6. \A x \in ToSet(s) \cup {v[i] : i \in DOMAIN v} : x \in Operand(n)
        BY <3>3, <3>5 DEF ToSet
      <3>7. \A x \in Operand(n) : x.t \in OperandTypes /\ (IsRef(x) => x.v < n)
        BY <2>1 DEF Operand
      <3> QED
        BY <3>2, <3>3, <3>4, <3>6, <3>7 DEF f, s, v
    <2> QED
      BY <2>1, <2>2 DEF InterpTypeOK, n
  <1> QED
    BY <1>1, InvariantHolds, PTL

\* Until an instruction is fetched on which step is known to deviate, step goes
\* on without an error, and its frames, operands and local variables are those
\* of the machine of JVMS 7: for any code, in any hierarchy, to any depth.
THEOREM MachinesAgree == Spec => []AgreesWithJava
  <1>1. InterpInv => AgreesWithJava
    <2> SUFFICES ASSUME InterpInv, ~odd PROVE AgreesWithJava
      BY DEF AgreesWithJava
    <2>1. status = "running" /\ Alike(LiveOf(frames), java) /\ java \in Seq(JavaFrames(Len(objects)))
      BY DEF InterpInv
    <2>2. LiveOf(frames) = Live
      BY DEF LiveOf, Live, Top
    <2>3. DOMAIN java = 1..Len(java)
      BY <2>1, LenProperties
    <2> QED
      BY <2>1, <2>2, <2>3 DEF AgreesWithJava, Alike, Match
  <1> QED
    BY <1>1, InvariantHolds, PTL

\* An instruction that init_static! has put off finds the operands and local
\* variables it was put off with, whatever the <clinit>s above it do.
THEOREM RetriesFindOperands == Spec => []RetryUntouched
  <1>1. InterpInv => RetryUntouched
    <2> SUFFICES ASSUME InterpInv PROVE RetryUntouched
      OBVIOUS
    <2>1. DOMAIN frames = 1..Len(frames) /\ Settled(frames)
      BY LenProperties DEF InterpInv
    <2> QED
      BY <2>1 DEF RetryUntouched, Settled, Untouched
  <1> QED
    BY <1>1, InvariantHolds, PTL

=============================================================================
