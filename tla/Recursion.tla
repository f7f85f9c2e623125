------------------------------ MODULE Recursion ------------------------------
(***************************************************************************)
(* Induction and recursion in a form every backend can use: over sets and  *)
(* functions that are sets, never over operators.  The walks of the loader *)
(* and the layout of the fields are recursive functions over the classes;  *)
(* what they compute is proved from the two lemmas below.                  *)
(***************************************************************************)
EXTENDS Integers, TLAPS, WellFoundedInduction

\* Induction: a set of numbers that has 0 and every successor has them all.
LEMMA SetInduction ==
    ASSUME NEW A \in SUBSET Nat, 0 \in A, \A n \in A : n + 1 \in A
    PROVE  A = Nat
  <1>1. SUFFICES ASSUME Nat \ A # {} PROVE FALSE
    BY Zenon
  <1>2. PICK n \in Nat \ A : \A m \in Nat \ A : ~(<<m, n>> \in OpToRel(<, Nat))
    <2>1. Nat \ A \subseteq Nat
      OBVIOUS
    <2> QED
      BY ONLY <1>1, <2>1, NatLessThanWellFounded, WFMin, Zenon
  <1>3. n # 0 /\ n - 1 \in Nat
    OBVIOUS
  <1>4. <<n - 1, n>> \in OpToRel(<, Nat)
    BY <1>3 DEF OpToRel
  <1>5. n - 1 \in A
    BY <1>2, <1>3, <1>4
  <1> QED
    BY <1>5

\* Every non-empty set has an element of the least level.
LEMMA LeastLevel ==
    ASSUME NEW S, NEW level, \A s \in S : level[s] \in Nat, S # {}
    PROVE  \E s \in S : \A r \in S : level[s] <= level[r]
  <1> DEFINE A == {n \in Nat : \A s \in S : level[s] >= n}
  <1>1. SUFFICES ASSUME ~(\E s \in S : \A r \in S : level[s] <= level[r]) PROVE FALSE
    OBVIOUS
  <1>2. 0 \in A
    OBVIOUS
  <1>3. ASSUME NEW n \in A PROVE n + 1 \in A
    <2>1. \A s \in S : level[s] # n
      BY <1>1, <1>3
    <2> QED
      BY <2>1, <1>3
  <1>4. A = Nat
    <2> HIDE DEF A
    <2>1. A \in SUBSET Nat
      BY DEF A
    <2> QED
      BY ONLY <1>2, <1>3, <2>1, SetInduction, Zenon
  <1>5. PICK s \in S : TRUE
    OBVIOUS
  <1>6. level[s] + 1 \in A
    BY <1>4
  <1> QED
    BY <1>6

\* A level of each element of C that has a bound, and a step that looks only
\* at lower levels.  They are kept folded where the lemma is cited.
Levels(C, level) == level \in [C -> Nat] /\ \E n \in Nat : \A c \in C : level[c] <= n
LooksDown(C, T, level, step) ==
    /\ T # {} /\ step \in [C \X [C -> T] -> T]
    /\ \A c \in C : \A f, g \in [C -> T] :
        (\A d \in C : level[d] < level[c] => f[d] = g[d]) => step[<<c, f>>] = step[<<c, g>>]
Solvable(C, T, step) == \E f \in [C -> T] : \A c \in C : f[c] = step[<<c, f>>]

\* Induction over levels: a set that has every element whose lower ones it has
\* is everything.
Hereditary(C, level, S) ==
    \A c \in C : (\A d \in C : level[d] < level[c] => d \in S) => c \in S
LEMMA LevelInduction ==
    ASSUME NEW C, NEW level, NEW S, Levels(C, level), Hereditary(C, level, S)
    PROVE  C \subseteq S
  <1>1. SUFFICES ASSUME C \ S # {} PROVE FALSE
    OBVIOUS
  <1>2. \A c \in C : level[c] \in Nat
    BY DEF Levels
  <1> DEFINE R == C \ S
  <1>3. PICK c \in R : \A d \in R : level[c] <= level[d]
    <2>1. R # {} /\ \A d \in R : level[d] \in Nat
      BY <1>1, <1>2
    <2> HIDE DEF R
    <2> QED
      BY ONLY <2>1, LeastLevel, Zenon
  <1>4. \A d \in C : level[d] < level[c] => d \in S
    BY <1>2, <1>3
  <1> QED
    BY <1>3, <1>4 DEF Hereditary

\* Recursion: a step that looks only at lower levels has a function that it
\* defines.
LEMMA RecursiveFunction ==
    ASSUME NEW C, NEW T, NEW level, NEW step, Levels(C, level), LooksDown(C, T, level, step)
    PROVE  Solvable(C, T, step)
  <1> DEFINE Up(n) == \E f \in [C -> T] : \A c \in C : level[c] < n => f[c] = step[<<c, f>>]
             A == {n \in Nat : Up(n)}
  <1>1. PICK N \in Nat : \A c \in C : level[c] <= N
    BY DEF Levels
  <1>2. level \in [C -> Nat] /\ T # {} /\ step \in [C \X [C -> T] -> T]
    BY DEF Levels, LooksDown
  <1>3. 0 \in A
    <2>1. PICK t \in T : TRUE
      BY <1>2
    <2>2. [c \in C |-> t] \in [C -> T]
      OBVIOUS
    <2>3. \A c \in C : ~(level[c] < 0)
      BY <1>2
    <2> QED
      BY <2>2, <2>3
  <1>4. ASSUME NEW n \in A PROVE n + 1 \in A
    <2>1. PICK f \in [C -> T] : \A c \in C : level[c] < n => f[c] = step[<<c, f>>]
      OBVIOUS
    <2> DEFINE g == [c \in C |-> step[<<c, f>>]]
    <2>2. g \in [C -> T]
      BY <1>2
    <2>3. \A c \in C : level[c] < n => g[c] = f[c]
      BY <2>1
    <2>4. ASSUME NEW c \in C, level[c] < n + 1 PROVE g[c] = step[<<c, g>>]
      <3>1. \A d \in C : level[d] < level[c] => f[d] = g[d]
        BY <1>2, <2>3, <2>4
      <3>2. step[<<c, f>>] = step[<<c, g>>]
        <4> HIDE DEF g
        <4> QED BY <2>2, <3>1 DEF LooksDown
      <3> QED
        BY <3>2
    <2> HIDE DEF g
    <2> QED
      BY <2>2, <2>4
  <1>5. A = Nat
    <2> HIDE DEF A
    <2>1. A \in SUBSET Nat
      BY DEF A
    <2> QED
      BY ONLY <1>3, <1>4, <2>1, SetInduction, Zenon
  <1>6. N + 1 \in A
    <2> HIDE DEF A
    <2> QED BY <1>5
  <1>7. PICK f \in [C -> T] : \A c \in C : level[c] < N + 1 => f[c] = step[<<c, f>>]
    BY <1>6
  <1>8. \A c \in C : level[c] < N + 1
    BY <1>1, <1>2
  <1> QED
    BY <1>7, <1>8 DEF Solvable

=============================================================================
