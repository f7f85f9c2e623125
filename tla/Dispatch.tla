------------------------------ MODULE Dispatch ------------------------------
(***************************************************************************)
(* Method selection and casts (loader.rs): the recursive walks of the      *)
(* loader over a loaded hierarchy, and what JVMS 7 says they look for.     *)
(*                                                                         *)
(* A hierarchy h is a record: the superclass of each class (NoSuper of     *)
(* Object), its package, its superinterfaces, whether it is an interface,  *)
(* and how it declares each method ("none" when it does not).              *)
(***************************************************************************)
EXTENDS Naturals

CONSTANTS Classes, Object, NoSuper, Methods

Declares(h, c, m) == h.access[c][m] # "none"
Some(c) == [is |-> "some", class |-> c]
None    == [is |-> "none", class |-> NoSuper]
Panics  == [is |-> "panic", class |-> NoSuper]

-----------------------------------------------------------------------------

\* recurse_is_superclass
IsSuperclass(h, subclass, superclass) ==
    LET up[c \in Classes] ==
            \/ c = superclass \/ superclass = Object
            \/ c # Object /\ up[h.super[c]]
    IN  up[subclass]

\* are_classpaths_siblings
Siblings(h, a, b) == h.package[a] = h.package[b]

\* Faulty variant: the method of the superclass is handed out.
OverridingOfSuper(h, subclass, m) ==
    LET from[c \in Classes] ==
            LET s == h.super[c]
            IN  IF c = Object THEN Panics
                ELSE IF ~Declares(h, c, m) \/ ~Declares(h, s, m) THEN None
                ELSE IF h.access[s][m] \in {"public", "protected"} \/ Siblings(h, c, s) THEN Some(s)
                ELSE IF s # Object THEN from[s]
                ELSE None
    IN  from[subclass]

\* recurse_resolve_overridding_method: the class must declare the method and
\* so must its direct superclass, openly or in the same package; Object has no
\* superclass to unwrap.
Overriding(h, subclass, m) ==
    LET from[c \in Classes] ==
            LET s == h.super[c]
            IN  IF c = Object THEN Panics
                ELSE IF ~Declares(h, c, m) \/ ~Declares(h, s, m) THEN None
                ELSE IF h.access[s][m] \in {"public", "protected"} \/ Siblings(h, c, s) THEN Some(c)
                ELSE IF s # Object THEN from[s]
                ELSE None
    IN  from[subclass]

\* recurse_resolve_supermethod_special: the first declaration above the class.
SuperMethod(h, subclass, m) ==
    LET from[c \in Classes] ==
            IF c = Object THEN Panics
            ELSE IF Declares(h, h.super[c], m) THEN Some(h.super[c])
            ELSE from[h.super[c]]
    IN  from[subclass]

\* The method invokespecial runs (thread.rs) when the class `current` names m
\* of `named`; the search starts at the superclass of the current class.
SpecialTarget(h, current, named, m, init) ==
    IF ~Declares(h, named, m) THEN None
    ELSE IF IsSuperclass(h, current, named) /\ ~init
         THEN IF current = Object THEN Panics ELSE SuperMethod(h, h.super[current], m)
    ELSE Some(named)

\* Faulty variant: the superclass is taken for one of the superinterfaces.
ImplementsLoosely(h, sub, super) ==
    LET up[c \in Classes] ==
            \/ c = super \/ h.super[c] # super
            \/ \E i \in h.interfaces[c] : up[i] \/ IsSuperclass(h, i, super)
    IN  up[sub]

\* does_interface_implement_interface
Implements(h, sub, super) ==
    LET up[c \in Classes] ==
            \/ c = super \/ h.super[c] = super
            \/ \E i \in h.interfaces[c] : up[i] \/ IsSuperclass(h, i, super)
    IN  up[sub]

\* check_cast of an object of class s to t: both walks are given t first, and
\* the first of them unwraps the superclass of t.
CheckCast(h, s, t) ==
    IF h.isInterface[s] /\ t = Object THEN "panic"
    ELSE IF h.isInterface[s] /\ Implements(h, t, s) THEN "yes"
    ELSE IF ~h.isInterface[s] /\ IsSuperclass(h, t, s) THEN "yes"
    ELSE "no"

-----------------------------------------------------------------------------
(***************************************************************************)
(* JVMS 7.                                                                 *)
(***************************************************************************)

\* c is a or one of its subclasses or implementors (4.10.1.2, checkcast).
Subtype(h, c, a) ==
    LET up[k \in Classes] ==
            \/ k = a \/ a = Object
            \/ \E i \in h.interfaces[k] : up[i]
            \/ k # Object /\ up[h.super[k]]
    IN  up[c]

\* 5.4.5: the m of c overrides the m of a, perhaps by one in between.
Overrides(h, c, a, m) ==
    LET over[k \in Classes] ==
            /\ Declares(h, k, m) /\ Subtype(h, k, a)
            /\ \/ k = a
               \/ /\ h.access[k][m] # "private"
                  /\ \/ h.access[a][m] \in {"public", "protected"}
                     \/ h.access[a][m] = "package" /\ Siblings(h, k, a)
                     \/ \E b \in Classes \ {k, a} :
                           /\ Subtype(h, k, b) /\ over[b]
                           /\ \/ h.access[b][m] \in {"public", "protected"}
                              \/ h.access[b][m] = "package" /\ Siblings(h, k, b)
    IN  over[c]

\* invokevirtual: the nearest class from c upwards whose m overrides a's; the
\* walk ends at Object.
Selected(h, c, a, m) ==
    LET up[k \in Classes] == IF Overrides(h, k, a, m) \/ k = Object THEN k ELSE up[h.super[k]]
    IN  up[c]

\* invokespecial: a method of a superclass is sought from the direct
\* superclass upwards, any other is the one named.
SpecialSelected(h, current, named, m, init) ==
    LET up[k \in Classes] == IF Declares(h, k, m) \/ k = Object THEN k ELSE up[h.super[k]]
    IN  IF ~init /\ named # current /\ Subtype(h, current, named)
        THEN up[h.super[current]] ELSE named

=============================================================================
