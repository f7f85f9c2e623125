--------------------------- MODULE MCClassLoader ---------------------------
(***************************************************************************)
(* Small instances of ClassLoader: every class file over Object and two    *)
(* more classes, whatever their superclasses and fields.                   *)
(***************************************************************************)
EXTENDS ClassLoader

CONSTANTS A, B, C

Sound(supers, fields) ==
    [status : {"wellformed"}, super : supers, fields : fields, size : {1}]

Broken == [status : {"missing", "malformed", "fatal"}, super : {Object}, fields : {{}}, size : {1}]

\* Every provider of Object and two more classes: self-superclasses, cycles
\* through superclasses and fields, files that are absent or do not parse.
AllProviders ==
    [Classes -> Broken \cup Sound(Classes \cup {NoClass}, SUBSET (Classes \ {Object}))]

\* Object and three sound classes, each with at most one field, none of them
\* its own ancestor.
AtMostOneField == {{}} \cup {{f} : f \in {A, B, C}}

LegalProviders ==
    {p \in [Classes -> Sound({NoClass, Object, A, B}, AtMostOneField)] :
        /\ p[Object].super = NoClass /\ p[Object].fields = {}
        /\ p[A].super = Object
        /\ p[B].super \in {Object, A}
        /\ p[C].super \in {Object, A, B}}
=============================================================================
