------------------------------- MODULE RwLock -------------------------------
(***************************************************************************)
(* parking_lot::RwLock, as far as the virtual machine relies on it: a      *)
(* writer first announces itself, which keeps new readers out, and owns    *)
(* the lock when the readers have left.  Nothing is recursive and nothing  *)
(* is poisoned: a guard dropped by a panic releases like any other.        *)
(***************************************************************************)
CONSTANTS Agents, NoAgent

VARIABLE lock

LockType == [readers : SUBSET Agents, writer : Agents \cup {NoAgent}]

Free == [readers |-> {}, writer |-> NoAgent]

Read(a) ==
    /\ lock.writer = NoAgent
    /\ lock' = [lock EXCEPT !.readers = @ \cup {a}]

EndRead(a) == lock' = [lock EXCEPT !.readers = @ \ {a}]

Announce(a) ==
    /\ lock.writer = NoAgent
    /\ lock' = [lock EXCEPT !.writer = a]

Owns(a) == lock.writer = a /\ lock.readers = {}

EndWrite == lock' = [lock EXCEPT !.writer = NoAgent]
=============================================================================
