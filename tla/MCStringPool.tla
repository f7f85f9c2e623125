---------------------------- MODULE MCStringPool ----------------------------
(***************************************************************************)
(* Two threads and the spawner on two strings, and a slab of two objects.  *)
(***************************************************************************)
EXTENDS StringPool

CONSTANTS T1, T2, Hello, World
=============================================================================
