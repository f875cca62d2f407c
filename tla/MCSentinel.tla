----------------------------- MODULE MCSentinel -----------------------------
(***************************************************************************)
(* Instances of Sentinel for TLC.                                          *)
(***************************************************************************)
EXTENDS Sentinel, TLC

Symmetry == Permutations(Proc) \union Permutations(Source) \union Permutations(Key)
=============================================================================
