---------------------------- MODULE MCMemoryView ----------------------------
(***************************************************************************)
(* Instances of MemoryView for TLC.                                        *)
(***************************************************************************)
EXTENDS MemoryView, TLC

Symmetry == Permutations(Handles) \cup Permutations(Impls)
=============================================================================
