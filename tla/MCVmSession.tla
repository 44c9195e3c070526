---------------------------- MODULE MCVmSession ----------------------------
(* Names are interchangeable in VmSession. *)
EXTENDS VmSession, TLC

Symmetry == Permutations(Names)
=============================================================================
