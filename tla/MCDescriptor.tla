---------------------------- MODULE MCDescriptor ----------------------------
(* Small descriptor tables. *)
EXTENDS Descriptor, TLC

Symmetry == Permutations(Procs)
=============================================================================
