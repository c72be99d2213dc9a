-------------------------------- MODULE MCVm --------------------------------
(* Small address spaces. *)
EXTENDS Vm

Symmetry == Permutations(Procs)

\* No access, and two kinds of access
ThreeProts == {{}, {"READ"}, {"READ", "WRITE"}}

TwoProts == {{}, {"READ", "WRITE"}}
=============================================================================
