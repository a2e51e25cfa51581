-------------------------- MODULE MCVmApiConnect ----------------------------
(* VmApiConnect for TLC: the threads are interchangeable model values.     *)
EXTENDS VmApiConnect, TLC

Symmetry == Permutations(Threads)

=============================================================================
