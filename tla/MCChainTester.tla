--------------------------- MODULE MCChainTester ----------------------------
(***************************************************************************)
(* ChainTester for TLC: threads, chain ids and contracts are model values. *)
(* The threads and the ids are interchangeable, so both are symmetric.     *)
(***************************************************************************)
EXTENDS ChainTester, TLC

CONSTANTS t1, t2, i1, i2, c1

MCThreads == {t1, t2}
MCIds == {i1, i2}
MCContracts == {c1}

Symmetry == Permutations(MCThreads) \cup Permutations(MCIds)

=============================================================================
