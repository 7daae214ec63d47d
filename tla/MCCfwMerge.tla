------------------------------ MODULE MCCfwMerge ------------------------------
(* Small instances of CfwMerge for TLC. *)
EXTENDS CfwMergeProofs, TLC

CONSTANTS f1, f2, f3, p1, p2

MCFile == {f1, f2, f3}
MCTwoFiles == {f1, f2}
MCPack == {p1, p2}
MCPreserved == {f1}

\* f1 is the preserved path and stands apart.
Symmetry == Permutations({f2, f3}) \cup Permutations({p1, p2})
=============================================================================
