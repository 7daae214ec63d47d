--------------------------- MODULE MCManifestCheck ---------------------------
(***************************************************************************)
(* ManifestCheck for model checking: two threads, and two or three         *)
(* documents of which the second may be unreadable.                        *)
(***************************************************************************)
EXTENDS ManifestCheck, TLC

CONSTANTS w1, w2

MCWorker == {w1, w2}
MCOne == {w1}
MCSecond == {2}
Symmetry == Permutations(MCWorker)
=============================================================================
