---------------------------- MODULE MCSelfUpdate ----------------------------
(***************************************************************************)
(* SelfUpdate for model checking: three releases, so that an update can    *)
(* follow an update and a backup of the first can outlive the second.      *)
(***************************************************************************)
EXTENDS SelfUpdateProofs, TLC

MCVersion == 1 .. 3
MCTwoVersions == 1 .. 2
=============================================================================
