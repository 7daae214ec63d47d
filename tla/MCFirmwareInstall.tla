-------------------------- MODULE MCFirmwareInstall --------------------------
(* Small instances of FirmwareInstall for TLC. *)
EXTENDS FirmwareInstall, TLC

CONSTANTS nca1, nca2, txt, v1, v2

MCNcaName == {nca1, nca2}
MCOtherName == {txt}
MCVersion == {v1, v2}

Symmetry == Permutations(MCNcaName) \cup Permutations(MCVersion)
=============================================================================
