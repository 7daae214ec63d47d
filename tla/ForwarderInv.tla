-------------------------- MODULE ForwarderInv --------------------------
(***************************************************************************)
(* The inductive invariants of the forwarder, and its card seen as         *)
(* AtomicUpdate's.                                                         *)
(*                                                                         *)
(* The invariant says, for every step of runSwap, what the card must look  *)
(* like for a power cut right there to be harmless.  SwapInv is inductive  *)
(* on a card that keeps the bytes it is given (BadCard = FALSE).           *)
(***************************************************************************)
EXTENDS Forwarder

\* The application is in place during the preparation of a swap, the steps
\* that move it aside, and every clean-up.
Intact == {"bump", "bumpClear", "bumpMove", "verify", "copy",
           "aside", "asideMove", "clean", "cleanStaged", "cleanHandoff"}

\* The application is missing and the backup is what it was.
Gap == {"place", "placeMove", "putBack", "putBackMove",
        "restore", "restoreMove"}

\* The steps between which the copy next to the target is complete.
Copied == {"aside", "asideMove", "place", "placeMove"}

\* The steps of an attempt whose counter is on the card.
Counted == {"verify", "copy", "aside", "asideMove", "place", "placeMove",
            "putBack", "putBackMove", "discard", "confirm", "revert",
            "revertMove"}

\* The inductive invariant behind NeverStranded and SwapBudget:
\* what every step of runSwap relies on.
SwapInv ==
    /\ card["target"] # Torn
    /\ card["backup"] # Torn
    /\ card["target"] = Absent => card["backup"] # Absent /\ handoff # Absent
    /\ handoff # Absent => handoff.attempts <= MaxAttempts
    /\ pc \in Intact => card["target"] # Absent
    /\ pc \in Gap => card["target"] = Absent
    /\ pc \in {"confirm", "revert", "revertMove"} => card["backup"] # Absent
    /\ pc \in Counted => handoff = h
    /\ pc \in {"bump", "bumpClear", "bumpMove"} => h.attempts <= MaxAttempts
    /\ pc = "copy" => card["staged"] = h.digest
    /\ pc \in Copied => card["incoming"] = h.digest

\* The version in place; while there is none, the one the repair entry brings
\* back.
InstalledVersion == IF exists("target") THEN card["target"] ELSE card["backup"]

Abstract ==
    INSTANCE AtomicUpdate WITH installed <- InstalledVersion, old <- h.from,
                               new <- h.digest, pending <- exists("staged"),
                               reported <- result = "Installed"

\* What the refinement needs beyond SwapInv: which version a file may hold,
\* that the copies of the handoff agree, that nothing is moved without a
\* staged binary, and that a success is reported from the confirmation to the
\* next start.
CardInv ==
    /\ card["target"] \in {h.from, h.digest, Absent}
    /\ card["backup"] \in {h.from, h.digest, Absent}
    /\ handoff # Absent => handoff.from = h.from /\ handoff.digest = h.digest
    /\ pc \in Counted \ {"verify"} => card["staged"] # Absent
    /\ result = "Installed" =>
         /\ card["target"] = h.digest
         /\ pc \in {"clean", "cleanStaged", "cleanHandoff", "done", "off"}
=============================================================================
