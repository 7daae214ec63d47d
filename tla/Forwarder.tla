------------------------------ MODULE Forwarder ------------------------------
(***************************************************************************)
(* The recovery forwarder: the small program that replaces the application *)
(* binary with a staged update and repairs an installation a power cut     *)
(* left half swapped (apps/forwarder/src/swap.cpp and main.cpp).           *)
(*                                                                         *)
(* Every file operation of runSwap is a step of its own, so that the power *)
(* may be cut between any two of them, and every operation whose failure   *)
(* the code looks at (or ignores) may fail.  The card survives a power     *)
(* cut; pc, h and result are the memory of the running program.            *)
(***************************************************************************)
EXTENDS Handoff

CONSTANTS
    BadCard,    \* TRUE: the card may accept a write and keep other bytes
    MaxFaults   \* how many power cuts and failed operations may happen

ASSUME FaultAssumption == BadCard \in BOOLEAN /\ MaxFaults \in Nat

VARIABLES
    card,       \* content of the four binaries the swap moves around
    handoff,    \* the handoff document on the card, or Absent
    pc,         \* the next step of runSwap
    h,          \* runSwap's own copy of the handoff
    result,     \* the SwapResult runSwap returns, or is on its way to return
    faults      \* power cuts and failed operations so far

forwarderVars == <<card, handoff, pc, h, result, faults>>

File == {"target", "staged", "backup", "incoming"}

Step ==
    {"off", "bump", "bumpClear", "bumpMove", "verify", "copy",
     "aside", "asideMove", "place", "placeMove", "putBack", "putBackMove",
     "discard", "confirm", "revert", "revertMove", "restore", "restoreMove",
     "clean", "cleanStaged", "cleanHandoff", "done"}

SwapResult ==
    {"NothingToDo", "Installed", "RolledBack", "Restored",
     "DigestMismatch", "IoFailed", "Unrecoverable"}

exists(f) == card[f] # Absent

\* One more operation the environment makes fail.
Fault == faults < MaxFaults /\ faults' = faults + 1

-----------------------------------------------------------------------------
(* The file operations. *)

\* std::remove, whose return value the swap never looks at.
Remove(at, f, next) ==
    /\ pc = at
    /\ \/ card' = [card EXCEPT ![f] = Absent] /\ UNCHANGED faults
       \/ exists(f) /\ Fault /\ UNCHANGED card
    /\ pc' = next
    /\ UNCHANGED <<handoff, h, result>>

\* std::rename on FatFs, which refuses an existing destination.
Rename(at, from, to, next, otherwise) ==
    /\ pc = at
    /\ \/ /\ exists(from) /\ ~exists(to)
          /\ card' = [card EXCEPT ![to] = card[from], ![from] = Absent]
          /\ pc' = next
          /\ UNCHANGED <<faults, result>>
       \/ /\ IF exists(from) /\ ~exists(to) THEN Fault ELSE UNCHANGED faults
          /\ pc' = otherwise
          /\ result' = "IoFailed"
          /\ UNCHANGED card
    /\ UNCHANGED <<handoff, h>>

\* runSwap returns r without touching the card.
Return(r) ==
    /\ pc' = "done"
    /\ result' = r
    /\ UNCHANGED <<card, handoff, h>>

-----------------------------------------------------------------------------
(* Startup: read the handoff, look at the files, decide. *)

\* The presence flags stay false when no handoff was read: the paths to look
\* at come from the handoff.
Presence(found) ==
    [target |-> found /\ exists("target"),
     staged |-> found /\ exists("staged"),
     backup |-> found /\ exists("backup")]

\* runSwap goes on to step with the handoff it parsed.
Enter(step, r, parsed) ==
    /\ pc' = step
    /\ result' = r
    /\ h' = parsed
    /\ UNCHANGED <<card, handoff>>

\* Mutant: the branch is taken on a handoff that was never read.
Bug_Begin(parsed) ==
    IF parsed = Absent
    THEN Enter("clean", "RolledBack", parsed)
    ELSE Enter("bump", "none", [parsed EXCEPT !.attempts = @ + 1])

\* The branch runSwap takes on a handoff that was read and parsed, or Absent.
Begin(parsed) ==
    LET action == decideRecovery(parsed, Presence(parsed # Absent))
    IN \/ /\ action \in {"Nothing", "Unrecoverable"}
          /\ Return(IF action = "Nothing" THEN "NothingToDo" ELSE action)
       \/ action = "RestoreBackup" /\ Enter("restore", "Restored", parsed)
       \/ /\ action = "RollBack" /\ exists("backup") /\ ~exists("target")
          /\ Enter("restore", "RolledBack", parsed)
       \/ /\ action = "RollBack" /\ ~(exists("backup") /\ ~exists("target"))
          /\ Enter("clean", "RolledBack", parsed)
       \/ /\ action \in {"ProceedWithSwap", "RetrySwap", "InstallStaged"}
          /\ Enter("bump", "none", [parsed EXCEPT !.attempts = @ + 1])

\* A handoff that cannot be read counts as none; one that does not parse ends
\* the run with nothing touched.
Launch ==
    /\ pc = "off"
    /\ \/ /\ handoff # Absent /\ ~Parses(handoff)
          /\ Return("Unrecoverable")
          /\ UNCHANGED faults
       \/ /\ handoff # Absent => Parses(handoff)
          /\ Begin(handoff)
          /\ UNCHANGED faults
       \/ handoff # Absent /\ Begin(Absent) /\ Fault

-----------------------------------------------------------------------------
(* Step 2: the attempt counter is made durable before anything risky. *)

\* Mutant: the counter is left for the end of the swap.
Bug_WriteCounter ==
    /\ pc = "bump"
    /\ pc' = "verify"
    /\ UNCHANGED <<card, handoff, h, result, faults>>

\* writeFileAtomic writes the document next to the old one first.  Nothing
\* ever reads a leftover temporary file, so it is not part of the state.
WriteCounter ==
    /\ pc = "bump"
    /\ \/ pc' = "bumpClear" /\ UNCHANGED <<faults, result>>
       \/ pc' = "done" /\ result' = "IoFailed" /\ Fault
    /\ UNCHANGED <<card, handoff, h>>

ClearCounter ==
    /\ pc = "bumpClear"
    /\ \/ handoff' = Absent /\ UNCHANGED faults
       \/ handoff # Absent /\ Fault /\ UNCHANGED handoff
    /\ pc' = "bumpMove"
    /\ UNCHANGED <<card, h, result>>

MoveCounter ==
    /\ pc = "bumpMove"
    /\ \/ /\ handoff = Absent
          /\ handoff' = h
          /\ pc' = "verify"
          /\ UNCHANGED <<faults, result>>
       \/ /\ IF handoff = Absent THEN Fault ELSE UNCHANGED faults
          /\ pc' = "done"
          /\ result' = "IoFailed"
          /\ UNCHANGED handoff
    /\ UNCHANGED <<card, h>>

-----------------------------------------------------------------------------
(* Steps 3 and 4: re-verify the staged binary, copy it next to the target. *)

VerifyStaged ==
    /\ pc = "verify"
    /\ \/ /\ card["staged"] = h.digest
          /\ pc' = "copy"
          /\ UNCHANGED <<card, handoff, h, result, faults>>
       \/ /\ exists("staged") /\ card["staged"] # h.digest
          /\ Return("DigestMismatch")
          /\ UNCHANGED faults
       \/ /\ IF exists("staged") THEN Fault ELSE UNCHANGED faults
          /\ Return("IoFailed")

\* What a write of c may leave behind when it reports success.
Written(c) == IF BadCard THEN {c, Torn} ELSE {c}

\* Mutant: the result of copyFile is not looked at.
Bug_CopyStaged ==
    /\ pc = "copy"
    /\ \/ card' = [card EXCEPT !["incoming"] = card["staged"]] /\ UNCHANGED faults
       \/ card' = [card EXCEPT !["incoming"] = Torn] /\ Fault
    /\ pc' = IF exists("target") THEN "aside" ELSE "place"
    /\ UNCHANGED <<handoff, h, result>>

CopyStaged ==
    /\ pc = "copy"
    /\ \/ /\ \E c \in Written(card["staged"]) :
               card' = [card EXCEPT !["incoming"] = c]
          /\ pc' = IF exists("target") THEN "aside" ELSE "place"
          /\ UNCHANGED <<faults, result>>
       \/ /\ Fault
          /\ card' = [card EXCEPT !["incoming"] = Torn]
          /\ pc' = "discard"
          /\ result' = "IoFailed"
    /\ UNCHANGED <<handoff, h>>

-----------------------------------------------------------------------------
(* Steps 5 and 6: target to backup, incoming to target, each a renameOver. *)

ClearBackup == Remove("aside", "backup", "asideMove")

\* Mutant: a target that could not be moved aside is replaced all the same.
Bug_MoveAside == Rename("asideMove", "target", "backup", "place", "place")

MoveAside == Rename("asideMove", "target", "backup", "place", "discard")

ClearTarget == Remove("place", "target", "placeMove")

MoveIntoPlace ==
    Rename("placeMove", "incoming", "target", "confirm",
           IF exists("backup") THEN "putBack" ELSE "discard")

ClearForPutBack == Remove("putBack", "target", "putBackMove")

PutBack == Rename("putBackMove", "backup", "target", "discard", "discard")

DiscardIncoming == Remove("discard", "incoming", "done")

-----------------------------------------------------------------------------
(* Step 7: confirm what was installed, or go back to the old binary. *)

\* Mutant: the target is not read back.
Bug_Confirm ==
    /\ pc = "confirm"
    /\ pc' = "clean"
    /\ result' = "Installed"
    /\ UNCHANGED <<card, handoff, h, faults>>

Confirm ==
    /\ pc = "confirm"
    /\ \/ /\ card["target"] = h.digest
          /\ pc' = "clean"
          /\ result' = "Installed"
          /\ UNCHANGED faults
       \/ /\ IF card["target"] = h.digest THEN Fault ELSE UNCHANGED faults
          /\ pc' = IF exists("backup") THEN "revert" ELSE "done"
          /\ result' = "IoFailed"
    /\ UNCHANGED <<card, handoff, h>>

ClearForRevert == Remove("revert", "target", "revertMove")

Revert == Rename("revertMove", "backup", "target", "done", "done")

-----------------------------------------------------------------------------
(* Restoring the backup, and the cleanUp every finished run ends with. *)

ClearForRestore == Remove("restore", "target", "restoreMove")

RestoreBackup == Rename("restoreMove", "backup", "target", "clean", "done")

CleanBackup == Remove("clean", "backup", "cleanStaged")

CleanStaged == Remove("cleanStaged", "staged", "cleanHandoff")

CleanHandoff ==
    /\ pc = "cleanHandoff"
    /\ \/ handoff' = Absent /\ UNCHANGED faults
       \/ handoff # Absent /\ Fault /\ UNCHANGED handoff
    /\ pc' = "done"
    /\ UNCHANGED <<card, h, result>>

-----------------------------------------------------------------------------

\* The user leaves the result screen.
Exit ==
    /\ pc = "done"
    /\ pc' = "off"
    /\ UNCHANGED <<card, handoff, h, result, faults>>

\* Power is lost while the forwarder runs; the copy may be half written.
PowerCut ==
    /\ pc \notin {"off", "done"}
    /\ Fault
    /\ \/ UNCHANGED card
       \/ pc = "copy" /\ card' = [card EXCEPT !["incoming"] = Torn]
    /\ pc' = "off"
    /\ result' = "none"
    /\ UNCHANGED <<handoff, h>>

Run ==
    \/ WriteCounter \/ ClearCounter \/ MoveCounter
    \/ VerifyStaged \/ CopyStaged
    \/ ClearBackup \/ MoveAside \/ ClearTarget \/ MoveIntoPlace
    \/ ClearForPutBack \/ PutBack \/ DiscardIncoming
    \/ Confirm \/ ClearForRevert \/ Revert
    \/ ClearForRestore \/ RestoreBackup
    \/ CleanBackup \/ CleanStaged \/ CleanHandoff
    \/ Exit
Next == Launch \/ Run \/ PowerCut

\* The card as UpdateService::stage leaves it: the running version in place,
\* another one staged and verified, and a handoff that was never attempted.
Init ==
    \E old, new \in Version :
        /\ old # new
        /\ card = [f \in File |-> IF f = "target" THEN old
                                  ELSE IF f = "staged" THEN new ELSE Absent]
        /\ handoff = [from |-> old, digest |-> new, attempts |-> 0]
        /\ h = handoff
        /\ pc = "off"
        /\ result = "none"
        /\ faults = 0

Spec == Init /\ [][Next]_forwarderVars

\* The user deletes the application and reaches for the repair entry.
DeleteTarget ==
    /\ pc = "off"
    /\ exists("target")
    /\ card' = [card EXCEPT !["target"] = Absent]
    /\ UNCHANGED <<handoff, pc, h, result, faults>>

-----------------------------------------------------------------------------
(* What the forwarder promises. *)

TypeOK ==
    /\ card \in [File -> Content]
    /\ handoff \in HandoffRecord \cup {Absent}
    /\ pc \in Step
    /\ h \in HandoffRecord
    /\ result \in SwapResult \cup {"none"}
    /\ faults \in 0 .. MaxFaults

\* At every instant, whatever was cut or failed before, either the
\* application is a complete binary or the next start of the forwarder finds
\* a complete backup and a handoff that tells it to restore it: runSwap's
\* order of steps never leaves a card that needs a reinstall.
NeverStranded ==
    \/ card["target"] \in Version
    \/ /\ card["target"] = Absent
       /\ card["backup"] \in Version
       /\ handoff # Absent /\ Parses(handoff)

\* While the swap copies, renames or confirms, the counter on the card already
\* includes this attempt and stays within max_attempts: whatever happens from
\* here on, a swap that keeps failing ends after MaxAttempts tries.
SwapBudget ==
    pc \in {"verify", "copy", "aside", "asideMove", "place", "placeMove",
            "putBack", "putBackMove", "discard", "confirm", "revert",
            "revertMove"} =>
        handoff = h /\ h.attempts <= MaxAttempts

\* A run that reports Installed has the staged binary in place, even when the
\* card silently kept other bytes than the ones it was given: step 7 reads the
\* target back before cleanUp.
InstalledIsVerified ==
    pc = "done" /\ result = "Installed" => card["target"] = h.digest

\* When the power cuts and failures are over, an application that went
\* missing comes back: decideRecovery always leads out of the gap between the
\* two renames.
RepairCompletes == card["target"] \notin Version ~> card["target"] \in Version

-----------------------------------------------------------------------------
(* What the comments and documents say, and the code does not do. *)

\* SwapResult::RolledBack is documented as "The previous version was
\* restored.": after it the target holds the version the update came from.
RolledBackIsPrevious ==
    pc = "done" /\ result = "RolledBack" => card["target"] = h.from

\* SwapResult::Unrecoverable is documented as "Nothing usable remains": it is
\* never reported with a complete application in place.
UnrecoverableMeansNothingUsable ==
    pc = "done" /\ result = "Unrecoverable" => card["target"] \notin Version

\* A complete copy of the version the update came from is on the card c.
OldOn(c) == \E f \in {"target", "backup"} : c[f] = h.from

\* "Confirm before destroying the only copy of the old binary.": the last
\* complete copy of the version the update came from only goes away once the
\* new one was read back and found good.
OldKeptUntilConfirmed ==
    [][OldOn(card) /\ ~OldOn(card') => result = "Installed"]_forwarderVars

\* writeFileAtomic goes through a temporary file so that a power cut does not
\* "silently abandon an update that was actually in flight": as long as the
\* staged binary waits, the handoff naming it is there at the next start.
HandoffSurvivesPowerCut ==
    pc = "off" /\ exists("staged") => handoff # Absent
=============================================================================
