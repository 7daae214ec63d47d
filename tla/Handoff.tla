------------------------------- MODULE Handoff -------------------------------
(***************************************************************************)
(* The update handoff shared by the application and the forwarder, and the *)
(* decision both take from it at startup (core/update/handoff.cpp).        *)
(*                                                                         *)
(* A binary is abstracted to the version it carries: two binaries have the *)
(* same SHA-256 exactly when they are the same version.  Torn stands for   *)
(* any content that is not a released binary (a cut-off write, bytes the   *)
(* card returned wrongly); it runs nothing and matches no digest.          *)
(***************************************************************************)
EXTENDS Naturals

CONSTANTS
    Version,        \* the released binaries
    Torn,           \* file content that is no released binary
    Absent,         \* the path does not exist
    MaxAttempts,    \* SelfUpdateConfig::maxSwapAttempts, written as max_attempts
    AttemptsLimit   \* the largest counter parseHandoff accepts

ASSUME ContentAssumption ==
    /\ Torn # Absent
    /\ Torn \notin Version
    /\ Absent \notin Version

ASSUME AttemptsAssumption ==
    /\ MaxAttempts \in Nat \ {0}
    /\ AttemptsLimit \in Nat
    /\ MaxAttempts <= AttemptsLimit

\* What a path on the card may hold.
Content == Version \cup {Torn, Absent}

\* from_version, staged_sha256 and attempts.  The paths are fixed by
\* SelfUpdateConfig, max_attempts is MaxAttempts, the rest is only shown.
HandoffRecord == [from : Version, digest : Version, attempts : Nat]

ASSUME AbsentIsNoHandoff == Absent \notin HandoffRecord

\* parseHandoff accepts the document it is given.
Parses(raw) == raw.attempts <= AttemptsLimit

attemptsExhausted(h) == h.attempts >= MaxAttempts

RecoveryAction ==
    {"Nothing", "ProceedWithSwap", "RetrySwap", "RollBack",
     "RestoreBackup", "InstallStaged", "Unrecoverable"}

\* Mutant: a missing target is not looked for while attempts remain.
Bug_decideRecovery(h, present) ==
    IF h = Absent THEN "Unrecoverable"
    ELSE IF attemptsExhausted(h) THEN "RollBack"
    ELSE IF present.staged /\ present.target THEN "RetrySwap"
    ELSE "Unrecoverable"

\* What to do about the handoff h (Absent when there is none) given which of
\* the three files are there; every arm is one return of the function.
decideRecovery(h, present) ==
    IF h = Absent
    THEN CASE present.target -> "Nothing"
           [] ~present.target /\ present.backup -> "RestoreBackup"
           [] ~present.target /\ ~present.backup -> "Unrecoverable"
    ELSE IF attemptsExhausted(h)
    THEN CASE present.backup \/ present.target -> "RollBack"
           [] ~present.backup /\ ~present.target /\ present.staged ->
                "InstallStaged"
           [] ~present.backup /\ ~present.target /\ ~present.staged ->
                "Unrecoverable"
    ELSE CASE ~present.target /\ present.backup -> "RestoreBackup"
           [] ~present.target /\ ~present.backup /\ present.staged ->
                "InstallStaged"
           [] ~present.staged /\ (present.target \/ ~present.backup) ->
                "Unrecoverable"
           [] present.target /\ present.staged ->
                IF h.attempts = 0 THEN "ProceedWithSwap" ELSE "RetrySwap"
=============================================================================
