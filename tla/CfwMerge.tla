------------------------------- MODULE CfwMerge -------------------------------
(***************************************************************************)
(* Installing a pack over a working card and undoing it when anything      *)
(* stops it (domain/cfw/cfw_install_service.cpp, core/cfw/merge_marker.cpp)*)
(*                                                                         *)
(* A file of the destination is displaced into the backup directory before *)
(* the staged one is moved in; a marker and the list of planned files say  *)
(* that a merge is in flight.  Every move and every deletion is a step of  *)
(* its own, and the power may be cut between any two.                      *)
(***************************************************************************)
EXTENDS Naturals, FiniteSets

CONSTANTS
    File,           \* the relative paths a pack or the card may have
    Pack,           \* contents: the packs that can be installed
    User,           \* contents: a file the user had before
    None,           \* the path does not exist
    Preserved,      \* the paths preserve.txt names
    MaxInstalls,    \* how many installations are started
    MaxFaults,      \* how many operations may fail
    MaxCuts         \* how many power cuts may happen

ASSUME CfwAssumption ==
    /\ None \notin Pack \cup {User}
    /\ User \notin Pack
    /\ Preserved \subseteq File
    /\ MaxInstalls \in Nat /\ MaxFaults \in Nat /\ MaxCuts \in Nat

VARIABLES
    \* on the card
    dest,       \* the destination tree
    backup,     \* the backup directory
    staging,    \* the files still in the staging directory
    marker,     \* whether merge.json is there
    list,       \* the paths in merge.files ({} when it is missing)
    \* in memory
    pc,         \* the next step of the service; "off" when not running
    pack,       \* the pack being installed
    toWrite,    \* mergeStagedTree's plan, or what recovery read of it
    todo,       \* what the running loop has left
    cur,        \* the file the running loop is at
    displaced,  \* rollBack's listing of the backup directory
    result,     \* the InstallResult, or the one on its way
    \* bookkeeping
    before,     \* the destination when the last installation began
    kept,       \* the existing files that installation must preserve
    cutAt,      \* the step the last power cut came before
    installs, faults, cuts

diskVars == <<dest, backup, staging, marker, list>>
memVars == <<pc, pack, toWrite, todo, cur, displaced, result>>
ghosts == <<before, kept, cutAt, installs, cuts>>
vars == <<diskVars, memVars, ghosts, faults>>

Content == Pack \cup {User, None}

Step == {"off", "idle", "plan", "mark", "merge", "move", "restore",
         "restoreMove", "uncreate", "dropBackup", "dropStaging", "dropList",
         "dropMarker", "purge"}

InstallResult == {"none", "Installed", "RolledBack", "Cancelled", "MergeFailed"}

\* The paths a tree has.
Files(tree) == {f \in File : tree[f] # None}

Fault == faults < MaxFaults /\ faults' = faults + 1

-----------------------------------------------------------------------------
(* Up to the plan: nothing outside the staging directory changes. *)

\* install(): refused while a marker exists.  Leftovers go, the pack is
\* downloaded, verified and extracted.  Failures and cancellations up to here
\* clear the staging directory again and are the same as not starting.
Install ==
    /\ pc = "idle" /\ ~marker
    /\ installs < MaxInstalls
    /\ staging' \in (SUBSET File) \ {{}}
    /\ pack' \in Pack
    /\ backup' = [f \in File |-> None]
    /\ before' = dest
    /\ kept' = {}
    /\ installs' = installs + 1
    /\ pc' = "plan"
    /\ result' = "none"
    /\ UNCHANGED <<dest, marker, list, toWrite, todo, cur, displaced, cutAt,
                   faults, cuts>>

\* What discardStaging leaves behind an installation given up early.
Abandon ==
    /\ staging' = {}
    /\ pc' = "idle"
    /\ result' = "MergeFailed"
    /\ UNCHANGED <<dest, backup, marker, pack, toWrite, todo, cur, displaced>>

\* Mutant: every staged file is planned, preserved or not.
Bug_Plan(keep) == staging

\* A preserved file that exists is not part of the plan.
Plan(keep) == {f \in staging : ~(f \in keep /\ dest[f] # None)}

\* The plan is written to merge.files.  Only some items honour preserve.txt.
WriteList ==
    /\ pc = "plan"
    /\ \/ /\ \E keep \in {Preserved, {}} :
                /\ toWrite' = Plan(keep)
                /\ kept' = keep \cap Files(dest)
          /\ list' = toWrite'
          /\ pc' = "mark"
          /\ UNCHANGED <<dest, backup, staging, marker, pack, todo, cur,
                         displaced, result, faults>>
       \/ Fault /\ Abandon /\ list' \in {list, {}} /\ UNCHANGED kept
    /\ UNCHANGED <<before, cutAt, installs, cuts>>

\* Mutant: the merge begins without a marker.
Bug_WriteMarker ==
    /\ pc = "mark"
    /\ todo' = toWrite
    /\ pc' = "merge"
    /\ UNCHANGED <<diskVars, pack, toWrite, cur, displaced, result, ghosts,
                   faults>>

WriteMarker ==
    /\ pc = "mark"
    /\ \/ /\ marker' = TRUE
          /\ todo' = toWrite
          /\ pc' = "merge"
          /\ UNCHANGED <<dest, backup, staging, list, pack, toWrite, cur,
                         displaced, result, faults>>
       \/ Fault /\ Abandon /\ list' = {}
    /\ UNCHANGED <<ghosts>>

-----------------------------------------------------------------------------
(* The merge, one file at a time. *)

\* rollBack() begins with its listing of the backup directory; in holds what
\* the operation before it did to that directory.
BeginRollBack(r, in) ==
    /\ displaced' = Files(in)
    /\ todo' = displaced'
    /\ pc' = "restore"
    /\ result' = r

\* The user cancels between two files.
Cancel ==
    /\ pc = "merge" /\ todo # {}
    /\ BeginRollBack("Cancelled", backup)
    /\ UNCHANGED <<diskVars, pack, toWrite, cur, ghosts, faults>>

\* The next file.  What is in its way is moved to the backup first;
\* SdFileStore::rename deletes the destination of the move beforehand, also
\* when the move then fails.
Displace ==
    /\ pc = "merge"
    /\ \E f \in todo :
        /\ cur' = f
        /\ todo' = todo \ {f}
        /\ \/ dest[f] = None /\ pc' = "move" /\ UNCHANGED <<dest, backup>>
           \/ /\ dest[f] # None
              /\ backup' = [backup EXCEPT ![f] = dest[f]]
              /\ dest' = [dest EXCEPT ![f] = None]
              /\ pc' = "move"
    /\ UNCHANGED <<staging, marker, list, pack, toWrite, displaced, result,
                   ghosts, faults>>

DisplaceFails ==
    /\ pc = "merge"
    /\ \E f \in todo :
        /\ dest[f] # None /\ Fault
        /\ backup' = [backup EXCEPT ![f] = None]
        /\ BeginRollBack("RolledBack", backup')
    /\ UNCHANGED <<dest, staging, marker, list, pack, toWrite, cur, ghosts>>

\* Mutant: the staged file is copied, not moved.
Bug_MoveIn ==
    /\ pc = "move"
    /\ dest' = [dest EXCEPT ![cur] = pack]
    /\ pc' = "merge"
    /\ UNCHANGED <<backup, staging, marker, list, pack, toWrite, todo, cur,
                   displaced, result, ghosts, faults>>

MoveIn ==
    /\ pc = "move"
    /\ \/ /\ dest' = [dest EXCEPT ![cur] = pack]
          /\ staging' = staging \ {cur}
          /\ pc' = "merge"
          /\ UNCHANGED <<todo, displaced, result, faults>>
       \/ /\ Fault
          /\ BeginRollBack("RolledBack", backup)
          /\ UNCHANGED <<dest, staging>>
    /\ UNCHANGED <<backup, marker, list, pack, toWrite, cur, ghosts>>

\* commit() starts with the backup directory.
Commit ==
    /\ pc = "merge" /\ todo = {}
    /\ pc' = "dropBackup"
    /\ result' = "Installed"
    /\ UNCHANGED <<diskVars, pack, toWrite, todo, cur, displaced, ghosts, faults>>

-----------------------------------------------------------------------------
(* rollBack(). *)

\* The new file goes, then the old one comes back: SdFileStore::rename.
RestoreClear ==
    /\ pc = "restore"
    /\ \E f \in todo :
        /\ cur' = f
        /\ todo' = todo \ {f}
        /\ dest' = [dest EXCEPT ![f] = None]
    /\ pc' = "restoreMove"
    /\ UNCHANGED <<backup, staging, marker, list, pack, toWrite, displaced,
                   result, ghosts, faults>>

RestoreMove ==
    /\ pc = "restoreMove"
    /\ \/ /\ dest' = [dest EXCEPT ![cur] = backup[cur]]
          /\ backup' = [backup EXCEPT ![cur] = None]
          /\ UNCHANGED <<result, faults>>
       \/ /\ Fault
          /\ result' = "MergeFailed"
          /\ UNCHANGED <<dest, backup>>
    /\ pc' = "restore"
    /\ UNCHANGED <<staging, marker, list, pack, toWrite, todo, cur, displaced,
                   ghosts>>

\* Mutant: the backup directory is asked after the files went back.
Bug_Created == {f \in toWrite : backup[f] = None /\ f \notin staging}

\* What the merge created is told from what it never reached by the staging
\* directory: a file still there was never installed.
Created == {f \in toWrite : f \notin displaced /\ f \notin staging}

RestoreDone ==
    /\ pc = "restore" /\ todo = {}
    /\ todo' = Created
    /\ pc' = "uncreate"
    /\ UNCHANGED <<diskVars, pack, toWrite, cur, displaced, result, ghosts, faults>>

Uncreate ==
    /\ pc = "uncreate"
    /\ \/ /\ todo = {}
          /\ pc' = "dropBackup"
          /\ UNCHANGED <<dest, todo>>
       \/ \E f \in todo :
            /\ dest' = [dest EXCEPT ![f] = None]
            /\ todo' = todo \ {f}
            /\ UNCHANGED pc
    /\ UNCHANGED <<backup, staging, marker, list, pack, toWrite, cur, displaced,
                   result, ghosts, faults>>

-----------------------------------------------------------------------------
(* The clean-up commit(), rollBack() and recovery end with, in this order. *)

\* removeTree deletes file by file.
DropBackup ==
    /\ pc = "dropBackup"
    /\ \/ /\ Files(backup) = {}
          /\ pc' = "dropStaging"
          /\ UNCHANGED backup
       \/ \E f \in Files(backup) :
            /\ backup' = [backup EXCEPT ![f] = None]
            /\ UNCHANGED pc
    /\ UNCHANGED <<dest, staging, marker, list, pack, toWrite, todo, cur,
                   displaced, result, ghosts, faults>>

DropStaging ==
    /\ pc = "dropStaging"
    /\ \/ staging = {} /\ pc' = "dropList" /\ UNCHANGED staging
       \/ \E f \in staging : staging' = staging \ {f} /\ UNCHANGED pc
    /\ UNCHANGED <<dest, backup, marker, list, pack, toWrite, todo, cur,
                   displaced, result, ghosts, faults>>

DropList ==
    /\ pc = "dropList"
    /\ list' = {}
    /\ pc' = "dropMarker"
    /\ UNCHANGED <<dest, backup, staging, marker, pack, toWrite, todo, cur,
                   displaced, result, ghosts, faults>>

\* Mutant: the marker stays behind.
Bug_DropMarker ==
    /\ pc = "dropMarker"
    /\ pc' = "idle"
    /\ UNCHANGED <<diskVars, pack, toWrite, todo, cur, displaced, result,
                   ghosts, faults>>

DropMarker ==
    /\ pc = "dropMarker"
    /\ marker' = FALSE
    /\ pc' = "idle"
    /\ UNCHANGED <<dest, backup, staging, list, pack, toWrite, todo, cur,
                   displaced, result, ghosts, faults>>

-----------------------------------------------------------------------------
(* recoverInterruptedMerge() at startup. *)

decideMergeRecovery(readable) ==
    IF ~marker THEN "Nothing"
    ELSE IF ~readable THEN "Unrecoverable"
    ELSE IF Files(backup) # {} THEN "RollBack"
    ELSE "CleanUpOnly"

\* Mutant: the list is never found.
Bug_readPlannedFiles == {}

\* One path per line.
readPlannedFiles == list

\* A marker or a list that cannot be read is a fault; a lost list is empty.
\* Nothing to recover is reported as Installed and shows nothing: "none" here.
Recover ==
    /\ pc = "off"
    /\ \/ /\ decideMergeRecovery(TRUE) = "Nothing"
          /\ pc' = "idle"
          /\ result' = "none"
          /\ UNCHANGED <<toWrite, todo, displaced, faults>>
       \/ /\ decideMergeRecovery(FALSE) = "Unrecoverable" /\ Fault
          /\ pc' = "idle"
          /\ result' = "MergeFailed"
          /\ UNCHANGED <<toWrite, todo, displaced>>
       \/ /\ decideMergeRecovery(TRUE) = "CleanUpOnly"
          /\ pc' = "dropBackup"
          /\ result' = "RolledBack"
          /\ UNCHANGED <<toWrite, todo, displaced, faults>>
       \/ /\ decideMergeRecovery(TRUE) = "RollBack"
          /\ \/ toWrite' = readPlannedFiles /\ UNCHANGED faults
             \/ toWrite' = {} /\ list # {} /\ Fault
          /\ BeginRollBack("RolledBack", backup)
    /\ UNCHANGED <<diskVars, pack, cur, ghosts>>

PowerCut ==
    /\ pc # "off"
    /\ cuts < MaxCuts
    /\ cuts' = cuts + 1
    /\ cutAt' = pc
    /\ pc' = "off"
    /\ result' = "none"
    /\ toWrite' = {} /\ todo' = {} /\ displaced' = {}
    /\ UNCHANGED <<diskVars, pack, cur, before, kept, installs, faults>>

\* The user closes the application and opens it again later.
Quit ==
    /\ pc = "idle"
    /\ pc' = "off"
    /\ result' = "none"
    /\ UNCHANGED <<diskVars, pack, toWrite, todo, cur, displaced, ghosts, faults>>

-----------------------------------------------------------------------------
(* The maintenance tool: CleanupService::cleanStaging deletes the staging     *)
(* root, where the backup, the list and the marker are, file by file and in   *)
(* whatever order the directory is read.  AppShell shows that it never runs   *)
(* under an installation.                                                     *)

BeginPurge ==
    /\ pc = "idle"
    /\ pc' = "purge"
    /\ UNCHANGED <<diskVars, pack, toWrite, todo, cur, displaced, result, ghosts,
                   faults>>

PurgeFile ==
    /\ pc = "purge"
    /\ \/ /\ \E f \in Files(backup) : backup' = [backup EXCEPT ![f] = None]
          /\ UNCHANGED <<staging, marker, list>>
       \/ /\ \E f \in staging : staging' = staging \ {f}
          /\ UNCHANGED <<backup, marker, list>>
       \/ list # {} /\ list' = {} /\ UNCHANGED <<backup, staging, marker>>
       \/ marker /\ marker' = FALSE /\ UNCHANGED <<backup, staging, list>>
    /\ UNCHANGED <<dest, memVars, ghosts, faults>>

\* removeTree goes on past a file it cannot delete.
EndPurge ==
    /\ pc = "purge"
    /\ \/ Files(backup) = {} /\ staging = {} /\ list = {} /\ ~marker
          /\ UNCHANGED faults
       \/ Fault
    /\ pc' = "idle"
    /\ UNCHANGED <<diskVars, pack, toWrite, todo, cur, displaced, result, ghosts>>

Purge == BeginPurge \/ PurgeFile \/ EndPurge

-----------------------------------------------------------------------------

Run ==
    \/ WriteList \/ WriteMarker
    \/ Displace \/ DisplaceFails \/ MoveIn \/ Commit
    \/ RestoreClear \/ RestoreMove \/ RestoreDone \/ Uncreate
    \/ DropBackup \/ DropStaging \/ DropList \/ DropMarker
    \/ Recover

Next == Install \/ Cancel \/ Run \/ Quit \/ PowerCut

\* A card with the user's files on it and no installation ever started.
Init ==
    /\ dest \in [File -> {User, None}]
    /\ before = dest /\ kept = {} /\ cutAt = "off"
    /\ backup = [f \in File |-> None]
    /\ staging = {} /\ marker = FALSE /\ list = {}
    /\ pc = "off" /\ pack \in Pack /\ toWrite = {} /\ todo = {}
    /\ cur \in File /\ displaced = {} /\ result = "none"
    /\ installs = 0 /\ faults = 0 /\ cuts = 0

Spec == Init /\ [][Next]_vars

\* The same with the maintenance tool in use.
PurgeSpec == Init /\ [][Next \/ Purge]_vars

\* The application works on once it has started; a user with an installation
\* to resolve starts it again, and power cuts and faults are bounded.  A purge
\* that began runs through.
FairPurgeSpec ==
    PurgeSpec /\ WF_vars(Run) /\ WF_vars(Quit) /\ WF_vars(PurgeFile \/ EndPurge)

-----------------------------------------------------------------------------
(* Properties. *)

TypeOK ==
    /\ dest \in [File -> Content] /\ backup \in [File -> Content]
    /\ before \in [File -> Content]
    /\ staging \subseteq File /\ list \subseteq File /\ toWrite \subseteq File
    /\ todo \subseteq File /\ displaced \subseteq File /\ kept \subseteq File
    /\ marker \in BOOLEAN /\ pc \in Step /\ cutAt \in Step
    /\ pack \in Pack /\ cur \in File /\ result \in InstallResult
    /\ installs \in 0..MaxInstalls /\ faults \in 0..MaxFaults
    /\ cuts \in 0..MaxCuts

\* A displaced file always has the marker that tells the next start to put it
\* back, also while commit() or rollBack() cleans up: "Removing the marker
\* before the backup would leave a directory nothing would ever clean up."
BackupIsMarked == Files(backup) # {} => marker

\* What install() reports when no power cut came in between is what happened:
\* RolledBack and Cancelled mean that every file is as it was, Installed that
\* every planned file is the pack's and every other as it was.
OutcomeIsTrue ==
    pc = "idle" /\ cuts = 0 =>
        /\ result \in {"RolledBack", "Cancelled"} => dest = before
        /\ result = "Installed" =>
            dest = [f \in File |-> IF f \in toWrite THEN pack ELSE before[f]]

\* What rollBack() would leave if it ran now from the card alone.
Undone(planned) ==
    [f \in File |->
        IF backup[f] # None THEN backup[f]
        ELSE IF f \in planned \ staging THEN None
        ELSE dest[f]]

\* Until the last file is in place, the backup, the staging directory and the
\* list together determine the card as it was: mergeStagedTree writes the list
\* and the marker first and displaces before it installs.
MergeReversible ==
    marker /\ (IF pc = "off" THEN cutAt ELSE pc) \in {"merge", "move"}
        => Undone(list) = before

\* A merge that was cut with some file displaced is undone by the recovery at
\* the next start, when that one runs through without another cut or fault.
RecoveredIsBefore ==
    /\ pc = "idle" /\ result = "RolledBack"
    /\ cuts = 1 /\ faults = 0 /\ cutAt \in {"merge", "move"}
    /\ displaced # {}
    => dest = before

\* A file the user asked to keep and had is never touched, whatever fails and
\* wherever the power goes: mergeStagedTree leaves it out of the plan that
\* rollBack and recovery work from.
PreservedUntouched == \A f \in kept : dest[f] = before[f]

\* An interrupted installation does not lock the card for good: install()
\* refuses to run while the marker exists, and some recovery removes it.
MergeResolves == marker ~> ~marker

(* Claims of comments that the code does not keep. *)

\* "A marker and a staged tree but no backup: the merge was interrupted before
\* it displaced anything, so there is nothing to put back and the destination
\* is untouched." (decideMergeRecovery)
CleanUpChangedNothing ==
    pc = "off" /\ marker /\ Files(backup) = {} /\ staging # {} => dest = before

\* A planned file is only deleted when the merge created it: "Deleting it would
\* destroy a file this rollback exists to protect." (rollBack)
RollBackKeepsOriginals ==
    [][pc = "uncreate" =>
        \A f \in File : dest[f] = before[f] => dest'[f] = dest[f]]_vars

\* "The backup goes first: while it exists the installation is still
\* reversible, and the marker is what says so." (commit)
ReversibleWhileBackedUp ==
    marker /\ Files(backup) # {} /\ result = "Installed" => Undone(list) = before
=============================================================================
