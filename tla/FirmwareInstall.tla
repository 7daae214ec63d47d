--------------------------- MODULE FirmwareInstall ---------------------------
(***************************************************************************)
(* Replacing the firmware set in /firmware and handing it to Daybreak      *)
(* (domain/firmware/firmware_install_service.cpp, core/firmware/           *)
(* firmware_set.cpp, infra/archive/zip_extractor.cpp).                     *)
(*                                                                         *)
(* There is no backup: the old set is deleted file by file once the new    *)
(* archive is verified, and the archive is then expanded entry by entry.   *)
(* The power may be cut between any two steps, and other tools write to    *)
(* /firmware too.                                                          *)
(***************************************************************************)
EXTENDS Naturals, FiniteSets

CONSTANTS
    NcaName,        \* file names that end in .nca
    OtherName,      \* file names that do not
    Version,        \* the firmware versions of the catalogue
    Foreign,        \* content: a file some other tool put there
    None,           \* content: the file does not exist
    MaxInstalls,    \* how many installations are started
    MaxFaults,      \* how many operations may fail
    MaxCuts,        \* how many power cuts may happen
    MaxForeign      \* how many files other tools put there

ASSUME FirmwareAssumption ==
    /\ NcaName \cap OtherName = {}
    /\ Foreign # None
    /\ MaxInstalls \in Nat /\ MaxFaults \in Nat
    /\ MaxCuts \in Nat /\ MaxForeign \in Nat

Name == NcaName \cup OtherName

\* A file out of an archive; whole once its entry is completely written.
Extracted == [version : Version, whole : BOOLEAN]

ASSUME ContentAssumption == Foreign \notin Extracted /\ None \notin Extracted

Content == Extracted \cup {Foreign, None}

VARIABLES
    dir,        \* /firmware
    archive,    \* whether the verified archive is in the staging directory
    pc,         \* the next step of stage(); "off" when the power is off
    item,       \* the catalogue item: its version and its archive's entries
    todo,       \* what the running loop has left
    cur,        \* the entry being written
    result,     \* the FirmwareResult
    before,     \* /firmware when the last installation began
    installs, faults, cuts, foreign

vars == <<dir, archive, pc, item, todo, cur, result, before, installs, faults,
          cuts, foreign>>

Item == [version : Version, entries : (SUBSET Name) \ {{}}]

FirmwareResult ==
    {"none", "Ready", "InsufficientSpace", "DownloadFailed", "VerifyFailed",
     "UnsafeArchive", "ExtractFailed", "DirectoryNotOurs", "ClearFailed",
     "NotFirmwareContent", "DaybreakMissing", "Cancelled", "NotFirmwareItem"}

\* The results of a download that does not arrive.
NotDownloaded == {"DownloadFailed", "VerifyFailed", "Cancelled"}

Files == {f \in Name : dir[f] # None}

isFirmwareContent(f) == f \in NcaName

\* scanFirmwareDirectory(...).onlyFirmware()
onlyFirmware(names) == \A f \in names : isFirmwareContent(f)

looksLikeFirmware(names) == names # {} /\ onlyFirmware(names)

Fault == faults < MaxFaults /\ faults' = faults + 1

\* Every way out after the preflight discards the archive.
Return(r) ==
    /\ result' = r
    /\ archive' = FALSE
    /\ todo' = {}
    /\ pc' = "idle"

-----------------------------------------------------------------------------
(* stage(). *)

\* Mutant: the old set goes before the download.
Bug_Preflight ==
    /\ pc = "idle"
    /\ installs < MaxInstalls
    /\ installs' = installs + 1
    /\ item' \in Item
    /\ before' = dir
    /\ dir' = [f \in Name |-> None]
    /\ pc' = "download" /\ result' = "none" /\ archive' = FALSE
    /\ UNCHANGED <<todo, cur, faults, cuts, foreign>>

\* The preflight refuses an item of another kind, scans /firmware and looks for
\* Daybreak, then drops a leftover archive and looks for space.  The user may
\* cancel before and after.
Preflight ==
    /\ pc = "idle"
    /\ installs < MaxInstalls
    /\ installs' = installs + 1
    /\ item' \in Item
    /\ before' = dir
    /\ \/ result' \in {"NotFirmwareItem", "Cancelled"} /\ UNCHANGED <<pc, archive>>
       \/ ~onlyFirmware(Files) /\ result' = "DirectoryNotOurs" /\ UNCHANGED <<pc, archive>>
       \/ onlyFirmware(Files) /\ result' = "DaybreakMissing" /\ UNCHANGED <<pc, archive>>
       \/ /\ onlyFirmware(Files)
          /\ archive' = FALSE
          /\ \/ result' \in {"ExtractFailed", "InsufficientSpace", "Cancelled"} /\ UNCHANGED pc
             \/ result' = "none" /\ pc' = "download"
    /\ UNCHANGED <<dir, todo, cur, faults, cuts, foreign>>

\* Mutant: a download that did not verify is good enough to start clearing.
Bug_Download ==
    /\ pc = "download"
    /\ todo' = Files
    /\ pc' = "clear"
    /\ UNCHANGED <<dir, archive, item, cur, result, before, installs, faults,
                   cuts, foreign>>

\* download() gives the file its name only when size and digest match.  The
\* listing that is cleared is taken afterwards, not the one that was scanned.
Download ==
    /\ pc = "download"
    /\ \/ \E r \in NotDownloaded : Return(r)
       \/ /\ archive' = TRUE
          /\ todo' = Files
          /\ pc' = "clear"
          /\ UNCHANGED result
    /\ UNCHANGED <<dir, item, cur, before, installs, faults, cuts, foreign>>

\* Mutant: a file that cannot be deleted is skipped.
Bug_Clear ==
    /\ pc = "clear" /\ todo # {}
    /\ \E f \in todo :
        /\ todo' = todo \ {f}
        /\ \/ dir' = [dir EXCEPT ![f] = None] /\ UNCHANGED faults
           \/ Fault /\ UNCHANGED dir
    /\ UNCHANGED <<archive, pc, item, cur, result, before, installs, cuts, foreign>>

\* A file that cannot be deleted ends the installation.
Clear ==
    /\ pc = "clear" /\ todo # {}
    /\ \/ /\ \E f \in todo :
                /\ dir' = [dir EXCEPT ![f] = None]
                /\ todo' = todo \ {f}
          /\ UNCHANGED <<archive, pc, result, faults>>
       \/ Fault /\ Return("ClearFailed") /\ UNCHANGED dir
    /\ UNCHANGED <<item, cur, before, installs, cuts, foreign>>

\* The archive is opened and every entry decided on before one is written.
Cleared ==
    /\ pc = "clear" /\ todo = {}
    /\ \/ todo' = item.entries /\ pc' = "extract" /\ UNCHANGED <<archive, result>>
       \/ \E r \in {"Cancelled", "UnsafeArchive", "ExtractFailed", "ClearFailed"} :
            Return(r)
    /\ UNCHANGED <<dir, item, cur, before, installs, faults, cuts, foreign>>

\* The next entry: its file is created, empty.  The user may cancel instead.
OpenEntry ==
    /\ pc = "extract" /\ todo # {}
    /\ \/ /\ \E f \in todo :
                /\ dir' = [dir EXCEPT ![f] = [version |-> item.version, whole |-> FALSE]]
                /\ cur' = f
                /\ todo' = todo \ {f}
          /\ pc' = "write"
          /\ UNCHANGED <<archive, result>>
       \/ Return("Cancelled") /\ UNCHANGED <<dir, cur>>
    /\ UNCHANGED <<item, before, installs, faults, cuts, foreign>>

\* Mutant: an entry that cannot be written is left as it is.
Bug_WriteEntry ==
    /\ pc = "write"
    /\ \/ /\ dir' = [dir EXCEPT ![cur] = [version |-> item.version, whole |-> TRUE]]
          /\ UNCHANGED faults
       \/ Fault /\ UNCHANGED dir
    /\ pc' = "extract"
    /\ UNCHANGED <<archive, item, todo, cur, result, before, installs, cuts, foreign>>

\* An entry that cannot be written is removed again.
WriteEntry ==
    /\ pc = "write"
    /\ \/ /\ dir' = [dir EXCEPT ![cur] = [version |-> item.version, whole |-> TRUE]]
          /\ pc' = "extract"
          /\ UNCHANGED <<archive, todo, result, faults>>
       \/ /\ Fault
          /\ dir' = [dir EXCEPT ![cur] = None]
          /\ Return("ExtractFailed")
    /\ UNCHANGED <<item, cur, before, installs, cuts, foreign>>

\* What landed is listed once more.
Confirm ==
    /\ pc = "extract" /\ todo = {}
    /\ Return(IF looksLikeFirmware(Files) THEN "Ready" ELSE "NotFirmwareContent")
    /\ UNCHANGED <<dir, item, cur, before, installs, faults, cuts, foreign>>

-----------------------------------------------------------------------------
(* Around it. *)

PowerCut ==
    /\ pc # "off"
    /\ cuts < MaxCuts
    /\ cuts' = cuts + 1
    /\ pc' = "off"
    /\ result' = "none"
    /\ todo' = {}
    /\ UNCHANGED <<dir, archive, item, cur, before, installs, faults, foreign>>

Start ==
    /\ pc = "off"
    /\ pc' = "idle"
    /\ UNCHANGED <<dir, archive, item, todo, cur, result, before, installs,
                   faults, cuts, foreign>>

\* The application ends, with or without handing over to Daybreak.
Quit ==
    /\ pc = "idle"
    /\ pc' = "off"
    /\ result' = "none"
    /\ UNCHANGED <<dir, archive, item, todo, cur, before, installs, faults,
                   cuts, foreign>>

\* Another tool writes a file.
WriteForeign ==
    /\ foreign < MaxForeign
    /\ foreign' = foreign + 1
    /\ \E f \in Name \ Files : dir' = [dir EXCEPT ![f] = Foreign]
    /\ UNCHANGED <<archive, pc, item, todo, cur, result, before, installs,
                   faults, cuts>>

Stage == Preflight \/ Download \/ Clear \/ Cleared \/ OpenEntry \/ WriteEntry \/ Confirm

Init ==
    /\ dir = [f \in Name |-> None] /\ before = dir
    /\ archive = FALSE /\ pc = "off"
    /\ item \in Item /\ todo = {} /\ cur \in Name /\ result = "none"
    /\ installs = 0 /\ faults = 0 /\ cuts = 0 /\ foreign = 0

\* Other tools write while the application is not running.
Next == Stage \/ Start \/ Quit \/ PowerCut \/ (pc = "off" /\ WriteForeign)

Spec == Init /\ [][Next]_vars

\* Other tools, on the console or over the network, write at any time.
SharedSpec == Init /\ [][Next \/ WriteForeign]_vars

-----------------------------------------------------------------------------
(* Properties. *)

\* Every variable has its type, and stage() only deletes and extracts while
\* the verified archive is on the card.
TypeOK ==
    /\ dir \in [Name -> Content] /\ before \in [Name -> Content]
    /\ archive \in BOOLEAN
    /\ pc \in {"off", "idle", "download", "clear", "extract", "write"}
    /\ item \in Item /\ todo \subseteq Name /\ cur \in Name
    /\ result \in FirmwareResult
    /\ installs \in 0..MaxInstalls /\ faults \in 0..MaxFaults
    /\ cuts \in 0..MaxCuts /\ foreign \in 0..MaxForeign
    /\ pc \in {"clear", "extract", "write"} => archive

\* The directory never holds files of two firmware versions, whatever fails and
\* wherever the power goes: stage() clears everything before it extracts and a
\* failed deletion ends it.
NeverMixed ==
    \A f, g \in Name :
        dir[f] \in Extracted /\ dir[g] \in Extracted => dir[f].version = dir[g].version

\* A refusal or a download that fails leaves /firmware as it was: stage()
\* deletes nothing before download() has verified the archive.
UntouchedOnFailure ==
    /\ pc = "idle"
    /\ result \in {"NotFirmwareItem", "DirectoryNotOurs", "DaybreakMissing",
                   "InsufficientSpace", "DownloadFailed", "VerifyFailed"}
    => dir = before

\* The set Daybreak is offered is the archive's, every file of it whole, and
\* nothing else: stage() reports Ready for what it cleared and extracted itself.
ReadyIsWhole ==
    pc = "idle" /\ result = "Ready" =>
        dir = [f \in Name |->
                IF f \in item.entries THEN [version |-> item.version, whole |-> TRUE]
                ELSE None]

(* Claims of comments and messages that the code does not keep. *)

\* stage() reports DirectoryNotOurs for "file(s) this application did not put
\* there".
NotOursMeansForeign ==
    pc = "idle" /\ result = "DirectoryNotOurs" => \E f \in OtherName : before[f] = Foreign

\* "Anything else stops the install and is named back to the caller": stage()
\* deletes no file it does not recognise as firmware.
ForeignKept ==
    [][\A f \in OtherName : dir[f] = Foreign => dir'[f] # None]_vars
=============================================================================
