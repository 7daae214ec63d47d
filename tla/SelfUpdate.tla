------------------------------ MODULE SelfUpdate ------------------------------
(***************************************************************************)
(* The whole self-update: the application that stages a release and writes *)
(* the handoff (UpdateService::stage, installForwarder), the forwarder     *)
(* that installs it (module Forwarder), the user who starts one or the     *)
(* other, and the maintenance tool that empties the staging directory      *)
(* (CleanupService::cleanStaging).                                         *)
(*                                                                         *)
(* The application and the forwarder never run at the same time: each is   *)
(* started by the loader after the other is gone.  Inside the application  *)
(* the staging worker and the user interface are two threads.  Versions    *)
(* are numbers, and only a newer one is offered.                           *)
(***************************************************************************)
EXTENDS Forwarder

CONSTANTS
    TransientAttempts,  \* stage()'s kTransientAttempts
    DigestAttempts      \* stage()'s kDigestAttempts

ASSUME VersionAssumption == Version \subseteq Nat

ASSUME RetryAssumption ==
    TransientAttempts \in Nat \ {0} /\ DigestAttempts \in Nat \ {0}

VARIABLES
    app,        \* what the application is doing; "off" when it is not running
    staging,    \* the release the worker stages (kept until the next one)
    tries,      \* failed downloads of this release so far, by kind
    temp,       \* whether the temporary file the worker is to rename is there
    nro,        \* the two copies of the forwarder on the card
    purge       \* files the maintenance tool still has to delete

selfVars ==
    <<card, handoff, pc, h, result, faults, app, staging, tries, temp, nro, purge>>

AppStep ==
    {"off", "boot", "bootRepair", "idle", "download", "landClear", "landMove",
     "reread", "ensure", "writeHandoff", "handoffClear", "handoffMove",
     "dropStaged", "staged"}

Copy == {"forwarder", "repair"}

NoTries == [transient |-> 0, digest |-> 0]

\* The variables of the forwarder, which is not running.
ForwarderIdle == UNCHANGED <<pc, h, result>>

-----------------------------------------------------------------------------
(* Startup of the application: main() and installForwarder(). *)

\* hbmenu loads a complete binary or nothing.
StartApp ==
    /\ app = "off" /\ pc = "off"
    /\ card["target"] \in Version
    /\ app' = "boot"
    /\ UNCHANGED <<card, handoff, faults, staging, tries, temp, nro, purge>>
    /\ ForwarderIdle

\* Copying one of the forwarders out of romfs, only when its path is empty; a
\* failed copy removes what it wrote.  Both continuations are given.
CopyForwarder(c, done, failed) ==
    \/ /\ nro[c] # "absent"
       /\ app' = done
       /\ UNCHANGED <<nro, faults>>
    \/ /\ nro[c] = "absent"
       /\ nro' = [nro EXCEPT ![c] = "good"]
       /\ app' = done
       /\ UNCHANGED faults
    \/ /\ nro[c] = "absent"
       /\ Fault
       /\ app' = failed
       /\ UNCHANGED nro

InstallForwarder ==
    /\ app = "boot"
    /\ CopyForwarder("forwarder", "bootRepair", "bootRepair")
    /\ UNCHANGED <<card, handoff, staging, tries, temp, purge>>
    /\ ForwarderIdle

InstallRepairEntry ==
    /\ app = "bootRepair"
    /\ CopyForwarder("repair", "idle", "idle")
    /\ UNCHANGED <<card, handoff, staging, tries, temp, purge>>
    /\ ForwarderIdle

-----------------------------------------------------------------------------
(* UpdateService::stage on the worker thread. *)

\* A newer release is offered and the user accepts it.  The refusals before
\* the first byte (no asset, no directory, no space) change nothing and are
\* the same as not starting.
BeginStage ==
    /\ app = "idle"
    /\ \E v \in Version : v > card["target"] /\ staging' = v
    /\ app' = "download"
    /\ tries' = NoTries
    /\ temp' = FALSE
    /\ UNCHANGED <<card, handoff, faults, nro, purge>>
    /\ ForwarderIdle

\* Mutant: a transient failure is retried without end.
Bug_Download ==
    /\ app = "download"
    /\ tries' = [tries EXCEPT !.transient = @ + 1]
    /\ UNCHANGED <<card, handoff, faults, app, staging, temp, nro, purge>>
    /\ ForwarderIdle

\* One call of HttpGateway::download up to the point where the bytes in the
\* partial file are verified.  Failures only touch the partial file.
Download ==
    /\ app = "download"
    /\ \/ app' = "landClear" /\ temp' = TRUE /\ UNCHANGED tries
       \/ /\ UNCHANGED temp
          /\ tries' = [tries EXCEPT !.transient = @ + 1]
          /\ app' = IF tries'.transient < TransientAttempts
                    THEN "download" ELSE "idle"
       \/ /\ UNCHANGED temp
          /\ tries' = [tries EXCEPT !.digest = @ + 1]
          /\ app' = IF tries'.digest < DigestAttempts THEN "download" ELSE "idle"
       \/ app' = "idle" /\ UNCHANGED <<temp, tries>>
    /\ UNCHANGED <<card, handoff, faults, staging, nro, purge>>
    /\ ForwarderIdle

\* download() deletes the destination before it renames the partial file.
LandClear ==
    /\ app = "landClear"
    /\ \/ card' = [card EXCEPT !["staged"] = Absent] /\ UNCHANGED faults
       \/ exists("staged") /\ Fault /\ UNCHANGED card
    /\ app' = "landMove"
    /\ UNCHANGED <<handoff, staging, tries, temp, nro, purge>>
    /\ ForwarderIdle

LandMove ==
    /\ app = "landMove"
    /\ temp' = FALSE
    /\ \/ /\ temp /\ ~exists("staged")
          /\ \E c \in Written(staging) : card' = [card EXCEPT !["staged"] = c]
          /\ app' = "reread"
          /\ UNCHANGED faults
       \/ /\ IF temp /\ ~exists("staged") THEN Fault ELSE UNCHANGED faults
          /\ app' = "idle"
          /\ UNCHANGED card
    /\ UNCHANGED <<handoff, staging, tries, nro, purge>>
    /\ ForwarderIdle

\* The staged file is read back from the card.
Reread ==
    /\ app = "reread"
    /\ \/ card["staged"] = staging /\ app' = "ensure" /\ UNCHANGED faults
       \/ /\ IF card["staged"] = staging THEN Fault ELSE UNCHANGED faults
          /\ app' = "dropStaged"
    /\ UNCHANGED <<card, handoff, staging, tries, temp, nro, purge>>
    /\ ForwarderIdle

EnsureForwarder ==
    /\ app = "ensure"
    /\ CopyForwarder("forwarder", "writeHandoff", "dropStaged")
    /\ UNCHANGED <<card, handoff, staging, tries, temp, purge>>
    /\ ForwarderIdle

\* SdFileStore::writeAtomic: write beside, delete, rename.
WriteHandoff ==
    /\ app = "writeHandoff"
    /\ \/ app' = "handoffClear" /\ temp' = TRUE /\ UNCHANGED faults
       \/ app' = "dropStaged" /\ UNCHANGED temp /\ Fault
    /\ UNCHANGED <<card, handoff, staging, tries, nro, purge>>
    /\ ForwarderIdle

HandoffClear ==
    /\ app = "handoffClear"
    /\ \/ handoff' = Absent /\ UNCHANGED faults
       \/ handoff # Absent /\ Fault /\ UNCHANGED handoff
    /\ app' = "handoffMove"
    /\ UNCHANGED <<card, staging, tries, temp, nro, purge>>
    /\ ForwarderIdle

HandoffMove ==
    /\ app = "handoffMove"
    /\ temp' = FALSE
    /\ \/ /\ temp /\ handoff = Absent
          /\ handoff' = [from |-> card["target"], digest |-> staging,
                         attempts |-> 0]
          /\ app' = "staged"
          /\ UNCHANGED faults
       \/ /\ IF temp /\ handoff = Absent THEN Fault ELSE UNCHANGED faults
          /\ app' = "dropStaged"
          /\ UNCHANGED handoff
    /\ UNCHANGED <<card, staging, tries, nro, purge>>
    /\ ForwarderIdle

\* Every failure after the download deletes the staged binary and gives up.
DropStaged ==
    /\ app = "dropStaged"
    /\ \/ card' = [card EXCEPT !["staged"] = Absent] /\ UNCHANGED faults
       \/ exists("staged") /\ Fault /\ UNCHANGED card
    /\ app' = "idle"
    /\ UNCHANGED <<handoff, staging, tries, temp, nro, purge>>
    /\ ForwarderIdle

-----------------------------------------------------------------------------
(* Leaving the application, and starting the forwarder. *)

\* The user quits without confirming a restart; nothing is chainloaded.
QuitApp ==
    /\ app \in {"idle", "staged"} /\ purge = {}
    /\ app' = "off"
    /\ UNCHANGED <<card, handoff, faults, staging, tries, temp, nro, purge>>
    /\ ForwarderIdle

\* Mutant: the forwarder starts while the application is still at work.
Bug_Chainload ==
    /\ app = "staged"
    /\ nro["forwarder"] = "good"
    /\ app' = "off"
    /\ Launch
    /\ UNCHANGED <<staging, tries, temp, nro, purge>>

\* The user confirms the restart and the loader starts the forwarder copy;
\* a damaged copy does not load and the user is back in hbmenu (QuitApp).
Chainload ==
    /\ app = "staged" /\ purge = {}
    /\ nro["forwarder"] = "good"
    /\ app' = "off"
    /\ Launch
    /\ UNCHANGED <<staging, tries, temp, nro, purge>>

OpenRepairEntry ==
    /\ app = "off"
    /\ nro["repair"] = "good"
    /\ Launch
    /\ UNCHANGED <<app, staging, tries, temp, nro, purge>>

ForwarderStep ==
    /\ Run \/ PowerCut
    /\ UNCHANGED <<app, staging, tries, temp, nro, purge>>

\* Power is lost while the application runs.  A copy out of romfs in progress
\* leaves a truncated file behind; partial and temporary files are ignored by
\* everything that runs later.
AppPowerCut ==
    /\ app # "off"
    /\ Fault
    /\ \/ UNCHANGED nro
       \/ \E c \in Copy :
            /\ app \in (IF c = "repair" THEN {"bootRepair"} ELSE {"boot", "ensure"})
            /\ nro[c] = "absent"
            /\ nro' = [nro EXCEPT ![c] = "torn"]
    /\ app' = "off"
    /\ temp' = FALSE
    /\ purge' = {}
    /\ UNCHANGED <<card, handoff, staging, tries>>
    /\ ForwarderIdle

-----------------------------------------------------------------------------
(* The maintenance tool, on the user interface's thread. *)

StagingFile == {"staged", "backup", "handoff", "temp"}

\* The files removeTree finds when it lists the staging directory.
Listed ==
    {f \in {"staged", "backup"} : exists(f)}
        \cup (IF handoff # Absent THEN {"handoff"} ELSE {})
        \cup (IF temp THEN {"temp"} ELSE {})

BeginPurge ==
    /\ app \notin {"off", "boot", "bootRepair"} /\ purge = {}
    /\ purge' = Listed
    /\ UNCHANGED <<card, handoff, faults, app, staging, tries, temp, nro>>
    /\ ForwarderIdle

PurgeFile(f) ==
    /\ f \in purge
    /\ purge' = purge \ {f}
    /\ card' = [g \in File |-> IF g = f THEN Absent ELSE card[g]]
    /\ handoff' = IF f = "handoff" THEN Absent ELSE handoff
    /\ temp' = (temp /\ f # "temp")
    /\ UNCHANGED <<faults, app, staging, tries, nro>>
    /\ ForwarderIdle

Purge == BeginPurge \/ \E f \in StagingFile : PurgeFile(f)

-----------------------------------------------------------------------------

Stage ==
    \/ BeginStage \/ Download \/ LandClear \/ LandMove \/ Reread
    \/ EnsureForwarder \/ WriteHandoff \/ HandoffClear \/ HandoffMove
    \/ DropStaged

SelfNext ==
    \/ StartApp \/ InstallForwarder \/ InstallRepairEntry
    \/ Stage
    \/ QuitApp \/ Chainload \/ OpenRepairEntry
    \/ ForwarderStep
    \/ AppPowerCut

\* A card the installer was unzipped onto, with the first version in place.
SelfInit ==
    /\ \E v \in Version :
        /\ \A w \in Version : v <= w
        /\ card = [f \in File |-> IF f = "target" THEN v ELSE Absent]
        /\ h = [from |-> v, digest |-> v, attempts |-> 0]   \* not read yet
        /\ staging = v
    /\ handoff = Absent
    /\ pc = "off" /\ result = "none" /\ faults = 0
    /\ app = "off" /\ tries = NoTries /\ temp = FALSE
    /\ nro = [c \in Copy |-> "absent"]
    /\ purge = {}

SelfSpec == SelfInit /\ [][SelfNext]_selfVars

\* The same with the maintenance tool in use.
PurgeSpec == SelfInit /\ [][SelfNext \/ Purge]_selfVars

-----------------------------------------------------------------------------
(* What the self-update promises. *)

SelfTypeOK ==
    /\ TypeOK
    /\ app \in AppStep
    /\ staging \in Version
    /\ tries \in [transient : 0 .. TransientAttempts, digest : 0 .. DigestAttempts]
    /\ temp \in BOOLEAN
    /\ nro \in [Copy -> {"good", "torn", "absent"}]
    /\ purge \subseteq StagingFile

\* Neither a rollback nor a restore ever goes back further than the version
\* that staged the pending update, also when a backup of an older update was
\* left behind: runSwap replaces the backup before it relies on it.
NoDowngrade ==
    LET current == IF exists("target") THEN card["target"] ELSE card["backup"]
    IN handoff # Absent /\ current \in Version => current >= handoff.from

\* StageResult::Staged is documented as "Verified, handed off, ready to
\* chainload.": while the restart is offered, the handoff and the binary it
\* names are on the card.
ReadyMeansStaged ==
    app = "staged" => handoff # Absent /\ card["staged"] = handoff.digest

\* stage() is documented to leave "no state in which an update is pending with
\* nothing able to install it": the copy it chainloads is a working one.
ReadyMeansInstallable == app = "staged" => nro["forwarder"] = "good"

\* The repair entry is documented to exist "so there is always a launchable
\* entry point even if the application binary is lost".
AlwaysSomethingLaunchable ==
    card["target"] \in Version \/ nro["repair"] = "good"
=============================================================================
