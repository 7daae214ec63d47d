---------------------------- MODULE CfwMergeProofs ----------------------------
(***************************************************************************)
(* Proofs about CfwMerge for every set of files, every set of packs and    *)
(* every number of installations, faults and power cuts.                   *)
(***************************************************************************)
EXTENDS CfwMerge, TLAPS

Merging == {"merge", "move"}

\* A file to keep is in no set the merge, a rollback or a recovery works from.
KeepInv ==
    /\ PreservedUntouched
    /\ kept \cap toWrite = {} /\ kept \cap list = {}
    /\ pc \in Merging \cup {"restore", "restoreMove", "uncreate"}
        => kept \cap todo = {}
    /\ \A f \in kept : backup[f] = None
    /\ pc \in {"move", "restoreMove"} => cur \notin kept
    /\ pc = "plan" => kept = {}

\* The marker is on the card while files move, and outlives the backup.
MarkerInv ==
    /\ pc \in Merging \cup {"plan", "mark"} => (marker <=> pc \in Merging)
    /\ pc \in {"plan", "mark", "dropStaging", "dropList", "dropMarker"}
        => Files(backup) = {}

\* Before the first move nothing has changed; the loop only has files left
\* that are planned, staged and not displaced.
LoopInv ==
    /\ pc \in {"plan", "mark"} => dest = before
    /\ pc \in {"mark"} \cup Merging => list = toWrite
    /\ pc = "mark" => toWrite \subseteq staging
    /\ pc \in Merging => todo \subseteq staging /\ todo \subseteq toWrite
    /\ pc \in Merging => \A f \in todo : backup[f] = None
    /\ pc = "move" => cur \in toWrite /\ cur \notin todo /\ dest[cur] = None

\* From the first move on the card alone determines what was there before.
UndoInv ==
    /\ BackupIsMarked
    /\ marker /\ (IF pc \in {"off", "idle"} THEN cutAt ELSE pc) \in Merging
        => \A f \in File : Undone(list)[f] = before[f]

\* No power cut so far, or one that stopped a merge and no fault with it.
Undisturbed == cuts = 0 \/ (cuts = 1 /\ faults = 0 /\ cutAt \in Merging)

\* A marker a start finds was left by a power cut, and its recovery begins with
\* nothing in memory.
LeftoverInv ==
    /\ pc \in {"off", "idle"} /\ cuts = 0 => ~marker
    /\ pc = "idle" /\ faults = 0 => ~marker
    /\ pc = "off" /\ marker /\ faults = 0 => displaced = {}

\* What the merge loop has behind it is the pack's, and nothing else changed.
MergedInv ==
    pc \in Merging =>
        \A f \in File :
            /\ f \in toWrite \ todo /\ ~(pc = "move" /\ f = cur) => dest[f] = pack
            /\ f \notin toWrite => backup[f] = None /\ dest[f] = before[f]

\* What the rollback has yet to put back.
Pending(f) == f \in todo \/ (pc = "restoreMove" /\ f = cur)

\* The rollback puts back what was displaced, and deletes the rest of what the
\* merge had behind it only where nothing was before.
RollBackInv ==
    /\ pc = "restoreMove" => cur \notin todo
    /\ pc \in {"restore", "restoreMove", "uncreate"} => result # "Installed"
    /\ Undisturbed /\ result # "MergeFailed" =>
        /\ pc \in {"restore", "restoreMove"} =>
            \A f \in File :
                /\ Pending(f) => f \in displaced /\ backup[f] = before[f]
                /\ ~Pending(f) /\ f \in displaced => dest[f] = before[f]
                /\ f \in Created => before[f] = None
                /\ f \notin displaced \cup Created => dest[f] = before[f]
        /\ pc = "uncreate" =>
            \A f \in File : IF f \in todo THEN before[f] = None ELSE dest[f] = before[f]

Ending == {"dropBackup", "dropStaging", "dropList", "dropMarker", "idle"}

\* The result on its way is the truth about the destination.
ResultInv ==
    pc \in Ending =>
        /\ /\ result \in {"RolledBack", "Cancelled"} /\ Undisturbed
           /\ cuts = 1 => displaced # {}
           => \A f \in File : dest[f] = before[f]
        /\ result = "Installed" =>
            \A f \in File : dest[f] = IF f \in toWrite THEN pack ELSE before[f]

OutcomeInv == LeftoverInv /\ MergedInv /\ RollBackInv /\ ResultInv

\* What holds with the maintenance tool in use, and what holds without it.
PurgeInv == TypeOK /\ KeepInv /\ MarkerInv /\ LoopInv
MergeInv == PurgeInv /\ UndoInv /\ OutcomeInv

-----------------------------------------------------------------------------
\* Every step of install(), rollBack() and recovery keeps the types.
LEMMA StepKeepsTypes ==
    ASSUME TypeOK, [Next]_vars
    PROVE  TypeOK'
<1> USE CfwAssumption DEF TypeOK, Content, Step, InstallResult, Files, vars, diskVars, memVars, ghosts
<1>1. CASE Install
  BY <1>1 DEF Install
<1>2. CASE Cancel
  BY <1>2, Zenon DEF Cancel, BeginRollBack
<1>3. CASE WriteList
  BY <1>3 DEF WriteList, Plan, Abandon, Fault
<1>4. CASE WriteMarker
  <2>1. marker' \in BOOLEAN
    BY <1>4, Zenon DEF WriteMarker, Abandon
  <2>2. faults' \in 0..MaxFaults
    BY <1>4 DEF WriteMarker, Abandon, Fault
  <2>3. pc' \in Step /\ result' \in InstallResult /\ staging' \subseteq File
        /\ list' \subseteq File /\ todo' \subseteq File
    BY <1>4, Zenon DEF WriteMarker, Abandon
  <2>4. QED
    BY <1>4, <2>1, <2>2, <2>3, Zenon DEF WriteMarker, Abandon
<1>5. CASE Displace
  BY <1>5 DEF Displace
<1>6. CASE DisplaceFails
  BY <1>6 DEF DisplaceFails, BeginRollBack, Fault
<1>7. CASE MoveIn
  BY <1>7 DEF MoveIn, BeginRollBack, Fault
<1>8. CASE Commit
  BY <1>8, Zenon DEF Commit
<1>9. CASE RestoreClear
  BY <1>9 DEF RestoreClear
<1>10. CASE RestoreMove
  BY <1>10 DEF RestoreMove, Fault
<1>11. CASE RestoreDone
  BY <1>11, Zenon DEF RestoreDone, Created
<1>12. CASE Uncreate
  BY <1>12 DEF Uncreate
<1>13. CASE DropBackup
  BY <1>13 DEF DropBackup
<1>14. CASE DropStaging
  BY <1>14 DEF DropStaging
<1>15. CASE DropList
  BY <1>15, Zenon DEF DropList
<1>16. CASE DropMarker
  BY <1>16, Zenon DEF DropMarker
<1>17. CASE Recover
  BY <1>17 DEF Recover, BeginRollBack, Fault, readPlannedFiles, decideMergeRecovery
<1>18. CASE Quit
  BY <1>18, Zenon DEF Quit
<1>19. CASE PowerCut
  BY <1>19 DEF PowerCut
<1>20. CASE UNCHANGED vars
  BY <1>20
<1>21. QED
  BY <1>1, <1>2, <1>3, <1>4, <1>5, <1>6, <1>7, <1>8, <1>9, <1>10, <1>11,
     <1>12, <1>13, <1>14, <1>15, <1>16, <1>17, <1>18, <1>19, <1>20, Zenon DEF Next, Run

\* The marker is written before the first move and removed after the backup.
LEMMA StepKeepsMarker ==
    ASSUME TypeOK, MarkerInv, [Next]_vars
    PROVE  MarkerInv'
<1> USE CfwAssumption DEF TypeOK, MarkerInv, Merging, Content, Step, Files, vars, diskVars, memVars, ghosts
<1>1. CASE Install
  BY <1>1, Zenon DEF Install
<1>2. CASE Cancel
  BY <1>2, Zenon DEF Cancel, BeginRollBack
<1>3. CASE WriteList
  BY <1>3 DEF WriteList, Plan, Abandon, Fault
<1>4. CASE WriteMarker
  BY <1>4, Zenon DEF WriteMarker, Abandon, Fault
<1>5. CASE Displace
  BY <1>5, Zenon DEF Displace
<1>6. CASE DisplaceFails
  BY <1>6, Zenon DEF DisplaceFails, BeginRollBack, Fault
<1>7. CASE MoveIn
  BY <1>7, Zenon DEF MoveIn, BeginRollBack, Fault
<1>8. CASE Commit
  BY <1>8, Zenon DEF Commit
<1>9. CASE RestoreClear
  BY <1>9, Zenon DEF RestoreClear
<1>10. CASE RestoreMove
  BY <1>10, Zenon DEF RestoreMove, Fault
<1>11. CASE RestoreDone
  BY <1>11, Zenon DEF RestoreDone, Created
<1>12. CASE Uncreate
  BY <1>12, Zenon DEF Uncreate
<1>13. CASE DropBackup
  BY <1>13, Zenon DEF DropBackup
<1>14. CASE DropStaging
  BY <1>14, Zenon DEF DropStaging
<1>15. CASE DropList
  BY <1>15, Zenon DEF DropList
<1>16. CASE DropMarker
  BY <1>16, Zenon DEF DropMarker
<1>17. CASE Recover
  BY <1>17, Zenon DEF Recover, BeginRollBack, Fault, readPlannedFiles, decideMergeRecovery
<1>18. CASE Quit
  BY <1>18, Zenon DEF Quit
<1>19. CASE PowerCut
  BY <1>19, Zenon DEF PowerCut
<1>20. CASE UNCHANGED vars
  BY <1>20, SMTT(60)
<1>21. QED
  BY <1>1, <1>2, <1>3, <1>4, <1>5, <1>6, <1>7, <1>8, <1>9, <1>10, <1>11,
     <1>12, <1>13, <1>14, <1>15, <1>16, <1>17, <1>18, <1>19, <1>20, Zenon DEF Next, Run

\* No step of a merge, a rollback or a recovery reaches a file to keep.
LEMMA StepKeepsKept ==
    ASSUME TypeOK, MarkerInv, LoopInv, KeepInv, [Next]_vars
    PROVE  KeepInv'
<1> USE CfwAssumption DEF TypeOK, KeepInv, Merging, PreservedUntouched, Content, Files, vars, diskVars, memVars, ghosts
<1>1. CASE Install
  BY <1>1, SMTT(30) DEF Install
<1>2. CASE Cancel
  BY <1>2, SMTT(30) DEF Cancel, BeginRollBack
<1>3. CASE WriteList
  <2>1. dest = before /\ Files(backup) = {} /\ kept = {}
    BY <1>3, Zenon DEF WriteList, MarkerInv, LoopInv
  <2>2. QED
    BY <1>3, <2>1, Zenon DEF WriteList, Plan, Abandon, Fault
<1>4. CASE WriteMarker
  BY <1>4, SMTT(30) DEF WriteMarker, Abandon, Fault
<1>5. CASE Displace
  BY <1>5, SMTT(30) DEF Displace
<1>6. CASE DisplaceFails
  BY <1>6, SMTT(30) DEF DisplaceFails, BeginRollBack, Fault
<1>7. CASE MoveIn
  BY <1>7, SMTT(30) DEF MoveIn, BeginRollBack, Fault
<1>8. CASE Commit
  BY <1>8, SMTT(30) DEF Commit
<1>9. CASE RestoreClear
  BY <1>9, SMTT(30) DEF RestoreClear
<1>10. CASE RestoreMove
  BY <1>10, SMTT(30) DEF RestoreMove, Fault
<1>11. CASE RestoreDone
  BY <1>11, SMTT(30) DEF RestoreDone, Created
<1>12. CASE Uncreate
  BY <1>12, SMTT(30) DEF Uncreate
<1>13. CASE DropBackup
  BY <1>13, SMTT(30) DEF DropBackup
<1>14. CASE DropStaging
  BY <1>14, SMTT(30) DEF DropStaging
<1>15. CASE DropList
  BY <1>15, SMTT(30) DEF DropList
<1>16. CASE DropMarker
  BY <1>16, SMTT(30) DEF DropMarker
<1>17. CASE Recover
  BY <1>17, SMTT(30) DEF Recover, BeginRollBack, Fault, readPlannedFiles, decideMergeRecovery
<1>18. CASE Quit
  BY <1>18, SMTT(30) DEF Quit
<1>19. CASE PowerCut
  BY <1>19, SMTT(30) DEF PowerCut
<1>20. CASE UNCHANGED vars
  BY <1>20, SMTT(60)
<1>21. QED
  BY <1>1, <1>2, <1>3, <1>4, <1>5, <1>6, <1>7, <1>8, <1>9, <1>10, <1>11,
     <1>12, <1>13, <1>14, <1>15, <1>16, <1>17, <1>18, <1>19, <1>20, Zenon DEF Next, Run

\* The loop works through its plan and nothing else.
LEMMA StepKeepsLoop ==
    ASSUME TypeOK, MarkerInv, LoopInv, [Next]_vars
    PROVE  LoopInv'
<1> USE CfwAssumption DEF TypeOK, MarkerInv, LoopInv, Merging, Content, Step, Files, vars, diskVars, memVars, ghosts
<1>1. CASE Install
  BY <1>1, SMTT(30) DEF Install
<1>2. CASE Cancel
  BY <1>2, SMTT(30) DEF Cancel, BeginRollBack
<1>3. CASE WriteList
  BY <1>3, SMTT(30) DEF WriteList, Plan, Abandon, Fault
<1>4. CASE WriteMarker
  BY <1>4, SMTT(30) DEF WriteMarker, Abandon, Fault
<1>5. CASE Displace
  BY <1>5, SMTT(30) DEF Displace
<1>6. CASE DisplaceFails
  BY <1>6, SMTT(30) DEF DisplaceFails, BeginRollBack, Fault
<1>7. CASE MoveIn
  BY <1>7, SMTT(30) DEF MoveIn, BeginRollBack, Fault
<1>8. CASE Commit
  BY <1>8, SMTT(30) DEF Commit
<1>9. CASE RestoreClear
  BY <1>9, SMTT(30) DEF RestoreClear
<1>10. CASE RestoreMove
  BY <1>10, SMTT(30) DEF RestoreMove, Fault
<1>11. CASE RestoreDone
  BY <1>11, SMTT(30) DEF RestoreDone, Created
<1>12. CASE Uncreate
  BY <1>12, SMTT(30) DEF Uncreate
<1>13. CASE DropBackup
  BY <1>13, SMTT(30) DEF DropBackup
<1>14. CASE DropStaging
  BY <1>14, SMTT(30) DEF DropStaging
<1>15. CASE DropList
  BY <1>15, SMTT(30) DEF DropList
<1>16. CASE DropMarker
  BY <1>16, SMTT(30) DEF DropMarker
<1>17. CASE Recover
  BY <1>17, SMTT(30) DEF Recover, BeginRollBack, Fault, readPlannedFiles, decideMergeRecovery
<1>18. CASE Quit
  BY <1>18, SMTT(30) DEF Quit
<1>19. CASE PowerCut
  BY <1>19, SMTT(30) DEF PowerCut
<1>20. CASE UNCHANGED vars
  BY <1>20, Zenon
<1>21. QED
  BY <1>1, <1>2, <1>3, <1>4, <1>5, <1>6, <1>7, <1>8, <1>9, <1>10, <1>11,
     <1>12, <1>13, <1>14, <1>15, <1>16, <1>17, <1>18, <1>19, <1>20, Zenon DEF Next, Run

\* No step of the merge loses what undoing it needs.
LEMMA StepKeepsUndo ==
    ASSUME TypeOK, MarkerInv, LoopInv, UndoInv, [Next]_vars
    PROVE  UndoInv'
<1> USE CfwAssumption DEF TypeOK, MarkerInv, LoopInv, UndoInv, BackupIsMarked, Undone, Merging, Content, Step, Files, vars, diskVars, memVars, ghosts
<1>1. CASE Install
  BY <1>1, SMTT(30) DEF Install
<1>2. CASE Cancel
  BY <1>2, SMTT(30) DEF Cancel, BeginRollBack
<1>3. CASE WriteList
  <2>1. pc = "plan" /\ backup' = backup /\ (marker' => marker)
    BY <1>3 DEF WriteList, Abandon
  <2>2. QED
    BY <2>1, Zenon
<1>4. CASE WriteMarker
  BY <1>4, SMTT(30) DEF WriteMarker, Abandon, Fault
<1>5. CASE Displace
  BY <1>5, SMTT(30) DEF Displace
<1>6. CASE DisplaceFails
  <2>1. pc = "merge" /\ pc' = "restore" /\ marker' = marker
    BY <1>6, Zenon DEF DisplaceFails, BeginRollBack
  <2>2. QED
    BY <2>1, Zenon
<1>7. CASE MoveIn
  BY <1>7, SMTT(30) DEF MoveIn, BeginRollBack, Fault
<1>8. CASE Commit
  BY <1>8, SMTT(30) DEF Commit
<1>9. CASE RestoreClear
  BY <1>9, SMTT(30) DEF RestoreClear
<1>10. CASE RestoreMove
  BY <1>10, SMTT(30) DEF RestoreMove, Fault
<1>11. CASE RestoreDone
  BY <1>11, SMTT(30) DEF RestoreDone, Created
<1>12. CASE Uncreate
  BY <1>12, SMTT(30) DEF Uncreate
<1>13. CASE DropBackup
  BY <1>13, SMTT(30) DEF DropBackup
<1>14. CASE DropStaging
  BY <1>14, SMTT(30) DEF DropStaging
<1>15. CASE DropList
  BY <1>15, SMTT(30) DEF DropList
<1>16. CASE DropMarker
  BY <1>16, SMTT(30) DEF DropMarker
<1>17. CASE Recover
  <2>1. /\ pc = "off" /\ pc' \in {"idle", "dropBackup", "restore"}
        /\ UNCHANGED <<diskVars, ghosts>>
    BY <1>17, Zenon DEF Recover, BeginRollBack
  <2>2. QED
    BY <2>1
<1>18. CASE Quit
  BY <1>18, SMTT(30) DEF Quit
<1>19. CASE PowerCut
  BY <1>19, SMTT(30) DEF PowerCut
<1>20. CASE UNCHANGED vars
  BY <1>20
<1>21. QED
  BY <1>1, <1>2, <1>3, <1>4, <1>5, <1>6, <1>7, <1>8, <1>9, <1>10, <1>11,
     <1>12, <1>13, <1>14, <1>15, <1>16, <1>17, <1>18, <1>19, <1>20, Zenon DEF Next, Run

\* A marker is left behind by a power cut or a failed recovery only.
LEMMA StepKeepsLeftover ==
    ASSUME TypeOK, MarkerInv, LeftoverInv, [Next]_vars
    PROVE  LeftoverInv'
<1> USE CfwAssumption DEF TypeOK, LeftoverInv
<1>1. CASE WriteList \/ WriteMarker
  BY <1>1 DEF WriteList, WriteMarker, Abandon, MarkerInv, Merging
<1>2. CASE DropMarker
  BY <1>2, Zenon DEF DropMarker
<1>3. CASE Recover
  BY <1>3 DEF Recover, decideMergeRecovery, BeginRollBack, Fault, diskVars, ghosts
<1>4. CASE Quit
  BY <1>4, Zenon DEF Quit, diskVars, ghosts
<1>5. CASE PowerCut
  BY <1>5 DEF PowerCut
<1>6. CASE pc' \notin {"off", "idle"}
  BY <1>6, Zenon
<1>7. CASE UNCHANGED vars
  BY <1>7, Zenon DEF vars, diskVars, memVars, ghosts
<1> QED
  BY <1>1, <1>2, <1>3, <1>4, <1>5, <1>6, <1>7, Zenon
  DEF Next, Run, Install, Cancel, BeginRollBack, Displace, DisplaceFails, MoveIn, Commit,
      RestoreClear, RestoreMove, RestoreDone, Uncreate, DropBackup, DropStaging, DropList

\* The merge loop installs the pack's file for each planned one.
LEMMA StepKeepsMerged ==
    ASSUME TypeOK, MarkerInv, LoopInv, MergedInv, [Next]_vars
    PROVE  MergedInv'
<1> USE CfwAssumption DEF TypeOK, MergedInv, Merging
<1>1. CASE WriteMarker
  BY <1>1, Zenon DEF WriteMarker, Abandon, MarkerInv, LoopInv, Files, ghosts
<1>2. CASE Displace
  BY <1>2 DEF Displace, LoopInv, ghosts
<1>3. CASE MoveIn
  BY <1>3, Zenon DEF MoveIn, BeginRollBack, LoopInv, ghosts
<1>4. CASE UNCHANGED vars
  BY <1>4, Zenon DEF vars, diskVars, memVars, ghosts
<1>5. CASE pc' \notin Merging
  BY <1>5, Zenon
<1> QED
  BY <1>1, <1>2, <1>3, <1>4, <1>5, Zenon
  DEF Next, Run, Install, WriteList, Abandon, Cancel, BeginRollBack, DisplaceFails, Commit,
      RestoreClear, RestoreMove, RestoreDone, Uncreate, DropBackup, DropStaging, DropList,
      DropMarker, Recover, Quit, PowerCut

\* A rollback that begins while the card determines what was there before knows
\* all it needs.
LEMMA BeginKeepsRollBack ==
    ASSUME TypeOK, NEW r \in {"RolledBack", "Cancelled"}, BeginRollBack(r, backup),
           UNCHANGED <<dest, backup, staging, before>>,
           \A f \in File : Undone(toWrite')[f] = before[f]
    PROVE  RollBackInv'
<1>1. pc' = "restore" /\ displaced' = Files(backup) /\ todo' = displaced'
      /\ result' # "Installed"
  BY Zenon DEF BeginRollBack
<1>2. SUFFICES ASSUME NEW f \in File
      PROVE  /\ Pending(f)' => f \in displaced' /\ backup[f] = before[f]
             /\ ~Pending(f)' => f \notin displaced'
             /\ f \in Created' => before[f] = None
             /\ f \notin displaced' \cup Created' => dest[f] = before[f]
  BY <1>1, Zenon DEF RollBackInv
<1>3. f \in displaced' <=> backup[f] # None
  BY <1>1, Zenon DEF Files
<1>4. Pending(f)' <=> backup[f] # None
  BY <1>1, <1>3, Zenon DEF Pending
<1>5. f \in Created' <=> f \in toWrite' \ staging /\ backup[f] = None
  BY <1>3, Zenon DEF Created
<1>6. /\ backup[f] # None => before[f] = backup[f]
      /\ backup[f] = None /\ f \in toWrite' \ staging => before[f] = None
      /\ backup[f] = None /\ f \notin toWrite' \ staging => before[f] = dest[f]
  BY Zenon DEF Undone
<1> QED
  BY <1>3, <1>4, <1>5, <1>6, Zenon

\* A rollback puts the displaced files back one by one, then deletes what the
\* merge created.
LEMMA StepKeepsRollBack ==
    ASSUME TypeOK, MarkerInv, LoopInv, UndoInv, LeftoverInv, RollBackInv, [Next]_vars
    PROVE  RollBackInv'
<1> USE CfwAssumption DEF TypeOK
<1>1. ASSUME pc \in Merging, NEW r \in {"RolledBack", "Cancelled"}, BeginRollBack(r, backup),
             UNCHANGED <<dest, backup, staging, toWrite, before>>
      PROVE  RollBackInv'
  <2>1. \A f \in File : Undone(toWrite')[f] = before[f]
    BY <1>1, Zenon DEF UndoInv, MarkerInv, LoopInv, Merging
  <2> QED
    BY <1>1, <2>1, BeginKeepsRollBack, Zenon
<1>2. CASE Cancel
  BY <1>1, <1>2, Zenon DEF Cancel, BeginRollBack, Merging, diskVars, ghosts
<1>3. CASE DisplaceFails
  <2>1. backup' = backup
    BY <1>3 DEF DisplaceFails, LoopInv, Merging
  <2> QED
    BY <1>1, <1>3, <2>1, Zenon DEF DisplaceFails, BeginRollBack, Merging, ghosts
<1>4. CASE MoveIn
  <2>1. CASE pc' = "merge"
    BY <2>1, Zenon DEF RollBackInv
  <2> QED
    BY <1>1, <1>4, <2>1, Zenon DEF MoveIn, BeginRollBack, Merging, ghosts
<1>5. CASE Recover
  <2>1. CASE pc' \in {"idle", "dropBackup"}
    BY <2>1, Zenon DEF RollBackInv
  <2>2. CASE ~Undisturbed'
    BY <1>5, <2>2, Zenon DEF RollBackInv, Recover, BeginRollBack
  <2>3. CASE pc' = "restore" /\ Undisturbed'
    <3>1. /\ marker /\ pc = "off" /\ BeginRollBack("RolledBack", backup)
          /\ UNCHANGED <<diskVars, ghosts>>
          /\ faults' = 0 => toWrite' = list
      BY <1>5, <2>3 DEF Recover, decideMergeRecovery, readPlannedFiles, Fault
    <3>2. cuts' # 0 /\ faults' = 0 /\ cutAt \in Merging
      BY <2>3, <3>1, Zenon DEF Undisturbed, LeftoverInv, ghosts
    <3>3. \A f \in File : Undone(toWrite')[f] = before[f]
      BY <3>1, <3>2, Zenon DEF UndoInv
    <3> QED
      BY <3>1, <3>3, BeginKeepsRollBack, Zenon DEF diskVars, ghosts
  <2> QED
    BY <1>5, <2>1, <2>2, <2>3, Zenon DEF Recover, BeginRollBack
<1>6. CASE RestoreClear
  <2>1. UNCHANGED <<displaced, toWrite, staging, backup, before, cuts, faults, cutAt, result>>
    BY <1>6, Zenon DEF RestoreClear, ghosts
  <2>2. Created' = Created /\ (Undisturbed' <=> Undisturbed)
    BY <2>1, Zenon DEF Created, Undisturbed
  <2>3. /\ pc = "restore" /\ pc' = "restoreMove" /\ cur' \in todo /\ todo' = todo \ {cur'}
        /\ \A f \in File : f # cur' => dest'[f] = dest[f]
    BY <1>6, Zenon DEF RestoreClear
  <2>4. \A f \in File : Pending(f)' <=> Pending(f)
    BY <2>3, Zenon DEF Pending
  <2> QED
    BY <2>1, <2>2, <2>3, <2>4, Zenon DEF RollBackInv, Pending, Created
<1>7. CASE RestoreMove
  <2>1. CASE result' = "MergeFailed"
    BY <1>7, <2>1, Zenon DEF RestoreMove, RollBackInv
  <2>2. CASE result' # "MergeFailed"
    <3>1. /\ pc = "restoreMove" /\ pc' = "restore"
          /\ UNCHANGED <<displaced, toWrite, todo, cur, staging, before, cuts, faults, cutAt, result>>
          /\ dest'[cur] = backup[cur]
          /\ \A f \in File : f # cur => dest'[f] = dest[f] /\ backup'[f] = backup[f]
      BY <1>7, <2>2, Zenon DEF RestoreMove, ghosts
    <3>2. Created' = Created /\ (Undisturbed' <=> Undisturbed)
      BY <3>1, Zenon DEF Created, Undisturbed
    <3>3. \A f \in File : Pending(f)' <=> Pending(f) /\ f # cur
      BY <3>1, Zenon DEF Pending, RollBackInv
    <3> QED
      BY <3>1, <3>2, <3>3, Zenon DEF RollBackInv, Pending, Created
  <2> QED
    BY <2>1, <2>2, Zenon
<1>8. CASE RestoreDone
  <2>1. /\ pc = "restore" /\ todo = {} /\ todo' = Created /\ pc' = "uncreate"
        /\ UNCHANGED <<dest, before, cuts, faults, cutAt, result>>
    BY <1>8, Zenon DEF RestoreDone, diskVars, ghosts
  <2>2. Undisturbed' <=> Undisturbed
    BY <2>1, Zenon DEF Undisturbed
  <2> QED
    BY <2>1, <2>2, Zenon DEF RollBackInv, Pending
<1>9. CASE Uncreate
  <2>1. CASE pc' = "dropBackup"
    BY <2>1, Zenon DEF RollBackInv
  <2>2. CASE pc' = "uncreate"
    <3>1. /\ pc = "uncreate" /\ UNCHANGED <<before, cuts, faults, cutAt, result>>
          /\ \E g \in todo : todo' = todo \ {g} /\ dest' = [dest EXCEPT ![g] = None]
      BY <1>9, <2>2, Zenon DEF Uncreate, ghosts
    <3>2. Undisturbed' <=> Undisturbed
      BY <3>1, Zenon DEF Undisturbed
    <3> QED
      BY <2>2, <3>1, <3>2, Zenon DEF RollBackInv
  <2> QED
    BY <1>9, <2>1, <2>2, SMTT(20) DEF Uncreate
<1>10. CASE UNCHANGED vars
  <2>1. UNCHANGED <<dest, backup, staging, pc, toWrite, todo, cur, displaced, result,
                    before, cutAt, cuts, faults>>
    BY <1>10, Zenon DEF vars, diskVars, memVars, ghosts
  <2>2. Created' = Created /\ (Undisturbed' <=> Undisturbed)
    BY <2>1, Zenon DEF Created, Undisturbed
  <2> QED
    BY <2>1, <2>2, Zenon DEF RollBackInv, Pending, Created
<1>11. CASE pc' \notin {"restore", "restoreMove", "uncreate"}
  BY <1>11, Zenon DEF RollBackInv
<1> QED
  BY <1>2, <1>3, <1>4, <1>5, <1>6, <1>7, <1>8, <1>9, <1>10, <1>11, Zenon
  DEF Next, Run, Install, WriteList, WriteMarker, Abandon, Displace, Commit, DropBackup,
      DropStaging, DropList, DropMarker, Quit, PowerCut

\* Whatever is reported at the end of an installation or a recovery is true.
LEMMA StepKeepsResult ==
    ASSUME TypeOK, MarkerInv, LeftoverInv, MergedInv, RollBackInv, ResultInv, [Next]_vars
    PROVE  ResultInv'
<1> USE CfwAssumption DEF TypeOK
<1>1. CASE Commit
  BY <1>1, Zenon DEF Commit, ResultInv, MergedInv, Merging, diskVars, ghosts
<1>2. CASE Uncreate
  <2>1. CASE pc' = "dropBackup"
    <3>1. /\ pc = "uncreate" /\ todo = {}
          /\ UNCHANGED <<dest, before, cuts, faults, cutAt, result>>
      BY <1>2, <2>1, Zenon DEF Uncreate, ghosts
    <3>2. Undisturbed' <=> Undisturbed
      BY <3>1, Zenon DEF Undisturbed
    <3> QED
      BY <3>1, <3>2, Zenon DEF RollBackInv, ResultInv
  <2> QED
    BY <1>2, <2>1, Zenon DEF Uncreate, ResultInv, Ending
<1>3. CASE DropBackup \/ DropStaging \/ DropList \/ DropMarker \/ UNCHANGED vars
  <2>1. UNCHANGED <<dest, pack, toWrite, displaced, result, before, cuts, faults, cutAt>>
    BY <1>3, Zenon DEF DropBackup, DropStaging, DropList, DropMarker, vars, diskVars, memVars, ghosts
  <2>2. pc' \in Ending => pc \in Ending
    BY <1>3, Zenon DEF DropBackup, DropStaging, DropList, DropMarker, vars, memVars, Ending
  <2>3. Undisturbed' <=> Undisturbed
    BY <2>1, Zenon DEF Undisturbed
  <2> QED
    BY <2>1, <2>2, <2>3, Zenon DEF ResultInv
<1>4. CASE Recover
  <2>1. CASE result' \in {"none", "MergeFailed"}
    BY <2>1, Zenon DEF ResultInv
  <2>2. CASE pc' = "restore"
    BY <2>2, Zenon DEF ResultInv, Ending
  <2>3. CASE /\ marker /\ pc = "off" /\ result' = "RolledBack"
             /\ UNCHANGED <<displaced, faults, cuts>>
    BY <2>3, SMTT(20) DEF ResultInv, LeftoverInv, Undisturbed
  <2> QED
    BY <1>4, <2>1, <2>2, <2>3, Zenon DEF Recover, BeginRollBack, decideMergeRecovery, ghosts
<1>5. CASE result' \in {"none", "MergeFailed"} \/ pc' \notin Ending
  BY <1>5, Zenon DEF ResultInv
<1> QED
  BY <1>1, <1>2, <1>3, <1>4, <1>5, Zenon
  DEF Next, Run, Install, WriteList, WriteMarker, Abandon, Displace, Cancel, BeginRollBack,
      DisplaceFails, MoveIn, RestoreClear, RestoreMove, RestoreDone, Quit, PowerCut, Ending

\* Every step of the installation service keeps the inductive invariant.
LEMMA StepKeepsMergeInv ==
    ASSUME MergeInv, [Next]_vars
    PROVE  MergeInv'
BY StepKeepsTypes, StepKeepsMarker, StepKeepsKept, StepKeepsLoop, StepKeepsUndo,
   StepKeepsLeftover, StepKeepsMerged, StepKeepsRollBack, StepKeepsResult, Zenon
DEF PurgeInv, MergeInv, OutcomeInv

\* A card on which nothing was installed yet satisfies it.
LEMMA InitMergeInv == Init => MergeInv
<1> SUFFICES ASSUME Init PROVE MergeInv
  OBVIOUS
<1> USE CfwAssumption DEF Init, Files, Content
<1>1. TypeOK
  <2>1. marker \in BOOLEAN
    BY Zenon
  <2>2. dest \in [File -> Pack \cup {User, None}]
        /\ backup \in [File -> Pack \cup {User, None}]
    OBVIOUS
  <2>3. QED
    BY <2>1, <2>2 DEF TypeOK, Step, InstallResult
<1>2. KeepInv
  BY Zenon DEF KeepInv, PreservedUntouched, Merging
<1>3. MarkerInv /\ LoopInv /\ UndoInv
  BY Zenon DEF MarkerInv, LoopInv, UndoInv, BackupIsMarked, Merging
<1>4. OutcomeInv
  BY Zenon DEF OutcomeInv, LeftoverInv, MergedInv, RollBackInv, ResultInv, Merging, Ending
<1>5. QED
  BY <1>1, <1>2, <1>3, <1>4, Zenon DEF PurgeInv, MergeInv

\* The inductive invariant holds in every reachable state of the installation
\* service.
THEOREM MergeInvariant == Spec => []MergeInv
<1>1. Init => MergeInv
  BY InitMergeInv, Zenon
<1>2. MergeInv /\ [Next]_vars => MergeInv'
  BY StepKeepsMergeInv, Zenon
<1>3. QED
  BY <1>1, <1>2, PTL DEF Spec

\* A file the user keeps is never touched by an installation, a rollback or a
\* recovery (mergeStagedTree's plan).
THEOREM PreservedUntouchedAlways == Spec => []PreservedUntouched
<1>1. MergeInv => PreservedUntouched
  BY Zenon DEF MergeInv, PurgeInv, KeepInv
<1>2. QED
  BY <1>1, MergeInvariant, PTL

\* Up to the last move of the merge loop the card holds everything needed to
\* restore what was there (mergeStagedTree's order of operations).
THEOREM MergeReversibleAlways == Spec => []MergeReversible
<1>1. MergeInv => MergeReversible
  <2> SUFFICES ASSUME MergeInv, marker,
                      (IF pc = "off" THEN cutAt ELSE pc) \in {"merge", "move"}
               PROVE  Undone(list) = before
    BY Zenon DEF MergeReversible
  <2>1. \A f \in File : Undone(list)[f] = before[f]
    BY Zenon DEF MergeInv, UndoInv, Merging
  <2>2. before \in [File -> Content]
    BY Zenon DEF MergeInv, PurgeInv, TypeOK
  <2>3. QED
    BY <2>1, <2>2, Zenon DEF Undone
<1>2. QED
  BY <1>1, MergeInvariant, PTL

\* What install() reports is what happened to the destination, for an
\* installation no power cut disturbed.
THEOREM OutcomeIsTrueAlways == Spec => []OutcomeIsTrue
<1>1. MergeInv => OutcomeIsTrue
  <2> SUFFICES ASSUME MergeInv, pc = "idle", cuts = 0
               PROVE  /\ result \in {"RolledBack", "Cancelled"} => dest = before
                      /\ result = "Installed" =>
                          dest = [f \in File |-> IF f \in toWrite THEN pack ELSE before[f]]
    BY Zenon DEF OutcomeIsTrue
  <2>1. dest \in [File -> Content] /\ before \in [File -> Content]
    BY Zenon DEF MergeInv, PurgeInv, TypeOK
  <2> QED
    BY <2>1 DEF MergeInv, OutcomeInv, ResultInv, Undisturbed, Ending
<1>2. QED
  BY <1>1, MergeInvariant, PTL

\* The recovery of a merge that a power cut stopped restores every file
\* (recoverInterruptedMerge).
THEOREM RecoveredIsBeforeAlways == Spec => []RecoveredIsBefore
<1>1. MergeInv => RecoveredIsBefore
  <2>1. MergeInv => dest \in [File -> Content] /\ before \in [File -> Content]
    BY Zenon DEF MergeInv, PurgeInv, TypeOK
  <2> QED
    BY <2>1 DEF MergeInv, OutcomeInv, ResultInv, RecoveredIsBefore, Undisturbed, Ending,
       Merging
<1>2. QED
  BY <1>1, MergeInvariant, PTL

\* One more fault is one within the bound.
LEMMA FaultKept ==
    ASSUME faults \in 0..MaxFaults, faults' = faults \/ Fault
    PROVE  faults' \in 0..MaxFaults
BY CfwAssumption DEF Fault

\* The maintenance tool keeps what the preserved files need: it touches no file
\* of the destination, and only runs while no installation does.
LEMMA PurgeKeepsPurgeInv ==
    ASSUME PurgeInv, Purge
    PROVE  PurgeInv'
<1> USE CfwAssumption DEF PurgeInv, TypeOK, KeepInv, MarkerInv, LoopInv, PreservedUntouched, Merging, Content, Step, Files, diskVars, memVars, ghosts
<1>1. CASE BeginPurge
  <2>1. /\ pc' = "purge"
        /\ UNCHANGED <<dest, backup, staging, marker, list, pack, toWrite, todo, cur,
                       displaced, result, before, kept, cutAt, installs, cuts, faults>>
    BY <1>1, Zenon DEF BeginPurge
  <2>2. TypeOK'
    BY <2>1, Zenon
  <2>3. KeepInv'
    BY <2>1, Zenon
  <2>4. MarkerInv'
    BY <2>1, Zenon
  <2>5. LoopInv'
    BY <2>1, Zenon
  <2>6. QED
    BY <2>2, <2>3, <2>4, <2>5, Zenon
<1>2. CASE PurgeFile
  <2>1. pc = "purge" /\ UNCHANGED <<dest, memVars, ghosts, faults>>
    BY <1>2, Zenon DEF PurgeFile
  <2>2. marker' \in BOOLEAN
    BY <1>2, Zenon DEF PurgeFile
  <2>3. /\ backup' \in [File -> Content] /\ \A f \in File : backup'[f] \in {backup[f], None}
        /\ staging' \subseteq File /\ list' \subseteq list
    BY <1>2, Zenon DEF PurgeFile
  <2>4. TypeOK'
    BY <2>1, <2>2, <2>3, Zenon
  <2>5. KeepInv'
    BY <2>1, <2>3, SMTT(20)
  <2>6. MarkerInv' /\ LoopInv'
    BY <2>1, Zenon
  <2>7. QED
    BY <2>4, <2>5, <2>6, Zenon
<1>3. CASE EndPurge
  <2>1. /\ pc' = "idle"
        /\ UNCHANGED <<dest, backup, staging, marker, list, pack, toWrite, todo, cur,
                       displaced, result, before, kept, cutAt, installs, cuts>>
    BY <1>3, Zenon DEF EndPurge
  <2>2. faults' \in 0..MaxFaults
    <3>1. faults' = faults \/ Fault
      BY <1>3, Zenon DEF EndPurge
    <3>2. QED
      BY <3>1, FaultKept, Zenon
  <2>3. TypeOK'
    BY <2>1, <2>2, Zenon
  <2>4. KeepInv'
    BY <2>1, Zenon
  <2>5. MarkerInv'
    BY <2>1, Zenon
  <2>6. LoopInv'
    BY <2>1, Zenon
  <2>7. QED
    BY <2>3, <2>4, <2>5, <2>6, Zenon
<1>4. QED
  BY <1>1, <1>2, <1>3, Zenon DEF Purge

\* A file the user keeps is never touched either when the staging root is purged
\* between an interrupted merge and its recovery, completely or not.
THEOREM PreservedUntouchedByPurges == PurgeSpec => []PreservedUntouched
<1>1. Init => PurgeInv
  BY InitMergeInv, Zenon DEF MergeInv
<1>2. PurgeInv /\ [Next \/ Purge]_vars => PurgeInv'
  <2> SUFFICES ASSUME PurgeInv, [Next \/ Purge]_vars PROVE PurgeInv'
    OBVIOUS
  <2>1. CASE Purge
    BY <2>1, PurgeKeepsPurgeInv, Zenon
  <2>2. CASE [Next]_vars
    BY <2>2, StepKeepsTypes, StepKeepsMarker, StepKeepsKept, StepKeepsLoop, Zenon
    DEF PurgeInv
  <2>3. QED
    BY <2>1, <2>2, Zenon
<1>3. PurgeInv => PreservedUntouched
  BY Zenon DEF PurgeInv, KeepInv
<1>4. QED
  BY <1>1, <1>2, <1>3, PTL DEF PurgeSpec
=============================================================================
