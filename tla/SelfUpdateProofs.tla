-------------------------- MODULE SelfUpdateProofs --------------------------
(***************************************************************************)
(* Proofs about the self-update, for every set of versions, every attempt  *)
(* budget and any number of power cuts and failed operations.              *)
(*                                                                         *)
(* The forwarder on its own comes first.  On a card that keeps its bytes   *)
(* it implements AtomicUpdate: the file operations of runSwap, the power   *)
(* cuts between them and their failures are steps that replace one         *)
(* complete version by the other, end the update, report, or change        *)
(* nothing.                                                                *)
(*                                                                         *)
(* Then the self-update as a whole, with the maintenance tool deleting     *)
(* staged files at any moment the user may start it: it never leaves the   *)
(* card without a way back.  The forwarder's invariant SwapInv carries     *)
(* over because the application only touches the staging directory while   *)
(* it runs, and it only runs from a complete binary with the forwarder     *)
(* gone: that is AppInv.                                                   *)
(***************************************************************************)
EXTENDS SelfUpdate, ForwarderInv, TLAPS

-----------------------------------------------------------------------------
(* Type correctness. *)

\* A step of the environment's fault budget keeps faults within its bound.
LEMMA FaultType ==
    ASSUME faults \in 0 .. MaxFaults, Fault \/ UNCHANGED faults
    PROVE  faults' \in 0 .. MaxFaults
  BY FaultAssumption DEF Fault

\* Whatever handoff runSwap starts from, its branch keeps the types: the
\* branches that use the handoff are never taken without one.
LEMMA BeginType ==
    ASSUME TypeOK, NEW parsed \in HandoffRecord \cup {Absent}, Begin(parsed)
    PROVE  /\ card' = card /\ handoff' = handoff
           /\ pc' \in Step /\ h' \in HandoffRecord
           /\ result' \in SwapResult \cup {"none"}
  <1>1. CASE parsed = Absent
    BY <1>1, Zenon DEF TypeOK, Begin, decideRecovery, Presence, Return, Step, SwapResult
  <1>2. CASE parsed \in HandoffRecord
    <2>1. [parsed EXCEPT !.attempts = @ + 1] \in HandoffRecord
      BY <1>2 DEF HandoffRecord
    <2> QED
      BY <1>2, <2>1, Zenon DEF TypeOK, Begin, Return, Enter, Step, SwapResult
  <1> QED
    BY <1>1, <1>2, Zenon

\* A deletion keeps the types, whether it succeeds or not.
LEMMA RemoveType ==
    ASSUME TypeOK, NEW at, NEW f \in File, NEW next \in Step, Remove(at, f, next)
    PROVE  TypeOK'
  <1>1. faults' \in 0 .. MaxFaults
    BY FaultType, Zenon DEF Remove, TypeOK
  <1>2. card' \in [File -> Content]
    BY Zenon DEF Remove, TypeOK, Content
  <1> QED
    BY <1>1, <1>2 DEF Remove, TypeOK

\* A rename keeps the types: the destination gets what the source held.
LEMMA RenameType ==
    ASSUME TypeOK, NEW at, NEW from \in File, NEW to \in File,
           NEW next \in Step, NEW otherwise \in Step,
           Rename(at, from, to, next, otherwise)
    PROVE  TypeOK'
  <1>1. faults' \in 0 .. MaxFaults
    BY FaultType, Zenon DEF Rename, TypeOK
  <1>2. card' \in [File -> Content]
    BY Zenon DEF Rename, TypeOK, Content
  <1>3. result' \in SwapResult \cup {"none"}
    BY Zenon DEF Rename, TypeOK, SwapResult
  <1> QED
    BY <1>1, <1>2, <1>3, Zenon DEF Rename, TypeOK

\* Every variable keeps its type through every step of runSwap, every power
\* cut and every failure.
LEMMA StepKeepsTypes ==
    ASSUME TypeOK, [Next]_forwarderVars
    PROVE  TypeOK'
  <1>1. CASE Launch
    BY <1>1, BeginType, FaultType, AbsentIsNoHandoff
    DEF TypeOK, Launch, Return, Step, SwapResult
  <1>2. CASE WriteCounter
    BY <1>2, FaultType DEF TypeOK, WriteCounter, File, Content, Step, SwapResult
  <1>3. CASE ClearCounter
    BY <1>3, FaultType DEF TypeOK, ClearCounter, File, Content, Step, SwapResult
  <1>4. CASE MoveCounter
    BY <1>4, FaultType DEF TypeOK, MoveCounter, File, Content, Step, SwapResult
  <1>5. CASE VerifyStaged
    BY <1>5, FaultType, ZenonT(60)
    DEF TypeOK, VerifyStaged, Return, File, Content, Step, SwapResult
  <1>6. CASE CopyStaged
    BY <1>6, FaultType, ZenonT(60)
    DEF TypeOK, CopyStaged, Written, File, Content, Step, SwapResult
  <1>7. CASE ClearBackup
    BY <1>7, RemoveType DEF ClearBackup, File, Step
  <1>8. CASE MoveAside
    BY <1>8, RenameType, ZenonT(60) DEF MoveAside, File, Step
  <1>9. CASE ClearTarget
    BY <1>9, RemoveType DEF ClearTarget, File, Step
  <1>10. CASE MoveIntoPlace
    BY <1>10, RenameType, ZenonT(60) DEF MoveIntoPlace, File, Step
  <1>11. CASE ClearForPutBack
    BY <1>11, RemoveType DEF ClearForPutBack, File, Step
  <1>12. CASE PutBack
    BY <1>12, RenameType, ZenonT(60) DEF PutBack, File, Step
  <1>13. CASE DiscardIncoming
    BY <1>13, RemoveType DEF DiscardIncoming, File, Step
  <1>14. CASE Confirm
    BY <1>14, FaultType, Zenon DEF TypeOK, Confirm, File, Content, Step, SwapResult
  <1>15. CASE ClearForRevert
    BY <1>15, RemoveType DEF ClearForRevert, File, Step
  <1>16. CASE Revert
    BY <1>16, RenameType, ZenonT(60) DEF Revert, File, Step
  <1>17. CASE ClearForRestore
    BY <1>17, RemoveType DEF ClearForRestore, File, Step
  <1>18. CASE RestoreBackup
    BY <1>18, RenameType, ZenonT(60) DEF RestoreBackup, File, Step
  <1>19. CASE CleanBackup
    BY <1>19, RemoveType DEF CleanBackup, File, Step
  <1>20. CASE CleanStaged
    BY <1>20, RemoveType DEF CleanStaged, File, Step
  <1>21. CASE CleanHandoff
    BY <1>21, FaultType DEF TypeOK, CleanHandoff, File, Content, Step, SwapResult
  <1>22. CASE Exit
    BY <1>22, FaultType DEF TypeOK, Exit, File, Content, Step, SwapResult
  <1>23. CASE PowerCut
    BY <1>23, FaultType DEF TypeOK, PowerCut, File, Content, Step
  <1>24. CASE UNCHANGED forwarderVars
    BY <1>24 DEF TypeOK, forwarderVars
  <1> QED
    BY <1>1, <1>2, <1>3, <1>4, <1>5, <1>6, <1>7, <1>8, <1>9, <1>10,
       <1>11, <1>12, <1>13, <1>14, <1>15, <1>16, <1>17, <1>18, <1>19,
       <1>20, <1>21, <1>22, <1>23, <1>24
    DEF Next, Run

\* The variables of the forwarder have their types in every behaviour.
THEOREM TypeCorrect == Spec => []TypeOK
  <1>1. Init => TypeOK
    BY FaultAssumption
    DEF Init, TypeOK, File, Content, HandoffRecord, Step
  <1>2. TypeOK /\ [Next]_forwarderVars => TypeOK'
    BY StepKeepsTypes
  <1> QED
    BY <1>1, <1>2, PTL DEF Spec

-----------------------------------------------------------------------------
(* The card is never left without a way back. *)

\* Launching the forwarder on any card that satisfies the invariant enters a
\* branch whose first step may rely on it: an attempt only starts with the
\* application in place, a restore only with it missing.
LEMMA LaunchKeepsSwapInv ==
    ASSUME TypeOK, SwapInv, Launch
    PROVE  SwapInv'
  <1> USE ContentAssumption, AttemptsAssumption
  <1>1. card' = card /\ handoff' = handoff
    BY Zenon DEF Launch, Begin, Return, Enter
  <1>2. CASE Return("Unrecoverable")
    BY <1>1, <1>2
    DEF SwapInv, Return, Intact, Gap, Copied, Counted
  <1>3. CASE Begin(Absent)
    <2>1. Return("Unrecoverable")
      BY <1>3, Zenon DEF Begin, decideRecovery, Presence, Return
    <2> QED
      BY <2>1, <1>2
  <1>4. CASE handoff # Absent /\ Begin(handoff)
    <2>1. handoff \in HandoffRecord
      BY <1>4 DEF TypeOK
    <2>2. handoff.attempts \in Nat
      BY <2>1 DEF HandoffRecord
    <2>3. [handoff EXCEPT !.attempts = @ + 1].attempts = handoff.attempts + 1
      BY <2>1 DEF HandoffRecord
    <2>4. CASE decideRecovery(handoff, Presence(handoff # Absent)) \in
                   {"Nothing", "Unrecoverable"}
      BY <1>4, <1>1, <2>4, Zenon DEF Begin, Return, Enter, SwapInv, Intact, Gap, Copied, Counted
    <2>5. CASE decideRecovery(handoff, Presence(handoff # Absent)) = "RestoreBackup"
      <3>1. card["target"] = Absent
        BY <1>4, <2>5, Zenon DEF decideRecovery, Presence, exists
      <3> QED
        BY <1>4, <1>1, <2>5, <3>1, Zenon
        DEF Begin, Return, Enter, SwapInv, Intact, Gap, Copied, Counted
    <2>6. CASE decideRecovery(handoff, Presence(handoff # Absent)) = "RollBack"
      BY <1>4, <1>1, <2>6
      DEF Begin, Return, Enter, SwapInv, Intact, Gap, Copied, Counted, exists
    <2>7. CASE decideRecovery(handoff, Presence(handoff # Absent)) \in
                   {"ProceedWithSwap", "RetrySwap", "InstallStaged"}
      <3>1. card["target"] # Absent
        BY <1>4, <2>7, Zenon DEF decideRecovery, Presence, exists, SwapInv
      <3>2. ~attemptsExhausted(handoff)
        BY <1>4, <2>7, <3>1, Zenon DEF decideRecovery, Presence, exists
      <3>3. card["target"] # Absent /\ handoff.attempts < MaxAttempts
        BY <2>2, <3>1, <3>2 DEF attemptsExhausted
      <3>4. pc' = "bump" /\ h' = [handoff EXCEPT !.attempts = @ + 1]
        BY <1>4, <2>7, Zenon DEF Begin, Return, Enter
      <3>5. h'.attempts <= MaxAttempts
        BY <3>3, <3>4, <2>2, <2>3
      <3> QED
        BY <1>1, <3>3, <3>4, <3>5 DEF SwapInv, Intact, Gap, Copied, Counted
    <2> QED
      BY <1>4, <2>4, <2>5, <2>6, <2>7, Zenon DEF Begin
  <1> QED
    BY <1>2, <1>3, <1>4 DEF Launch

\* SwapInv holds before and after every file operation of runSwap.
LEMMA StepKeepsSwapInv ==
    ASSUME ~BadCard, TypeOK, SwapInv, [Next]_forwarderVars
    PROVE  SwapInv'
  <1> USE ContentAssumption, AttemptsAssumption
      DEF SwapInv, TypeOK, File, Intact, Gap, Copied, Counted
  <1>1. CASE Launch
    BY <1>1, LaunchKeepsSwapInv
  <1>2. CASE WriteCounter
    BY <1>2 DEF WriteCounter
  <1>3. CASE ClearCounter
    BY <1>3 DEF ClearCounter
  <1>4. CASE MoveCounter
    BY <1>4 DEF MoveCounter, HandoffRecord
  <1>5. CASE VerifyStaged
    BY <1>5, Zenon DEF VerifyStaged, Return, HandoffRecord
  <1>6. CASE CopyStaged
    BY <1>6 DEF CopyStaged, Written, exists, HandoffRecord
  <1>7. CASE ClearBackup
    BY <1>7, Zenon DEF ClearBackup, Remove
  <1>8. CASE MoveAside
    BY <1>8, AbsentIsNoHandoff DEF MoveAside, Rename, exists
  <1>9. CASE ClearTarget
    BY <1>9, Zenon DEF ClearTarget, Remove
  <1>10. CASE MoveIntoPlace
    BY <1>10 DEF MoveIntoPlace, Rename, exists, HandoffRecord
  <1>11. CASE ClearForPutBack
    BY <1>11, Zenon DEF ClearForPutBack, Remove
  <1>12. CASE PutBack
    BY <1>12 DEF PutBack, Rename, exists
  <1>13. CASE DiscardIncoming
    BY <1>13, Zenon DEF DiscardIncoming, Remove
  <1>14. CASE Confirm
    BY <1>14 DEF Confirm, exists, HandoffRecord
  <1>15. CASE ClearForRevert
    BY <1>15, AbsentIsNoHandoff, Zenon DEF ClearForRevert, Remove
  <1>16. CASE Revert
    BY <1>16 DEF Revert, Rename, exists
  <1>17. CASE ClearForRestore
    BY <1>17, Zenon DEF ClearForRestore, Remove
  <1>18. CASE RestoreBackup
    BY <1>18 DEF RestoreBackup, Rename, exists
  <1>19. CASE CleanBackup
    BY <1>19, Zenon DEF CleanBackup, Remove
  <1>20. CASE CleanStaged
    BY <1>20, Zenon DEF CleanStaged, Remove
  <1>21. CASE CleanHandoff
    BY <1>21 DEF CleanHandoff
  <1>22. CASE Exit
    BY <1>22 DEF Exit
  <1>23. CASE PowerCut
    BY <1>23 DEF PowerCut
  <1>24. CASE UNCHANGED forwarderVars
    BY <1>24 DEF forwarderVars
  <1> QED
    BY <1>1, <1>2, <1>3, <1>4, <1>5, <1>6, <1>7, <1>8, <1>9, <1>10,
       <1>11, <1>12, <1>13, <1>14, <1>15, <1>16, <1>17, <1>18, <1>19,
       <1>20, <1>21, <1>22, <1>23, <1>24, Zenon
    DEF Next, Run

\* On a card that keeps what it is given, the invariant holds throughout.
THEOREM SwapInvariant == ~BadCard => (Spec => [](TypeOK /\ SwapInv))
  <1> SUFFICES ASSUME ~BadCard
               PROVE  Spec => [](TypeOK /\ SwapInv)
    OBVIOUS
  <1>1. Init => SwapInv
    BY ContentAssumption, AttemptsAssumption
    DEF Init, SwapInv, File, Intact, Gap, Copied, Counted
  <1>2. TypeOK /\ SwapInv /\ [Next]_forwarderVars => SwapInv'
    BY StepKeepsSwapInv
  <1> QED
    BY <1>1, <1>2, TypeCorrect, PTL DEF Spec

\* At every instant the application is complete, or the next start of the
\* forwarder finds the complete backup and the handoff that restore it.
THEOREM NeverStrandedAlways == ~BadCard => (Spec => []NeverStranded)
  <1>1. TypeOK /\ SwapInv => NeverStranded
    BY AttemptsAssumption
    DEF TypeOK, SwapInv, NeverStranded, Content, File, Parses, HandoffRecord
  <1> QED
    BY <1>1, SwapInvariant, PTL

\* Every risky step of a swap is covered by a counter already on the card,
\* and the counter never passes max_attempts.
THEOREM SwapBudgetAlways == ~BadCard => (Spec => []SwapBudget)
  <1>1. TypeOK /\ SwapInv => SwapBudget
    BY AbsentIsNoHandoff DEF TypeOK, SwapInv, SwapBudget, Counted
  <1> QED
    BY <1>1, SwapInvariant, PTL

-----------------------------------------------------------------------------
(* The refinement. *)

\* A start of the forwarder touches no file and takes both versions over from
\* the handoff.
LEMMA LaunchKeepsVersions ==
    ASSUME TypeOK, CardInv, Launch
    PROVE  /\ card' = card /\ handoff' = handoff
           /\ h'.from = h.from /\ h'.digest = h.digest
           /\ result' # "Installed"
           /\ pc' \notin Counted
  <1>1. CASE Return("Unrecoverable")
    BY <1>1 DEF Return, Counted
  <1>2. CASE Begin(Absent)
    BY <1>2, ZenonT(40) DEF Begin, decideRecovery, Presence, Return, Counted
  <1>3. CASE handoff # Absent /\ Begin(handoff)
    <2>1. handoff \in HandoffRecord
      BY <1>3 DEF TypeOK
    <2>2. /\ [handoff EXCEPT !.attempts = @ + 1].from = handoff.from
          /\ [handoff EXCEPT !.attempts = @ + 1].digest = handoff.digest
      BY <2>1 DEF HandoffRecord
    <2> QED
      BY <1>3, <2>1, <2>2, Zenon DEF Begin, Return, Enter, CardInv, Counted
  <1> QED
    BY <1>1, <1>2, <1>3 DEF Launch

\* CardInv holds before and after every step.
LEMMA StepKeepsCardInv ==
    ASSUME ~BadCard, TypeOK, SwapInv, CardInv, [Next]_forwarderVars
    PROVE  CardInv'
  <1> USE ContentAssumption, AbsentIsNoHandoff
      DEF CardInv, SwapInv, TypeOK, File, Intact, Gap, Copied, Counted
  <1>1. CASE Launch
    BY <1>1, LaunchKeepsVersions
  <1>2. CASE WriteCounter
    BY <1>2 DEF WriteCounter
  <1>3. CASE ClearCounter
    BY <1>3 DEF ClearCounter
  <1>4. CASE MoveCounter
    BY <1>4 DEF MoveCounter, HandoffRecord
  <1>5. CASE VerifyStaged
    BY <1>5, Zenon DEF VerifyStaged, Return, HandoffRecord
  <1>6. CASE CopyStaged
    BY <1>6, Zenon DEF CopyStaged, Written
  <1>7. CASE ClearBackup
    BY <1>7, Zenon DEF ClearBackup, Remove
  <1>8. CASE MoveAside
    BY <1>8 DEF MoveAside, Rename, exists
  <1>9. CASE ClearTarget
    BY <1>9, Zenon DEF ClearTarget, Remove
  <1>10. CASE MoveIntoPlace
    BY <1>10 DEF MoveIntoPlace, Rename, exists, HandoffRecord
  <1>11. CASE ClearForPutBack
    BY <1>11, Zenon DEF ClearForPutBack, Remove
  <1>12. CASE PutBack
    BY <1>12 DEF PutBack, Rename, exists
  <1>13. CASE DiscardIncoming
    BY <1>13, Zenon DEF DiscardIncoming, Remove
  <1>14. CASE Confirm
    BY <1>14, Zenon DEF Confirm, HandoffRecord
  <1>15. CASE ClearForRevert
    BY <1>15, Zenon DEF ClearForRevert, Remove
  <1>16. CASE Revert
    BY <1>16 DEF Revert, Rename, exists
  <1>17. CASE ClearForRestore
    BY <1>17, Zenon DEF ClearForRestore, Remove
  <1>18. CASE RestoreBackup
    BY <1>18 DEF RestoreBackup, Rename, exists
  <1>19. CASE CleanBackup
    BY <1>19, Zenon DEF CleanBackup, Remove
  <1>20. CASE CleanStaged
    BY <1>20, Zenon DEF CleanStaged, Remove
  <1>21. CASE CleanHandoff
    BY <1>21 DEF CleanHandoff
  <1>22. CASE Exit
    BY <1>22 DEF Exit
  <1>23. CASE PowerCut
    BY <1>23 DEF PowerCut
  <1>24. CASE UNCHANGED forwarderVars
    BY <1>24 DEF forwarderVars
  <1> QED
    BY <1>1, <1>2, <1>3, <1>4, <1>5, <1>6, <1>7, <1>8, <1>9, <1>10,
       <1>11, <1>12, <1>13, <1>14, <1>15, <1>16, <1>17, <1>18, <1>19,
       <1>20, <1>21, <1>22, <1>23, <1>24, ZenonT(40)
    DEF Next, Run

\* Every step of the forwarder is a step of AtomicUpdate or changes nothing
\* there.
LEMMA StepRefines ==
    ASSUME ~BadCard, TypeOK, SwapInv, CardInv, [Next]_forwarderVars
    PROVE  [Abstract!Next]_Abstract!vars
  <1> USE ContentAssumption, AbsentIsNoHandoff
      DEF CardInv, SwapInv, TypeOK, File, Intact, Gap, Copied, Counted,
          InstalledVersion, exists,
          Abstract!Next, Abstract!vars, Abstract!Replace, Abstract!Settle, Abstract!Report
  <1>1. CASE Launch
    BY <1>1, LaunchKeepsVersions
  <1>2. CASE WriteCounter
    BY <1>2 DEF WriteCounter
  <1>3. CASE ClearCounter
    BY <1>3 DEF ClearCounter
  <1>4. CASE MoveCounter
    BY <1>4 DEF MoveCounter, HandoffRecord
  <1>5. CASE VerifyStaged
    BY <1>5 DEF VerifyStaged, Return, HandoffRecord
  <1>6. CASE CopyStaged
    BY <1>6 DEF CopyStaged, Written
  <1>7. CASE ClearBackup
    BY <1>7 DEF ClearBackup, Remove
  <1>8. CASE MoveAside
    BY <1>8 DEF MoveAside, Rename, exists
  <1>9. CASE ClearTarget
    BY <1>9 DEF ClearTarget, Remove
  <1>10. CASE MoveIntoPlace
    BY <1>10 DEF MoveIntoPlace, Rename, exists, HandoffRecord
  <1>11. CASE ClearForPutBack
    BY <1>11 DEF ClearForPutBack, Remove
  <1>12. CASE PutBack
    BY <1>12 DEF PutBack, Rename, exists
  <1>13. CASE DiscardIncoming
    BY <1>13 DEF DiscardIncoming, Remove
  <1>14. CASE Confirm
    BY <1>14 DEF Confirm, HandoffRecord
  <1>15. CASE ClearForRevert
    BY <1>15 DEF ClearForRevert, Remove
  <1>16. CASE Revert
    BY <1>16 DEF Revert, Rename, exists
  <1>17. CASE ClearForRestore
    BY <1>17 DEF ClearForRestore, Remove
  <1>18. CASE RestoreBackup
    BY <1>18 DEF RestoreBackup, Rename, exists
  <1>19. CASE CleanBackup
    BY <1>19 DEF CleanBackup, Remove
  <1>20. CASE CleanStaged
    BY <1>20 DEF CleanStaged, Remove
  <1>21. CASE CleanHandoff
    BY <1>21 DEF CleanHandoff
  <1>22. CASE Exit
    BY <1>22 DEF Exit
  <1>23. CASE PowerCut
    BY <1>23 DEF PowerCut
  <1>24. CASE UNCHANGED forwarderVars
    BY <1>24 DEF forwarderVars
  <1> QED
    BY <1>1, <1>2, <1>3, <1>4, <1>5, <1>6, <1>7, <1>8, <1>9, <1>10,
       <1>11, <1>12, <1>13, <1>14, <1>15, <1>16, <1>17, <1>18, <1>19,
       <1>20, <1>21, <1>22, <1>23, <1>24, ZenonT(40)
    DEF Next, Run

\* On a card that keeps what it is given, both invariants hold throughout.
THEOREM CardInvariant == ~BadCard => (Spec => [](TypeOK /\ SwapInv /\ CardInv))
  <1> SUFFICES ASSUME ~BadCard
               PROVE  Spec => [](TypeOK /\ SwapInv /\ CardInv)
    OBVIOUS
  <1>1. Init => CardInv
    BY ContentAssumption DEF Init, CardInv, File, Counted
  <1>2. TypeOK /\ SwapInv /\ CardInv /\ [Next]_forwarderVars => CardInv'
    BY StepKeepsCardInv
  <1>3. Spec => [](TypeOK /\ SwapInv)
    BY SwapInvariant
  <1> QED
    BY <1>1, <1>2, <1>3, PTL DEF Spec

-----------------------------------------------------------------------------
(* What holds on a card that returns other bytes than it was given, too. *)

\* A success is only on its way to the user from the confirmation on, and from
\* there nothing touches the target.
VerifiedInv ==
    result = "Installed" /\ pc # "off" =>
        /\ pc \in {"clean", "cleanStaged", "cleanHandoff", "done"}
        /\ card["target"] = h.digest

\* A start of the forwarder takes back what the last run reported.
LEMMA LaunchForgets ==
    ASSUME Launch
    PROVE  result' # "Installed"
  <1>1. ASSUME NEW parsed, Begin(parsed)
        PROVE  result' # "Installed"
    BY <1>1, ZenonT(40) DEF Begin, Enter, Return
  <1> QED
    BY <1>1 DEF Launch, Return

\* Only Confirm reports a success, and the clean-up after it keeps the target.
LEMMA StepKeepsVerified ==
    ASSUME TypeOK, VerifiedInv, [Next]_forwarderVars
    PROVE  VerifiedInv'
  <1> USE DEF VerifiedInv, TypeOK, File
  <1>1. CASE Launch
    BY <1>1, LaunchForgets
  <1>2. CASE WriteCounter \/ ClearCounter \/ MoveCounter \/ VerifyStaged \/ CopyStaged
    BY <1>2, Zenon DEF WriteCounter, ClearCounter, MoveCounter, VerifyStaged, CopyStaged, Return
  <1>3. CASE ClearBackup \/ ClearTarget \/ ClearForPutBack \/ DiscardIncoming
    BY <1>3, Zenon DEF ClearBackup, ClearTarget, ClearForPutBack, DiscardIncoming, Remove
  <1>4. CASE MoveAside \/ MoveIntoPlace \/ PutBack
    BY <1>4, Zenon DEF MoveAside, MoveIntoPlace, PutBack, Rename
  <1>5. CASE Confirm
    BY <1>5 DEF Confirm
  <1>6. CASE ClearForRevert \/ Revert \/ ClearForRestore \/ RestoreBackup
    BY <1>6, Zenon DEF ClearForRevert, Revert, ClearForRestore, RestoreBackup, Remove, Rename
  <1>7. CASE CleanBackup \/ CleanStaged
    BY <1>7, Zenon DEF CleanBackup, CleanStaged, Remove
  <1>8. CASE CleanHandoff \/ Exit \/ PowerCut \/ UNCHANGED forwarderVars
    BY <1>8 DEF CleanHandoff, Exit, PowerCut, forwarderVars
  <1> QED
    BY <1>1, <1>2, <1>3, <1>4, <1>5, <1>6, <1>7, <1>8, ZenonT(40) DEF Next, Run

\* A run that reports Installed has the staged binary in place, whatever the
\* card made of the bytes it was given: step 7 reads the target back, and
\* cleanUp leaves it alone.
THEOREM InstalledIsVerifiedAlways == Spec => []InstalledIsVerified
  <1>1. Init => VerifiedInv
    BY DEF Init, VerifiedInv
  <1>2. TypeOK /\ VerifiedInv /\ [Next]_forwarderVars => VerifiedInv'
    BY StepKeepsVerified
  <1>3. VerifiedInv => InstalledIsVerified
    BY DEF VerifiedInv, InstalledIsVerified
  <1> QED
    BY <1>1, <1>2, <1>3, TypeCorrect, PTL DEF Spec

-----------------------------------------------------------------------------

\* runSwap, with power cuts and failing operations anywhere, implements
\* AtomicUpdate: the application is at every moment exactly the old or exactly
\* the new version, it does not change once the staged binary is gone, and
\* "Installed" is only reported with the new version in place.
THEOREM ForwarderImplementsAtomicUpdate == ~BadCard => (Spec => Abstract!Spec)
  <1> SUFFICES ASSUME ~BadCard
               PROVE  Spec => Abstract!Spec
    OBVIOUS
  <1>1. Init => Abstract!Init
    BY ContentAssumption
    DEF Init, Abstract!Init, InstalledVersion, exists, File
  <1>2. TypeOK /\ SwapInv /\ CardInv /\ [Next]_forwarderVars
          => [Abstract!Next]_Abstract!vars
    BY StepRefines
  <1>3. Spec => [](TypeOK /\ SwapInv /\ CardInv)
    BY CardInvariant
  <1> QED
    BY <1>1, <1>2, <1>3, PTL DEF Spec, Abstract!Spec

-----------------------------------------------------------------------------
(* The self-update as a whole. *)

\* The application runs from a binary that is in place, and alone; only a
\* running application deletes anything for the maintenance tool.
AppInv ==
    /\ app # "off" => pc = "off" /\ card["target"] # Absent
    /\ purge # {} => app # "off"

\* The inductive invariant of the composition.
SelfInv == TypeOK /\ SwapInv /\ AppInv /\ staging \in Version

\* A step of the running forwarder is never a step of an idle one.
LEMMA RunningForwarder ==
    ASSUME Run \/ PowerCut
    PROVE  pc # "off"
  BY Zenon DEF Run, PowerCut, WriteCounter, ClearCounter, MoveCounter, VerifyStaged,
         CopyStaged, ClearBackup, MoveAside, ClearTarget, MoveIntoPlace,
         ClearForPutBack, PutBack, DiscardIncoming, Confirm, ClearForRevert,
         Revert, ClearForRestore, RestoreBackup, CleanBackup, CleanStaged,
         CleanHandoff, Exit, Remove, Rename

\* What the application may do to the card between two runs of the forwarder
\* keeps the forwarder's invariant: it leaves the application in place and
\* writes only handoffs that were never attempted.
LEMMA AppKeepsSwapInv ==
    ASSUME TypeOK, SwapInv, pc = "off", card["target"] # Absent,
           card' \in [File -> Content], card'["target"] = card["target"],
           card'["backup"] \in {card["backup"], Absent},
           \/ handoff' \in {handoff, Absent}
           \/ handoff' \in HandoffRecord /\ handoff'.attempts = 0,
           UNCHANGED <<pc, h, result>>, Fault \/ UNCHANGED faults
    PROVE  TypeOK' /\ SwapInv'
  <1>1. TypeOK'
    BY FaultType, Zenon DEF TypeOK
  <1>2. SwapInv'
    BY ContentAssumption, AttemptsAssumption
    DEF TypeOK, SwapInv, Intact, Gap, Copied, Counted
  <1> QED
    BY <1>1, <1>2, Zenon

\* The worker and the start-up code keep the invariant.
LEMMA StageKeepsSelfInv ==
    ASSUME ~BadCard, SelfInv,
           StartApp \/ InstallForwarder \/ InstallRepairEntry \/ Stage
    PROVE  SelfInv'
  <1> USE DEF SelfInv, AppInv, ForwarderIdle
  <1>1. CASE StartApp
    BY <1>1, ContentAssumption, AppKeepsSwapInv, Zenon DEF StartApp, TypeOK
  <1>2. CASE InstallForwarder
    BY <1>2, AppKeepsSwapInv, Zenon DEF InstallForwarder, CopyForwarder, TypeOK
  <1>3. CASE InstallRepairEntry
    BY <1>3, AppKeepsSwapInv, Zenon DEF InstallRepairEntry, CopyForwarder, TypeOK
  <1>4. CASE BeginStage
    BY <1>4, AppKeepsSwapInv, Zenon DEF BeginStage, TypeOK
  <1>5. CASE Download
    BY <1>5, AppKeepsSwapInv, Zenon DEF Download, TypeOK
  <1>6. CASE LandClear
    BY <1>6, AppKeepsSwapInv, Zenon DEF LandClear, TypeOK, File, Content
  <1>7. CASE LandMove
    BY <1>7, AppKeepsSwapInv, Zenon DEF LandMove, Written, TypeOK, File, Content
  <1>8. CASE Reread
    BY <1>8, AppKeepsSwapInv, Zenon DEF Reread, TypeOK
  <1>9. CASE EnsureForwarder
    BY <1>9, AppKeepsSwapInv, Zenon DEF EnsureForwarder, CopyForwarder, TypeOK
  <1>10. CASE WriteHandoff
    BY <1>10, AppKeepsSwapInv, Zenon DEF WriteHandoff, TypeOK
  <1>11. CASE HandoffClear
    BY <1>11, AppKeepsSwapInv, Zenon DEF HandoffClear, TypeOK
  <1>12. CASE HandoffMove
    <2>1. card["target"] \in Version
      BY <1>12, Zenon DEF HandoffMove, TypeOK, SwapInv, File, Content
    <2>2. [from |-> card["target"], digest |-> staging, attempts |-> 0]
            \in HandoffRecord
      BY <2>1, Zenon DEF HandoffRecord
    <2> QED
      BY <1>12, <2>2, AppKeepsSwapInv DEF HandoffMove, TypeOK
  <1>13. CASE DropStaged
    BY <1>13, AppKeepsSwapInv, Zenon DEF DropStaged, TypeOK, File, Content
  <1> QED
    BY <1>1, <1>2, <1>3, <1>4, <1>5, <1>6, <1>7, <1>8, <1>9, <1>10, <1>11,
       <1>12, <1>13, Zenon
    DEF Stage

\* Every step of the composition, purges included, keeps the invariant.
LEMMA StepKeepsSelfInv ==
    ASSUME ~BadCard, SelfInv, [SelfNext \/ Purge]_selfVars
    PROVE  SelfInv'
  <1>1. CASE StartApp \/ InstallForwarder \/ InstallRepairEntry \/ Stage
    BY <1>1, StageKeepsSelfInv, Zenon
  <1>2. CASE QuitApp
    BY <1>2, AppKeepsSwapInv, Zenon DEF QuitApp, SelfInv, AppInv, ForwarderIdle, TypeOK
  <1>3. CASE Chainload \/ OpenRepairEntry
    <2>1. Launch /\ app' = "off" /\ purge = {} /\ UNCHANGED <<staging, purge>>
      BY <1>3, Zenon DEF Chainload, OpenRepairEntry, SelfInv, AppInv
    <2>2. TypeOK' /\ SwapInv'
      BY <2>1, StepKeepsTypes, StepKeepsSwapInv, Zenon DEF SelfInv, Next
    <2> QED
      BY <2>1, <2>2, Zenon DEF SelfInv, AppInv
  <1>4. CASE ForwarderStep
    <2>1. (Run \/ PowerCut) /\ UNCHANGED <<app, staging, purge>>
      BY <1>4, Zenon DEF ForwarderStep
    <2>2. app = "off" /\ purge = {}
      BY <2>1, RunningForwarder, Zenon DEF SelfInv, AppInv
    <2>3. TypeOK' /\ SwapInv'
      BY <2>1, StepKeepsTypes, StepKeepsSwapInv, Zenon DEF SelfInv, Next
    <2> QED
      BY <2>1, <2>2, <2>3, Zenon DEF SelfInv, AppInv
  <1>5. CASE AppPowerCut
    BY <1>5, AppKeepsSwapInv, Zenon DEF AppPowerCut, SelfInv, AppInv, ForwarderIdle, TypeOK
  <1>6. CASE BeginPurge
    BY <1>6, AppKeepsSwapInv, Zenon DEF BeginPurge, SelfInv, AppInv, ForwarderIdle, TypeOK
  <1>7. CASE \E f \in StagingFile : PurgeFile(f)
    BY <1>7, AppKeepsSwapInv
    DEF PurgeFile, StagingFile, SelfInv, AppInv, ForwarderIdle, TypeOK, File, Content
  <1>8. CASE UNCHANGED selfVars
    <2>1. UNCHANGED forwarderVars /\ UNCHANGED <<app, staging, purge>>
      BY <1>8, Zenon DEF selfVars, forwarderVars
    <2>2. TypeOK' /\ SwapInv'
      BY <2>1, StepKeepsTypes, StepKeepsSwapInv, Zenon DEF SelfInv
    <2> QED
      BY <2>1, <2>2, Zenon DEF SelfInv, AppInv, forwarderVars
  <1> QED
    BY <1>1, <1>2, <1>3, <1>4, <1>5, <1>6, <1>7, <1>8, Zenon DEF SelfNext, Purge

\* Through staging, swapping, restarts, power cuts, failures and purges in any
\* order, the application is complete or the forwarder finds the backup and
\* the handoff that bring it back.
THEOREM SelfUpdateNeverStrands == ~BadCard => (PurgeSpec => []NeverStranded)
  <1> SUFFICES ASSUME ~BadCard
               PROVE  PurgeSpec => []NeverStranded
    OBVIOUS
  <1>1. SelfInit => SelfInv
    <2> SUFFICES ASSUME SelfInit
                 PROVE  SelfInv
      OBVIOUS
    <2>1. TypeOK
      BY FaultAssumption
      DEF SelfInit, TypeOK, File, Content, HandoffRecord, Step
    <2>2. SwapInv
      BY ContentAssumption, Zenon
      DEF SelfInit, SwapInv, File, Intact, Gap, Copied, Counted
    <2> QED
      BY <2>1, <2>2, Zenon DEF SelfInit, SelfInv, AppInv
  <1>2. SelfInv /\ [SelfNext \/ Purge]_selfVars => SelfInv'
    BY StepKeepsSelfInv, Zenon
  <1>3. SelfInv => NeverStranded
    BY AttemptsAssumption
    DEF SelfInv, TypeOK, SwapInv, NeverStranded, Content, File, Parses,
        HandoffRecord
  <1> QED
    BY <1>1, <1>2, <1>3, PTL DEF PurgeSpec

-----------------------------------------------------------------------------
(* No way back leads further back than the version that staged the update.  *)

\* What the next start runs or brings back.
Current == IF exists("target") THEN card["target"] ELSE card["backup"]

\* A binary that is no version at all is nobody's downgrade.
NotBelow(c, v) == c \in Version => c >= v

\* The steps of the worker that still have a use for the release it stages.
Staging == {"download", "landClear", "landMove", "reread", "ensure",
            "writeHandoff", "handoffClear", "handoffMove"}

\* From here on the backup is what the swap falls back on.
BackupCounts == {"place", "placeMove", "putBack", "putBackMove", "confirm",
                 "revert", "revertMove", "restore", "restoreMove"}

\* What is in the way of a downgrade, on a card that may keep other bytes than
\* it was given: an update leads upwards, what runSwap works on is what the
\* handoff says, and a backup left by an older update is gone before a step
\* relies on it.
OrderInv ==
    /\ handoff # Absent =>
        handoff.digest >= handoff.from /\ NotBelow(Current, handoff.from)
    /\ pc \notin {"off", "done"} =>
        /\ h.digest >= h.from /\ NotBelow(Current, h.from)
        /\ handoff # Absent => handoff.from = h.from /\ handoff.digest = h.digest
    /\ pc \in BackupCounts => NotBelow(card["backup"], h.from)
    /\ pc = "copy" => card["staged"] = h.digest
    /\ pc \in Copied => card["incoming"] \in {h.digest, Torn}
    /\ pc \in Gap => card["target"] = Absent
    /\ pc \in {"aside", "asideMove", "clean", "cleanStaged", "cleanHandoff"} =>
        card["target"] # Absent
    /\ app # "off" => pc = "off" /\ card["target"] \in Version
    /\ app \in Staging => staging > card["target"]
    /\ purge # {} => app # "off"

\* A download that may still be tried again has tries left.
TriesInv ==
    app = "download" =>
        tries.transient < TransientAttempts /\ tries.digest < DigestAttempts

\* What a rename does to the card, file by file.
LEMMA RenameMoves ==
    ASSUME card \in [File -> Content], NEW at, NEW from \in File, NEW to \in File, from # to,
           NEW next, NEW otherwise, Rename(at, from, to, next, otherwise)
    PROVE  /\ pc = at /\ handoff' = handoff /\ h' = h
           /\ \/ pc' = otherwise /\ \A f \in File : card'[f] = card[f]
              \/ /\ pc' = next
                 /\ card[from] # Absent /\ card[to] = Absent
                 /\ card'[to] = card[from] /\ card'[from] = Absent
                 /\ \A f \in File \ {from, to} : card'[f] = card[f]
  BY Zenon DEF Rename, exists

\* The application is moved aside.
LEMMA TargetMoves ==
    ASSUME card \in [File -> Content], NEW at, NEW next, NEW otherwise,
           Rename(at, "target", "backup", next, otherwise)
    PROVE  /\ pc = at /\ handoff' = handoff /\ h' = h
           /\ \/ pc' = otherwise
                 /\ card'["target"] = card["target"] /\ card'["backup"] = card["backup"]
              \/ /\ pc' = next /\ card["target"] # Absent
                 /\ card'["backup"] = card["target"] /\ card'["target"] = Absent
                 /\ card'["staged"] = card["staged"] /\ card'["incoming"] = card["incoming"]
  <1>1. "target" \in File /\ "backup" \in File /\ "target" # "backup"
        /\ "target" \in File /\ "backup" \in File
        /\ "staged" \in File \ {"target", "backup"} /\ "incoming" \in File \ {"target", "backup"}
    BY Zenon DEF File
  <1>2. /\ pc = at /\ handoff' = handoff /\ h' = h
        /\ \/ pc' = otherwise /\ \A f \in File : card'[f] = card[f]
           \/ /\ pc' = next
              /\ card["target"] # Absent /\ card["backup"] = Absent
              /\ card'["backup"] = card["target"] /\ card'["target"] = Absent
              /\ \A f \in File \ {"target", "backup"} : card'[f] = card[f]
    BY <1>1, RenameMoves, Zenon
  <1> QED
    BY <1>1, <1>2, Zenon

\* The backup is moved back.
LEMMA BackupMoves ==
    ASSUME card \in [File -> Content], NEW at, NEW next, NEW otherwise,
           Rename(at, "backup", "target", next, otherwise)
    PROVE  /\ pc = at /\ handoff' = handoff /\ h' = h
           /\ \/ pc' = otherwise
                 /\ card'["target"] = card["target"] /\ card'["backup"] = card["backup"]
              \/ /\ pc' = next /\ card["backup"] # Absent
                 /\ card'["target"] = card["backup"] /\ card'["backup"] = Absent
                 /\ card'["staged"] = card["staged"] /\ card'["incoming"] = card["incoming"]
  <1>1. "backup" \in File /\ "target" \in File /\ "backup" # "target"
        /\ "target" \in File /\ "backup" \in File
        /\ "staged" \in File \ {"backup", "target"} /\ "incoming" \in File \ {"backup", "target"}
    BY Zenon DEF File
  <1>2. /\ pc = at /\ handoff' = handoff /\ h' = h
        /\ \/ pc' = otherwise /\ \A f \in File : card'[f] = card[f]
           \/ /\ pc' = next
              /\ card["backup"] # Absent /\ card["target"] = Absent
              /\ card'["target"] = card["backup"] /\ card'["backup"] = Absent
              /\ \A f \in File \ {"backup", "target"} : card'[f] = card[f]
    BY <1>1, RenameMoves, Zenon
  <1> QED
    BY <1>1, <1>2, Zenon

\* The copy is moved into place.
LEMMA IncomingMoves ==
    ASSUME card \in [File -> Content], NEW at, NEW next, NEW otherwise,
           Rename(at, "incoming", "target", next, otherwise)
    PROVE  /\ pc = at /\ handoff' = handoff /\ h' = h
           /\ \/ pc' = otherwise
                 /\ card'["target"] = card["target"] /\ card'["backup"] = card["backup"]
              \/ /\ pc' = next /\ card["incoming"] # Absent
                 /\ card'["target"] = card["incoming"] /\ card'["incoming"] = Absent
                 /\ card'["staged"] = card["staged"] /\ card'["backup"] = card["backup"]
  <1>1. "incoming" \in File /\ "target" \in File /\ "incoming" # "target"
        /\ "target" \in File /\ "backup" \in File
        /\ "staged" \in File \ {"incoming", "target"} /\ "backup" \in File \ {"incoming", "target"}
    BY Zenon DEF File
  <1>2. /\ pc = at /\ handoff' = handoff /\ h' = h
        /\ \/ pc' = otherwise /\ \A f \in File : card'[f] = card[f]
           \/ /\ pc' = next
              /\ card["incoming"] # Absent /\ card["target"] = Absent
              /\ card'["target"] = card["incoming"] /\ card'["incoming"] = Absent
              /\ \A f \in File \ {"incoming", "target"} : card'[f] = card[f]
    BY <1>1, RenameMoves, Zenon
  <1> QED
    BY <1>1, <1>2, Zenon

\* What a step that leaves the handoff alone has to show.
LEMMA OrderStep ==
    ASSUME OrderInv, pc \notin {"off", "done"}, app' = "off", purge' = {},
           h' = h, handoff' = handoff, NotBelow(Current, h.from)',
           pc' \notin {"copy", "aside", "asideMove"},
           pc' \in BackupCounts => NotBelow(card["backup"], h.from)',
           pc' \in Copied => card'["incoming"] \in {h.digest, Torn},
           pc' \in Gap => card'["target"] = Absent,
           pc' \in {"clean", "cleanStaged", "cleanHandoff"} => card'["target"] # Absent
    PROVE  OrderInv'
  <1>1. /\ h.digest >= h.from
        /\ handoff # Absent => handoff.from = h.from /\ handoff.digest = h.digest
    BY Zenon DEF OrderInv
  <1>2. handoff # Absent => NotBelow(Current, handoff.from)'
    BY <1>1, Zenon DEF NotBelow
  <1> QED
    BY <1>1, <1>2, Zenon DEF OrderInv, Staging

\* A step of the running forwarder keeps the order.
LEMMA SwapKeepsOrder ==
    ASSUME TypeOK, OrderInv, Run \/ PowerCut, UNCHANGED <<app, staging, purge>>
    PROVE  OrderInv'
  <1> USE ContentAssumption
      DEF OrderInv, Current, NotBelow, exists, File, Copied, Gap, BackupCounts
  <1>0. /\ card \in [File -> Content] /\ h.from \in Version /\ h.digest \in Version
        /\ app = "off" /\ purge = {} /\ h.from \in Nat /\ h.digest \in Nat
    BY RunningForwarder, VersionAssumption, Zenon DEF TypeOK, HandoffRecord
  <1>1. CASE WriteCounter
    BY <1>1, <1>0, Zenon DEF WriteCounter
  <1>2. CASE ClearCounter
    BY <1>2, <1>0, Zenon DEF ClearCounter
  <1>3. CASE MoveCounter
    BY <1>3, <1>0, Zenon DEF MoveCounter
  <1>4. CASE VerifyStaged
    BY <1>4, <1>0, Zenon DEF VerifyStaged, Return
  <1>5. CASE CopyStaged
    BY <1>5, <1>0 DEF CopyStaged, Written
  <1>6. CASE ClearBackup
    BY <1>6, <1>0, Zenon DEF ClearBackup, Remove
  <1>7. CASE MoveAside
    <2>1. /\ pc = "asideMove" /\ handoff' = handoff /\ h' = h
          /\ \/ pc' = "discard"
                /\ card'["target"] = card["target"] /\ card'["backup"] = card["backup"]
             \/ /\ pc' = "place" /\ card["target"] # Absent
                /\ card'["backup"] = card["target"] /\ card'["target"] = Absent
                /\ card'["staged"] = card["staged"] /\ card'["incoming"] = card["incoming"]
      BY <1>7, <1>0, TargetMoves, Zenon DEF MoveAside
    <2>2. NotBelow(Current, h.from)'
      BY <2>1, <1>0, Zenon
    <2> QED
      BY <2>1, <2>2, <1>0, OrderStep, Zenon
  <1>8. CASE ClearTarget
    BY <1>8, <1>0, Zenon DEF ClearTarget, Remove
  <1>9. CASE MoveIntoPlace
    <2>1. /\ pc = "placeMove" /\ handoff' = handoff /\ h' = h
          /\ \/ pc' \in {"putBack", "discard"} /\ (pc' = "putBack" => card["backup"] # Absent)
                /\ card'["target"] = card["target"] /\ card'["backup"] = card["backup"]
             \/ /\ pc' = "confirm" /\ card["incoming"] # Absent
                /\ card'["target"] = card["incoming"] /\ card'["incoming"] = Absent
                /\ card'["staged"] = card["staged"] /\ card'["backup"] = card["backup"]
      <3> DEFINE otherwise == IF exists("backup") THEN "putBack" ELSE "discard"
      <3>1. Rename("placeMove", "incoming", "target", "confirm", otherwise)
        BY <1>9, Zenon DEF MoveIntoPlace
      <3>2. otherwise \in {"putBack", "discard"}
        OBVIOUS
      <3>3. otherwise = "putBack" => card["backup"] # Absent
        OBVIOUS
      <3> HIDE DEF otherwise
      <3> QED
        BY <3>1, <3>2, <3>3, <1>0, IncomingMoves, Zenon
    <2>2. NotBelow(Current, h.from)'
      BY <2>1, <1>0, Zenon
    <2> QED
      BY <2>1, <2>2, <1>0, OrderStep, Zenon
  <1>10. CASE ClearForPutBack
    BY <1>10, <1>0, Zenon DEF ClearForPutBack, Remove
  <1>11. CASE PutBack
    <2>1. /\ pc = "putBackMove" /\ handoff' = handoff /\ h' = h
          /\ \/ pc' = "discard"
                /\ card'["target"] = card["target"] /\ card'["backup"] = card["backup"]
             \/ /\ pc' = "discard" /\ card["backup"] # Absent
                /\ card'["target"] = card["backup"] /\ card'["backup"] = Absent
                /\ card'["staged"] = card["staged"] /\ card'["incoming"] = card["incoming"]
      BY <1>11, <1>0, BackupMoves, Zenon DEF PutBack
    <2>2. NotBelow(Current, h.from)'
      BY <2>1, <1>0, Zenon
    <2> QED
      BY <2>1, <2>2, <1>0, OrderStep, Zenon
  <1>12. CASE DiscardIncoming
    BY <1>12, <1>0, Zenon DEF DiscardIncoming, Remove
  <1>13. CASE Confirm
    BY <1>13, <1>0, Zenon DEF Confirm
  <1>14. CASE ClearForRevert
    <2>1. /\ pc = "revert" /\ pc' = "revertMove" /\ handoff' = handoff /\ h' = h
          /\ card'["target"] \in {card["target"], Absent}
          /\ card'["backup"] = card["backup"]
      BY <1>14, <1>0, Zenon DEF ClearForRevert, Remove
    <2>2. NotBelow(Current, h.from)' /\ NotBelow(card["backup"], h.from)'
      BY <2>1, <1>0, Zenon
    <2> QED
      BY <2>1, <2>2, <1>0, OrderStep, Zenon
  <1>15. CASE Revert
    <2>1. /\ pc = "revertMove" /\ handoff' = handoff /\ h' = h
          /\ \/ pc' = "done"
                /\ card'["target"] = card["target"] /\ card'["backup"] = card["backup"]
             \/ /\ pc' = "done" /\ card["backup"] # Absent
                /\ card'["target"] = card["backup"] /\ card'["backup"] = Absent
                /\ card'["staged"] = card["staged"] /\ card'["incoming"] = card["incoming"]
      BY <1>15, <1>0, BackupMoves, Zenon DEF Revert
    <2>2. NotBelow(Current, h.from)'
      BY <2>1, <1>0, Zenon
    <2> QED
      BY <2>1, <2>2, <1>0, OrderStep, Zenon
  <1>16. CASE ClearForRestore
    BY <1>16, <1>0, Zenon DEF ClearForRestore, Remove
  <1>17. CASE RestoreBackup
    <2>1. /\ pc = "restoreMove" /\ handoff' = handoff /\ h' = h
          /\ \/ pc' = "done"
                /\ card'["target"] = card["target"] /\ card'["backup"] = card["backup"]
             \/ /\ pc' = "clean" /\ card["backup"] # Absent
                /\ card'["target"] = card["backup"] /\ card'["backup"] = Absent
                /\ card'["staged"] = card["staged"] /\ card'["incoming"] = card["incoming"]
      BY <1>17, <1>0, BackupMoves, Zenon DEF RestoreBackup
    <2>2. NotBelow(Current, h.from)'
      BY <2>1, <1>0, Zenon
    <2> QED
      BY <2>1, <2>2, <1>0, OrderStep, Zenon
  <1>18. CASE CleanBackup
    BY <1>18, <1>0, Zenon DEF CleanBackup, Remove
  <1>19. CASE CleanStaged
    BY <1>19, <1>0, Zenon DEF CleanStaged, Remove
  <1>20. CASE CleanHandoff
    BY <1>20, <1>0, Zenon DEF CleanHandoff
  <1>21. CASE Exit
    BY <1>21, <1>0, Zenon DEF Exit
  <1>22. CASE PowerCut
    BY <1>22, <1>0, Zenon DEF PowerCut
  <1> QED
    BY <1>1, <1>2, <1>3, <1>4, <1>5, <1>6, <1>7, <1>8, <1>9, <1>10, <1>11, <1>12, <1>13, <1>14, <1>15, <1>16, <1>17, <1>18, <1>19, <1>20, <1>21, <1>22, Zenon
    DEF Run

\* So does a launch: the attempt works on the handoff that is there.
LEMMA LaunchKeepsOrder ==
    ASSUME TypeOK, OrderInv, Launch, app' = "off", purge' = {}
    PROVE  OrderInv'
  <1>1. card' = card /\ handoff' = handoff /\ pc = "off"
    BY Zenon DEF Launch, Begin, Return, Enter
  <1>2. CASE pc' = "done"
    BY <1>1, <1>2, Zenon
    DEF OrderInv, Current, NotBelow, exists, BackupCounts, Copied, Gap, Staging
  <1>3. CASE pc' # "done"
    <2>1. handoff # Absent /\ Begin(handoff)
      BY <1>3, Zenon DEF Launch, Begin, Return, decideRecovery, Presence
    <2>2. handoff \in HandoffRecord
      BY <2>1, Zenon DEF TypeOK
    <2>3. /\ pc' \in {"restore", "clean", "bump"}
          /\ h' \in {handoff, [handoff EXCEPT !.attempts = @ + 1]}
          /\ pc' = "restore" => card["target"] = Absent
          /\ pc' = "clean" => card["target"] # Absent
      <3>1. CASE decideRecovery(handoff, Presence(handoff # Absent)) \in {"Nothing", "Unrecoverable"}
        BY <2>1, <3>1, <1>3, Zenon DEF Begin, Return
      <3>2. CASE decideRecovery(handoff, Presence(handoff # Absent)) = "RestoreBackup"
        <4>1. card["target"] = Absent
          BY <2>1, <3>2, Zenon DEF decideRecovery, Presence, exists
        <4> QED
          BY <2>1, <3>2, <4>1, Zenon DEF Begin, Enter
      <3>3. CASE decideRecovery(handoff, Presence(handoff # Absent)) = "RollBack"
        <4>1. card["backup"] # Absent \/ card["target"] # Absent
          BY <2>1, <3>3, Zenon DEF decideRecovery, Presence, exists
        <4> QED
          BY <2>1, <3>3, <4>1, Zenon DEF Begin, Enter, exists
      <3>4. CASE decideRecovery(handoff, Presence(handoff # Absent)) \in
                   {"ProceedWithSwap", "RetrySwap", "InstallStaged"}
        BY <2>1, <3>4, Zenon DEF Begin, Enter
      <3> QED
        BY <2>1, <3>1, <3>2, <3>3, <3>4, Zenon DEF Begin
    <2>4. h'.from = handoff.from /\ h'.digest = handoff.digest
      BY <2>2, <2>3, Zenon DEF HandoffRecord
    <2>5. handoff.digest >= handoff.from /\ NotBelow(Current, handoff.from)
      BY <2>1, Zenon DEF OrderInv
    <2>6. NotBelow(Current, h.from)' /\ NotBelow(Current, handoff.from)'
      BY <1>1, <2>4, <2>5, Zenon DEF NotBelow, Current, exists
    <2>7. pc' = "restore" => NotBelow(card["backup"], h.from)'
      BY <1>1, <2>3, <2>6, Zenon DEF NotBelow, Current, exists
    <2> QED
      BY <1>1, <2>1, <2>3, <2>4, <2>5, <2>6, <2>7, Zenon
      DEF OrderInv, BackupCounts, Copied, Gap, Staging
  <1> QED
    BY <1>2, <1>3, Zenon

\* What the application does to the card keeps the order: the application stays
\* in place, and a handoff it writes leads upwards from it.
LEMMA AppKeepsOrder ==
    ASSUME TypeOK, OrderInv, app # "off" \/ StartApp, pc' = "off",
           card["target"] \in Version, card'["target"] = card["target"],
           \/ handoff' \in {handoff, Absent}
           \/ handoff'.from = card["target"] /\ handoff'.digest > card["target"]
              /\ handoff'.digest \in Version,
           app' \in Staging => staging' > card["target"],
           purge' # {} => app' # "off"
    PROVE  OrderInv'
  <1>1. card["target"] \in Nat /\ card["target"] # Absent
    BY VersionAssumption, ContentAssumption, Zenon
  <1>2. handoff' # Absent =>
            handoff'.digest >= handoff'.from /\ NotBelow(Current, handoff.from)'
    <2>1. CASE handoff' \in {handoff, Absent}
      BY <1>1, <2>1, Zenon DEF OrderInv, NotBelow, Current, exists
    <2>2. CASE /\ handoff'.from = card["target"] /\ handoff'.digest > card["target"]
               /\ handoff'.digest \in Version
      <3>1. \A d \in Nat, t \in Nat : d > t => d >= t
        OBVIOUS
      <3>2. handoff'.digest \in Nat
        BY <2>2, VersionAssumption, Zenon
      <3>3. handoff'.digest >= handoff'.from
        BY <1>1, <2>2, <3>1, <3>2, Zenon
      <3>4. Current' = card["target"] /\ card["target"] >= handoff'.from
        BY <1>1, <2>2 DEF Current, exists
      <3> QED
        BY <3>3, <3>4, Zenon DEF NotBelow
    <2> QED
      BY <2>1, <2>2, Zenon
  <1> QED
    BY <1>1, <1>2, Zenon DEF OrderInv, BackupCounts, Copied, Gap

\* Every step of the composition, purges included, keeps the order.
LEMMA StepKeepsOrder ==
    ASSUME TypeOK, OrderInv, staging \in Version, [SelfNext \/ Purge]_selfVars
    PROVE  OrderInv'
  <1>1. CASE Chainload \/ OpenRepairEntry
    <2>1. Launch /\ app' = "off" /\ purge' = {}
      BY <1>1, Zenon DEF Chainload, OpenRepairEntry, OrderInv
    <2> QED
      BY <2>1, LaunchKeepsOrder, Zenon
  <1>2. CASE ForwarderStep
    BY <1>2, SwapKeepsOrder, Zenon DEF ForwarderStep
  <1>3. CASE UNCHANGED selfVars
    BY <1>3 DEF selfVars, OrderInv, Current, NotBelow, exists
  <1>4. CASE \/ StartApp \/ InstallForwarder \/ InstallRepairEntry \/ Stage
             \/ QuitApp \/ AppPowerCut \/ Purge
    <2> USE DEF StartApp, InstallForwarder, InstallRepairEntry, Stage, BeginStage, Download,
           LandClear, LandMove, Reread, EnsureForwarder, WriteHandoff, HandoffClear,
           HandoffMove, DropStaged, QuitApp, AppPowerCut, Purge, BeginPurge, PurgeFile,
           CopyForwarder, ForwarderIdle
    <2>1. app # "off" \/ StartApp
      BY <1>4, Zenon DEF OrderInv
    <2>2. pc = "off" /\ card["target"] \in Version
      BY <2>1, Zenon DEF OrderInv
    <2>3. pc' = "off"
      BY <1>4, <2>2, Zenon
    <2>4. card'["target"] = card["target"]
      BY <1>4, Zenon DEF StagingFile, TypeOK, File
    <2>5. \/ handoff' \in {handoff, Absent}
          \/ /\ handoff'.from = card["target"] /\ handoff'.digest > card["target"]
             /\ handoff'.digest \in Version
      <3>1. CASE HandoffMove
        <4>1. staging > card["target"]
          BY <3>1, Zenon DEF OrderInv, Staging
        <4> QED
          BY <3>1, <4>1
      <3> QED
        BY <1>4, <3>1, Zenon
    <2>6. app' \in Staging => staging' > card["target"]
      BY <1>4, Zenon DEF Staging, OrderInv
    <2>7. purge' # {} => app' # "off"
      BY <1>4, Zenon DEF OrderInv
    <2> QED
      BY <2>1, <2>2, <2>3, <2>4, <2>5, <2>6, <2>7, AppKeepsOrder, Zenon
  <1> QED
    BY <1>1, <1>2, <1>3, <1>4, Zenon DEF SelfNext

\* The types of the composition, and the tries that are left.
SelfTypes == SelfTypeOK /\ TriesInv

\* Every step keeps the types: stage() gives up before it exceeds its tries.
LEMMA StepKeepsSelfTypes ==
    ASSUME SelfTypes, OrderInv, [SelfNext \/ Purge]_selfVars
    PROVE  SelfTypes'
  <1> USE DEF SelfTypes, SelfTypeOK, TriesInv
  <1>1. CASE Chainload \/ OpenRepairEntry \/ ForwarderStep
    <2>1. [Next]_forwarderVars
      BY <1>1, Zenon DEF Chainload, OpenRepairEntry, ForwarderStep, Next
    <2>2. TypeOK'
      BY <2>1, StepKeepsTypes, Zenon
    <2>3. app' \in {app, "off"} /\ UNCHANGED <<staging, tries, temp, nro, purge>>
      BY <1>1, Zenon DEF Chainload, OpenRepairEntry, ForwarderStep
    <2> QED
      BY <2>2, <2>3, Zenon DEF AppStep
  <1>2. CASE UNCHANGED selfVars
    <2>1. UNCHANGED forwarderVars /\ UNCHANGED <<app, staging, tries, temp, nro, purge>>
      BY <1>2, Zenon DEF selfVars, forwarderVars
    <2>2. TypeOK'
      BY <2>1, StepKeepsTypes, Zenon
    <2> QED
      BY <2>1, <2>2, Zenon
  <1>3. CASE \/ StartApp \/ InstallForwarder \/ InstallRepairEntry \/ Stage
             \/ QuitApp \/ AppPowerCut \/ Purge
    <2> USE DEF StartApp, InstallForwarder, InstallRepairEntry, Stage, BeginStage, Download,
           LandClear, LandMove, Reread, EnsureForwarder, WriteHandoff, HandoffClear,
           HandoffMove, DropStaged, QuitApp, AppPowerCut, Purge, BeginPurge, PurgeFile,
           CopyForwarder, ForwarderIdle
    <2>1. UNCHANGED <<pc, h, result>>
      BY <1>3, Zenon
    <2>2. Fault \/ UNCHANGED faults
      BY <1>3, Zenon
    <2>3. card' \in [File -> Content]
      <3>1. CASE LandMove
        <4>1. Written(staging) \subseteq Content
          BY Zenon DEF Written, Content
        <4>2. card' = card \/ \E c \in Content : card' = [card EXCEPT !["staged"] = c]
          BY <3>1, <4>1, Zenon
        <4> QED
          BY <4>2, Zenon DEF TypeOK
      <3>2. CASE \E f \in StagingFile : PurgeFile(f)
        BY <3>2, Zenon DEF TypeOK, Content
      <3>3. CASE LandClear \/ DropStaged
        BY <3>3, Zenon DEF TypeOK, File, Content
      <3>4. CASE card' = card
        BY <3>4, Zenon DEF TypeOK
      <3> QED
        BY <1>3, <3>1, <3>2, <3>3, <3>4, Zenon
    <2>4. handoff' \in HandoffRecord \cup {Absent}
      <3>1. CASE HandoffMove
        <4>1. card["target"] \in Version
          BY <3>1, Zenon DEF OrderInv
        <4>2. [from |-> card["target"], digest |-> staging, attempts |-> 0]
                \in HandoffRecord
          BY <4>1, Zenon DEF HandoffRecord
        <4> QED
          BY <3>1, <4>2, Zenon DEF TypeOK
      <3> QED
        BY <1>3, <3>1, Zenon DEF TypeOK
    <2>5. TypeOK'
      BY <2>1, <2>2, <2>3, <2>4, FaultType, Zenon DEF TypeOK
    <2>6. app' \in AppStep /\ temp' \in BOOLEAN
      BY <1>3, Zenon DEF AppStep
    <2>7. staging' \in Version
      BY <1>3, Zenon
    <2>8. nro' \in [Copy -> {"good", "torn", "absent"}]
      BY <1>3, Zenon DEF Copy
    <2>9. purge' \subseteq StagingFile
      BY <1>3, Zenon DEF Listed, StagingFile
    <2>10. tries' \in [transient : 0 .. TransientAttempts, digest : 0 .. DigestAttempts]
           /\ TriesInv'
      <3>1. CASE Download
        <4>1. /\ tries \in [transient : Nat, digest : Nat]
              /\ tries.transient < TransientAttempts /\ tries.digest < DigestAttempts
          BY <3>1, RetryAssumption
        <4>2. CASE tries' = tries
          BY <3>1, <4>1, <4>2, Zenon
        <4>3. CASE /\ tries' = [tries EXCEPT !.transient = @ + 1]
                   /\ app' = IF tries'.transient < TransientAttempts THEN "download" ELSE "idle"
          BY <4>1, <4>3, RetryAssumption
        <4>4. CASE /\ tries' = [tries EXCEPT !.digest = @ + 1]
                   /\ app' = IF tries'.digest < DigestAttempts THEN "download" ELSE "idle"
          BY <4>1, <4>4, RetryAssumption
        <4> QED
          BY <3>1, <4>2, <4>3, <4>4, Zenon
      <3>2. CASE BeginStage
        BY <3>2, RetryAssumption DEF NoTries
      <3>3. CASE ~Download /\ ~BeginStage
        <4>1. tries' = tries
          BY <1>3, <3>3, Zenon
        <4>2. app' # "download" \/ app' = app
          BY <1>3, <3>3, Zenon
        <4> QED
          BY <4>1, <4>2, Zenon
      <3> QED
        BY <3>1, <3>2, <3>3, Zenon
    <2> QED
      BY <2>5, <2>6, <2>7, <2>8, <2>9, <2>10, Zenon
  <1> QED
    BY <1>1, <1>2, <1>3, Zenon DEF SelfNext

\* The order and the types from the first start on.
THEOREM OrderInvariant == PurgeSpec => [](SelfTypes /\ OrderInv)
  <1>1. SelfInit => SelfTypes /\ OrderInv
    <2> SUFFICES ASSUME SelfInit
                 PROVE  SelfTypes /\ OrderInv
      OBVIOUS
    <2>1. TypeOK
      BY FaultAssumption DEF SelfInit, TypeOK, File, Content, HandoffRecord, Step
    <2>2. SelfTypes
      <3>1. tries \in [transient : 0 .. TransientAttempts, digest : 0 .. DigestAttempts]
        BY RetryAssumption DEF SelfInit, NoTries
      <3>2. nro \in [Copy -> {"good", "torn", "absent"}] /\ purge \subseteq StagingFile
        BY Zenon DEF SelfInit
      <3>3. app = "off" /\ app \in AppStep /\ temp \in BOOLEAN /\ staging \in Version
        BY Zenon DEF SelfInit, AppStep
      <3> QED
        BY <2>1, <3>1, <3>2, <3>3, Zenon DEF SelfTypes, SelfTypeOK, TriesInv
    <2>3. OrderInv
      BY Zenon DEF SelfInit, OrderInv, BackupCounts, Copied, Gap, Staging
    <2> QED
      BY <2>2, <2>3, Zenon
  <1>2. SelfTypes /\ OrderInv /\ [SelfNext \/ Purge]_selfVars => (SelfTypes /\ OrderInv)'
    BY StepKeepsSelfTypes, StepKeepsOrder, Zenon DEF SelfTypes, SelfTypeOK
  <1> QED
    BY <1>1, <1>2, PTL DEF PurgeSpec

\* Every variable of the composition has its type; stage() never tries more
\* often than it may.
THEOREM SelfTypeCorrect == PurgeSpec => []SelfTypeOK
  BY OrderInvariant, PTL DEF SelfTypes

\* Neither a rollback nor a restore goes back further than the version that
\* staged the pending update, on any card: also one that keeps other bytes than
\* it is given, with old backups lying around and purges at any moment.
THEOREM NoDowngradeAlways == PurgeSpec => []NoDowngrade
  <1>1. OrderInv => NoDowngrade
    BY Zenon DEF OrderInv, NoDowngrade, Current, NotBelow
  <1> QED
    BY <1>1, OrderInvariant, PTL
=============================================================================
