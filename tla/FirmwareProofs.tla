---------------------------- MODULE FirmwareProofs ----------------------------
(***************************************************************************)
(* Proofs about FirmwareInstall, for any number of files, versions,        *)
(* installations, faults, power cuts and foreign files.                    *)
(*                                                                         *)
(* Two invariants.  The first holds while other tools write at any time,   *)
(* and gives NeverMixed.  The second says how far the clearing and the     *)
(* extraction have come, and needs the directory to itself.                *)
(***************************************************************************)
EXTENDS FirmwareInstall, TLAPS

\* The file f is an entry of an archive.
IsEntry(f) == dir[f] \in Extracted

\* What is left of the old set is still to be deleted, and what is there of the
\* new one has its version.
MixInv ==
    /\ TypeOK
    /\ NeverMixed
    /\ pc = "clear" => \A f \in Name : IsEntry(f) => f \in todo
    /\ pc \in {"extract", "write"} =>
        \A f \in Name : IsEntry(f) => dir[f].version = item.version

Whole == [version |-> item.version, whole |-> TRUE]

\* Everything in the directory is to be deleted; then everything in it is an
\* entry that was dealt with, whole unless it is the one being written.
DirInv ==
    /\ pc = "off" => result = "none"
    /\ pc = "download" => dir = before
    /\ pc = "clear" => \A f \in Name : dir[f] # None => f \in todo
    /\ pc \in {"extract", "write"} =>
        /\ todo \subseteq item.entries
        /\ \A f \in Name :
            dir[f] = Whole \/ (pc = "write" /\ f = cur) \/ (dir[f] = None /\ f \notin item.entries \ todo)
        /\ \A f \in Name \ item.entries : dir[f] = None
    /\ pc = "write" => cur \in item.entries
    /\ pc = "write" => cur \notin todo

FirmwareInv == TypeOK /\ DirInv /\ UntouchedOnFailure /\ ReadyIsWhole

-----------------------------------------------------------------------------

\* The files stage() writes are entries of the archive's version.
LEMMA EntryIsExtracted ==
    ASSUME NEW v \in Version, NEW b \in BOOLEAN
    PROVE  /\ [version |-> v, whole |-> b] \in Extracted
           /\ [version |-> v, whole |-> b].version = v
           /\ [version |-> v, whole |-> b] \notin {None, Foreign}
  BY ContentAssumption DEF Extracted

\* What the three kinds of content have in common with each other: nothing.
LEMMA NoneIsNoEntry == None \notin Extracted /\ Foreign \notin Extracted /\ Foreign # None
  BY ContentAssumption, FirmwareAssumption

\* An item's version and entries have their types.
LEMMA ItemFields == item \in Item => item.version \in Version /\ item.entries \subseteq Name
  BY DEF Item

\* The application starts from an empty directory.
LEMMA InitTypes == Init => TypeOK
  <1> SUFFICES ASSUME Init PROVE TypeOK
    OBVIOUS
  <1>1. dir \in [Name -> Content] /\ before \in [Name -> Content]
    BY DEF Init, Content
  <1>2. result \in FirmwareResult /\ archive \in BOOLEAN /\ pc = "off"
    BY Zenon DEF Init, FirmwareResult
  <1>3. /\ installs \in 0..MaxInstalls /\ faults \in 0..MaxFaults
        /\ cuts \in 0..MaxCuts /\ foreign \in 0..MaxForeign
    BY FirmwareAssumption DEF Init
  <1> QED
    BY <1>1, <1>2, <1>3 DEF Init, TypeOK

\* Every step of stage(), of the user, of the power supply and of other tools
\* keeps the types.
LEMMA TypeStep == TypeOK /\ [Next \/ WriteForeign]_vars => TypeOK'
  <1> SUFFICES ASSUME TypeOK, [Next \/ WriteForeign]_vars PROVE TypeOK'
    OBVIOUS
  <1> USE FirmwareAssumption DEF TypeOK
  <1>0. item.version \in Version /\ item.entries \subseteq Name
    BY ItemFields
  <1>1. CASE Preflight
    <2>1. installs' \in 0..MaxInstalls /\ item' \in Item /\ result' \in FirmwareResult
      BY <1>1 DEF Preflight, FirmwareResult
    <2>2. pc' \in {"idle", "download"} /\ archive' \in BOOLEAN
      BY <1>1, Zenon DEF Preflight
    <2> QED
      BY <1>1, <2>1, <2>2 DEF Preflight
  <1>2. CASE Download
    BY <1>2, Zenon DEF Download, Return, NotDownloaded, FirmwareResult, Files
  <1>3. CASE Clear
    <2>1. dir' \in [Name -> Content]
      BY <1>3, Zenon DEF Clear, Content
    <2>2. faults' \in 0..MaxFaults
      <3>1. faults' = faults \/ Fault
        BY <1>3, Zenon DEF Clear
      <3> QED
        BY <3>1 DEF Fault
    <2>3. todo' \subseteq Name /\ result' \in FirmwareResult
      BY <1>3, Zenon DEF Clear, Return, FirmwareResult
    <2>4. pc' \in {"clear", "idle"} /\ archive' \in BOOLEAN
      BY <1>3, Zenon DEF Clear, Return
    <2>5. pc' = "clear" => archive'
      BY <1>3 DEF Clear, Return
    <2> QED
      BY <1>3, <2>1, <2>2, <2>3, <2>4, <2>5 DEF Clear
  <1>4. CASE Cleared
    <2>1. todo' \subseteq Name /\ result' \in FirmwareResult
      BY <1>0, <1>4, Zenon DEF Cleared, Return, FirmwareResult
    <2>2. /\ pc' \in {"extract", "idle"} /\ archive' \in BOOLEAN
          /\ pc' = "extract" => archive'
      BY <1>4, Zenon DEF Cleared, Return
    <2> QED
      BY <1>4, <2>1, <2>2 DEF Cleared
  <1>5. CASE OpenEntry
    <2>1. dir' \in [Name -> Content]
      <3> DEFINE entry == [version |-> item.version, whole |-> FALSE]
      <3>1. entry \in Content
        BY <1>0, EntryIsExtracted, Zenon DEF Content
      <3>2. dir' = dir \/ \E f \in todo : dir' = [dir EXCEPT ![f] = entry]
        BY <1>5, Zenon DEF OpenEntry
      <3> HIDE DEF entry
      <3> QED
        BY <3>1, <3>2
    <2>2. todo' \subseteq Name /\ cur' \in Name /\ result' \in FirmwareResult
      BY <1>5, Zenon DEF OpenEntry, Return, FirmwareResult
    <2>3. pc' \in {"write", "idle"} /\ archive' \in BOOLEAN
      BY <1>5, Zenon DEF OpenEntry, Return
    <2>4. pc' = "write" => archive'
      BY <1>5 DEF OpenEntry, Return
    <2> QED
      BY <1>5, <2>1, <2>2, <2>3, <2>4 DEF OpenEntry
  <1>6. CASE WriteEntry
    <2>1. dir' \in [Name -> Content]
      <3> DEFINE entry == [version |-> item.version, whole |-> TRUE]
      <3>1. entry \in Content /\ None \in Content
        BY <1>0, EntryIsExtracted, Zenon DEF Content
      <3>2. \E e \in {entry, None} : dir' = [dir EXCEPT ![cur] = e]
        BY <1>6, Zenon DEF WriteEntry
      <3> HIDE DEF entry
      <3> QED
        BY <3>1, <3>2
    <2>2. faults' \in 0..MaxFaults
      <3>1. faults' = faults \/ Fault
        BY <1>6, Zenon DEF WriteEntry
      <3> QED
        BY <3>1 DEF Fault
    <2>3. todo' \subseteq Name /\ result' \in FirmwareResult
      BY <1>6, Zenon DEF WriteEntry, Return, FirmwareResult
    <2>4. pc' \in {"extract", "idle"} /\ archive' \in BOOLEAN
      BY <1>6, Zenon DEF WriteEntry, Return
    <2>5. pc' = "extract" => archive'
      BY <1>6 DEF WriteEntry, Return
    <2> QED
      BY <1>6, <2>1, <2>2, <2>3, <2>4, <2>5 DEF WriteEntry
  <1>7. CASE Confirm
    <2>1. result' \in FirmwareResult /\ pc' = "idle" /\ archive' \in BOOLEAN /\ todo' = {}
      BY <1>7, Zenon DEF Confirm, Return, FirmwareResult
    <2> QED
      BY <1>7, <2>1 DEF Confirm
  <1>8. CASE Start \/ Quit \/ PowerCut
    BY <1>8 DEF Start, Quit, PowerCut, FirmwareResult
  <1>9. CASE WriteForeign
    BY <1>9 DEF WriteForeign, Content
  <1>10. CASE UNCHANGED vars
    BY <1>10 DEF vars
  <1> QED
    BY <1>1, <1>2, <1>3, <1>4, <1>5, <1>6, <1>7, <1>8, <1>9, <1>10 DEF Next, Stage

\* Every step, a write of another tool included, keeps MixInv.
LEMMA MixStep == MixInv /\ [Next \/ WriteForeign]_vars => MixInv'
  <1> SUFFICES ASSUME MixInv, [Next \/ WriteForeign]_vars PROVE MixInv'
    OBVIOUS
  <1> DEFINE Left == pc = "clear" => \A f \in Name : IsEntry(f) => f \in todo
             Same == pc \in {"extract", "write"} =>
                       \A f \in Name : IsEntry(f) => dir[f].version = item.version
  <1>0. TypeOK /\ TypeOK' /\ NeverMixed /\ Left /\ Same
    BY TypeStep DEF MixInv
  <1>v. item.version \in Version
    BY <1>0, ItemFields DEF TypeOK
  <1> SUFFICES NeverMixed' /\ Left' /\ Same'
    BY <1>0 DEF MixInv
  <1> USE DEF IsEntry
  <1>1. CASE Preflight
    BY <1>0, <1>1 DEF Preflight, NeverMixed
  <1>2. CASE Download
    <2>1. dir' = dir
      BY <1>2 DEF Download
    <2>2. pc' = "idle" \/ (pc' = "clear" /\ todo' = Files)
      BY <1>2 DEF Download, Return
    <2> QED
      BY <1>0, <2>1, <2>2, NoneIsNoEntry DEF NeverMixed, Files
  <1>3. CASE Clear
    <2>1. CASE pc' = "idle" /\ dir' = dir
      BY <1>0, <2>1 DEF NeverMixed
    <2>2. CASE pc' = "clear" /\ \E f \in todo : dir' = [dir EXCEPT ![f] = None] /\ todo' = todo \ {f}
      <3>1. PICK f \in todo : dir' = [dir EXCEPT ![f] = None] /\ todo' = todo \ {f}
        BY <2>2, Zenon
      <3>2. \A g \in Name : dir'[g] \in Extracted => g # f /\ dir'[g] = dir[g]
        BY <1>0, <3>1, NoneIsNoEntry DEF TypeOK
      <3>3. NeverMixed'
        BY <1>0, <3>2 DEF NeverMixed
      <3>4. Left'
        BY <1>0, <1>3, <3>1, <3>2 DEF Clear
      <3> QED
        BY <2>2, <3>3, <3>4
    <2> QED
      BY <1>3, <2>1, <2>2 DEF Clear, Return
  <1>4. CASE Cleared
    <2>1. dir' = dir /\ item' = item /\ pc' \in {"extract", "idle"}
      BY <1>4 DEF Cleared, Return
    <2>2. \A f \in Name : dir[f] \notin Extracted
      BY <1>0, <1>4 DEF Cleared
    <2> QED
      BY <2>1, <2>2 DEF NeverMixed
  <1>5. CASE OpenEntry
    <2>1. CASE pc' = "idle" /\ dir' = dir
      BY <1>0, <2>1 DEF NeverMixed
    <2>2. CASE /\ pc' = "write"
               /\ \E f \in todo : dir' = [dir EXCEPT ![f] = [version |-> item.version, whole |-> FALSE]]
      <3>1. PICK f \in todo : dir' = [dir EXCEPT ![f] = [version |-> item.version, whole |-> FALSE]]
        BY <2>2, Zenon
      <3>2. \A g \in Name : dir'[g] \in Extracted => dir'[g].version = item.version
        BY <1>0, <1>5, <1>v, <3>1, EntryIsExtracted DEF OpenEntry, TypeOK
      <3>3. item' = item
        BY <1>5 DEF OpenEntry
      <3> QED
        BY <2>2, <3>2, <3>3 DEF NeverMixed
    <2> QED
      BY <1>5, <2>1, <2>2 DEF OpenEntry, Return
  <1>6. CASE WriteEntry
    <2>1. pc' \in {"extract", "idle"} /\ item' = item
      BY <1>6 DEF WriteEntry, Return
    <2>2. \/ dir' = [dir EXCEPT ![cur] = [version |-> item.version, whole |-> TRUE]]
          \/ dir' = [dir EXCEPT ![cur] = None]
      BY <1>6 DEF WriteEntry
    <2>3. \A g \in Name : dir'[g] \in Extracted => dir'[g].version = item.version
      BY <1>0, <1>6, <1>v, <2>2, EntryIsExtracted, NoneIsNoEntry DEF WriteEntry, TypeOK
    <2> QED
      BY <2>1, <2>3 DEF NeverMixed
  <1>7. CASE Confirm
    BY <1>0, <1>7 DEF Confirm, Return, NeverMixed
  <1>8. CASE Start \/ Quit \/ PowerCut
    BY <1>0, <1>8 DEF Start, Quit, PowerCut, NeverMixed
  <1>9. CASE WriteForeign
    <2>1. \A g \in Name : dir'[g] \in Extracted => dir'[g] = dir[g]
      BY <1>0, <1>9, NoneIsNoEntry DEF WriteForeign, TypeOK
    <2> QED
      BY <1>0, <1>9, <2>1 DEF WriteForeign, NeverMixed
  <1>10. CASE UNCHANGED vars
    BY <1>0, <1>10 DEF vars, NeverMixed
  <1> QED
    BY <1>1, <1>2, <1>3, <1>4, <1>5, <1>6, <1>7, <1>8, <1>9, <1>10 DEF Next, Stage

\* Every variable keeps its type, whoever writes to /firmware.
THEOREM FirmwareTypes == SharedSpec => []TypeOK
  BY InitTypes, TypeStep, PTL DEF SharedSpec

\* /firmware never holds files of two versions, whatever fails, wherever the
\* power goes and whatever other tools put there meanwhile: stage() has deleted
\* every file of the listing it took before it writes the first entry.
THEOREM NeverMixedAlways == SharedSpec => []NeverMixed
  <1>1. Init => MixInv
    <2> SUFFICES ASSUME Init PROVE MixInv
      OBVIOUS
    <2>1. TypeOK
      BY InitTypes
    <2>2. \A f \in Name : ~IsEntry(f)
      BY NoneIsNoEntry DEF Init, IsEntry
    <2> QED
      BY <2>1, <2>2 DEF Init, MixInv, NeverMixed, IsEntry
  <1>2. MixInv => NeverMixed
    BY DEF MixInv
  <1> QED
    BY <1>1, <1>2, MixStep, PTL DEF SharedSpec

-----------------------------------------------------------------------------

\* Every step of the application alone keeps what is known of its progress.
LEMMA DirStep == FirmwareInv /\ [Next]_vars => FirmwareInv'
  <1> SUFFICES ASSUME FirmwareInv, [Next]_vars PROVE FirmwareInv'
    OBVIOUS
  <1>0. TypeOK /\ TypeOK' /\ DirInv /\ UntouchedOnFailure /\ ReadyIsWhole
    BY TypeStep DEF FirmwareInv
  <1>v. item.version \in Version /\ item.entries \subseteq Name
    BY <1>0, ItemFields DEF TypeOK
  <1>w. Whole # None
    BY <1>v, EntryIsExtracted, Zenon DEF Whole
  <1> SUFFICES DirInv' /\ UntouchedOnFailure' /\ ReadyIsWhole'
    BY <1>0 DEF FirmwareInv
  <1>1. CASE Preflight
    <2>1. dir' = dir /\ before' = dir /\ pc' \in {"idle", "download"} /\ result' # "Ready"
      BY <1>1 DEF Preflight
    <2> QED
      BY <2>1 DEF DirInv, UntouchedOnFailure, ReadyIsWhole
  <1>2. CASE Download
    <2>1. dir' = dir /\ before' = before /\ dir = before
      BY <1>0, <1>2 DEF Download, DirInv
    <2>2. \/ pc' = "idle" /\ result' # "Ready"
          \/ pc' = "clear" /\ todo' = Files
      BY <1>2 DEF Download, Return, NotDownloaded
    <2> QED
      BY <2>1, <2>2 DEF DirInv, UntouchedOnFailure, ReadyIsWhole, Files
  <1>3. CASE Clear
    <2>1. CASE pc' = "idle" /\ result' = "ClearFailed"
      BY <2>1 DEF DirInv, UntouchedOnFailure, ReadyIsWhole
    <2>2. CASE pc' = "clear" /\ \E f \in todo : dir' = [dir EXCEPT ![f] = None] /\ todo' = todo \ {f}
      <3>1. PICK f \in todo : dir' = [dir EXCEPT ![f] = None] /\ todo' = todo \ {f}
        BY <2>2, Zenon
      <3>2. \A g \in Name : dir'[g] # None => g \in todo'
        BY <1>0, <1>3, <3>1 DEF Clear, DirInv, TypeOK
      <3> QED
        BY <2>2, <3>2 DEF DirInv, UntouchedOnFailure, ReadyIsWhole
    <2> QED
      BY <1>3, <2>1, <2>2 DEF Clear, Return
  <1>4. CASE Cleared
    <2>1. CASE /\ pc' = "idle"
               /\ result' \in {"Cancelled", "UnsafeArchive", "ExtractFailed", "ClearFailed"}
      BY <2>1 DEF DirInv, UntouchedOnFailure, ReadyIsWhole
    <2>2. CASE pc' = "extract" /\ todo' = item.entries
      <3>1. dir' = dir /\ item' = item /\ \A f \in Name : dir[f] = None
        BY <1>0, <1>4 DEF Cleared, DirInv
      <3> QED
        BY <2>2, <3>1 DEF DirInv, UntouchedOnFailure, ReadyIsWhole
    <2> QED
      BY <1>4, <2>1, <2>2 DEF Cleared, Return
  <1>5. CASE OpenEntry
    <2>1. CASE pc' = "idle" /\ result' = "Cancelled"
      BY <2>1 DEF DirInv, UntouchedOnFailure, ReadyIsWhole
    <2>2. CASE /\ pc' = "write" /\ cur' \in todo /\ todo' = todo \ {cur'}
               /\ dir' = [dir EXCEPT ![cur'] = [version |-> item.version, whole |-> FALSE]]
      <3>1. item' = item /\ Whole' = Whole /\ pc = "extract"
        BY <1>5 DEF OpenEntry, Whole
      <3>2. todo \subseteq item.entries
        BY <1>0, <3>1 DEF DirInv
      <3>3. \A g \in Name : g # cur' => dir'[g] = dir[g]
        BY <1>0, <2>2 DEF TypeOK
      <3>4. \A g \in Name :
              dir'[g] = Whole \/ g = cur' \/ (dir'[g] = None /\ g \notin item.entries \ todo')
        BY <1>0, <2>2, <3>1, <3>3 DEF DirInv
      <3>5. \A g \in Name \ item.entries : dir'[g] = None
        BY <1>0, <2>2, <3>1, <3>2, <3>3 DEF DirInv
      <3>6. DirInv'
        BY <2>2, <3>1, <3>2, <3>4, <3>5 DEF DirInv
      <3>7. UntouchedOnFailure' /\ ReadyIsWhole'
        BY <2>2 DEF UntouchedOnFailure, ReadyIsWhole
      <3> QED
        BY <3>6, <3>7
    <2> QED
      BY <1>5, <2>1, <2>2 DEF OpenEntry, Return
  <1>6. CASE WriteEntry
    <2>1. CASE pc' = "idle" /\ result' = "ExtractFailed"
      BY <2>1 DEF DirInv, UntouchedOnFailure, ReadyIsWhole
    <2>2. CASE pc' = "extract" /\ todo' = todo /\ dir' = [dir EXCEPT ![cur] = Whole]
      <3>1. item' = item /\ Whole' = Whole /\ pc = "write"
        BY <1>6 DEF WriteEntry, Whole
      <3>2. todo \subseteq item.entries /\ cur \in item.entries
        BY <1>0, <3>1 DEF DirInv
      <3>3. dir'[cur] = Whole /\ \A g \in Name : g # cur => dir'[g] = dir[g]
        BY <1>0, <2>2 DEF TypeOK
      <3>4. \A g \in Name : dir'[g] = Whole \/ (dir'[g] = None /\ g \notin item.entries \ todo)
        BY <1>0, <3>1, <3>3 DEF DirInv
      <3>5. \A g \in Name \ item.entries : dir'[g] = None
        BY <1>0, <3>1, <3>2, <3>3 DEF DirInv
      <3>6. DirInv'
        BY <2>2, <3>1, <3>2, <3>4, <3>5 DEF DirInv
      <3>7. UntouchedOnFailure' /\ ReadyIsWhole'
        BY <2>2 DEF UntouchedOnFailure, ReadyIsWhole
      <3> QED
        BY <3>6, <3>7
    <2> QED
      BY <1>6, <2>1, <2>2 DEF WriteEntry, Return, Whole
  <1>7. CASE Confirm
    <2>1. /\ pc = "extract" /\ todo = {} /\ dir' = dir /\ item' = item /\ Whole' = Whole
          /\ pc' = "idle" /\ result' \in {"Ready", "NotFirmwareContent"}
      BY <1>7 DEF Confirm, Return, Whole
    <2>2. \A f \in Name : dir[f] = IF f \in item.entries THEN Whole ELSE None
      BY <1>0, <2>1 DEF DirInv
    <2>3. dir = [f \in Name |-> IF f \in item.entries THEN Whole ELSE None]
      BY <1>0, <2>2 DEF TypeOK
    <2> QED
      BY <2>1, <2>3 DEF DirInv, UntouchedOnFailure, ReadyIsWhole, Whole
  <1>8. CASE Start \/ Quit \/ PowerCut
    BY <1>0, <1>8 DEF Start, Quit, PowerCut, DirInv, UntouchedOnFailure, ReadyIsWhole
  <1>9. CASE pc = "off" /\ WriteForeign
    BY <1>0, <1>9 DEF WriteForeign, DirInv, UntouchedOnFailure, ReadyIsWhole
  <1>10. CASE UNCHANGED vars
    BY <1>0, <1>10, Zenon DEF vars, DirInv, UntouchedOnFailure, ReadyIsWhole, Whole
  <1> QED
    BY <1>1, <1>2, <1>3, <1>4, <1>5, <1>6, <1>7, <1>8, <1>9, <1>10 DEF Next, Stage

\* With /firmware to itself, the application keeps FirmwareInv.
LEMMA FirmwareInvariant == Spec => []FirmwareInv
  <1>1. Init => FirmwareInv
    BY InitTypes DEF Init, FirmwareInv, DirInv, UntouchedOnFailure, ReadyIsWhole
  <1> QED
    BY <1>1, DirStep, PTL DEF Spec

\* A refused or failed installation leaves /firmware as it found it: every step
\* before the verified archive only reads the directory.
THEOREM UntouchedOnFailureAlways == Spec => []UntouchedOnFailure
  <1>1. FirmwareInv => UntouchedOnFailure
    BY DEF FirmwareInv
  <1> QED
    BY <1>1, FirmwareInvariant, PTL

\* Whatever failed before, what stage() calls Ready is the archive's set, whole,
\* and nothing else.
THEOREM ReadyIsWholeAlways == Spec => []ReadyIsWhole
  <1>1. FirmwareInv => ReadyIsWhole
    BY DEF FirmwareInv
  <1> QED
    BY <1>1, FirmwareInvariant, PTL
=============================================================================
