---------------------------- MODULE MCForwarder ----------------------------
(***************************************************************************)
(* Forwarder for model checking: two versions, the one installed and the   *)
(* one staged.  One run covers two situations, told apart by "sound": a    *)
(* card that keeps what it is given, and a card that may not, in the hands *)
(* of a user who may also delete the application.                          *)
(***************************************************************************)
EXTENDS ForwarderInv, TLC

CONSTANTS v1, v2

VARIABLE sound

MCVersion == {v1, v2}

Unsound == INSTANCE Forwarder WITH BadCard <- TRUE

MCInit == Init /\ sound \in BOOLEAN

MCNext ==
    /\ \/ sound /\ Next
       \/ ~sound /\ (Unsound!Next \/ Unsound!DeleteTarget)
    /\ UNCHANGED sound

\* The forwarder runs to its end once started, and somebody keeps opening the
\* repair entry.  Power cuts and failures are never required to happen.
MCSpec ==
    /\ MCInit
    /\ [][MCNext]_<<forwarderVars, sound>>
    /\ WF_forwarderVars(sound /\ Run) /\ WF_forwarderVars(sound /\ Launch)

\* RepairCompletes, on a card that keeps its bytes and in the forwarder's
\* hands.
SoundRepairCompletes == sound => RepairCompletes

\* The forwarder's card seen as AtomicUpdate, there; what a card that loses
\* bytes does to the application is not AtomicUpdate's business.
SoundUpdate ==
    INSTANCE AtomicUpdate WITH installed <- IF sound THEN InstalledVersion ELSE h.from,
                               old <- h.from, new <- h.digest,
                               pending <- sound => exists("staged"),
                               reported <- sound /\ result = "Installed"

\* The forwarder implements AtomicUpdate: at every moment, power cuts and
\* failures included, the user has exactly the old or exactly the new version,
\* and nothing changes it once the staged binary is gone.
SoundAtomicUpdate == SoundUpdate!Spec

\* The inductive invariants of the proofs, there; they imply NeverStranded and
\* SwapBudget.
SoundCardInv == sound => SwapInv /\ CardInv
=============================================================================
