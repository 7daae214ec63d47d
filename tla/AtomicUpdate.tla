----------------------------- MODULE AtomicUpdate -----------------------------
(***************************************************************************)
(* What the forwarder promises the user of the application: there is one   *)
(* at every moment, it is the version the update came from or the version  *)
(* it leads to, it changes only while the update is pending, and a success *)
(* is reported only with the new version in place.                         *)
(***************************************************************************)

CONSTANTS
    Version     \* the released binaries

VARIABLES
    installed,  \* the version the user has, or gets back from the repair entry
    old, new,   \* what the update leads from and to
    pending,    \* whether the update is still there to be tried
    reported    \* whether the user is told that the update is installed

vars == <<installed, old, new, pending, reported>>

Init ==
    /\ old \in Version /\ new \in Version
    /\ installed = old
    /\ pending = TRUE
    /\ reported = FALSE

\* The new version takes the place of the old one, or gives it back.
Replace ==
    /\ pending /\ ~reported
    /\ installed' \in {old, new}
    /\ UNCHANGED <<old, new, pending, reported>>

\* The update is over, whichever version it left.
Settle ==
    /\ pending' = FALSE
    /\ UNCHANGED <<installed, old, new, reported>>

\* The user is told of a success that is one, or no longer told.
Report ==
    /\ reported' = ~reported
    /\ reported' => installed = new
    /\ UNCHANGED <<installed, old, new, pending>>

Next == Replace \/ Settle \/ Report

Spec == Init /\ [][Next]_vars
=============================================================================
