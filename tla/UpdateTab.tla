------------------------------- MODULE UpdateTab -------------------------------
(***************************************************************************)
(* The Updates tab: check, offer, install, hand over (ui/tabs/             *)
(* update_tab.cpp).  The UI thread handles clicks and a poller that runs   *)
(* every 100 ms; the job runs on BackgroundJob's worker.                   *)
(***************************************************************************)
EXTENDS BackgroundJob, ViewStack

VARIABLES
    check,      \* m_check
    stage,      \* m_stage
    updating,   \* m_installing
    label       \* the text on the action button

updateVars == <<check, stage, updating, label>>

Check == {"none", "offer", "current"}
Stage == {"none", "Staged", "Failed"}
Label == {"check_now", "install_now", "cancel"}

\* "Staged and verified": confirms before the application goes away.
Restart == <<"restart", "update">>

offersUpdate == check = "offer"

UpdateInit ==
    check = "none" /\ stage = "none" /\ updating = FALSE /\ label = "check_now"

-----------------------------------------------------------------------------

startCheck ==
    /\ check' = "none" /\ stage' = "none"
    /\ updating' = FALSE
    /\ UNCHANGED label

startInstall ==
    /\ updating' = TRUE
    /\ label' = "cancel"
    /\ UNCHANGED <<check, stage>>

\* A click while the job runs does nothing, whatever the button says.
UpdateClick ==
    /\ Pressed(Root)
    /\ ~running("update")
    /\ IF offersUpdate THEN startInstall ELSE startCheck
    /\ start("update")
    /\ UNCHANGED app

onCheckFinished ==
    /\ label' = IF offersUpdate THEN "install_now" ELSE "check_now"
    /\ UNCHANGED <<updating, app>>

\* Mutant: the restart is offered whatever the outcome.
Bug_onInstallFinished ==
    /\ updating' = FALSE
    /\ label' = "check_now"
    /\ app' = pushView(app, Restart)

\* Mutant: the button is only reset for a staged update.
Bug_KeepLabel ==
    /\ updating' = FALSE
    /\ label' = IF stage = "Staged" THEN "check_now" ELSE label
    /\ app' = IF stage = "Staged" THEN pushView(app, Restart) ELSE app

onInstallFinished ==
    /\ updating' = FALSE
    /\ label' = "check_now"
    /\ app' = IF stage = "Staged" THEN pushView(app, Restart) ELSE app

\* refreshProgress() once the job no longer runs.
UpdatePoll ==
    /\ takeFinished("update")
    /\ IF updating THEN onInstallFinished ELSE onCheckFinished
    /\ UNCHANGED <<check, stage>>

\* The dialog has one button and cannot be dismissed.
AcceptRestart ==
    /\ Pressed(Restart)
    /\ app' = popView(app, "restart")
    /\ UNCHANGED <<job, updateVars>>

\* The job stores its outcome and returns.  A cancelled download fails; a
\* check, and a download whose last callback has gone by, do not look.
UpdateWork ==
    /\ Returned("update")
    /\ IF updating
       THEN stage' \in {"Staged", "Failed"} /\ UNCHANGED check
       ELSE check' \in {"offer", "current"} /\ UNCHANGED stage
    /\ UNCHANGED <<updating, label, app>>

UpdateTypeOK ==
    /\ check \in Check /\ stage \in Stage
    /\ updating \in BOOLEAN /\ label \in Label
=============================================================================
