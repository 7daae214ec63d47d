------------------------------ MODULE InstallTab ------------------------------
(***************************************************************************)
(* The CFW and the firmware tab (ui/tabs/cfw_tab.cpp, firmware_tab.cpp):   *)
(* the same class but for what is installed and for what follows success.  *)
(* The tab fetches the catalogue when it is built, lists what it offers,   *)
(* and installs a row under a modal progress dialog.                       *)
(***************************************************************************)
EXTENDS BackgroundJob, ViewStack

CONSTANTS
    Tabs        \* "cfw", "firmware"

ASSUME TabsAssumption == Tabs \subseteq {"cfw", "firmware"}

VARIABLES
    catalogue,  \* m_outcome: "fetched" or "unavailable", and "listed" with its rows
    installing, \* m_installing
    outcome,    \* m_cfwOutcome, m_firmwareOutcome
    progress    \* whether m_progressDialog is set

installVars == <<catalogue, installing, outcome, progress>>

Confirm(t) == <<"confirm", t>>
Progress(t) == <<"progress", t>>
Result(t) == <<"result", t>>
Daybreak == <<"daybreak", "firmware">>

\* The confirmation's callback: startInstall() on the row.
Installs(t) == IF t = "cfw" THEN "install_cfw" ELSE "install_firmware"

Outcome == {"none", "Done", "Cancelled", "Failed"}

\* startFetch() in the constructor.
InstallInit ==
    /\ catalogue = [t \in Tabs |-> "none"]
    /\ installing = [t \in Tabs |-> FALSE]
    /\ outcome = [t \in Tabs |-> "none"]
    /\ progress = [t \in Tabs |-> FALSE]

-----------------------------------------------------------------------------

\* A row asks before it installs.
ClickRow(t) ==
    /\ Pressed(Root)
    /\ catalogue[t] = "listed"
    /\ ~running(t)
    /\ app' = pushView(app, Confirm(t))
    /\ UNCHANGED <<job, installVars>>

\* Mutant: the work starts before the confirmation has gone.
Bug_AcceptInstall(t) ==
    /\ Pressed(Confirm(t))
    /\ app' = popView(app, Installs(t))
    /\ installing' = [installing EXCEPT ![t] = TRUE]
    /\ start(t)
    /\ UNCHANGED <<catalogue, outcome, progress>>

AcceptInstall(t) ==
    /\ Pressed(Confirm(t))
    /\ app' = popView(app, Installs(t))
    /\ UNCHANGED <<job, installVars>>

\* Mutant: the progress is shown in the tab, without a dialog.
Bug_startInstallOf(t) ==
    /\ Due(Installs(t))
    /\ installing' = [installing EXCEPT ![t] = TRUE]
    /\ outcome' = [outcome EXCEPT ![t] = "none"]
    /\ app' = AtCallback
    /\ start(t)
    /\ UNCHANGED <<catalogue, progress>>

\* startInstall() once the confirmation has gone.  No job of the tab runs: its
\* fetch ended before there were rows, and an install keeps its dialog open.
startInstallOf(t) ==
    /\ Due(Installs(t))
    /\ installing' = [installing EXCEPT ![t] = TRUE]
    /\ outcome' = [outcome EXCEPT ![t] = "none"]
    /\ progress' = [progress EXCEPT ![t] = TRUE]
    /\ app' = pushView(AtCallback, Progress(t))
    /\ start(t)
    /\ UNCHANGED catalogue

\* B, or the button of the progress dialog.
CancelInstall(t) ==
    /\ Pressed(Progress(t))
    /\ ~job[t].cancel
    /\ requestCancel(t)
    /\ UNCHANGED <<app, installVars>>

\* The dialog a finished install opens, on the stack a.
Announced(a, t) ==
    CASE outcome[t] = "Cancelled" -> a
      [] outcome[t] = "Done" /\ t = "firmware" -> pushView(a, Daybreak)
      [] OTHER -> pushView(a, Result(t))

\* refreshProgress() once the job no longer runs: the progress dialog is closed
\* first, then the outcome is shown; a fetched catalogue gets its rows.
InstallPoll(t) ==
    /\ takeFinished(t)
    /\ LET closed == IF progress[t] THEN popView(app, "none") ELSE app
       IN app' = IF installing[t] THEN Announced(closed, t) ELSE closed
    /\ progress' = [progress EXCEPT ![t] = FALSE]
    /\ installing' = [installing EXCEPT ![t] = FALSE]
    /\ catalogue' = [catalogue EXCEPT ![t] = IF @ = "fetched" THEN "listed" ELSE @]
    /\ UNCHANGED outcome

LaunchDaybreak ==
    /\ Pressed(Daybreak)
    /\ app' = popView(app, "daybreak")
    /\ UNCHANGED <<job, installVars>>

\* The job stores its outcome and returns.  An install that was asked to stop
\* may be past its last progress callback.
InstallWork(t) ==
    /\ Returned(t)
    /\ IF installing[t]
       THEN /\ outcome' \in {[outcome EXCEPT ![t] = o] :
                 o \in {"Done", "Failed"} \cup (IF job[t].cancel THEN {"Cancelled"} ELSE {})}
            /\ UNCHANGED catalogue
       ELSE /\ catalogue' \in {[catalogue EXCEPT ![t] = c] : c \in {"fetched", "unavailable"}}
            /\ UNCHANGED outcome
    /\ UNCHANGED <<installing, progress, app>>

InstallTypeOK ==
    /\ catalogue \in [Tabs -> {"none", "fetched", "listed", "unavailable"}]
    /\ installing \in [Tabs -> BOOLEAN]
    /\ outcome \in [Tabs -> Outcome]
    /\ progress \in [Tabs -> BOOLEAN]
=============================================================================
