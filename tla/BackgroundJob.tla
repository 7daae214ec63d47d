---------------------------- MODULE BackgroundJob ----------------------------
(***************************************************************************)
(* Long operations off the UI thread (ui/widgets/background_job.cpp): one  *)
(* job object per tab.  The two atomics a worker ends with are stored one  *)
(* after the other and the UI thread may look in between.                  *)
(***************************************************************************)

CONSTANTS
    Jobs        \* the job objects of the tabs

VARIABLES
    job         \* for each of them its three atomics and where its thread is

\* "work": inside the work; "ran": the work returned; "cleared": m_running is
\* stored; "ended": the thread may be joined without waiting.
Worker == {"none", "work", "ran", "cleared", "ended"}

JobRecord ==
    [running : BOOLEAN, finished : BOOLEAN, cancel : BOOLEAN, worker : Worker]

Idle == [running |-> FALSE, finished |-> FALSE, cancel |-> FALSE, worker |-> "none"]

Started == [running |-> TRUE, finished |-> FALSE, cancel |-> FALSE, worker |-> "work"]

running(j) == job[j].running

\* join() comes back.
Joined(j) == job[j].worker \in {"none", "ended"}

\* start(): refused while a job runs, else the join, the three stores and the
\* thread.  The caller waits in the join, so the step is taken once it is over.
start(j) ==
    IF running(j)
    THEN UNCHANGED job
    ELSE Joined(j) /\ job' = [job EXCEPT ![j] = Started]

\* The work returns.
Returned(j) ==
    /\ job[j].worker = "work"
    /\ job' = [job EXCEPT ![j].worker = "ran"]

\* Mutant: finished is stored first.
Bug_StoreRunning(j) ==
    /\ job[j].worker = "ran"
    /\ job' = [job EXCEPT ![j].finished = TRUE, ![j].worker = "cleared"]

StoreRunning(j) ==
    /\ job[j].worker = "ran"
    /\ job' = [job EXCEPT ![j].running = FALSE, ![j].worker = "cleared"]

StoreFinished(j) ==
    /\ job[j].worker = "cleared"
    /\ job' = [job EXCEPT ![j].finished = TRUE, ![j].worker = "ended"]

\* takeFinished() when it answers TRUE, looked at once running() said no.
takeFinished(j) ==
    /\ ~running(j)
    /\ job[j].finished
    /\ job' = [job EXCEPT ![j].finished = FALSE]

requestCancel(j) == job' = [job EXCEPT ![j].cancel = TRUE]
=============================================================================
