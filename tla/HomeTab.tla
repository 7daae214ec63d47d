------------------------------- MODULE HomeTab -------------------------------
(***************************************************************************)
(* The dashboard (ui/tabs/home_tab.cpp): two jobs, the telemetry probe and *)
(* the update check, each of which writes its answer into a view that the  *)
(* tab owns and the UI thread draws and deletes.                           *)
(***************************************************************************)
EXTENDS BackgroundJob, Naturals

VARIABLES
    tab,        \* "open"; the destructor: "cancelled", "joined"; "freed"
    alive,      \* m_alive is held
    lock,       \* who holds the summary view's m_mutex
    worker,     \* where the work of each job is
    updates     \* how many of its answers a job has yet to show

homeVars == <<job, tab, alive, lock, worker, updates>>

\* The check may show a bulletin after its outcome.
Answers(j) == IF j = "check" THEN {1, 2} ELSE {1}

\* The constructor has started both.
HomeInit ==
    /\ job = [j \in Jobs |-> Started]
    /\ tab = "open" /\ alive = TRUE /\ lock = "nobody"
    /\ worker = [j \in Jobs |-> "ask"]
    /\ updates \in {u \in [Jobs -> 1..2] : \A j \in Jobs : u[j] \in Answers(j)}

\* The answer is there and alive.expired() is looked at, once.
Ask(j) ==
    /\ worker[j] = "ask"
    /\ worker' = [worker EXCEPT ![j] = IF alive THEN "show" ELSE "return"]
    /\ UNCHANGED <<job, tab, alive, lock, updates>>

\* updateTelemetry(), updateUpdateOutcome(), updateMotd(): under the mutex.
Show(j) ==
    /\ worker[j] = "show" /\ lock = "nobody"
    /\ lock' = j
    /\ worker' = [worker EXCEPT ![j] = "update"]
    /\ UNCHANGED <<job, tab, alive, updates>>

Shown(j) ==
    /\ worker[j] = "update"
    /\ lock' = "nobody"
    /\ updates' = [updates EXCEPT ![j] = @ - 1]
    /\ worker' = [worker EXCEPT ![j] = IF updates[j] > 1 THEN "show" ELSE "return"]
    /\ UNCHANGED <<job, tab, alive>>

\* The work returns and the thread ends.
Ends(j) ==
    /\ \/ worker[j] = "return" /\ Returned(j)
       \/ StoreRunning(j)
       \/ StoreFinished(j)
    /\ UNCHANGED <<tab, alive, lock, worker, updates>>

\* draw() copies what it shows under the mutex.
Draw ==
    /\ tab = "open" /\ lock \in {"nobody", "draw"}
    /\ lock' = IF lock = "draw" THEN "nobody" ELSE "draw"
    /\ UNCHANGED <<job, tab, alive, worker, updates>>

\* ~HomeTab(): the workers are told, not stopped.  The UI thread is not drawing.
Destroy ==
    /\ tab = "open" /\ lock # "draw"
    /\ tab' = "cancelled"
    /\ alive' = FALSE
    /\ job' = [j \in Jobs |-> [job[j] EXCEPT !.cancel = TRUE]]
    /\ UNCHANGED <<lock, worker, updates>>

\* Mutant: the destructor relies on alive alone.
Bug_JoinBoth ==
    /\ tab = "cancelled"
    /\ tab' = "joined"
    /\ UNCHANGED <<job, alive, lock, worker, updates>>

JoinBoth ==
    /\ tab = "cancelled"
    /\ \A j \in Jobs : Joined(j)
    /\ tab' = "joined"
    /\ UNCHANGED <<job, alive, lock, worker, updates>>

\* The base class deletes the views the tab holds.
Free ==
    /\ tab = "joined"
    /\ tab' = "freed"
    /\ UNCHANGED <<job, alive, lock, worker, updates>>

HomeNext ==
    \/ \E j \in Jobs : Ask(j) \/ Show(j) \/ Shown(j) \/ Ends(j)
    \/ Draw \/ Destroy \/ JoinBoth \/ Free

HomeSpec == HomeInit /\ [][HomeNext]_homeVars

-----------------------------------------------------------------------------

\* A worker that found the tab alive just before the destructor began still has
\* a view to write into, and no thread of the tab is left when its jobs are
\* deleted: the destructor waits for both, whatever alive said.
ViewOutlivesWorkers ==
    tab = "freed" => \A j \in Jobs : worker[j] = "return" /\ job[j].worker = "ended"
=============================================================================
