------------------------------- MODULE AppShell -------------------------------
(***************************************************************************)
(* The application while its window is open (ui/app_shell/shell.cpp and    *)
(* splash_screen.cpp): the splash screen and all tabs on one view stack,   *)
(* their workers, and the end of the main loop, which destroys the tabs    *)
(* one after the other before main may start the next program.             *)
(***************************************************************************)
EXTENDS UpdateTab, InstallTab, ToolsTab

CONSTANTS
    MaxJobs     \* how many jobs and tools the user starts

ASSUME JobsAssumption == MaxJobs \in Nat

VARIABLES
    ui,         \* the main thread
    splash,     \* the worker of the splash screen, then whether it left
    closing,    \* the tab whose destructor runs
    chainload,  \* who asked for another program to be started, or "none"
    started     \* jobs and tools the user asked for

shellVars == <<ui, splash, closing, chainload, started>>
vars == <<job, app, updateVars, installVars, shellVars>>

\* The tabs with a worker in the order of the sidebar, which owns them.
LiveTabs ==
    LET With(tabs, t) == IF t \in Tabs THEN Append(tabs, t) ELSE tabs
    IN Append(With(With(<<"update">>, "cfw"), "firmware"), "archive")

ASSUME JobsOfTabs == Jobs = {"update", "archive"} \cup Tabs

Startup == <<"startup", "shell">>

\* Dialogs whose only other way out is to be closed.
Dismissable ==
    {Startup, Daybreak, Choice} \cup {Confirm(t) : t \in Tabs} \cup {Result(t) : t \in Tabs}
      \cup {Ask(tool) : tool \in Tool} \cup {Report(tool) : tool \in Tool}

\* runShell builds the tabs, which start to fetch, and pushes the splash
\* screen, which starts its checks.
Init ==
    /\ job = [j \in Jobs |-> IF j \in Tabs THEN Started ELSE Idle]
    /\ app = pushView(pushView(EmptyApp, Root), Splash)
    /\ UpdateInit /\ InstallInit
    /\ ui = "loop" /\ splash = "work" /\ closing = 0
    /\ chainload = "none" /\ started = 0

-----------------------------------------------------------------------------
(* The main loop. *)

Loop == ui = "loop"

\* The user starts something more.
Asked == started < MaxJobs /\ started' = started + 1

\* A click that asks for something new.
Click ==
    /\ \/ UpdateClick /\ UNCHANGED installVars
       \/ \E t \in Tabs : ClickRow(t) /\ UNCHANGED updateVars
       \/ \E tool \in Tool : ClickTool(tool) /\ UNCHANGED <<updateVars, installVars>>
    /\ Asked
    /\ UNCHANGED <<ui, splash, closing, chainload>>

\* The other buttons of the tabs' dialogs.
Answer ==
    /\ \/ AcceptRestart /\ UNCHANGED installVars
       \/ /\ LaunchDaybreak \/ \E t \in Tabs : AcceptInstall(t) \/ CancelInstall(t)
          /\ UNCHANGED updateVars
       \/ /\ ChoosePayload \/ \E tool \in Tool : AcceptTool(tool)
          /\ UNCHANGED <<updateVars, installVars>>
    /\ UNCHANGED shellVars

\* A dialog has gone and calls back into the tab that opened it.
CallBack ==
    /\ \/ \E t \in Tabs : startInstallOf(t) /\ UNCHANGED updateVars
       \/ /\ runFixArchiveBit \/ runPurgeStaging \/ ListPayloads \/ RebootFails
          /\ UNCHANGED <<updateVars, installVars>>
    /\ UNCHANGED shellVars

\* The poller of the tab that owns job j.
Poll(j) ==
    /\ Loop
    /\ \/ j = "update" /\ UpdatePoll /\ UNCHANGED installVars
       \/ j \in Tabs /\ InstallPoll(j) /\ UNCHANGED updateVars
       \/ j = "archive" /\ ArchivePoll /\ UNCHANGED <<updateVars, installVars>>
    /\ UNCHANGED shellVars

Dismiss ==
    /\ \E v \in Dismissable : Pressed(v)
    /\ app' = popView(app, "none")
    /\ UNCHANGED <<job, updateVars, installVars, shellVars>>

\* An animation that calls nothing back.
Animate == Settle /\ UNCHANGED <<job, updateVars, installVars, shellVars>>

\* The splash screen draws, finds its worker done, and leaves once.  It stays
\* for 1.8 s at least, which is longer than the animations it came with.
SplashDone ==
    /\ splash \in {"current", "offer"}
    /\ app.anims = <<>>
    /\ app' = popView(app, splash)
    /\ splash' = "left"
    /\ UNCHANGED <<job, updateVars, installVars, ui, closing, chainload, started>>

\* The splash screen is gone; an update that its check found is announced.
AnnounceUpdate ==
    /\ Due("current") \/ Due("offer")
    /\ app' = IF Ending.cb = "offer" THEN pushView(AtCallback, Startup) ELSE AtCallback
    /\ UNCHANGED <<job, updateVars, installVars, shellVars>>

\* The shell's callbacks: remember the program, leave the main loop.
Chainload(by) ==
    /\ Due(by)
    /\ app' = AtCallback
    /\ chainload' = by
    /\ ui' = "quit"
    /\ UNCHANGED <<job, updateVars, installVars, splash, closing, started>>

\* The plus button, or the system closes the application.
Quit ==
    /\ ui' = "quit"
    /\ UNCHANGED <<job, app, updateVars, installVars, splash, closing, chainload, started>>

Reboot ==
    /\ Due("reboot") \/ Due("payload")
    /\ app' = AtCallback
    /\ ui' = "rebooted"
    /\ UNCHANGED <<job, updateVars, installVars, splash, closing, chainload, started>>

\* A deleted view is used, or deleted again by clear().  The other thing that
\* can happen is that its memory is still what it was, and everything goes on.
Crash ==
    /\ Dangling /\ ui \in {"loop", "quit"}
    /\ ui' = "crashed"
    /\ UNCHANGED <<job, app, updateVars, installVars, splash, closing, chainload, started>>

-----------------------------------------------------------------------------
(* The end: Application::clear() deletes the root view and with it the tabs. *)

\* Mutant: the destructors do not wait.
Bug_CloseTab ==
    /\ ui \in {"quit", "join"}
    /\ closing < Len(LiveTabs)
    /\ ui' = "join"
    /\ closing' = closing + 1
    /\ requestCancel(LiveTabs[closing + 1])
    /\ app' = EmptyApp
    /\ UNCHANGED <<updateVars, installVars, splash, chainload, started>>

\* The destructor of the next tab starts by asking its worker to stop.  A
\* progress dialog it closes is deleted with the rest of the stack.
CloseTab ==
    /\ ui = "quit" \/ (ui = "join" /\ Joined(LiveTabs[closing]))
    /\ closing < Len(LiveTabs)
    /\ ui' = "join"
    /\ closing' = closing + 1
    /\ requestCancel(LiveTabs[closing + 1])
    /\ app' = EmptyApp
    /\ UNCHANGED <<updateVars, installVars, splash, chainload, started>>

\* The splash screen, if it is still there, waits for its own worker.
Exit ==
    /\ ui = "join" /\ closing = Len(LiveTabs) /\ Joined(LiveTabs[closing])
    /\ splash # "work"
    /\ ui' = "gone"
    /\ UNCHANGED <<job, app, updateVars, installVars, splash, closing, chainload, started>>

-----------------------------------------------------------------------------
(* The workers. *)

InProcess == ui \in {"loop", "quit", "join"}

Work(j) ==
    /\ InProcess
    /\ \/ j = "update" /\ UpdateWork /\ UNCHANGED installVars
       \/ j \in Tabs /\ InstallWork(j) /\ UNCHANGED updateVars
       \/ /\ \/ j = "archive" /\ ArchiveWork
             \/ (StoreRunning(j) \/ StoreFinished(j)) /\ UNCHANGED app
          /\ UNCHANGED <<updateVars, installVars>>
    /\ UNCHANGED shellVars

SplashWork ==
    /\ InProcess
    /\ splash = "work"
    /\ splash' \in {"current", "offer"}
    /\ UNCHANGED <<job, app, updateVars, installVars, ui, closing, chainload, started>>

UserInterface ==
    /\ Loop
    /\ \/ Click \/ Answer \/ Dismiss \/ CallBack
       \/ Animate \/ SplashDone \/ AnnounceUpdate
       \/ Chainload("restart") \/ Chainload("daybreak")
       \/ Quit \/ Reboot

\* A process that has not ended can always go on: in particular no destructor
\* waits for a worker that waits for the main loop.
Next ==
    \/ UserInterface
    \/ \E j \in Jobs : Poll(j) \/ Work(j)
    \/ SplashWork \/ CloseTab \/ Exit \/ Crash
    \/ ~InProcess /\ UNCHANGED vars

Spec == Init /\ [][Next]_vars

\* Every job comes to an end, and the main loop keeps polling.
FairSpec == Spec /\ \A j \in Jobs : WF_vars(Work(j)) /\ WF_vars(Poll(j))

-----------------------------------------------------------------------------
(* Properties. *)

\* The type invariant; besides, m_running is true exactly while the worker is
\* between start() and its own store.
ShellTypeOK ==
    /\ job \in [Jobs -> JobRecord]
    /\ UpdateTypeOK /\ InstallTypeOK
    /\ \A j \in Jobs : running(j) <=> job[j].worker \in {"work", "ran"}
    /\ ui \in {"loop", "quit", "join", "gone", "rebooted", "crashed"}
    /\ splash \in {"work", "current", "offer", "left"}
    /\ closing \in 0 .. Len(LiveTabs)
    /\ chainload \in {"none", "restart", "daybreak"}
    /\ started \in 0 .. MaxJobs

\* An install writes to the card.
InstallRuns(t) == installing[t] /\ job[t].worker = "work"

\* The custom firmware and the system firmware are never installed at the same
\* time.  No lock keeps them apart: each tab only looks at its own job, and it
\* is the progress dialog on top that keeps the user off the other tab.
OneInstaller == \A t, u \in Tabs : InstallRuns(t) /\ InstallRuns(u) => t = u

\* The staging directory is not purged, and the console is not rebooted, under
\* a running install: the tools tab looks at no other tab's job, and its
\* callbacks run well after the click.
NoToolUnderInstall ==
    \A i \in DOMAIN app.anims :
        app.anims[i].cb \in {"purge", "reboot", "payload"} => \A t \in Tabs : ~InstallRuns(t)

\* "the UI is fully torn down - and the background worker joined - before the
\* next binary starts": when runShell returns, no worker is left.
NextProgramAlone == ui = "gone" => splash # "work" /\ \A j \in Jobs : Joined(j)

\* The application only hands over to the forwarder with an update staged and
\* to Daybreak with a firmware unpacked, although the button was pressed some
\* animations earlier and the outcome it stands for may be reset meanwhile.
ChainloadIsReady ==
    /\ chainload = "restart" => stage = "Staged"
    /\ chainload = "daybreak" => outcome["firmware"] = "Done"

\* m_check, m_stage and the outcomes of the install tabs have no lock: while a
\* worker is inside its job the UI thread does not touch what the job writes.
OutcomesNotShared ==
    [][/\ job["update"].worker = "work" /\ job'["update"].worker = "work"
         => UNCHANGED <<check, stage>>
       /\ \A t \in Tabs : job[t].worker = "work" /\ job'[t].worker = "work"
         => UNCHANGED <<catalogue[t], outcome[t]>>]_vars

\* An update that was started comes to an end the user sees: the button stops
\* saying "cancel", whatever other dialogs and jobs come in between.
ButtonComesBack == label = "cancel" ~> (label # "cancel" \/ ~Loop)

-----------------------------------------------------------------------------
(* What the comments say, and the code does not do. *)

\* "Borealis owns these from here; they are freed when the application shuts
\* down or the view is popped.": a view on the stack has not been deleted.
FreedOnlyWhenPopped == ~Dangling

\* Once nothing moves, the buttons work again: every blockInputs() has met its
\* unblockInputs().
InputsComeBack == Loop /\ app.anims = <<>> => app.tokens = 0

\* takeFinished() is "True exactly once per completed job": a job is not
\* started over a completion nobody has taken.
EveryCompletionIsTaken ==
    [][\A j \in Jobs : ~running(j) /\ running(j)' => ~job[j].finished]_vars

\* A click installs only what the button said it would: offersUpdate() is what
\* the last check left, the button what the poller last wrote.
InstallIsAccepted == [][~updating /\ updating' => label = "install_now"]_vars

\* "Two concurrent installs writing to the same card is not a situation worth
\* supporting": an update is not staged under an install.
OneWriter ==
    updating /\ job["update"].worker = "work" => \A t \in Tabs : ~InstallRuns(t)
=============================================================================
