---------------------------- MODULE AppShellProofs ----------------------------
(***************************************************************************)
(* Proofs about AppShell, for any number of jobs the user starts and       *)
(* whichever install tabs there are: the jobs and the teardown, and then   *)
(* that every action keeps the invariant of the screen, which is defined   *)
(* in ScreenProofs.                                                        *)
(***************************************************************************)
EXTENDS ScreenProofs

-----------------------------------------------------------------------------
(* The jobs. *)

\* m_running is true from start() to the worker's own store.
JobsOK ==
    /\ job \in [Jobs -> JobRecord]
    /\ \A j \in Jobs : running(j) <=> job[j].worker \in {"work", "ran"}

\* What one of BackgroundJob's operations does to the jobs.
JobOperation(j) ==
    \/ start(j) \/ Returned(j) \/ StoreRunning(j) \/ StoreFinished(j)
    \/ takeFinished(j) \/ requestCancel(j)

\* Each of them keeps the types, and touches its own job only.
LEMMA JobOperationKeepsJobs ==
    ASSUME JobsOK, NEW j \in Jobs, JobOperation(j)
    PROVE  /\ JobsOK'
           /\ \A k \in Jobs : k # j => job'[k] = job[k]
  <1> USE DEF JobsOK, running
  <1>1. job[j] \in JobRecord
    OBVIOUS
  <1>2. CASE UNCHANGED job
    BY <1>2
  <1>3. ASSUME NEW r \in JobRecord, job' = [job EXCEPT ![j] = r],
               r.running <=> r.worker \in {"work", "ran"}
        PROVE  /\ JobsOK'
               /\ \A k \in Jobs : k # j => job'[k] = job[k]
    BY <1>3
  <1>4. CASE start(j)
    <2>1. Started \in JobRecord /\ Started.running /\ Started.worker = "work"
      BY DEF Started, JobRecord, Worker
    <2> QED
      BY <1>2, <1>3, <1>4, <2>1 DEF start
  <1>5. CASE Returned(j)
    <2> DEFINE r == [job[j] EXCEPT !.worker = "ran"]
    <2>1. r \in JobRecord /\ r.running = job[j].running /\ r.worker = "ran"
      BY <1>1 DEF JobRecord, Worker
    <2>2. job' = [job EXCEPT ![j] = r] /\ job[j].worker = "work"
      BY <1>5 DEF Returned
    <2> QED
      BY <1>3, <2>1, <2>2
  <1>6. CASE StoreRunning(j)
    <2> DEFINE r == [job[j] EXCEPT !.running = FALSE, !.worker = "cleared"]
    <2>1. r \in JobRecord /\ ~r.running /\ r.worker = "cleared"
      BY <1>1, Zenon DEF JobRecord, Worker
    <2>2. job' = [job EXCEPT ![j] = r]
      BY <1>6, Zenon DEF StoreRunning
    <2> QED
      BY <1>3, <2>1, <2>2
  <1>7. CASE StoreFinished(j)
    <2> DEFINE r == [job[j] EXCEPT !.finished = TRUE, !.worker = "ended"]
    <2>1. r \in JobRecord /\ r.running = job[j].running /\ r.worker = "ended"
      BY <1>1, Zenon DEF JobRecord, Worker
    <2>2. job' = [job EXCEPT ![j] = r] /\ job[j].worker = "cleared"
      BY <1>7, Zenon DEF StoreFinished
    <2> QED
      BY <1>3, <2>1, <2>2
  <1>8. CASE takeFinished(j)
    <2> DEFINE r == [job[j] EXCEPT !.finished = FALSE]
    <2>1. r \in JobRecord /\ r.running = job[j].running /\ r.worker = job[j].worker
      BY <1>1, Zenon DEF JobRecord
    <2>2. job' = [job EXCEPT ![j] = r]
      BY <1>8 DEF takeFinished
    <2> QED
      BY <1>3, <2>1, <2>2
  <1>9. CASE requestCancel(j)
    <2> DEFINE r == [job[j] EXCEPT !.cancel = TRUE]
    <2>1. r \in JobRecord /\ r.running = job[j].running /\ r.worker = job[j].worker
      BY <1>1, Zenon DEF JobRecord
    <2>2. job' = [job EXCEPT ![j] = r]
      BY <1>9 DEF requestCancel
    <2> QED
      BY <1>3, <2>1, <2>2
  <1> QED
    BY <1>4, <1>5, <1>6, <1>7, <1>8, <1>9, SMTT(20) DEF JobOperation

\* What a sequence holds after an Append.
LEMMA AppendHolds ==
    ASSUME NEW S, NEW s \in Seq(S), NEW x \in S
    PROVE  /\ Append(s, x) \in Seq(S)
           /\ Len(Append(s, x)) = Len(s) + 1
           /\ \A y : (\E i \in 1 .. Len(s) + 1 : Append(s, x)[i] = y)
                       <=> (y = x \/ \E i \in 1 .. Len(s) : s[i] = y)
  <1>1. Append(s, x) \in Seq(S) /\ Len(Append(s, x)) = Len(s) + 1
    OBVIOUS
  <1>2. /\ Append(s, x)[Len(s) + 1] = x
        /\ \A i \in 1 .. Len(s) : Append(s, x)[i] = s[i]
    OBVIOUS
  <1>3. /\ Len(s) \in Nat /\ Len(s) + 1 \in 1 .. Len(s) + 1
        /\ \A i \in 1 .. Len(s) + 1 : i = Len(s) + 1 \/ i \in 1 .. Len(s)
        /\ \A i \in 1 .. Len(s) : i \in 1 .. Len(s) + 1
    OBVIOUS
  <1> QED
    BY <1>1, <1>2, <1>3, Zenon

\* The tabs that Application::clear() destroys are those with a job.
LEMMA LiveTabsAreJobs ==
    /\ Len(LiveTabs) \in Nat \ {0}
    /\ \A i \in 1 .. Len(LiveTabs) : LiveTabs[i] \in Jobs
    /\ \A j \in Jobs : \E i \in 1 .. Len(LiveTabs) : LiveTabs[i] = j
  <1> DEFINE Name == {"update", "cfw", "firmware", "archive"}
             Holds(s, y) == \E i \in 1 .. Len(s) : s[i] = y
             With(s, t) == IF t \in Tabs THEN Append(s, t) ELSE s
             one == <<"update">>
             two == With(one, "cfw")
             three == With(two, "firmware")
  <1>1. /\ one \in Seq(Name)
        /\ \A y : Holds(one, y) <=> y = "update"
    <2>1. one \in Seq(Name) /\ Len(one) = 1 /\ one[1] = "update"
      OBVIOUS
    <2>2. 1 .. 1 = {1}
      OBVIOUS
    <2> QED
      BY <2>1, <2>2, Zenon
  <1>2. ASSUME NEW s \in Seq(Name), NEW t \in Name
        PROVE  /\ With(s, t) \in Seq(Name)
               /\ \A y : Holds(With(s, t), y) <=> Holds(s, y) \/ (t \in Tabs /\ y = t)
    <2>1. CASE t \in Tabs
      <3>1. With(s, t) = Append(s, t)
        BY <2>1
      <3> QED
        <4>1. /\ Append(s, t) \in Seq(Name)
              /\ Len(Append(s, t)) = Len(s) + 1
              /\ \A y : (\E i \in 1 .. Len(s) + 1 : Append(s, t)[i] = y)
                         <=> (y = t \/ \E i \in 1 .. Len(s) : s[i] = y)
          BY AppendHolds
        <4> QED
          BY <2>1, <3>1, <4>1, Zenon
    <2>2. CASE t \notin Tabs
      BY <2>2, Zenon
    <2> QED
      BY <2>1, <2>2
  <1> HIDE DEF one, Holds, With
  <1>3. /\ two \in Seq(Name)
        /\ \A y : Holds(two, y) <=> y = "update" \/ ("cfw" \in Tabs /\ y = "cfw")
    <2>1. "cfw" \in Name
      OBVIOUS
    <2> QED
      BY <1>1, <1>2, <2>1, Zenon
  <1> HIDE DEF two
  <1>4. /\ three \in Seq(Name)
        /\ \A y : Holds(three, y) <=>
            \/ y = "update" \/ ("cfw" \in Tabs /\ y = "cfw")
            \/ ("firmware" \in Tabs /\ y = "firmware")
    <2>1. "firmware" \in Name
      OBVIOUS
    <2> QED
      BY <1>2, <1>3, <2>1, Zenon
  <1> HIDE DEF three
  <1>5. LiveTabs = Append(three, "archive")
    BY DEF LiveTabs, three, two, one, With
  <1> USE DEF Holds
  <1>6. /\ Len(LiveTabs) = Len(three) + 1 /\ Len(three) \in Nat
        /\ \A y : Holds(LiveTabs, y) <=> y = "archive" \/ Holds(three, y)
    BY <1>4, <1>5, AppendHolds
  <1>7. \A y : Holds(LiveTabs, y) <=> y \in Jobs
    <2>1. \A y : y \in Jobs <=> y = "update" \/ y = "archive" \/ y \in Tabs
      BY JobsOfTabs
    <2>2. \A y : y \in Tabs <=>
            ("cfw" \in Tabs /\ y = "cfw") \/ ("firmware" \in Tabs /\ y = "firmware")
      BY TabsAssumption, Zenon
    <2>3. \A y : Holds(LiveTabs, y) <=> y = "archive" \/ Holds(three, y)
      BY <1>6, Zenon
    <2> HIDE DEF Holds
    <2> QED
      BY <1>4, <2>1, <2>2, <2>3, Zenon
  <1> QED
    BY <1>6, <1>7

-----------------------------------------------------------------------------
(* The types. *)

\* Every step leaves the jobs alone or does one operation on one of them.
LEMMA OneOperation ==
    ASSUME closing \in Nat, Next
    PROVE  UNCHANGED job \/ \E j \in Jobs : JobOperation(j)
  <1>0. "update" \in Jobs /\ "archive" \in Jobs /\ Tabs \subseteq Jobs
    BY JobsOfTabs
  <1>1. CASE Click
    BY <1>0, <1>1 DEF Click, UpdateClick, ClickRow, ClickTool, JobOperation
  <1>2. CASE Answer
    BY <1>0, <1>2
    DEF Answer, AcceptRestart, LaunchDaybreak, AcceptInstall, CancelInstall, ChoosePayload,
        AcceptTool, JobOperation
  <1>3. CASE CallBack
    BY <1>0, <1>3
    DEF CallBack, startInstallOf, runFixArchiveBit, runPurgeStaging, ListPayloads,
        RebootFails, JobOperation
  <1>4. ASSUME NEW j \in Jobs, Poll(j)
        PROVE  JobOperation(j)
    BY <1>4 DEF Poll, UpdatePoll, InstallPoll, ArchivePoll, JobOperation
  <1>5. ASSUME NEW j \in Jobs, Work(j)
        PROVE  JobOperation(j)
    BY <1>5 DEF Work, UpdateWork, InstallWork, ArchiveWork, JobOperation
  <1>6. CASE CloseTab
    <2>1. closing + 1 \in 1 .. Len(LiveTabs) => LiveTabs[closing + 1] \in Jobs
      BY LiveTabsAreJobs
    <2> QED
      BY <1>6, <2>1 DEF CloseTab, JobOperation
  <1>7. CASE UNCHANGED job
    BY <1>7
  <1> QED
    BY <1>1, <1>2, <1>3, <1>4, <1>5, <1>6, <1>7, Zenon
    DEF Next, UserInterface, Dismiss, Animate, SplashDone, AnnounceUpdate, Chainload, Quit,
        Reboot, SplashWork, Exit, Crash, vars

\* The steps that leave the variables of the update tab alone.
LEMMA UpdateTypesKept ==
    ASSUME ShellTypeOK, [Next]_vars
    PROVE  UpdateTypeOK'
  <1> USE DEF ShellTypeOK, UpdateTypeOK, Check, Stage, Label
  <1>1. CASE UpdateClick
    BY <1>1, Zenon DEF UpdateClick, startInstall, startCheck
  <1>2. CASE UpdatePoll
    <2>1. updating' \in BOOLEAN /\ UNCHANGED <<check, stage>>
      BY <1>2, Zenon DEF UpdatePoll, onInstallFinished, onCheckFinished
    <2>2. label' \in Label
      BY <1>2 DEF UpdatePoll, onInstallFinished, onCheckFinished
    <2> QED
      BY <2>1, <2>2
  <1>3. CASE UpdateWork
    BY <1>3 DEF UpdateWork
  <1>4. CASE UNCHANGED updateVars
    BY <1>4 DEF updateVars
  <1> QED
    BY <1>1, <1>2, <1>3, <1>4, Zenon
    DEF Next, UserInterface, Click, Answer, AcceptRestart, CallBack, Poll, Work, Dismiss,
        Animate, SplashDone, AnnounceUpdate, Chainload, Quit, Reboot, SplashWork, CloseTab,
        Exit, Crash, vars

\* And of the install tabs.
LEMMA InstallTypesKept ==
    ASSUME ShellTypeOK, [Next]_vars
    PROVE  InstallTypeOK'
  <1> USE DEF ShellTypeOK, InstallTypeOK, Outcome
  <1>1. ASSUME NEW t \in Tabs, startInstallOf(t)
        PROVE  InstallTypeOK'
    <2>1. installing' \in [Tabs -> BOOLEAN] /\ progress' \in [Tabs -> BOOLEAN]
      BY <1>1, Zenon DEF startInstallOf
    <2> QED
      BY <1>1, <2>1 DEF startInstallOf
  <1>2. ASSUME NEW t \in Tabs, InstallPoll(t)
        PROVE  InstallTypeOK'
    <2>1. installing' \in [Tabs -> BOOLEAN] /\ progress' \in [Tabs -> BOOLEAN]
      BY <1>2, Zenon DEF InstallPoll
    <2>2. catalogue' \in [Tabs -> {"none", "fetched", "listed", "unavailable"}]
      BY <1>2 DEF InstallPoll
    <2> QED
      BY <1>2, <2>1, <2>2 DEF InstallPoll
  <1>3. ASSUME NEW t \in Tabs, InstallWork(t)
        PROVE  InstallTypeOK'
    <2>1. outcome' \in [Tabs -> Outcome]
      BY <1>3 DEF InstallWork
    <2>2. catalogue' \in [Tabs -> {"none", "fetched", "listed", "unavailable"}]
      BY <1>3 DEF InstallWork
    <2> QED
      BY <1>3, <2>1, <2>2, SMTT(20) DEF InstallWork
  <1>4. CASE UNCHANGED installVars
    BY <1>4 DEF installVars
  <1> QED
    BY <1>1, <1>2, <1>3, <1>4, Zenon
    DEF Next, UserInterface, Click, ClickRow, Answer, LaunchDaybreak, AcceptInstall,
        CancelInstall, CallBack, Poll, Work, Dismiss, Animate, SplashDone, AnnounceUpdate,
        Chainload, Quit, Reboot, SplashWork, CloseTab, Exit, Crash, vars

\* The variables of the shell itself.
LEMMA ShellVariablesKept ==
    ASSUME ShellTypeOK, [Next]_vars
    PROVE  /\ ui' \in {"loop", "quit", "join", "gone", "rebooted", "crashed"}
           /\ splash' \in {"work", "current", "offer", "left"}
           /\ closing' \in 0 .. Len(LiveTabs)
           /\ chainload' \in {"none", "restart", "daybreak"}
           /\ started' \in 0 .. MaxJobs
  <1> USE LiveTabsAreJobs, JobsAssumption DEF ShellTypeOK
  <1>1. CASE CloseTab
    BY <1>1 DEF CloseTab
  <1>2. CASE Asked /\ UNCHANGED <<ui, splash, closing, chainload>>
    BY <1>2 DEF Asked
  <1>3. CASE UNCHANGED shellVars
    BY <1>3 DEF shellVars
  <1>4. CASE \/ SplashDone \/ Chainload("restart") \/ Chainload("daybreak") \/ Quit \/ Reboot
             \/ SplashWork \/ Exit \/ Crash
    BY <1>4 DEF SplashDone, Chainload, Quit, Reboot, SplashWork, Exit, Crash
  <1> QED
    BY <1>1, <1>2, <1>3, <1>4, Zenon
    DEF Next, UserInterface, Click, Answer, CallBack, Poll, Work, Dismiss, Animate,
        AnnounceUpdate, vars

\* The types are kept.
LEMMA StepKeepsShellTypes ==
    ASSUME ShellTypeOK, [Next]_vars
    PROVE  ShellTypeOK'
  <1>1. JobsOK /\ closing \in Nat
    BY LiveTabsAreJobs DEF ShellTypeOK, JobsOK
  <1>2. JobsOK'
    <2>1. CASE UNCHANGED vars
      BY <1>1, <2>1 DEF vars, JobsOK, running
    <2>2. CASE Next
      <3>1. UNCHANGED job \/ \E j \in Jobs : JobOperation(j)
        BY <1>1, <2>2, OneOperation
      <3>2. CASE UNCHANGED job
        BY <1>1, <3>2 DEF JobsOK, running
      <3> QED
        BY <1>1, <3>1, <3>2, JobOperationKeepsJobs, SMTT(20)
    <2> QED
      BY <2>1, <2>2
  <1> QED
    BY <1>2, UpdateTypesKept, InstallTypesKept, ShellVariablesKept DEF ShellTypeOK, JobsOK

\* The types of all variables of the shell and its tabs, and that m_running is
\* true exactly from start() to the worker's own store, hold however many jobs
\* are started.
THEOREM ShellTypes == Spec => []ShellTypeOK
  <1>1. Init => ShellTypeOK
    <2> SUFFICES ASSUME Init
                 PROVE  ShellTypeOK
      OBVIOUS
    <2>1. job \in [Jobs -> JobRecord]
      <3>1. Started \in JobRecord /\ Idle \in JobRecord
        BY DEF Started, Idle, JobRecord, Worker
      <3> QED
        BY <3>1 DEF Init
    <2>2. \A j \in Jobs : running(j) <=> job[j].worker \in {"work", "ran"}
      BY Zenon DEF Init, running, Started, Idle
    <2>3. UpdateTypeOK
      BY Zenon DEF Init, UpdateInit, UpdateTypeOK, Check, Stage, Label
    <2>4. InstallTypeOK
      BY DEF Init, InstallInit, InstallTypeOK, Outcome
    <2> QED
      BY <2>1, <2>2, <2>3, <2>4, LiveTabsAreJobs, JobsAssumption, SMTT(20) DEF Init, ShellTypeOK
  <1>2. ShellTypeOK /\ [Next]_vars => ShellTypeOK'
    BY StepKeepsShellTypes
  <1> QED
    BY <1>1, <1>2, PTL DEF Spec

-----------------------------------------------------------------------------
(* The end. *)

\* The destructors run once the main loop has been left, one after the other,
\* and a worker that has been waited for never comes back.
CloseInv ==
    /\ ui \in {"loop", "quit"} => closing = 0
    /\ ui = "join" => closing > 0 /\ \A i \in 1 .. closing - 1 : Joined(LiveTabs[i])
    /\ ui = "gone" => splash # "work" /\ \A j \in Jobs : Joined(j)

\* A worker does not come back, nor does the destructor's requestCancel() bring
\* one back.
LEMMA JoinedIsFinal ==
    ASSUME JobsOK, NEW j \in Jobs, NEW k \in Jobs, Joined(k),
           Returned(j) \/ StoreRunning(j) \/ StoreFinished(j) \/ requestCancel(j)
    PROVE  Joined(k)'
  <1>1. CASE k # j
    BY <1>1, JobOperationKeepsJobs DEF JobOperation, Joined
  <1>2. CASE k = j
    <2>1. requestCancel(j)
      BY <1>2 DEF Joined, Returned, StoreRunning, StoreFinished
    <2>2. job[j] \in JobRecord
      BY DEF JobsOK
    <2> QED
      BY <1>2, <2>1, <2>2 DEF requestCancel, Joined, JobsOK, JobRecord
  <1> QED
    BY <1>1, <1>2

\* The order in which the application ends is kept.
LEMMA StepKeepsClosing ==
    ASSUME ShellTypeOK, CloseInv, [Next]_vars
    PROVE  CloseInv'
  <1>0. JobsOK /\ closing \in Nat /\ closing \in 0 .. Len(LiveTabs)
    BY LiveTabsAreJobs DEF ShellTypeOK, JobsOK
  <1>1. CASE UserInterface
    <2>1. UNCHANGED closing /\ ui' \in {"loop", "quit", "rebooted"}
      BY <1>1, Zenon
      DEF UserInterface, Loop, Click, Answer, Dismiss, CallBack, Animate, SplashDone,
          AnnounceUpdate, Chainload, Quit, Reboot, shellVars
    <2> QED
      BY <1>1, <2>1 DEF UserInterface, Loop, CloseInv
  <1>2. ASSUME NEW j \in Jobs, Poll(j)
        PROVE  CloseInv'
    BY <1>2 DEF Poll, Loop, shellVars, CloseInv
  <1>3. ASSUME NEW j \in Jobs, Work(j)
        PROVE  CloseInv'
    <2>1. Returned(j) \/ StoreRunning(j) \/ StoreFinished(j)
      BY <1>3 DEF Work, UpdateWork, InstallWork, ArchiveWork
    <2>2. \A k \in Jobs : Joined(k) => Joined(k)'
      BY <1>0, <2>1, JoinedIsFinal
    <2>3. \A i \in 1 .. closing - 1 : LiveTabs[i] \in Jobs
      BY <1>0, LiveTabsAreJobs
    <2>4. UNCHANGED <<ui, closing>> /\ ui \in {"loop", "quit", "join"}
      BY <1>3 DEF Work, InProcess, shellVars
    <2>5. \A i \in 1 .. closing - 1 : Joined(LiveTabs[i]) => Joined(LiveTabs[i])'
      BY <2>2, <2>3 DEF Joined
    <2> QED
      BY <2>4, <2>5 DEF CloseInv, Joined
  <1>4. CASE CloseTab
    <2>1. closing + 1 \in 1 .. Len(LiveTabs) /\ LiveTabs[closing + 1] \in Jobs
      BY <1>0, <1>4, LiveTabsAreJobs, SMTT(20) DEF CloseTab
    <2>2. \A k \in Jobs : Joined(k) => Joined(k)'
      BY <1>0, <1>4, <2>1, JoinedIsFinal, SMTT(20) DEF CloseTab
    <2>3. \A i \in 1 .. closing : LiveTabs[i] \in Jobs /\ Joined(LiveTabs[i])
      <3>1. CASE ui = "quit"
        BY <3>1 DEF CloseInv
      <3>2. CASE ui = "join" /\ Joined(LiveTabs[closing])
        BY <1>0, <3>2, LiveTabsAreJobs, SMTT(20) DEF CloseInv
      <3> QED
        BY <1>4, <3>1, <3>2, SMTT(20) DEF CloseTab
    <2>4. ui' = "join" /\ closing' > 0 /\ closing' - 1 = closing
      BY <1>0, <1>4, SMTT(20) DEF CloseTab
    <2>5. \A i \in 1 .. closing : job'[LiveTabs[i]].worker \in {"none", "ended"}
      BY <2>2, <2>3 DEF Joined
    <2>6. (\A i \in 1 .. closing - 1 : Joined(LiveTabs[i]))'
      BY <2>4, <2>5, Zenon DEF Joined
    <2> QED
      BY <2>4, <2>6, Zenon DEF CloseInv
  <1>5. CASE Exit
    <2>1. \A i \in 1 .. Len(LiveTabs) : Joined(LiveTabs[i])
      BY <1>0, <1>5 DEF Exit, CloseInv
    <2>2. \A j \in Jobs : Joined(j)
      BY <2>1, LiveTabsAreJobs
    <2> QED
      BY <1>5, <2>2 DEF Exit, CloseInv, Joined
  <1>6. CASE SplashWork
    BY <1>6 DEF SplashWork, InProcess, CloseInv, Joined
  <1>7. CASE Crash
    BY <1>7 DEF Crash, CloseInv
  <1>8. CASE UNCHANGED vars
    BY <1>8 DEF vars, shellVars, CloseInv, Joined
  <1> QED
    BY <1>1, <1>2, <1>3, <1>4, <1>5, <1>6, <1>7, <1>8, SMTT(20) DEF Next

\* runShell returns, and main may start the next program, only once every
\* worker thread has been joined, whichever tabs there are, however many jobs
\* were started and wherever the user left the main loop.
THEOREM NextProgramAloneAlways == Spec => []NextProgramAlone
  <1>1. Init => CloseInv
    BY DEF Init, CloseInv
  <1>2. ShellTypeOK /\ CloseInv /\ [Next]_vars => CloseInv'
    BY StepKeepsClosing
  <1>3. CloseInv => NextProgramAlone
    BY DEF CloseInv, NextProgramAlone
  <1> QED
    BY <1>1, <1>2, <1>3, ShellTypes, PTL DEF Spec

-----------------------------------------------------------------------------
(* The steps. *)

\* Only start() makes running() true.
LEMMA OnlyStartStarts ==
    ASSUME JobsOK, NEW j \in Jobs, NEW k \in Jobs,
           \/ Returned(j) \/ StoreRunning(j) \/ StoreFinished(j) \/ takeFinished(j)
           \/ requestCancel(j) \/ (start(j) /\ k # j)
    PROVE  running(k)' => running(k)
  <1>1. CASE k # j
    BY <1>1, JobOperationKeepsJobs, Zenon DEF JobOperation, running
  <1>2. CASE k = j
    <2>1. job[j] \in JobRecord /\ job \in [Jobs -> JobRecord]
      BY Zenon DEF JobsOK
    <2>2. ASSUME NEW r, job' = [job EXCEPT ![j] = r], r.running => job[j].running
          PROVE  running(k)' => running(k)
      BY <1>2, <2>1, <2>2, Zenon DEF running
    <2>3. CASE Returned(j)
      <3>1. [job[j] EXCEPT !.worker = "ran"].running = job[j].running
        BY <2>1 DEF JobRecord
      <3> QED
        BY <2>2, <2>3, <3>1, Zenon DEF Returned
    <2>4. CASE StoreRunning(j)
      <3>1. ~[job[j] EXCEPT !.running = FALSE, !.worker = "cleared"].running
        BY <2>1, Zenon DEF JobRecord
      <3> QED
        BY <2>2, <2>4, <3>1, Zenon DEF StoreRunning
    <2>5. CASE StoreFinished(j)
      <3>1. [job[j] EXCEPT !.finished = TRUE, !.worker = "ended"].running = job[j].running
        BY <2>1 DEF JobRecord
      <3> QED
        BY <2>2, <2>5, <3>1, Zenon DEF StoreFinished
    <2>6. CASE takeFinished(j)
      <3>1. [job[j] EXCEPT !.finished = FALSE].running = job[j].running
        BY <2>1 DEF JobRecord
      <3> QED
        BY <2>2, <2>6, <3>1, Zenon DEF takeFinished
    <2>7. CASE requestCancel(j)
      <3>1. [job[j] EXCEPT !.cancel = TRUE].running = job[j].running
        BY <2>1 DEF JobRecord
      <3> QED
        BY <2>2, <2>7, <3>1, Zenon DEF requestCancel
    <2> QED
      BY <1>2, <2>3, <2>4, <2>5, <2>6, <2>7, Zenon
  <1> QED
    BY <1>1, <1>2, Zenon

\* The tabs have jobs of their own.
LEMMA OwnJobs ==
    /\ "update" \in Jobs /\ "archive" \in Jobs /\ Tabs \subseteq Jobs
    /\ "update" \notin Tabs /\ "archive" \notin Tabs
  BY JobsOfTabs, TabsAssumption

\* While the splash screen is there no button works and no callback is due.
LEMMA SplashWaits ==
    ASSUME SplashInv, Loop, splash # "left"
    PROVE  /\ \A v : Pressed(v) => v = None
           /\ StackInv(app) => \A cb : Due(cb) => cb = "unblock"
  <1>1. app.focus = None /\ \A x \in Tweens(app) : ~Leaves(x)
    BY Zenon DEF SplashInv
  <1>2. ASSUME StackInv(app), NEW cb, Due(cb)
        PROVE  cb = "unblock"
    <2>1. app.anims \in Seq(Tween) /\ app.anims # <<>>
      BY <1>2, TweensTyped, Zenon DEF StackInv, Sane, Due
    <2>2. Head(app.anims) = app.anims[1] /\ 1 \in 1 .. Len(app.anims)
      BY <2>1
    <2>3. Ending \in Tweens(app)
      BY <2>2, Zenon DEF Ending, Tweens
    <2> QED
      BY <1>1, <1>2, <2>3, Zenon DEF Due, Leaves
  <1> QED
    BY <1>1, <1>2, Zenon DEF Pressed

\* The pollers and workers find nothing to do with the stack while the splash
\* screen is there.
LEMMA SplashUndisturbed ==
    ASSUME ShellTypeOK, TabsInv, SplashInv, Loop, splash # "left",
           NEW j \in Jobs, Poll(j) \/ Work(j)
    PROVE  /\ UNCHANGED <<app, updating>> /\ job'["archive"] = Idle
           /\ \A t \in Tabs : ~installing'[t]
  <1>1. /\ ~updating /\ job["archive"] = Idle /\ installing = progress
        /\ \A t \in Tabs : ~installing[t]
    BY Zenon DEF SplashInv, TabsInv
  <1>2. JobsOK /\ installing \in [Tabs -> BOOLEAN]
    BY Zenon DEF ShellTypeOK, JobsOK, InstallTypeOK
  <1>3. Idle.finished = FALSE /\ Idle.worker = "none"
    BY DEF Idle
  <1>4. JobOperation(j)
    BY Zenon
    DEF Poll, Work, UpdatePoll, InstallPoll, ArchivePoll, UpdateWork, InstallWork, ArchiveWork,
        JobOperation
  <1>5. /\ job["archive"].worker \notin {"work", "ran", "cleared"}
        /\ ~job["archive"].finished
    BY <1>1, <1>3
  <1>6. j # "archive"
    <2>1. ~Returned("archive") /\ ~StoreRunning("archive") /\ ~StoreFinished("archive")
          /\ ~takeFinished("archive")
      BY <1>5, Zenon DEF Returned, StoreRunning, StoreFinished, takeFinished
    <2>2. "archive" # "update" /\ "archive" \notin Tabs
      BY OwnJobs
    <2> QED
      BY <2>1, <2>2, Zenon DEF Poll, Work, ArchivePoll, ArchiveWork
  <1>7. job'["archive"] = Idle
    BY <1>1, <1>2, <1>4, <1>6, OwnJobs, JobOperationKeepsJobs, Zenon
  <1>8. UNCHANGED <<app, updating>> /\ \A t \in Tabs : ~installing'[t]
    <2>1. CASE Work(j)
      <3>1. UNCHANGED <<app, updating, installing>>
        BY <2>1, Zenon
        DEF Work, UpdateWork, InstallWork, ArchiveWork, updateVars, installVars
      <3> QED
        BY <1>1, <3>1, Zenon
    <2>2. CASE j = "update" /\ UpdatePoll /\ UNCHANGED installVars
      <3>1. UNCHANGED <<app, updating, installing>>
        BY <1>1, <2>2, Zenon DEF UpdatePoll, onCheckFinished, installVars
      <3> QED
        BY <1>1, <3>1, Zenon
    <2>3. CASE j \in Tabs /\ InstallPoll(j) /\ UNCHANGED updateVars
      <3>1. UNCHANGED <<app, updating>>
        BY <1>1, <2>3, Zenon DEF InstallPoll, updateVars
      <3>2. installing' = [installing EXCEPT ![j] = FALSE]
        BY <2>3, Zenon DEF InstallPoll
      <3>3. \A t \in Tabs : ~installing'[t]
        BY <1>1, <1>2, <3>2, Zenon
      <3> QED
        BY <3>1, <3>3, Zenon
    <2> QED
      BY <1>6, <2>1, <2>2, <2>3, Zenon DEF Poll
  <1> QED
    BY <1>7, <1>8, Zenon

\* What SplashInv says is kept until the splash screen leaves.
LEMMA StepKeepsSplash ==
    ASSUME Counting, ShellTypeOK, ScreenInv, Next
    PROVE  SplashInv'
  <1> SUFFICES ASSUME Loop', splash' # "left"
               PROVE  (/\ app.focus = None
                       /\ \A x \in Tweens(app) : ~Leaves(x)
                       /\ \A t \in Tabs : ~installing[t]
                       /\ ~updating
                       /\ job["archive"] = Idle)'
    BY Zenon DEF SplashInv
  <1>1. Loop /\ splash # "left"
    <2>1. CASE UserInterface
      <3>1. splash' = splash \/ splash' = "left"
        BY <2>1, Zenon
        DEF UserInterface, Click, Answer, Dismiss, CallBack, Animate, SplashDone, AnnounceUpdate,
            Chainload, Quit, Reboot, shellVars
      <3> QED
        BY <2>1, <3>1, Zenon DEF UserInterface
    <2>2. CASE \E j \in Jobs : Poll(j) \/ Work(j)
      BY <2>2, Zenon DEF Poll, Work, shellVars, Loop
    <2>3. CASE SplashWork
      <3>1. "work" # "left"
        OBVIOUS
      <3> QED
        BY <2>3, <3>1, Zenon DEF SplashWork, Loop
    <2>4. CASE CloseTab \/ Exit \/ Crash
      <3>1. ui' # "loop"
        BY <2>4 DEF CloseTab, Exit, Crash
      <3> QED
        BY <3>1, Zenon DEF Loop
    <2>5. CASE UNCHANGED vars
      BY <2>5, Zenon DEF vars, shellVars, Loop
    <2> QED
      BY <2>1, <2>2, <2>3, <2>4, <2>5, Zenon DEF Next
  <1>2. /\ SplashInv /\ TabsInv /\ StackInv(app)
        /\ app.focus = None /\ \A x \in Tweens(app) : ~Leaves(x)
        /\ \A t \in Tabs : ~installing[t]
        /\ ~updating
        /\ job["archive"] = Idle
    BY <1>1, Zenon DEF ScreenInv, Screen, SplashInv
  <1>3. /\ \A v : Pressed(v) => v = None
        /\ \A cb : Due(cb) => cb = "unblock"
    BY <1>1, <1>2, SplashWaits, Zenon
  <1>4. CASE UNCHANGED <<app, installing, updating, job>>
    BY <1>2, <1>4, Zenon
  <1>5. CASE UserInterface
    <2>1. ~Click /\ ~Answer /\ ~Dismiss
      <3>1. /\ ~Pressed(Root) /\ ~Pressed(Restart) /\ ~Pressed(Choice) /\ ~Pressed(Daybreak)
            /\ \A t \in Tabs : ~Pressed(Confirm(t)) /\ ~Pressed(Progress(t))
            /\ \A tool \in Tool : ~Pressed(Ask(tool))
            /\ \A v \in Dismissable : ~Pressed(v)
        <4>1. /\ Root # None /\ Restart # None /\ Choice # None /\ Daybreak # None /\ Startup # None
              /\ \A t : Confirm(t) # None /\ Progress(t) # None /\ Result(t) # None
              /\ \A tool : Ask(tool) # None /\ Report(tool) # None
          BY DEF Root, Restart, Choice, Daybreak, Startup, Confirm, Progress, Result, Ask, Report,
                 None
        <4> QED
          BY <1>3, <4>1, Zenon DEF Dismissable
      <3> QED
        BY <3>1, Zenon
        DEF Click, UpdateClick, ClickRow, ClickTool, Answer, AcceptRestart, LaunchDaybreak,
            AcceptInstall, CancelInstall, ChoosePayload, AcceptTool, Dismiss
    <2>2. ~CallBack /\ ~AnnounceUpdate /\ ~Chainload("restart") /\ ~Chainload("daybreak") /\ ~Reboot
      <3>1. /\ \A cb \in Writes : ~Due(cb)
            /\ ~Due("current") /\ ~Due("offer") /\ ~Due("restart")
        <4>1. "unblock" \notin Writes
          BY Differ, Zenon
        <4>2. "unblock" # "current" /\ "unblock" # "offer" /\ "unblock" # "restart"
          OBVIOUS
        <4> QED
          BY <1>3, <4>1, <4>2, Zenon
      <3>2. /\ \A t \in Tabs : ~Due(Installs(t))
            /\ \A tool \in Tool : ~Due(tool)
            /\ ~Due("payload") /\ ~Due("daybreak")
        BY <3>1, Differ, Zenon
      <3>3. ~Due("archive") /\ ~Due("purge") /\ ~Due("reboot")
        BY <3>2, Zenon DEF Tool
      <3> QED
        BY <3>1, <3>2, <3>3, Zenon
        DEF CallBack, startInstallOf, runFixArchiveBit, runPurgeStaging, ListPayloads, RebootFails,
            AnnounceUpdate, Chainload, Reboot
    <2>3. ~SplashDone /\ ~Quit
      <3>1. ui' # "quit"
        BY DEF Loop
      <3> QED
        BY <3>1, Zenon DEF SplashDone, Quit
    <2>4. CASE Animate
      <3>1. app.anims # <<>> /\ UNCHANGED <<installing, updating, job>>
        BY <2>4, Zenon DEF Animate, Settle, installVars, updateVars
      <3>2. ~Due("none")
        <4>1. "none" # "unblock"
          OBVIOUS
        <4> QED
          BY <1>3, <4>1, Zenon
      <3>3. ~(Ending.kind = "hide")
        <4>1. app.anims \in Seq(Tween)
          BY <1>2, TweensTyped, Zenon DEF StackInv, Sane
        <4>2. Head(app.anims) = app.anims[1] /\ 1 \in 1 .. Len(app.anims)
          BY <3>1, <4>1
        <4>3. Ending \in Tweens(app)
          BY <4>2, Zenon DEF Ending, Tweens
        <4> QED
          BY <1>2, <4>3, Zenon DEF StackInv, Sane
      <3>4. Ending.kind = "show" /\ Ending.cb = "unblock" /\ app' = unblockInputs(Dequeued)
        BY <2>4, <3>2, <3>3, Zenon DEF Animate, Settle
      <3>5. Ends(app')
        BY <1>2, <3>1, <3>4, UnblockKeeps, Zenon
      <3>6. app'.focus = None /\ \A x \in Tweens(app') : ~Leaves(x)
        BY <1>2, <3>5, Zenon DEF Ends
      <3> QED
        BY <1>2, <3>1, <3>6, Zenon
    <2> QED
      BY <1>5, <2>1, <2>2, <2>3, <2>4, Zenon DEF UserInterface
  <1>6. ASSUME NEW j \in Jobs, Poll(j) \/ Work(j)
        PROVE  (/\ app.focus = None
                /\ \A x \in Tweens(app) : ~Leaves(x)
                /\ \A t \in Tabs : ~installing[t]
                /\ ~updating
                /\ job["archive"] = Idle)'
    <2>1. /\ UNCHANGED <<app, updating>> /\ job'["archive"] = Idle
          /\ \A t \in Tabs : ~installing'[t]
      BY <1>1, <1>2, <1>6, SplashUndisturbed, Zenon
    <2> QED
      BY <1>2, <2>1, Zenon
  <1>7. CASE SplashWork \/ Exit \/ Crash \/ UNCHANGED vars
    BY <1>4, <1>7, Zenon DEF SplashWork, Exit, Crash, vars, installVars, updateVars
  <1>8. CASE CloseTab
    <2>1. ui' # "loop"
      BY <1>8 DEF CloseTab
    <2> QED
      BY <2>1, Zenon DEF Loop
  <1> QED
    BY <1>5, <1>6, <1>7, <1>8, Zenon DEF Next

\* What the steps below keep; StepKeepsSplash has the rest.
ScreenKept == TabsInv' /\ Screen(app', installing', catalogue', outcome')

\* A step that leaves the variables of the install tabs alone.
LEMMA SameTabs ==
    ASSUME TabsInv, Loop' => Loop, UNCHANGED <<installVars, chainload>>,
           \A t \in Tabs : running(t)' => running(t),
           Screen(app', installing, catalogue, outcome)
    PROVE  ScreenKept
  <1>1. UNCHANGED <<catalogue, installing, outcome, progress, chainload>>
    BY Zenon DEF installVars
  <1>2. TabsInv'
    BY <1>1, Zenon DEF TabsInv
  <1> QED
    BY <1>1, <1>2, Zenon DEF ScreenKept

\* Clicks.
LEMMA ClickKept ==
    ASSUME Counting, ShellTypeOK, ScreenInv, Loop, Click
    PROVE  ScreenKept
  <1>1. TabsInv /\ Screen(app, installing, catalogue, outcome) /\ JobsOK
    BY Zenon DEF ScreenInv, ShellTypeOK, JobsOK
  <1>2. UNCHANGED chainload /\ (Loop' => Loop)
    BY Zenon DEF Click
  <1>3. CASE UpdateClick /\ UNCHANGED installVars
    <2>1. UNCHANGED app /\ start("update")
      BY <1>3, Zenon DEF UpdateClick
    <2>2. \A t \in Tabs : running(t)' => running(t)
      BY <1>1, <2>1, OwnJobs, OnlyStartStarts, Zenon
    <2> QED
      BY <1>1, <1>2, <1>3, <2>1, <2>2, SameTabs, Zenon DEF Click
  <1>4. ASSUME Pressed(Root), NEW v \in View, v \notin {Root, Splash, None}, v # Daybreak,
               \A t \in Tabs : v = Confirm(t) => catalogue[t] = "listed",
               app' = pushView(app, v), UNCHANGED <<job, installVars>>
        PROVE  ScreenKept
    <2>1. /\ \A t \in Tabs : ~installing[t]
          /\ ~Leaked(app) /\ \A l \in 1 .. Len(Foci(app)) : Foci(app)[l] = Root
      BY <1>1, <1>4, OnlyRoot, Zenon DEF Pressed
    <2>2. Root # Daybreak
      BY DEF Root, Daybreak
    <2>3. Welcome(app, v, installing, catalogue, outcome)
      BY <1>4, <2>1, <2>2, Zenon DEF Welcome
    <2>4. Screen(app', installing, catalogue, outcome)
      BY <1>1, <1>4, <2>3, PushScreen, Zenon
    <2>5. \A t \in Tabs : running(t)' => running(t)
      BY <1>4, Zenon DEF running
    <2>6. UNCHANGED <<installVars, chainload>>
      BY <1>2, <1>4, Zenon
    <2> QED
      BY <1>1, <1>2, <2>4, <2>5, <2>6, SameTabs, Zenon
  <1>5. ASSUME NEW t \in Tabs, ClickRow(t)
        PROVE  ScreenKept
    <2>1. Confirm(t) \in View /\ Confirm(t) \in Asks
      BY Zenon DEF View, Asks
    <2>2. Confirm(t) \notin {Root, Splash, None} /\ Confirm(t) # Daybreak
      BY <2>1, Differ, Zenon
    <2>3. \A u \in Tabs : Confirm(t) = Confirm(u) => catalogue[u] = "listed"
      BY <1>5, Differ, Zenon DEF ClickRow
    <2> QED
      BY <1>4, <1>5, <2>1, <2>2, <2>3, Zenon DEF ClickRow
  <1>6. ASSUME NEW tool \in Tool, ClickTool(tool), UNCHANGED installVars
        PROVE  ScreenKept
    <2>1. Ask(tool) \in View /\ Ask(tool) \in Asks
      BY Zenon DEF View, Asks
    <2>2. Ask(tool) \notin {Root, Splash, None} /\ Ask(tool) # Daybreak
      BY <2>1, Differ, Zenon
    <2>3. \A u \in Tabs : Ask(tool) # Confirm(u)
      BY Differ, Zenon
    <2> QED
      BY <1>4, <1>6, <2>1, <2>2, <2>3, Zenon DEF ClickTool
  <1> QED
    BY <1>3, <1>5, <1>6, Zenon DEF Click

\* A button closes the dialog it is on.
LEMMA PressKept ==
    ASSUME Counting, ShellTypeOK, ScreenInv, Loop, NEW v \in View, v # None, Pressed(v),
           \A t \in Tabs : v # Progress(t),
           NEW cb \in Callback, cb # "unblock",
           cb \in Writes =>
             /\ v \in Asks
             /\ \A t \in Tabs : cb = Installs(t) => v = Confirm(t)
             /\ cb = "daybreak" => v = Daybreak,
           app' = popView(app, cb), UNCHANGED <<job, installVars, shellVars>>
    PROVE  ScreenKept
  <1>1. TabsInv /\ Screen(app, installing, catalogue, outcome)
    BY Zenon DEF ScreenInv
  <1>2. v \in View \ {None} /\ app.tokens = 0 /\ app.focus = v
    BY Zenon DEF Pressed
  <1>3. Screen(popView(app, cb), installing, catalogue, outcome)
    BY <1>1, <1>2, PressScreen, Zenon
  <1>4. UNCHANGED <<installVars, chainload>> /\ \A t \in Tabs : running(t)' => running(t)
    BY Zenon DEF shellVars, running
  <1> QED
    BY <1>1, <1>3, <1>4, SameTabs, Zenon

\* The buttons of the tabs' dialogs, and B.
LEMMA AnswerKept ==
    ASSUME Counting, ShellTypeOK, ScreenInv, Loop, Answer \/ Dismiss
    PROVE  ScreenKept
  <1> DEFINE Quiet == {"none", "restart"}
  <1>1. Quiet \subseteq Callback /\ "unblock" \notin Quiet /\ Quiet \cap Writes = {}
    <2>1. {"none", "unblock", "current", "offer", "restart"} \cap Writes = {}
      BY Differ, Zenon
    <2>2. Quiet \subseteq Callback
      BY Zenon DEF Callback
    <2>3. "unblock" \notin Quiet
      OBVIOUS
    <2> QED
      BY <2>1, <2>2, <2>3, Zenon
  <1>2. /\ \A cb \in Writes : cb \in Callback /\ cb # "unblock"
        /\ Asks \subseteq View /\ None \notin Asks /\ \A t \in Tabs : Progress(t) \notin Asks
    <2>1. Asks \subseteq View
      BY Zenon DEF View
    <2> QED
      BY <2>1, Differ, Zenon
  <1>3. ASSUME NEW v \in Asks, Pressed(v), NEW cb \in Writes,
               \A t \in Tabs : cb = Installs(t) => v = Confirm(t), cb = "daybreak" => v = Daybreak,
               app' = popView(app, cb), UNCHANGED <<job, installVars, shellVars>>
        PROVE  ScreenKept
    <2>1. v \in View /\ v # None /\ \A t \in Tabs : v # Progress(t)
      BY <1>2, Zenon
    <2> QED
      BY <1>2, <1>3, <2>1, PressKept, Zenon
  <1>4. ASSUME NEW v \in View, v # None, Pressed(v), \A t \in Tabs : v # Progress(t),
               NEW cb \in Quiet, app' = popView(app, cb), UNCHANGED <<job, installVars, shellVars>>
        PROVE  ScreenKept
    <2>1. cb \in Callback /\ cb # "unblock" /\ cb \notin Writes
      BY <1>1, Zenon
    <2> QED
      BY <1>4, <2>1, PressKept, Zenon
  <1> HIDE DEF Quiet
  <1>5. CASE Dismiss
    <2>1. PICK v \in Dismissable : Pressed(v)
      BY <1>5, Zenon DEF Dismiss
    <2>2. v \in View /\ v # None /\ \A t \in Tabs : v # Progress(t)
      <3>1. /\ Dismissable \subseteq View
        BY Zenon DEF Dismissable, View, Asks
      <3>2. \A t : /\ Startup # Progress(t) /\ Startup # None /\ Choice # None
                   /\ Result(t) # None /\ Report(t) # None /\ Confirm(t) # None /\ Ask(t) # None
                   /\ Daybreak # None
                   /\ Choice # Progress(t) /\ Daybreak # Progress(t)
        BY DEF Startup, Progress, None, Choice, Result, Report, Daybreak, Confirm, Ask
      <3>3. \A t, u : /\ Result(t) # Progress(u) /\ Report(t) # Progress(u)
                      /\ Confirm(t) # Progress(u) /\ Ask(t) # Progress(u)
        BY DEF Result, Report, Confirm, Ask, Progress
      <3> QED
        BY <3>1, <3>2, <3>3, Zenon DEF Dismissable
    <2>3. app' = popView(app, "none") /\ UNCHANGED <<job, installVars, shellVars>>
      BY <1>5, Zenon DEF Dismiss
    <2>4. "none" \in Quiet
      BY Zenon DEF Quiet
    <2> QED
      BY <1>4, <2>1, <2>2, <2>3, <2>4, ZenonT(30)
  <1>6. CASE Answer /\ AcceptRestart /\ UNCHANGED installVars
    <2>1. Restart \in View
      BY Zenon DEF View
    <2>2. Restart # None /\ \A t \in Tabs : Restart # Progress(t)
      BY DEF Restart, None, Progress
    <2>3. "restart" \in Quiet
      BY Zenon DEF Quiet
    <2>4. /\ Pressed(Restart) /\ app' = popView(app, "restart")
          /\ UNCHANGED <<job, installVars, shellVars>>
      BY <1>6, Zenon DEF AcceptRestart, Answer
    <2> QED
      BY <1>4, <2>1, <2>2, <2>3, <2>4, Zenon
  <1>7. CASE Answer /\ LaunchDaybreak
    <2>1. Daybreak \in Asks
      BY Zenon DEF Asks
    <2>2. "daybreak" \in Writes /\ \A t \in Tabs : Installs(t) # "daybreak"
      BY Differ, Zenon
    <2>3. /\ Pressed(Daybreak) /\ app' = popView(app, "daybreak")
          /\ UNCHANGED <<job, installVars, shellVars>>
      BY <1>7, Zenon DEF LaunchDaybreak, Answer
    <2> QED
      BY <1>3, <2>1, <2>2, <2>3, Zenon
  <1>8. ASSUME NEW t \in Tabs, AcceptInstall(t), Answer
        PROVE  ScreenKept
    <2>1. Confirm(t) \in Asks
      BY Zenon DEF Asks
    <2>2. /\ Installs(t) \in Writes /\ Installs(t) # "daybreak"
          /\ \A u \in Tabs : Installs(t) = Installs(u) => Confirm(t) = Confirm(u)
      BY Differ, Zenon
    <2>3. /\ Pressed(Confirm(t)) /\ app' = popView(app, Installs(t))
          /\ UNCHANGED <<job, installVars, shellVars>>
      BY <1>8, Zenon DEF AcceptInstall, Answer
    <2> QED
      BY <1>3, <2>1, <2>2, <2>3, Zenon
  <1>9. ASSUME NEW t \in Tabs, CancelInstall(t), Answer
        PROVE  ScreenKept
    <2>1. TabsInv /\ Screen(app, installing, catalogue, outcome) /\ JobsOK
      BY Zenon DEF ScreenInv, ShellTypeOK, JobsOK
    <2>2. UNCHANGED <<app, installVars, shellVars>> /\ requestCancel(t)
      BY <1>9, Zenon DEF CancelInstall, Answer
    <2>3. \A u \in Tabs : running(u)' => running(u)
      BY <2>1, <2>2, OwnJobs, OnlyStartStarts, Zenon
    <2>4. UNCHANGED <<installVars, chainload>>
      BY <2>2, Zenon DEF shellVars
    <2> QED
      BY <2>1, <2>2, <2>3, <2>4, SameTabs, Zenon
  <1>10. CASE Answer /\ ChoosePayload /\ UNCHANGED installVars
    <2>1. Choice \in Asks
      BY Zenon DEF Asks
    <2>2. "payload" \in Writes /\ "payload" # "daybreak" /\ \A t \in Tabs : "payload" # Installs(t)
      BY Differ, Zenon
    <2>3. /\ Pressed(Choice) /\ app' = popView(app, "payload")
          /\ UNCHANGED <<job, installVars, shellVars>>
      BY <1>10, Zenon DEF ChoosePayload, Answer
    <2> QED
      BY <1>3, <2>1, <2>2, <2>3, Zenon
  <1>11. ASSUME NEW tool \in Tool, AcceptTool(tool), UNCHANGED installVars, Answer
         PROVE  ScreenKept
    <2>1. Ask(tool) \in Asks
      BY Zenon DEF Asks
    <2>2. tool \in Writes /\ tool # "daybreak" /\ \A t \in Tabs : tool # Installs(t)
      BY Differ, Zenon
    <2>3. /\ Pressed(Ask(tool)) /\ app' = popView(app, tool)
          /\ UNCHANGED <<job, installVars, shellVars>>
      BY <1>11, Zenon DEF AcceptTool, Answer
    <2> QED
      BY <1>3, <2>1, <2>2, <2>3, Zenon
  <1> QED
    BY <1>5, <1>6, <1>7, <1>8, <1>9, <1>10, <1>11, Zenon DEF Answer

\* A dialog that asks nothing.
LEMMA NoticeWelcome ==
    ASSUME NEW a, NEW ins, NEW cat, NEW out,
           NEW v \in {Startup, Restart} \cup {Report(tool) : tool \in Tool}
    PROVE  Welcome(a, v, ins, cat, out)
  <1>1. v \in View
    BY Zenon DEF View
  <1>2. v \notin Asks /\ \A t \in Tabs : v # Progress(t)
    <2>1. CASE v \in {Startup, Restart}
      <3>1. v \notin Asks
        BY <2>1, Differ, Zenon
      <3>2. \A t \in Tabs : Progress(t) \notin {Root, Splash, None, Startup, Restart}
        BY Differ, Zenon
      <3> QED
        BY <2>1, <3>1, <3>2, Zenon
    <2>2. ASSUME NEW tool \in Tool, v = Report(tool)
          PROVE  v \notin Asks /\ \A t \in Tabs : v # Progress(t)
      <3>1. Report(tool) \notin Asks /\ \A t \in Tabs : Progress(t) # Report(tool)
        BY Differ, Zenon
      <3> QED
        BY <2>2, <3>1, Zenon
    <2> QED
      BY <2>1, <2>2, Zenon
  <1>3. v \notin {Root, Splash, None}
    <2>1. Startup \notin {Root, Splash, None} /\ Restart \notin {Root, Splash, None}
      BY DEF Startup, Restart, Root, Splash, None
    <2>2. \A tool : Report(tool) \notin {Root, Splash, None}
      BY DEF Report, Root, Splash, None
    <2> QED
      BY <2>1, <2>2, Zenon
  <1>4. Daybreak \in Asks /\ \A t \in Tabs : Confirm(t) \in Asks
    BY Zenon DEF Asks
  <1> QED
    BY <1>1, <1>2, <1>3, <1>4, Zenon DEF Welcome

\* The install starts.
LEMMA StartKept ==
    ASSUME Counting, ShellTypeOK, ScreenInv, Loop, NEW t \in Tabs, startInstallOf(t),
           UNCHANGED shellVars
    PROVE  ScreenKept
  <1> DEFINE a == AtCallback
  <1>1. /\ TabsInv /\ Screen(app, installing, catalogue, outcome) /\ JobsOK
        /\ installing \in [Tabs -> BOOLEAN] /\ progress = installing /\ chainload = "none"
    BY Zenon DEF ScreenInv, ShellTypeOK, JobsOK, InstallTypeOK, TabsInv
  <1>2. /\ Due(Installs(t)) /\ Installs(t) \in Writes /\ Installs(t) # "unblock"
        /\ installing' = [installing EXCEPT ![t] = TRUE]
        /\ progress' = [progress EXCEPT ![t] = TRUE]
        /\ app' = pushView(a, Progress(t)) /\ start(t) /\ UNCHANGED <<catalogue, chainload>>
    <2>1. Installs(t) \in Writes /\ "unblock" \notin Writes
      BY Differ, Zenon
    <2> QED
      BY <2>1, Zenon DEF startInstallOf, shellVars
  <1>3. /\ \A u \in Tabs : ~installing[u]
        /\ \A x \in Tweens(a) : x.cb \notin Writes
        /\ ~Leaked(a) => \A l \in 1 .. Len(Foci(a)) : Foci(a)[l] # Daybreak
    BY <1>1, <1>2, WritesDue, Zenon
  <1>4. Screen(a, installing, catalogue, outcome) /\ Called(a)
    BY <1>1, <1>2, CallbackScreen, Zenon
  <1> HIDE DEF a
  <1>5. /\ installing'[t] /\ \A u \in Tabs : installing'[u] => u = t
    BY <1>1, <1>2, <1>3, Zenon
  <1>6. Screen(app', installing', catalogue', outcome')
    <2>1. ~Leaked(a) => \A x \in Tweens(a) : ~Leaves(x)
      BY <1>4, Zenon DEF Called
    <2>2. Screen(pushView(a, Progress(t)), installing', catalogue, outcome')
      BY <1>3, <1>4, <1>5, <2>1, StartScreen, Zenon
    <2> QED
      BY <1>2, <2>2, Zenon
  <1>7. ASSUME NEW u \in Tabs, catalogue[u] = "listed", running(u)'
        PROVE  installing'[u]
    <2>1. CASE u = t
      BY <1>5, <2>1, Zenon
    <2>2. CASE u # t
      <3>1. running(u)
        BY <1>1, <1>2, <1>7, <2>2, OwnJobs, OnlyStartStarts, Zenon
      <3> QED
        BY <1>1, <1>3, <1>7, <3>1, Zenon DEF TabsInv
    <2> QED
      BY <2>1, <2>2, Zenon
  <1>8. TabsInv'
    <2>1. installing' = progress'
      BY <1>1, <1>2, Zenon
    <2>2. chainload' = "none" /\ "none" # "daybreak"
      BY <1>1, <1>2
    <2> QED
      BY <1>2, <1>5, <1>7, <2>1, <2>2, Zenon DEF TabsInv
  <1> QED
    BY <1>6, <1>8, Zenon DEF ScreenKept

\* The callbacks of dialogs.
LEMMA CallBackKept ==
    ASSUME Counting, ShellTypeOK, ScreenInv, Loop, CallBack
    PROVE  ScreenKept
  <1> DEFINE a == AtCallback
  <1>1. TabsInv /\ Screen(app, installing, catalogue, outcome) /\ JobsOK
    BY Zenon DEF ScreenInv, ShellTypeOK, JobsOK
  <1>2. UNCHANGED shellVars
    BY Zenon DEF CallBack
  <1>3. ASSUME NEW cb \in Writes, Due(cb)
        PROVE  Screen(a, installing, catalogue, outcome)
    <2>1. cb # "unblock"
      BY Differ, Zenon
    <2> QED
      BY <1>1, <1>3, <2>1, CallbackScreen, Zenon
  <1>4. /\ "archive" \in Writes /\ "purge" \in Writes /\ "reboot" \in Writes /\ "payload" \in Writes
        /\ "purge" \in Tool /\ "reboot" \in Tool
    BY Zenon DEF Writes, Tool
  <1>5. ASSUME Screen(app', installing, catalogue, outcome), UNCHANGED installVars,
               \A t \in Tabs : running(t)' => running(t)
        PROVE  ScreenKept
    <2>1. UNCHANGED <<installVars, chainload>> /\ (Loop' => Loop)
      BY <1>2, <1>5, Zenon DEF shellVars
    <2> QED
      BY <1>1, <1>5, <2>1, SameTabs, Zenon
  <1>6. CASE runFixArchiveBit /\ UNCHANGED installVars
    <2>1. Screen(a, installing, catalogue, outcome) /\ app' = a /\ start("archive")
      BY <1>3, <1>4, <1>6, Zenon DEF runFixArchiveBit
    <2>2. \A t \in Tabs : running(t)' => running(t)
      BY <1>1, <2>1, OwnJobs, OnlyStartStarts, Zenon
    <2> QED
      BY <1>5, <1>6, <2>1, <2>2, Zenon
  <1>7. ASSUME NEW cb \in Writes, Due(cb), NEW v, app' = pushView(a, v),
               Welcome(a, v, installing, catalogue, outcome), UNCHANGED job, UNCHANGED installVars
        PROVE  ScreenKept
    <2>1. Screen(a, installing, catalogue, outcome)
      BY <1>3, <1>7, Zenon
    <2>2. Screen(app', installing, catalogue, outcome)
      BY <1>7, <2>1, PushScreen, Zenon
    <2>3. \A t \in Tabs : running(t)' => running(t)
      BY <1>7, Zenon DEF running
    <2> QED
      BY <1>5, <1>7, <2>2, <2>3, Zenon
  <1>8. CASE runPurgeStaging /\ UNCHANGED installVars
    <2>1. Welcome(a, Report("purge"), installing, catalogue, outcome)
      BY <1>4, NoticeWelcome, Zenon
    <2> QED
      BY <1>4, <1>7, <1>8, <2>1, Zenon DEF runPurgeStaging
  <1>9. CASE RebootFails /\ UNCHANGED installVars
    <2>1. Welcome(a, Report("reboot"), installing, catalogue, outcome)
      BY <1>4, NoticeWelcome, Zenon
    <2> QED
      BY <1>4, <1>7, <1>9, <2>1, ZenonT(30) DEF RebootFails
  <1>10. CASE ListPayloads /\ UNCHANGED installVars
    <2>1. /\ \A t \in Tabs : ~installing[t]
          /\ ~Leaked(a) => \A l \in 1 .. Len(Foci(a)) : Foci(a)[l] # Daybreak
      BY <1>1, <1>4, <1>10, WritesDue, Zenon DEF ListPayloads
    <2>2. Choice \in View /\ Choice \notin {Root, Splash, None} /\ Choice # Daybreak
      <3>1. Choice \in View /\ Choice \in Asks
        BY Zenon DEF View, Asks
      <3> QED
        BY <3>1, Differ, Zenon
    <2>3. \A t \in Tabs : Choice # Confirm(t)
      BY Differ, Zenon
    <2>4. Welcome(a, Choice, installing, catalogue, outcome)
      BY <2>1, <2>2, <2>3, Zenon DEF Welcome
    <2> QED
      BY <1>4, <1>7, <1>10, <2>4, Zenon DEF ListPayloads
  <1> QED
    BY <1>2, <1>6, <1>8, <1>9, <1>10, StartKept, Zenon DEF CallBack

\* The shell's own callbacks, the splash screen, and the ends of tweens.
LEMMA ShellKept ==
    ASSUME Counting, ShellTypeOK, ScreenInv, Loop,
           \/ Animate \/ SplashDone \/ AnnounceUpdate
           \/ Chainload("restart") \/ Chainload("daybreak") \/ Quit \/ Reboot
    PROVE  ScreenKept
  <1> DEFINE a == AtCallback
  <1>1. TabsInv /\ Screen(app, installing, catalogue, outcome)
    BY Zenon DEF ScreenInv
  <1>2. UNCHANGED <<job, installVars>>
    BY Zenon DEF Animate, SplashDone, AnnounceUpdate, Chainload, Quit, Reboot
  <1>3. \A t \in Tabs : running(t)' => running(t)
    BY <1>2, Zenon DEF running
  <1>4. ASSUME UNCHANGED chainload, Screen(app', installing, catalogue, outcome)
        PROVE  ScreenKept
    <2>1. UNCHANGED <<installVars, chainload>>
      BY <1>2, <1>4, Zenon
    <2> QED
      BY <1>1, <1>3, <1>4, <2>1, SameTabs, Zenon
  <1>5. CASE Animate
    <2>1. UNCHANGED chainload /\ Settle
      BY <1>5, Zenon DEF Animate, shellVars
    <2> QED
      BY <1>1, <1>4, <2>1, SettleScreen, Zenon
  <1>6. CASE SplashDone
    <2>1. /\ splash \in {"current", "offer"} /\ splash # "left"
          /\ app' = popView(app, splash) /\ UNCHANGED chainload
      BY <1>6 DEF SplashDone
    <2>2. \A t \in Tabs : ~installing[t]
      BY <2>1, Zenon DEF ScreenInv, SplashInv
    <2>3. splash \in Callback /\ splash \notin Writes /\ splash # "unblock"
      <3>1. "current" # "unblock" /\ "offer" # "unblock"
        OBVIOUS
      <3>2. {"none", "unblock", "current", "offer", "restart"} \cap Writes = {}
        BY Differ, Zenon
      <3>3. splash \in Callback
        BY <2>1, Zenon DEF Callback
      <3> QED
        BY <2>1, <3>1, <3>2, <3>3, Zenon
    <2>4. Screen(app', installing, catalogue, outcome)
      BY <1>1, <2>1, <2>2, <2>3, QuietPop, Zenon
    <2> QED
      BY <1>4, <2>1, <2>4, Zenon
  <1>7. CASE AnnounceUpdate
    <2>1. PICK cb \in {"current", "offer"} : Due(cb)
      BY <1>7, Zenon DEF AnnounceUpdate
    <2>2. cb # "unblock"
      BY <2>1
    <2>3. Screen(a, installing, catalogue, outcome)
      BY <1>1, <2>1, <2>2, CallbackScreen, Zenon
    <2>4. Screen(pushView(a, Startup), installing, catalogue, outcome)
      <3>1. Welcome(a, Startup, installing, catalogue, outcome)
        BY NoticeWelcome, Zenon
      <3> QED
        BY <2>3, <3>1, PushScreen, Zenon
    <2>5. UNCHANGED chainload /\ app' \in {a, pushView(a, Startup)}
      BY <1>7, Zenon DEF AnnounceUpdate, shellVars
    <2> QED
      BY <1>4, <2>3, <2>4, <2>5, Zenon
  <1>8. CASE Quit
    BY <1>1, <1>4, <1>8, Zenon DEF Quit
  <1>9. CASE Reboot
    <2>1. PICK cb \in {"reboot", "payload"} : Due(cb)
      BY <1>9, Zenon DEF Reboot
    <2>2. cb # "unblock"
      BY <2>1
    <2>3. UNCHANGED chainload /\ app' = a
      BY <1>9, Zenon DEF Reboot
    <2> QED
      BY <1>1, <1>4, <2>1, <2>2, <2>3, CallbackScreen, Zenon
  <1>10. ASSUME NEW by \in {"restart", "daybreak"}, Chainload(by)
         PROVE  ScreenKept
    <2>1. Due(by) /\ app' = a /\ chainload' = by /\ ui' = "quit"
      BY <1>10, Zenon DEF Chainload
    <2>2. by # "unblock" /\ "restart" # "daybreak" /\ "quit" # "loop"
      BY <1>10
    <2>3. Screen(a, installing, catalogue, outcome)
      BY <1>1, <2>1, <2>2, CallbackScreen, Zenon
    <2>4. by = "daybreak" => Unpacked(installing, outcome)
      <3>1. "daybreak" \in Writes
        BY Differ, Zenon
      <3> QED
        BY <1>1, <2>1, <3>1, WritesDue, Zenon
    <2>5. UNCHANGED <<catalogue, installing, outcome, progress>>
      BY <1>2, Zenon DEF installVars
    <2>6. TabsInv'
      BY <1>1, <1>3, <2>1, <2>2, <2>4, <2>5, Zenon DEF TabsInv, Loop
    <2> QED
      BY <2>1, <2>3, <2>5, <2>6, Zenon DEF ScreenKept
  <1> QED
    BY <1>5, <1>6, <1>7, <1>8, <1>9, <1>10, Zenon

\* The poller of an install tab takes down the progress dialog, with whatever
\* stands in for it on top of the stack, and announces the outcome.
LEMMA InstallPollKept ==
    ASSUME Counting, ShellTypeOK, ScreenInv, Loop, NEW t \in Tabs, InstallPoll(t),
           UNCHANGED shellVars
    PROVE  ScreenKept
  <1>1. /\ TabsInv /\ Screen(app, installing, catalogue, outcome) /\ JobsOK
        /\ installing \in [Tabs -> BOOLEAN] /\ progress = installing /\ chainload = "none"
        /\ catalogue \in [Tabs -> {"none", "fetched", "listed", "unavailable"}]
    BY Zenon DEF ScreenInv, ShellTypeOK, JobsOK, InstallTypeOK, TabsInv
  <1>2. /\ ~running(t) /\ takeFinished(t)
        /\ progress' = [progress EXCEPT ![t] = FALSE]
        /\ installing' = [installing EXCEPT ![t] = FALSE]
        /\ catalogue' = [catalogue EXCEPT ![t] = IF @ = "fetched" THEN "listed" ELSE @]
        /\ UNCHANGED <<outcome, chainload>>
    BY Zenon DEF InstallPoll, takeFinished, shellVars
  <1>3. /\ ~installing'[t] /\ \A u \in Tabs : u # t => installing'[u] = installing[u]
        /\ \A u \in Tabs : u # t => catalogue'[u] = catalogue[u]
        /\ catalogue[t] = "listed" => catalogue'[t] = "listed"
    <2>1. /\ ~installing'[t] /\ \A u \in Tabs : u # t => installing'[u] = installing[u]
      BY <1>1, <1>2, Zenon
    <2>2. \A u \in Tabs : u # t => catalogue'[u] = catalogue[u]
      BY <1>1, <1>2, Zenon
    <2>3. catalogue'[t] = IF catalogue[t] = "fetched" THEN "listed" ELSE catalogue[t]
      BY <1>1, <1>2, Zenon
    <2> QED
      BY <2>1, <2>2, <2>3, Zenon
  <1>4. \A u \in Tabs : running(u)' => running(u)
    BY <1>1, <1>2, OwnJobs, OnlyStartStarts, Zenon
  <1>5. TabsInv'
    <2>1. installing' = progress'
      BY <1>1, <1>2, Zenon
    <2>2. chainload' = "none" /\ "none" # "daybreak"
      BY <1>1, <1>2
    <2>3. \A u \in Tabs : catalogue'[u] = "listed" /\ running(u)' => installing'[u]
      BY <1>1, <1>2, <1>3, <1>4, Zenon DEF TabsInv
    <2>4. \A u, w \in Tabs : installing'[u] /\ installing'[w] => u = w
      BY <1>1, <1>3, Zenon DEF TabsInv
    <2> QED
      BY <2>1, <2>2, <2>3, <2>4, Zenon DEF TabsInv
  <1>6. Screen(app, installing', catalogue', outcome)
    <2>1. Unpacked(installing, outcome) => Unpacked(installing', outcome)
      BY <1>3, Zenon DEF Unpacked
    <2>2. /\ \A u \in Tabs : installing'[u] => installing[u]
          /\ \A u \in Tabs : catalogue[u] = "listed" => catalogue'[u] = "listed"
      BY <1>3, Zenon
    <2> QED
      BY <1>1, <2>1, <2>2, ScreenStays, Zenon
  <1>7. CASE ~installing[t]
    <2>1. app' = app
      BY <1>1, <1>7, Zenon DEF InstallPoll
    <2> QED
      BY <1>2, <1>5, <1>6, <2>1, Zenon DEF ScreenKept
  <1>8. CASE installing[t]
    <2> DEFINE b == popView(app, "none")
    <2>1. \A u \in Tabs : ~installing'[u]
      BY <1>1, <1>3, <1>8, Zenon DEF TabsInv
    <2>2. "none" \in Callback /\ "none" \notin Writes /\ "none" # "unblock"
      <3>1. {"none", "unblock", "current", "offer", "restart"} \cap Writes = {}
        BY Differ, Zenon
      <3>2. "none" \in Callback
        BY Zenon DEF Callback
      <3> QED
        BY <3>1, <3>2
    <2>3. Screen(b, installing', catalogue', outcome)
      BY <1>6, <2>1, <2>2, QuietPop, Zenon
    <2>4. /\ StackInv(app) /\ StackInv(b)
          /\ \A x \in Tweens(b) : x \in Tweens(app) \/ x.cb = "none"
          /\ Leaked(app) => Leaked(b)
          /\ ~Leaked(b) => Begins(Foci(b), Foci(app))
      BY <1>1, <2>2, AnyPop, Zenon DEF Screen
    <2>5. app' = Announced(b, t)
      BY <1>1, <1>8, Zenon DEF InstallPoll
    <2> HIDE DEF b
    <2>6. \A x \in Tweens(b) : x.cb \notin Writes
      BY <1>1, <1>8, <2>2, <2>4, Zenon DEF Screen, Pending
    <2>7. ASSUME ~Leaked(b), NEW l \in 1 .. Len(Foci(b))
          PROVE  Foci(b)[l] # Daybreak
      <3>1. Reached(app, installing, catalogue, outcome)
        BY <1>1, <2>4, <2>7, ZenonT(30) DEF Screen
      <3>2. l \in 1 .. Len(Foci(app)) /\ Foci(b)[l] = Foci(app)[l]
        BY <2>4, <2>7, WithinBeginning, Zenon
      <3> QED
        BY <1>8, <3>1, <3>2, Zenon DEF Reached
    <2>8. \/ Announced(b, t) = b
          \/ Announced(b, t) = pushView(b, Result(t))
          \/ /\ Announced(b, t) = pushView(b, Daybreak)
             /\ outcome[t] = "Done" /\ t = "firmware"
      BY Zenon DEF Announced
    <2>9. Screen(pushView(b, Result(t)), installing', catalogue', outcome)
      <3>1. Result(t) \in View
        BY Zenon DEF View
      <3>2. Result(t) \notin {Root, Splash, None}
        BY DEF Result, Root, Splash, None
      <3>3. Result(t) \notin Asks /\ Daybreak \in Asks /\ \A u \in Tabs : Confirm(u) \in Asks
        <4>1. Result(t) \notin Asks
          BY Differ, Zenon
        <4> QED
          BY <4>1, Zenon DEF Asks
      <3>4. Welcome(b, Result(t), installing', catalogue', outcome)
        BY <2>1, <3>1, <3>2, <3>3, Zenon DEF Welcome
      <3> QED
        BY <2>3, <3>4, PushScreen, Zenon
    <2>10. ASSUME outcome[t] = "Done", t = "firmware"
           PROVE  Screen(pushView(b, Daybreak), installing', catalogue', outcome)
      <3>1. Daybreak \in View /\ Daybreak \in Asks
        BY Zenon DEF View, Asks
      <3>2. Daybreak \notin {Root, Splash, None} /\ \A u \in Tabs : Daybreak # Confirm(u)
        BY <3>1, Differ, Zenon
      <3>3. Unpacked(installing', outcome)
        BY <1>3, <2>10, Zenon DEF Unpacked
      <3>4. Welcome(b, Daybreak, installing', catalogue', outcome)
        BY <2>1, <2>6, <2>7, <3>1, <3>2, <3>3, Zenon DEF Welcome
      <3> QED
        BY <2>3, <3>4, PushScreen, Zenon
    <2>11. Screen(app', installing', catalogue', outcome)
      BY <2>3, <2>5, <2>8, <2>9, <2>10, Zenon
    <2> QED
      BY <1>2, <1>5, <2>11, Zenon DEF ScreenKept
  <1> QED
    BY <1>7, <1>8, Zenon

\* The pollers.
LEMMA PollKept ==
    ASSUME Counting, ShellTypeOK, ScreenInv, NEW j \in Jobs, Poll(j)
    PROVE  ScreenKept
  <1>1. /\ TabsInv /\ Screen(app, installing, catalogue, outcome) /\ JobsOK /\ Loop
        /\ UNCHANGED shellVars
    BY Zenon DEF ScreenInv, ShellTypeOK, JobsOK, Poll
  <1>2. ASSUME NEW k \in Jobs, takeFinished(k), UNCHANGED installVars,
               NEW v \in {Startup, Restart} \cup {Report(tool) : tool \in Tool},
               app' \in {app, pushView(app, v)}
        PROVE  ScreenKept
    <2>1. Screen(pushView(app, v), installing, catalogue, outcome)
      BY <1>1, NoticeWelcome, PushScreen, Zenon
    <2>2. Screen(app', installing, catalogue, outcome)
      BY <1>1, <1>2, <2>1, Zenon
    <2>3. \A t \in Tabs : running(t)' => running(t)
      BY <1>1, <1>2, OwnJobs, OnlyStartStarts, Zenon
    <2>4. UNCHANGED <<installVars, chainload>> /\ (Loop' => Loop)
      BY <1>1, <1>2, Zenon DEF shellVars
    <2> QED
      BY <1>1, <2>2, <2>3, <2>4, SameTabs, Zenon
  <1>3. CASE j = "update" /\ UpdatePoll /\ UNCHANGED installVars
    <2>1. app' \in {app, pushView(app, Restart)} /\ takeFinished("update")
      BY <1>3, Zenon DEF UpdatePoll, onCheckFinished, onInstallFinished
    <2> QED
      BY <1>2, <1>3, <2>1, Zenon
  <1>4. CASE j = "archive" /\ ArchivePoll /\ UNCHANGED installVars
    <2>1. app' \in {app, pushView(app, Report("archive"))} /\ takeFinished("archive")
      BY <1>4, Zenon DEF ArchivePoll
    <2>2. "archive" \in Tool
      BY Zenon DEF Tool
    <2> QED
      BY <1>2, <1>4, <2>1, <2>2, Zenon
  <1> QED
    BY <1>1, <1>3, <1>4, InstallPollKept, Zenon DEF Poll

\* What a step keeps that the main loop does not take.
Outside ==
    /\ TabsInv' /\ app'.anims \in Seq(Tween)
    /\ Pending(app', installing', catalogue', outcome')
    /\ Loop' => Screen(app', installing', catalogue', outcome')

\* A step of a worker on another job, or of no job.
LEMMA ElsewhereKept ==
    ASSUME ScreenInv, Loop' => Loop, UNCHANGED <<app, installVars, chainload>>,
           \A t \in Tabs : running(t)' => running(t)
    PROVE  Outside
  <1>1. UNCHANGED <<app, catalogue, installing, outcome, progress, chainload>>
    BY Zenon DEF installVars
  <1>2. TabsInv'
    BY <1>1, Zenon DEF TabsInv, ScreenInv
  <1> QED
    BY <1>1, <1>2, Zenon DEF Outside, ScreenInv

\* The worker of an install tab stores what it found or did.
LEMMA InstallWorkKept ==
    ASSUME ShellTypeOK, ScreenInv, NEW t \in Tabs, InstallWork(t), UNCHANGED shellVars
    PROVE  Outside
  <1>1. /\ TabsInv /\ Pending(app, installing, catalogue, outcome) /\ JobsOK
        /\ app.anims \in Seq(Tween)
        /\ Loop => Screen(app, installing, catalogue, outcome)
        /\ catalogue \in [Tabs -> {"none", "fetched", "listed", "unavailable"}]
        /\ outcome \in [Tabs -> Outcome]
    BY Zenon DEF ScreenInv, ShellTypeOK, JobsOK, InstallTypeOK
  <1>2. /\ Returned(t) /\ UNCHANGED <<installing, progress, app, chainload>> /\ (Loop' <=> Loop)
    BY Zenon DEF InstallWork, shellVars, Loop
  <1>3. running(t)
    BY <1>1, <1>2, OwnJobs, Zenon DEF Returned, JobsOK
  <1>4. \A u \in Tabs : running(u)' => running(u)
    BY <1>1, <1>2, OwnJobs, OnlyStartStarts, Zenon
  <1>5. CASE installing[t]
    <2>1. UNCHANGED catalogue /\ \A u \in Tabs : u # t => outcome'[u] = outcome[u]
      BY <1>1, <1>5, Zenon DEF InstallWork
    <2>2. Unpacked(installing, outcome) => Unpacked(installing', outcome')
      BY <1>2, <1>5, <2>1, Zenon DEF Unpacked
    <2>3. TabsInv'
      BY <1>1, <1>2, <1>4, <2>1, <2>2, Zenon DEF TabsInv
    <2>4. /\ Pending(app, installing', catalogue', outcome')
          /\ Loop => Screen(app, installing', catalogue', outcome')
      BY <1>1, <1>2, <2>1, <2>2, ScreenStays, Zenon
    <2> QED
      BY <1>1, <1>2, <2>3, <2>4, Zenon DEF Outside
  <1>6. CASE ~installing[t]
    <2>1. /\ UNCHANGED outcome /\ catalogue[t] # "listed" /\ catalogue'[t] # "listed"
          /\ \A u \in Tabs : u # t => catalogue'[u] = catalogue[u]
      <3>1. PICK c \in {"fetched", "unavailable"} : catalogue' = [catalogue EXCEPT ![t] = c]
        BY <1>6, Zenon DEF InstallWork
      <3>2. catalogue'[t] = c /\ \A u \in Tabs : u # t => catalogue'[u] = catalogue[u]
        BY <1>1, <3>1, Zenon
      <3>3. c # "listed"
        BY <3>1
      <3>4. UNCHANGED outcome /\ catalogue[t] # "listed"
        BY <1>1, <1>3, <1>6, Zenon DEF InstallWork, TabsInv
      <3> QED
        BY <3>2, <3>3, <3>4, Zenon
    <2>2. TabsInv'
      BY <1>1, <1>2, <1>4, <2>1, Zenon DEF TabsInv
    <2>3. /\ Pending(app, installing', catalogue', outcome')
          /\ Loop => Screen(app, installing', catalogue', outcome')
      BY <1>1, <1>2, <2>1, ScreenStays, Zenon
    <2> QED
      BY <1>1, <1>2, <2>2, <2>3, Zenon DEF Outside
  <1> QED
    BY <1>5, <1>6, Zenon

\* The workers.
LEMMA WorkKept ==
    ASSUME ShellTypeOK, ScreenInv, NEW j \in Jobs, Work(j)
    PROVE  Outside
  <1>1. JobsOK /\ UNCHANGED <<shellVars, chainload>> /\ (Loop' => Loop)
    BY Zenon DEF ShellTypeOK, JobsOK, Work, shellVars, Loop
  <1>2. CASE j \in Tabs /\ InstallWork(j)
    BY <1>1, <1>2, InstallWorkKept, Zenon
  <1>3. CASE /\ Returned(j) \/ StoreRunning(j) \/ StoreFinished(j)
             /\ UNCHANGED <<app, installVars>>
    <2>1. \A t \in Tabs : running(t)' => running(t)
      BY <1>1, <1>3, OwnJobs, OnlyStartStarts, Zenon
    <2> QED
      BY <1>1, <1>3, <2>1, ElsewhereKept, Zenon
  <1> QED
    BY <1>2, <1>3, Zenon DEF Work, UpdateWork, ArchiveWork

\* The steps at the end, and those of no tab.
LEMMA EndKept ==
    ASSUME ShellTypeOK, ScreenInv, SplashWork \/ CloseTab \/ Exit \/ Crash \/ UNCHANGED vars
    PROVE  Outside
  <1>1. CASE SplashWork \/ Exit \/ Crash \/ UNCHANGED vars
    <2>1. UNCHANGED <<app, job, installVars, chainload>>
      BY <1>1, Zenon DEF SplashWork, Exit, Crash, vars, shellVars
    <2>2. Loop' => Loop
      <3>1. "gone" # "loop" /\ "crashed" # "loop"
        OBVIOUS
      <3> QED
        BY <1>1, <3>1, Zenon DEF SplashWork, Exit, Crash, vars, shellVars, Loop
    <2>3. \A t \in Tabs : running(t)' => running(t)
      BY <2>1, Zenon DEF running
    <2> QED
      BY <2>1, <2>2, <2>3, ElsewhereKept, Zenon
  <1>2. CASE CloseTab
    <2>1. /\ ~Loop' /\ app' = EmptyApp
          /\ UNCHANGED <<catalogue, installing, outcome, progress, chainload>>
          /\ requestCancel(LiveTabs[closing + 1])
      <3>1. "join" # "loop"
        OBVIOUS
      <3> QED
        BY <1>2, <3>1, Zenon DEF CloseTab, Loop, installVars
    <2>2. LiveTabs[closing + 1] \in Jobs /\ JobsOK
      <3>1. closing + 1 \in 1 .. Len(LiveTabs)
        BY <1>2, LiveTabsAreJobs DEF CloseTab, ShellTypeOK
      <3> QED
        BY <3>1, LiveTabsAreJobs, Zenon DEF ShellTypeOK, JobsOK
    <2>3. \A t \in Tabs : running(t)' => running(t)
      BY <2>1, <2>2, OwnJobs, OnlyStartStarts, Zenon
    <2>4. TabsInv'
      BY <2>1, <2>3, Zenon DEF TabsInv, ScreenInv
    <2>5. Tweens(EmptyApp) = {} /\ EmptyApp.anims \in Seq(Tween)
      <3>1. Len(EmptyApp.anims) = 0 /\ EmptyApp.anims \in Seq(Tween)
        BY DEF EmptyApp
      <3> QED
        BY <3>1 DEF Tweens
    <2>6. Pending(EmptyApp, installing', catalogue', outcome')
      BY <2>5, Zenon DEF Pending
    <2> QED
      BY <2>1, <2>4, <2>5, <2>6, Zenon DEF Outside
  <1> QED
    BY <1>1, <1>2, Zenon

\* Every step keeps the invariant of the screen.
LEMMA StepKeepsScreen ==
    ASSUME Counting, ShellTypeOK, ScreenInv, [Next]_vars
    PROVE  ScreenInv'
  <1>2. ScreenKept \/ Outside
    <2>1. CASE UserInterface
      BY <2>1, ClickKept, AnswerKept, CallBackKept, ShellKept, Zenon DEF UserInterface
    <2> QED
      BY <2>1, PollKept, WorkKept, EndKept, Zenon DEF Next
  <1>3. SplashInv'
    <2>1. CASE UNCHANGED vars
      <3>1. UNCHANGED <<ui, splash, app, installing, updating, job>>
        BY <2>1, Zenon DEF vars, shellVars, installVars, updateVars
      <3> QED
        BY <3>1, Zenon DEF SplashInv, ScreenInv, Loop
    <2> QED
      BY <2>1, StepKeepsSplash, ZenonT(30)
  <1>4. /\ TabsInv' /\ app'.anims \in Seq(Tween)
        /\ Pending(app', installing', catalogue', outcome')
        /\ Loop' => Screen(app', installing', catalogue', outcome')
    BY <1>2, TweensTyped, Zenon DEF ScreenKept, Outside, Screen, StackInv, Sane
  <1> QED
    BY <1>3, <1>4, Zenon DEF ScreenInv

\* The parts of the stack after pushView, for any view.
LEMMA PushParts ==
    ASSUME NEW a \in AppRecord, OneTweenEach(a), NEW v \in View
    PROVE  LET b == pushView(a, v)
           IN /\ b \in AppRecord /\ OneTweenEach(b)
              /\ Tweens(b) = {z \in Tweens(a) : z.view # v} \cup {ShowOf(v, "unblock")}
              /\ b.tokens = a.tokens + 1 /\ b.stack = Append(a.stack, v)
              /\ b.focus = IF v = Splash THEN None ELSE v
              /\ b.focusStack = IF a.stack # <<>> /\ a.focus # None
                                 THEN Append(a.focusStack, a.focus) ELSE a.focusStack
  <1> DEFINE c == show(a, v, "unblock")
             b == pushView(a, v)
             x == ShowOf(v, "unblock")
             f == IF v = Splash THEN None ELSE v
             fs == IF a.stack # <<>> /\ a.focus # None THEN Append(a.focusStack, a.focus)
                   ELSE a.focusStack
  <1>0. "unblock" \in Callback /\ None \in View
    BY Zenon DEF Callback, View
  <1>1. /\ c \in AppRecord /\ Replaces(a, c, x)
        /\ c.stack = a.stack /\ c.tokens = a.tokens
        /\ c.focus = a.focus /\ c.focusStack = a.focusStack
    BY <1>0, ShowReplaces, Zenon
  <1>2. /\ a.stack \in Seq(View) /\ a.tokens \in Nat /\ a.focus \in View
        /\ a.focusStack \in Seq(View)
        /\ c.anims \in Seq(Tween)
    BY <1>1, TweensTyped, Zenon
  <1>3. /\ fs \in Seq(View) /\ Append(a.stack, v) \in Seq(View) /\ f \in View
        /\ a.tokens + 1 \in Nat
    BY <1>0, <1>2
  <1>4. c.freed \ {v} \in SUBSET View
    BY <1>1 DEF AppRecord
  <1>5. b = [c EXCEPT !.tokens = a.tokens + 1, !.focusStack = fs, !.focus = f,
                      !.freed = c.freed \ {v}, !.stack = Append(a.stack, v)]
    BY <1>1, Zenon DEF pushView
  <1>6. x.view = v
    BY DEF ShowOf
  <1> HIDE DEF b, c, x, f, fs
  <1>7. /\ b \in AppRecord /\ b.anims = c.anims /\ b.tokens = a.tokens + 1
        /\ b.stack = Append(a.stack, v) /\ b.focus = f /\ b.focusStack = fs
    BY <1>1, <1>3, <1>4, <1>5, Zenon DEF AppRecord
  <1>8. Tweens(b) = Tweens(c) /\ (OneTweenEach(c) => OneTweenEach(b))
    BY <1>7, Zenon DEF OneTweenEach, Tweens
  <1> QED
    BY <1>1, <1>6, <1>7, <1>8, Zenon DEF Replaces, b, x, f, fs

\* runShell pushes the root view and the splash screen.
LEMMA FirstScreen ==
    ASSUME Counting
    PROVE  LET a == pushView(pushView(EmptyApp, Root), Splash)
           IN /\ StackInv(a) /\ ~Leaked(a) /\ a.focus = None
              /\ \A x \in Tweens(a) : x.cb = "unblock"
              /\ \A l \in 1 .. Len(Foci(a)) : Foci(a)[l] = Root
  <1> DEFINE b == pushView(EmptyApp, Root)
             a == pushView(b, Splash)
             x == ShowOf(Root, "unblock")
             y == ShowOf(Splash, "unblock")
  <1>0. /\ Root # None /\ Splash # None /\ Root # Splash
        /\ Root \in View /\ Splash \in View /\ None \in View /\ "unblock" \in Callback
    <2>1. Root # None /\ Splash # None /\ Root # Splash
      BY DEF Root, Splash, None
    <2> QED
      BY <2>1, Zenon DEF View, Callback
  <1>1. /\ EmptyApp \in AppRecord /\ OneTweenEach(EmptyApp) /\ Tweens(EmptyApp) = {}
        /\ EmptyApp.stack = <<>> /\ EmptyApp.focusStack = <<>> /\ EmptyApp.tokens = 0
    <2>1. EmptyApp \in AppRecord /\ EmptyApp.anims = <<>>
      BY <1>0 DEF EmptyApp, AppRecord
    <2>2. 1 .. Len(EmptyApp.anims) = {}
      BY <2>1
    <2>3. OneTweenEach(EmptyApp) /\ Tweens(EmptyApp) = {}
      BY <2>2, Zenon DEF OneTweenEach, Tweens
    <2>4. EmptyApp.stack = <<>> /\ EmptyApp.focusStack = <<>> /\ EmptyApp.tokens = 0
      BY DEF EmptyApp
    <2> QED
      BY <2>1, <2>3, <2>4, Zenon
  <1>2. /\ b \in AppRecord /\ OneTweenEach(b)
        /\ Tweens(b) = {z \in Tweens(EmptyApp) : z.view # Root} \cup {x}
        /\ b.tokens = EmptyApp.tokens + 1 /\ b.stack = Append(EmptyApp.stack, Root)
        /\ b.focus = Root /\ b.focusStack = EmptyApp.focusStack
    BY <1>0, <1>1, PushParts, Zenon
  <1>3. /\ x \in Tween /\ x.view = Root /\ x.kind = "show" /\ x.cb = "unblock"
        /\ y \in Tween /\ y.view = Splash /\ y.kind = "show" /\ y.cb = "unblock"
    BY <1>0, TweenParts DEF ShowOf
  <1> HIDE DEF b, x, y
  <1>4. Tweens(b) = {x} /\ b.tokens = 1 /\ b.stack = <<Root>> /\ b.stack # <<>>
    <2>1. Tweens(b) = {x}
      BY <1>1, <1>2, Zenon
    <2> QED
      BY <1>1, <1>2, <2>1
  <1>5. /\ a \in AppRecord /\ OneTweenEach(a)
        /\ Tweens(a) = {z \in Tweens(b) : z.view # Splash} \cup {y}
        /\ a.tokens = b.tokens + 1 /\ a.stack = Append(b.stack, Splash)
        /\ a.focus = None /\ a.focusStack = Append(b.focusStack, b.focus)
    <2>1. b.stack # <<>> /\ b.focus # None
      BY <1>0, <1>2, <1>4, Zenon
    <2>2. /\ a.focus = IF Splash = Splash THEN None ELSE Splash
          /\ a.focusStack = IF b.stack # <<>> /\ b.focus # None
                             THEN Append(b.focusStack, b.focus) ELSE b.focusStack
      BY <1>0, <1>2, PushParts, Zenon
    <2>3. /\ a \in AppRecord /\ OneTweenEach(a)
          /\ Tweens(a) = {z \in Tweens(b) : z.view # Splash} \cup {y}
          /\ a.tokens = b.tokens + 1 /\ a.stack = Append(b.stack, Splash)
      BY <1>0, <1>2, PushParts, Zenon DEF y
    <2> QED
      BY <2>1, <2>2, <2>3, Zenon
  <1> HIDE DEF a
  <1>6. /\ Tweens(a) = {x, y} /\ a.tokens = 2 /\ a.stack = Append(<<Root>>, Splash)
        /\ a.focusStack = <<Root>>
    <2>1. Tweens(a) = {x, y}
      BY <1>0, <1>3, <1>4, <1>5, Zenon
    <2>2. b.focusStack = <<>>
      BY <1>1, <1>2, Zenon
    <2>3. 1 + 1 = 2 /\ Append(<<>>, Root) = <<Root>>
      BY <1>0
    <2> QED
      BY <1>2, <1>4, <1>5, <2>1, <2>2, <2>3, Zenon
  <1>7. \A z \in Tweens(a) : z.cb = "unblock" /\ z.kind = "show" /\ ~Leaves(z) /\ Blocks(z)
    BY <1>3, <1>6, Zenon DEF Leaves, Blocks
  <1>8. Blocking(a) = {Root} \cup {Splash}
    BY <1>3, <1>6, <1>7, Zenon DEF Blocking
  <1>9. IsFiniteSet(Blocking(a)) /\ Cardinality(Blocking(a)) = 2
    <2>1. {} \cup {Root} = {Root} /\ Root \notin {} /\ Splash \notin {Root}
      BY <1>0, Zenon
    <2>2. IsFiniteSet({Root}) /\ Cardinality({Root}) = 0 + 1
      <3>1. IsFiniteSet({} \cup {Root}) /\ Cardinality({} \cup {Root}) = Cardinality({}) + 1
        BY <2>1, Zenon DEF Counting
      <3> QED
        BY <2>1, <3>1, Zenon DEF Counting
    <2>3. IsFiniteSet({Root} \cup {Splash}) /\ Cardinality({Root} \cup {Splash}) = (0 + 1) + 1
      <3>1. /\ IsFiniteSet({Root} \cup {Splash})
            /\ Cardinality({Root} \cup {Splash}) = Cardinality({Root}) + 1
        BY <2>1, <2>2, Zenon DEF Counting
      <3> QED
        BY <2>2, <3>1, Zenon
    <2>4. (0 + 1) + 1 = 2
      OBVIOUS
    <2> QED
      BY <1>8, <2>3, <2>4, Zenon
  <1>10. ~Leaked(a)
    BY <1>6, <1>9 DEF Leaked
  <1>11. "show" # "hide"
    OBVIOUS
  <1>12. Sane(a)
    <2>1. Cardinality(Blocking(a)) <= a.tokens
      BY <1>6, <1>9
    <2> QED
      BY <1>5, <1>7, <1>9, <1>11, <2>1, Zenon DEF Sane
  <1>13. Foci(a) = <<Root>>
    BY <1>5, <1>6, Zenon DEF Foci
  <1>14. \A l \in 1 .. Len(Foci(a)) : Foci(a)[l] = Root
    BY <1>13
  <1>15. Calm(a)
    <2>1. Rooted(a.stack) /\ Rooted(Foci(a))
      <3>1. Rooted(Append(<<Root>>, Splash))
        BY <1>0 DEF Rooted
      <3>2. Rooted(<<Root>>)
        BY DEF Rooted
      <3> QED
        BY <1>6, <1>13, <3>1, <3>2, Zenon
    <2>2. \A i \in 1 .. Len(a.focusStack) : a.focusStack[i] # None
      BY <1>0, <1>6
    <2>3. Hiding(a) = 0
      BY <1>7, <1>11, Zenon DEF Hiding
    <2>4. Len(a.stack) > 0
      BY <1>0, <1>6
    <2>5. Orderly(a)
      BY <1>7, Zenon DEF Orderly
    <2> QED
      BY <1>7, <1>10, <1>11, <2>1, <2>2, <2>3, <2>4, <2>5, Zenon DEF Calm
  <1> QED
    BY <1>5, <1>7, <1>10, <1>12, <1>14, <1>15, Zenon DEF StackInv, a, b

\* The invariant holds when the window opens.
LEMMA InitScreen ==
    ASSUME Counting, Init
    PROVE  ScreenInv
  <1>1. /\ installing = [t \in Tabs |-> FALSE] /\ progress = [t \in Tabs |-> FALSE]
        /\ catalogue = [t \in Tabs |-> "none"] /\ chainload = "none" /\ ~updating
        /\ job = [j \in Jobs |-> IF j \in Tabs THEN Started ELSE Idle]
    BY Zenon DEF Init, InstallInit, UpdateInit
  <1>2. /\ StackInv(app) /\ ~Leaked(app) /\ app.focus = None
        /\ \A x \in Tweens(app) : x.cb = "unblock"
        /\ \A l \in 1 .. Len(Foci(app)) : Foci(app)[l] = Root
    BY FirstScreen, Zenon DEF Init
  <1>3. \A t \in Tabs : ~installing[t]
    BY <1>1, Zenon
  <1>4. TabsInv
    <2>1. "none" # "listed" /\ "none" # "daybreak"
      OBVIOUS
    <2>2. \A t \in Tabs : catalogue[t] = "none"
      BY <1>1, Zenon
    <2> QED
      BY <1>1, <1>3, <2>1, <2>2, Zenon DEF TabsInv
  <1>5. "unblock" \notin Writes /\ "daybreak" \in Writes /\ \A t \in Tabs : Installs(t) \in Writes
    BY Differ, Zenon
  <1>6. Pending(app, installing, catalogue, outcome)
    BY <1>2, <1>5, Zenon DEF Pending
  <1>7. Reached(app, installing, catalogue, outcome)
    <2>1. Root # Daybreak /\ \A t : Root # Confirm(t)
      BY DEF Root, Daybreak, Confirm
    <2> QED
      BY <1>2, <1>3, <2>1, Zenon DEF Reached
  <1>8. SplashInv
    <2>1. job["archive"] = Idle
      BY <1>1, OwnJobs, Zenon
    <2>2. \A x \in Tweens(app) : ~Leaves(x)
      BY <1>2, Zenon DEF Leaves
    <2> QED
      BY <1>1, <1>2, <1>3, <2>1, <2>2, Zenon DEF SplashInv
  <1>9. app.anims \in Seq(Tween)
    BY <1>2, TweensTyped, Zenon DEF StackInv, Sane
  <1> QED
    BY <1>2, <1>4, <1>6, <1>7, <1>8, <1>9, Zenon DEF ScreenInv, Screen


\* The half of ChainloadIsReady that is about the install tabs: Daybreak is only
\* started with a firmware unpacked.
DaybreakIsReady == chainload = "daybreak" => outcome["firmware"] = "Done"

\* An install that runs has its flag set.
LEMMA ScreenSeparates ==
    ASSUME ScreenInv
    PROVE  OneInstaller /\ NoToolUnderInstall /\ DaybreakIsReady
  <1>1. TabsInv /\ app.anims \in Seq(Tween) /\ Pending(app, installing, catalogue, outcome)
    BY Zenon DEF ScreenInv
  <1>2. OneInstaller
    BY <1>1, Zenon DEF OneInstaller, InstallRuns, TabsInv
  <1>3. NoToolUnderInstall
    <2>1. DOMAIN app.anims = 1 .. Len(app.anims)
      BY <1>1
    <2>2. {"purge", "reboot", "payload"} \subseteq Writes
      BY Zenon DEF Writes, Tool
    <2> QED
      BY <1>1, <2>1, <2>2, ZenonT(30) DEF NoToolUnderInstall, InstallRuns, Pending, Tweens
  <1>4. DaybreakIsReady
    BY <1>1, Zenon DEF DaybreakIsReady, TabsInv, Unpacked
  <1> QED
    BY <1>2, <1>3, <1>4, Zenon

\* Nobody but the worker touches what it writes: the tabs start a job only when
\* none runs, which for an install startInstall() itself does not look at.
LEMMA StepSharesNothing ==
    ASSUME Counting, ShellTypeOK, ScreenInv, Next
    PROVE  /\ job["update"].worker = "work" /\ job'["update"].worker = "work"
                => UNCHANGED <<check, stage>>
           /\ \A t \in Tabs : job[t].worker = "work" /\ job'[t].worker = "work"
                => UNCHANGED <<catalogue[t], outcome[t]>>
  <1>1. /\ JobsOK /\ TabsInv
        /\ Loop => Screen(app, installing, catalogue, outcome)
        /\ catalogue \in [Tabs -> {"none", "fetched", "listed", "unavailable"}]
        /\ outcome \in [Tabs -> Outcome]
    BY Zenon DEF ScreenInv, ShellTypeOK, JobsOK, InstallTypeOK
  <1>2. \A j \in Jobs : ~running(j) => job[j].worker # "work"
    BY <1>1, Zenon DEF JobsOK
  <1>3. \A j \in Jobs : Returned(j) => job'[j].worker # "work"
    <2>1. ASSUME NEW j \in Jobs, Returned(j)
          PROVE  job'[j].worker # "work"
      <3>1. job[j] \in JobRecord /\ job' = [job EXCEPT ![j].worker = "ran"] /\ j \in DOMAIN job
        BY <1>1, <2>1, Zenon DEF JobsOK, Returned
      <3>2. job'[j].worker = "ran"
        BY <3>1 DEF JobRecord
      <3> QED
        BY <3>2
    <2> QED
      BY <2>1, Zenon
  <1>4. ASSUME job["update"].worker = "work", job'["update"].worker = "work"
        PROVE  UNCHANGED <<check, stage>>
    <2>1. ~UpdateClick /\ ~UpdateWork
      BY <1>2, <1>3, <1>4, OwnJobs, Zenon
      DEF UpdateClick, startInstall, startCheck, UpdateWork
    <2> QED
      BY <2>1, Zenon
      DEF Next, UserInterface, Click, Answer, Dismiss, CallBack, Animate, SplashDone,
          AnnounceUpdate, Chainload, Quit, Reboot, Poll, UpdatePoll, Work, SplashWork, CloseTab,
          Exit, Crash, vars, updateVars, ClickRow, ClickTool, AcceptRestart
  <1>5. ASSUME NEW t \in Tabs, job[t].worker = "work", job'[t].worker = "work"
        PROVE  UNCHANGED <<catalogue[t], outcome[t]>>
    <2>1. running(t) /\ t \in Jobs
      BY <1>2, <1>5, OwnJobs, Zenon
    <2>2. ASSUME Loop, NEW u \in Tabs, startInstallOf(u)
          PROVE  UNCHANGED <<catalogue[t], outcome[t]>>
      <3>1. \A w \in Tabs : ~installing[w] /\ catalogue[u] = "listed"
        <4>1. Installs(u) \in Writes /\ Due(Installs(u))
          BY <2>2, Differ, Zenon DEF startInstallOf
        <4> QED
          BY <1>1, <2>2, <4>1, WritesDue, Zenon
      <3>2. u # t
        BY <1>1, <2>1, <3>1, Zenon DEF TabsInv
      <3> QED
        BY <1>1, <2>2, <3>2, Zenon DEF startInstallOf
    <2>3. ASSUME NEW u \in Tabs, InstallPoll(u)
          PROVE  UNCHANGED <<catalogue[t], outcome[t]>>
      <3>1. u # t
        BY <2>1, <2>3, Zenon DEF InstallPoll, takeFinished
      <3> QED
        BY <1>1, <2>3, <3>1, Zenon DEF InstallPoll
    <2>4. ASSUME NEW u \in Tabs, InstallWork(u)
          PROVE  UNCHANGED <<catalogue[t], outcome[t]>>
      <3>1. u # t
        BY <1>3, <1>5, <2>1, <2>4, Zenon DEF InstallWork
      <3> QED
        BY <1>1, <2>4, <3>1, Zenon DEF InstallWork
    <2>5. CASE UNCHANGED <<catalogue, outcome>>
      BY <2>5, Zenon
    <2> QED
      BY <2>2, <2>3, <2>4, <2>5, Zenon
      DEF Next, UserInterface, Click, Answer, Dismiss, CallBack, Animate, SplashDone,
          AnnounceUpdate, Chainload, Quit, Reboot, Poll, Work, SplashWork, CloseTab,
          Exit, Crash, vars, installVars, ClickRow, AcceptInstall, CancelInstall, LaunchDaybreak
  <1> QED
    BY <1>4, <1>5, Zenon

-----------------------------------------------------------------------------
(* The theorems. *)

INSTANCE FiniteSetTheorems

\* What is needed of the cardinality of finite sets.
LEMMA CountingHolds == Counting
  BY FS_EmptySet, FS_CardinalityType, FS_AddElement, FS_RemoveElement, Zenon DEF Counting

\* The invariant of the view stack and the tabs on it: as long as no tween was
\* lost that would have unblocked the inputs, the progress dialog of a running
\* install keeps the focus from every dialog that asks; once one was lost, no
\* button works any more.
THEOREM ScreenInvariant == Spec => []ScreenInv
  BY CountingHolds, ShellTypes, InitScreen, StepKeepsScreen, PTL DEF Spec

\* The two install tabs never install at the same time, although neither looks
\* at the other's job, however many jobs the user starts.
THEOREM OneInstallerAlways == Spec => []OneInstaller
  BY ScreenInvariant, ScreenSeparates, PTL

\* No purge and no reboot is under way while an install writes to the card.
THEOREM NoToolUnderInstallAlways == Spec => []NoToolUnderInstall
  BY ScreenInvariant, ScreenSeparates, PTL

\* Daybreak is only started with a firmware unpacked, although the outcome may
\* be reset while the dialog that offers it goes away.
THEOREM DaybreakIsReadyAlways == Spec => []DaybreakIsReady
  BY ScreenInvariant, ScreenSeparates, PTL

\* The UI thread does not touch what a worker writes while it is inside its job.
THEOREM OutcomesNotSharedAlways == Spec => OutcomesNotShared
  BY CountingHolds, ShellTypes, ScreenInvariant, StepSharesNothing, PTL
  DEF Spec, OutcomesNotShared
=============================================================================
