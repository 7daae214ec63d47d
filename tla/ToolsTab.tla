------------------------------- MODULE ToolsTab -------------------------------
(***************************************************************************)
(* The tools tab (ui/tabs/tools_tab.cpp): the archive-bit repair on a      *)
(* worker, the purge of the staging directory on the UI thread, and the    *)
(* reboot to a payload.  Each asks first.                                  *)
(***************************************************************************)
EXTENDS BackgroundJob, ViewStack

Tool == {"archive", "purge", "reboot"}
Ask(tool) == <<"ask", tool>>
Report(tool) == <<"report", tool>>
Choice == <<"choose", "reboot">>

\* A tool asks before it runs; the repair and the purge refuse while the
\* repair runs.
ClickTool(tool) ==
    /\ Pressed(Root)
    /\ tool # "reboot" => ~running("archive")
    /\ app' = pushView(app, Ask(tool))
    /\ UNCHANGED job

AcceptTool(tool) ==
    /\ Pressed(Ask(tool))
    /\ app' = popView(app, tool)
    /\ UNCHANGED job

runFixArchiveBit ==
    /\ Due("archive")
    /\ app' = AtCallback
    /\ start("archive")

\* refresh() shows what the repair counted.
ArchivePoll ==
    /\ takeFinished("archive")
    /\ app' = pushView(app, Report("archive"))

runPurgeStaging ==
    /\ Due("purge")
    /\ app' = pushView(AtCallback, Report("purge"))
    /\ UNCHANGED job

\* Several payloads: a second dialog asks for one.
ListPayloads ==
    /\ Due("reboot")
    /\ app' = pushView(AtCallback, Choice)
    /\ UNCHANGED job

ChoosePayload ==
    /\ Pressed(Choice)
    /\ app' = popView(app, "payload")
    /\ UNCHANGED job

\* The payload could not be started; a reboot that works is the end of
\* everything.
RebootFails ==
    /\ Due("reboot") \/ Due("payload")
    /\ app' = pushView(AtCallback, Report("reboot"))
    /\ UNCHANGED job

ArchiveWork == Returned("archive") /\ UNCHANGED app
=============================================================================
