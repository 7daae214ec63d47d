------------------------------ MODULE ArchiveBit ------------------------------
(***************************************************************************)
(* The archive-bit repair of the tools tab (platform/fs/archive_bit.cpp):  *)
(* every directory is renamed, made anew, and given its entries back, the  *)
(* deepest first.  Any operation may fail, the user may leave, and the     *)
(* power may be cut between two of them.                                   *)
(*                                                                         *)
(* A path is the sequence of its names; a name is a pair of a word and how *)
(* often ".nsx_tmp" was put behind it.                                     *)
(***************************************************************************)
EXTENDS Naturals, Sequences

CONSTANTS
    Targets,        \* fixAllCommonDirectories' directories, in order
    Layout,         \* the paths on the card before anything happened
    FileWord,       \* the words that name files
    MaxRepairs,     \* how many repairs are started
    MaxFailures,    \* how many operations may fail
    MaxOutages,     \* how many power cuts may happen
    MaxRelisted     \* how often a listing shows a directory made meanwhile

VARIABLES
    card,       \* the paths of everything on the card
    calls,      \* the calls of processDirectory, the innermost last
    stopped,    \* onProgress() answers false
    errors,     \* report.errors
    earlier,    \* the card when the repair began
    repairs, failures, outages, relisted

repairVars == <<card, calls, stopped, errors, earlier, repairs, failures, outages, relisted>>

CardPath == Seq(STRING \X Nat) \ {<<>>}

\* parent_path() and filename()
Parent(p) == SubSeq(p, 1, Len(p) - 1)
Filename(p) == p[Len(p)]

IsFile(p) == Filename(p)[1] \in FileWord
Within(p, d) == Len(d) <= Len(p) /\ \A i \in DOMAIN d : p[i] = d[i]

\* Every directory on the card is in a directory that exists, and the name of a
\* file stands for the file.
ASSUME RepairAssumption ==
    /\ Layout \subseteq CardPath
    /\ \A p \in Layout : Parent(p) \in Layout \cup {<<>>}
    /\ \A f, p \in Layout : IsFile(f) /\ Filename(p) = Filename(f) => p = f
    /\ Targets \in Seq({d \in CardPath : ~IsFile(d)})

Entries(d) == {p \in card : Parent(p) = d}
Subdirectories(d) == {p \in Entries(d) : ~IsFile(p)}

\* dir.string() + ".nsx_tmp"
tempDir(d) == Append(Parent(d), <<Filename(d)[1], Filename(d)[2] + 1>>)

\* A rename takes along everything below.
Moved(p, from, to) ==
    IF Within(p, from) THEN to \o SubSeq(p, Len(from) + 1, Len(p)) ELSE p
Renamed(from, to) == {Moved(p, from, to) : p \in card}

CanRename(from, to) == from \in card /\ to \notin card

Call(d) == [dir |-> d, at |-> "enter", left |-> {}]

RepairInit ==
    /\ card = Layout /\ calls = <<>> /\ stopped = FALSE /\ errors = 0
    /\ earlier = Layout /\ repairs = 0 /\ failures = 0 /\ outages = 0 /\ relisted = 0

-----------------------------------------------------------------------------

top == calls[Len(calls)]
In(at) == calls # <<>> /\ top.at = at
Return == calls' = SubSeq(calls, 1, Len(calls) - 1)
Goto(at) == calls' = [calls EXCEPT ![Len(calls)].at = at]
Fail == failures < MaxFailures /\ failures' = failures + 1

\* fixAllCommonDirectories(): one target after the other.
BeginRepair ==
    /\ calls = <<>> /\ repairs < MaxRepairs
    /\ repairs' = repairs + 1
    /\ calls' = [i \in DOMAIN Targets |-> Call(Targets[Len(Targets) + 1 - i])]
    /\ errors' = 0 /\ earlier' = card /\ stopped' = FALSE
    /\ UNCHANGED <<card, failures, outages, relisted>>

\* A directory that is not there, or a user who has left, ends the call.
Enter ==
    /\ In("enter")
    /\ IF top.dir \notin card \/ stopped
       THEN Return
       ELSE calls' = [calls EXCEPT ![Len(calls)] =
                        [dir |-> top.dir, at |-> "walk", left |-> Subdirectories(top.dir)]]
    /\ UNCHANGED <<card, stopped, errors, earlier, repairs, failures, outages, relisted>>

\* The next subdirectory.  Whether the listing shows those that were made since
\* it was opened is unspecified.
Walk ==
    /\ In("walk")
    /\ \E d \in Subdirectories(top.dir) :
        /\ \/ d \in top.left /\ UNCHANGED relisted
           \/ d \notin top.left /\ relisted < MaxRelisted /\ relisted' = relisted + 1
        /\ calls' = Append([calls EXCEPT ![Len(calls)].left = @ \ {d}], Call(d))
    /\ UNCHANGED <<card, stopped, errors, earlier, repairs, failures, outages>>

\* The listing ends; an entry that cannot be examined, or is gone, ends it too.
Walked ==
    /\ In("walk")
    /\ IF top.left # {} /\ top.left \subseteq card THEN Fail ELSE UNCHANGED failures
    /\ Goto("rename")
    /\ UNCHANGED <<card, stopped, errors, earlier, repairs, outages, relisted>>

RenameAway ==
    /\ In("rename")
    /\ \/ /\ CanRename(top.dir, tempDir(top.dir))
          /\ card' = Renamed(top.dir, tempDir(top.dir))
          /\ Goto("create")
          /\ UNCHANGED <<errors, failures>>
       \/ /\ IF CanRename(top.dir, tempDir(top.dir)) THEN Fail ELSE UNCHANGED failures
          /\ errors' = errors + 1
          /\ Return
          /\ UNCHANGED card
    /\ UNCHANGED <<stopped, earlier, repairs, outages, relisted>>

\* A directory that cannot be made gets its old name back, if that works.
Create ==
    /\ In("create")
    /\ \/ /\ card' = card \cup {top.dir}
          /\ Goto("move")
          /\ UNCHANGED <<errors, failures>>
       \/ /\ Fail
          /\ card' \in {card, Renamed(tempDir(top.dir), top.dir)}
          /\ errors' = errors + 1
          /\ Return
    /\ UNCHANGED <<stopped, earlier, repairs, outages, relisted>>

\* Mutant: an entry that cannot be moved is not counted.
Bug_MoveBack ==
    /\ In("move")
    /\ \E e \in Entries(tempDir(top.dir)) :
        \/ /\ card' = Renamed(e, Append(top.dir, Filename(e)))
           /\ UNCHANGED <<calls, failures>>
        \/ Fail /\ Return /\ UNCHANGED card
    /\ UNCHANGED <<stopped, errors, earlier, repairs, outages, relisted>>

\* The first entry that cannot be moved ends the call.
MoveBack ==
    /\ In("move")
    /\ \E e \in Entries(tempDir(top.dir)) :
        \/ /\ card' = Renamed(e, Append(top.dir, Filename(e)))
           /\ UNCHANGED <<calls, errors, failures>>
        \/ /\ Fail
           /\ errors' = errors + 1
           /\ Return
           /\ UNCHANGED card
    /\ UNCHANGED <<stopped, earlier, repairs, outages, relisted>>

\* Mutant: what is left behind is removed whether it is empty or not.
Bug_RemoveTemp ==
    /\ In("move")
    /\ card' = {p \in card : ~Within(p, tempDir(top.dir))}
    /\ Return
    /\ UNCHANGED <<stopped, errors, earlier, repairs, failures, outages, relisted>>

\* The empty directory is removed; nobody looks whether that worked.
RemoveTemp ==
    /\ In("move")
    /\ Entries(tempDir(top.dir)) = {}
    /\ \/ card' = card \ {tempDir(top.dir)} /\ UNCHANGED failures
       \/ Fail /\ UNCHANGED card
    /\ Return
    /\ UNCHANGED <<stopped, errors, earlier, repairs, outages, relisted>>

\* The tab goes away; the power goes away.
Stop ==
    /\ calls # <<>> /\ ~stopped
    /\ stopped' = TRUE
    /\ UNCHANGED <<card, calls, errors, earlier, repairs, failures, outages, relisted>>

Outage ==
    /\ calls # <<>> /\ outages < MaxOutages
    /\ outages' = outages + 1
    /\ calls' = <<>>
    /\ earlier' = card /\ errors' = 0
    /\ UNCHANGED <<card, stopped, repairs, failures, relisted>>

RepairNext ==
    \/ BeginRepair \/ Enter \/ Walk \/ Walked \/ RenameAway \/ Create \/ MoveBack
    \/ RemoveTemp \/ Stop \/ Outage

RepairSpec == RepairInit /\ [][RepairNext]_repairVars

-----------------------------------------------------------------------------

\* Whatever fails and wherever the repair is cut, and also when the next one
\* meets what it left, every file is still on the card, once, and in a directory
\* that exists: it is renamed out of ".nsx_tmp" or stays there.
FilesKept ==
    \A f \in {p \in Layout : IsFile(p)} :
        \E p \in card :
            /\ Filename(p) = Filename(f) /\ Parent(p) \in card \cup {<<>>}
            /\ \A q \in card : Filename(q) = Filename(f) => q = p

\* A repair that was not cut and counted no error has put every file back where
\* it was, although directories come and go under the listings it walks.
CleanRepairRestores ==
    calls = <<>> /\ errors = 0 =>
        {p \in card : IsFile(p)} = {p \in earlier : IsFile(p)}

(* What one would expect of the button, and the code does not do. *)

\* A repair that counted no error leaves every file at its place, also when it
\* is the one that follows an interrupted repair.
RepairedIsInPlace ==
    [][calls # <<>> /\ calls' = <<>> /\ outages' = outages /\ errors' = 0 /\ ~stopped =>
        {p \in Layout : IsFile(p)} \subseteq card']_repairVars
=============================================================================
