--------------------------- MODULE ComponentProofs ---------------------------
(***************************************************************************)
(* Proofs about the download, for every size and chunk, about the home     *)
(* tab, for any set of jobs, and about the order of versions and the       *)
(* update policy, for any versions: compare() is SemVer's precedence, and  *)
(* what that gives a console that accepts every offer.                     *)
(***************************************************************************)
EXTENDS Download, HomeTab, UpdatePolicy, WellFoundedInduction, TLAPS

-----------------------------------------------------------------------------
(* The download. *)

\* While bytes arrive, the partial file holds what the sink has counted, or part
\* of the next chunk too; once it is verified it is the published file.
DownloadInv ==
    /\ downloads \in Nat /\ powerCuts \in Nat
    /\ sink \in [written : 0..Size, good : BOOLEAN, failed : BOOLEAN]
    /\ part \in Bytes \cup {NoFile}
    /\ at \in {"idle", "transfer", "clear", "move"}
    /\ at = "transfer" =>
        /\ part \in Bytes
        /\ ~sink.failed => part.size = sink.written /\ (part.good <=> sink.good)
    /\ at \in {"clear", "move"} => part = Artifact
    /\ dest \in {NoFile, Artifact}
    /\ at = "idle" /\ powerCuts = 0 /\ reply = "None" =>
        part = NoFile /\ (downloads > 0 => dest = Artifact)

\* Every step of download() and every power cut keeps it.
LEMMA StepKeepsDownload ==
    ASSUME DownloadInv, [DownloadNext]_downloadVars
    PROVE  DownloadInv'
  <1> USE DownloadAssumption DEF DownloadInv
  <1>1. CASE Open
    BY <1>1 DEF Open, Bytes
  <1>2. CASE Refused
    BY <1>2 DEF Refused
  <1>3. CASE Receive
    <2>1. PICK n \in 1..MaxChunk, ok \in BOOLEAN :
        \/ /\ Fits(n)
           /\ sink' = [sink EXCEPT !.written = @ + n, !.good = @ /\ ok]
           /\ part' = [size |-> part.size + n, good |-> part.good /\ ok]
        \/ /\ Fits(n)
           /\ sink' = [sink EXCEPT !.failed = TRUE]
           /\ part' \in [size : part.size..(part.size + n - 1), good : {part.good}]
        \/ /\ ~Fits(n)
           /\ sink' = [sink EXCEPT !.failed = TRUE]
           /\ UNCHANGED part
      BY <1>3, Zenon DEF Receive
    <2>2. /\ at = "transfer" /\ ~sink.failed
          /\ UNCHANGED <<dest, at, reply, downloads, powerCuts>>
      BY <1>3 DEF Receive
    <2>3. part \in Bytes /\ part.size = sink.written /\ (part.good <=> sink.good)
      BY <2>2
    <2>4. CASE /\ Fits(n)
               /\ sink' = [sink EXCEPT !.written = @ + n, !.good = @ /\ ok]
               /\ part' = [size |-> part.size + n, good |-> part.good /\ ok]
      <3>1. sink.written + n \in 0..Size
        BY <2>4 DEF Fits
      <3>2. sink' \in [written : 0..Size, good : BOOLEAN, failed : BOOLEAN]
        BY <2>4, <3>1, Zenon
      <3>3. part' \in Bytes /\ part'.size = sink'.written /\ (part'.good <=> sink'.good)
        BY <2>3, <2>4, <3>1 DEF Bytes
      <3> QED
        BY <2>2, <3>2, <3>3
    <2>5. CASE /\ Fits(n)
               /\ sink' = [sink EXCEPT !.failed = TRUE]
               /\ part' \in [size : part.size..(part.size + n - 1), good : {part.good}]
      <3>1. sink' \in [written : 0..Size, good : BOOLEAN, failed : {TRUE}]
        BY <2>5, Zenon
      <3>2. part.size..(part.size + n - 1) \subseteq 0..Size
        BY <2>3, <2>5 DEF Fits, Bytes
      <3>3. part' \in Bytes
        BY <2>3, <2>5, <3>2 DEF Bytes
      <3> QED
        BY <2>2, <3>1, <3>3, Zenon
    <2>6. CASE sink' = [sink EXCEPT !.failed = TRUE] /\ UNCHANGED part
      BY <2>2, <2>6, Zenon
    <2> QED
      BY <2>1, <2>4, <2>5, <2>6
  <1>4. CASE Completed
    <2>1. PICK transport, flushed, status \in BOOLEAN :
            LET outcome == Outcome(transport, flushed, status)
            IN /\ reply' = outcome
               /\ at' = IF outcome = "None" THEN "clear" ELSE "idle"
               /\ part' \in IF outcome = "None" THEN {part} ELSE {part, NoFile}
      BY <1>4 DEF Completed
    <2>2. at = "transfer" /\ UNCHANGED <<dest, sink, downloads, powerCuts>>
      BY <1>4 DEF Completed
    <2>3. Outcome(transport, flushed, status) = "None" =>
            ~sink.failed /\ sink.written = Size /\ sink.good
      BY DEF Outcome
    <2>4. Outcome(transport, flushed, status) = "None" => part = Artifact
      BY <2>2, <2>3 DEF Bytes, Artifact
    <2> QED
      BY <2>1, <2>2, <2>4
  <1>5. CASE Clear
    BY <1>5 DEF Clear
  <1>6. CASE Move
    BY <1>6 DEF Move
  <1>7. CASE Cut
    <2>1. part' \in Bytes
      <3>1. Artifact \in Bytes
        BY DEF Artifact, Bytes
      <3>2. CASE at = "transfer"
        <4>1. PICK n \in 0..part.size : part' = [part EXCEPT !.size = n]
          BY <1>7, <3>2 DEF Cut
        <4>2. part \in Bytes /\ n \in 0..Size
          BY <3>2, <4>1 DEF Bytes
        <4> QED
          BY <4>1, <4>2 DEF Bytes
      <3> QED
        BY <1>7, <3>1, <3>2 DEF Cut
    <2> QED
      BY <1>7, <2>1 DEF Cut
  <1>8. CASE UNCHANGED downloadVars
    BY <1>8 DEF downloadVars
  <1> QED
    BY <1>1, <1>2, <1>3, <1>4, <1>5, <1>6, <1>7, <1>8, SMTT(20) DEF DownloadNext

\* It holds from the first download on.
LEMMA DownloadInvariant == DownloadSpec => []DownloadInv
  <1>1. DownloadInit => DownloadInv
    BY DownloadAssumption DEF DownloadInit, DownloadInv
  <1> QED
    BY <1>1, StepKeepsDownload, PTL DEF DownloadSpec

\* The destination is the published file or missing, and the published file when
\* download() reports success (the rename comes after every check).
THEOREM OnlyVerifiedIsNamedAlways == DownloadSpec => []OnlyVerifiedIsNamed
  <1>1. DownloadInv => OnlyVerifiedIsNamed
    BY DEF DownloadInv, OnlyVerifiedIsNamed
  <1> QED
    BY <1>1, DownloadInvariant, PTL

\* The partial file is never larger than the manifest says, and gone after a
\* success (writeToFile's limit).
THEOREM PartialIsBoundedAlways == DownloadSpec => []PartialIsBounded
  <1>1. DownloadInv => PartialIsBounded
    BY DownloadAssumption DEF DownloadInv, PartialIsBounded, Bytes
  <1> QED
    BY <1>1, DownloadInvariant, PTL

-----------------------------------------------------------------------------
(* The home tab. *)

\* A thread only ends after its work returned, and the destructor is past the
\* two joins only when both have ended.
HomeInv ==
    /\ job \in [Jobs -> JobRecord] /\ DOMAIN worker = Jobs
    /\ \A j \in Jobs :
        /\ job[j].worker # "none"
        /\ worker[j] # "return" => job[j].worker = "work"
        /\ tab \in {"joined", "freed"} => job[j].worker = "ended"

\* Every step of a worker, of draw() and of the destructor keeps it.
LEMMA StepKeepsHome ==
    ASSUME HomeInv, [HomeNext]_homeVars
    PROVE  HomeInv'
  <1> USE DEF HomeInv, JobRecord, Worker
  <1>1. ASSUME NEW j \in Jobs, Ask(j) \/ Show(j) \/ Shown(j)
        PROVE  HomeInv'
    <2>1. UNCHANGED <<job, tab>> /\ worker[j] # "return"
      BY <1>1 DEF Ask, Show, Shown
    <2>2. DOMAIN worker' = Jobs /\ \A k \in Jobs : k # j => worker'[k] = worker[k]
      BY <1>1 DEF Ask, Show, Shown
    <2> QED
      BY <2>1, <2>2
  <1>2. ASSUME NEW j \in Jobs, Ends(j)
        PROVE  HomeInv'
    <2>1. UNCHANGED <<tab, worker>>
      BY <1>2 DEF Ends
    <2>2. job' \in [Jobs -> JobRecord]
      BY <1>2 DEF Ends, Returned, StoreRunning, StoreFinished
    <2>3. /\ \A k \in Jobs : k # j => job'[k] = job[k]
          /\ job[j].worker # "ended" /\ job'[j].worker # "none" /\ worker[j] = "return"
      BY <1>2 DEF Ends, Returned, StoreRunning, StoreFinished
    <2> QED
      BY <2>1, <2>2, <2>3
  <1>3. CASE Draw
    BY <1>3 DEF Draw
  <1>4. CASE Destroy
    <2>1. /\ tab' = "cancelled" /\ UNCHANGED worker
          /\ job' = [j \in Jobs |-> [job[j] EXCEPT !.cancel = TRUE]]
      BY <1>4 DEF Destroy
    <2>2. \A j \in Jobs : job'[j] \in JobRecord /\ job'[j].worker = job[j].worker
      <3> SUFFICES ASSUME NEW j \in Jobs
                   PROVE  job'[j] \in JobRecord /\ job'[j].worker = job[j].worker
        OBVIOUS
      <3>1. job[j] \in JobRecord /\ job'[j] = [job[j] EXCEPT !.cancel = TRUE]
        BY <2>1
      <3> QED
        BY <3>1, Zenon
    <2>3. job' \in [Jobs -> JobRecord]
      BY <2>1, <2>2, Zenon
    <2> QED
      BY <2>1, <2>2, <2>3, ZenonT(30)
  <1>5. CASE JoinBoth
    BY <1>5 DEF JoinBoth, Joined
  <1>6. CASE Free
    BY <1>6 DEF Free
  <1>7. CASE UNCHANGED homeVars
    BY <1>7 DEF homeVars
  <1> QED
    BY <1>1, <1>2, <1>3, <1>4, <1>5, <1>6, <1>7, SMTT(20) DEF HomeNext

\* No worker is inside the view when the tab deletes it, and none of its threads
\* is left (~HomeTab joins both jobs).
THEOREM ViewOutlivesWorkersAlways == HomeSpec => []ViewOutlivesWorkers
  <1>1. HomeInit => HomeInv
    BY DEF HomeInit, HomeInv, Started, JobRecord, Worker
  <1>2. HomeInv => ViewOutlivesWorkers
    BY DEF HomeInv, ViewOutlivesWorkers
  <1> QED
    BY <1>1, <1>2, StepKeepsHome, PTL DEF HomeSpec

-----------------------------------------------------------------------------
(* The order of versions. *)

\* A set of natural numbers that is not empty has a least element.
LEMMA LeastNumber ==
    ASSUME NEW S \in SUBSET Nat, S # {}
    PROVE  \E n \in S : \A m \in S : n <= m
  <1>1. PICK n \in S : \A m \in S : ~(<<m, n>> \in OpToRel(<, Nat))
    BY WFMin, NatLessThanWellFounded, Zenon
  <1>2. \A m \in S : ~(m < n)
    BY <1>1, Zenon DEF OpToRel
  <1> QED
    BY <1>2

\* A function on 1..n is a sequence of that length.
LEMMA IsSequence ==
    ASSUME NEW S, NEW n \in Nat, NEW f \in [1..n -> S]
    PROVE  f \in Seq(S) /\ Len(f) = n
  OBVIOUS

\* FirstOf finds the first ordering that decides, if one does.
LEMMA FirstOfDecides ==
    ASSUME NEW s \in Seq(Int)
    PROVE  \/ FirstOf(s) = 0 /\ \A i \in 1..Len(s) : s[i] = 0
           \/ \E k \in 1..Len(s) :
                s[k] # 0 /\ FirstOf(s) = s[k] /\ \A i \in 1..(k - 1) : s[i] = 0
  <1> DEFINE I == {i \in 1..Len(s) : s[i] # 0}
  <1>1. FirstOf(s) = IF I = {} THEN 0 ELSE s[First(I)]
    BY DEF FirstOf
  <1>2. CASE I = {}
    BY <1>1, <1>2
  <1>3. CASE I # {}
    <2>1. \E n \in I : \A m \in I : n <= m
      BY <1>3, I \in SUBSET Nat, LeastNumber, Zenon
    <2>2. First(I) \in I /\ \A m \in I : First(I) <= m
      BY <2>1, Zenon DEF First
    <2>3. FirstOf(s) = s[First(I)] /\ First(I) \in 1..Len(s) /\ s[First(I)] # 0
      BY <1>1, <1>3, <2>2
    <2>4. \A i \in 1..(First(I) - 1) : s[i] = 0
      BY <2>2, <2>3
    <2> QED
      BY <2>3, <2>4, Zenon
  <1> QED
    BY <1>2, <1>3

\* A comparison of the members of S, as a function: 0 says equal, and exchanging
\* the sides exchanges the signs.
IsOrder(S, c) ==
    /\ c \in [S \X S -> Int]
    /\ \A x, y \in S : (c[<<x, y>>] = 0 <=> x = y) /\ (c[<<x, y>>] < 0 <=> c[<<y, x>>] > 0)
    /\ \A x, y, z \in S : c[<<x, y>>] < 0 /\ c[<<y, z>>] < 0 => c[<<x, z>>] < 0

\* The comparison of sequences that c gives.
InOrder(c, a, b) ==
    FirstOf(Append([i \in 1..Shared(a, b) |-> c[<<a[i], b[i]>>]], Len(a) - Len(b)))

\* Two sequences differ first at k.
FirstDifference(a, b, k) ==
    /\ k \in 1..(Shared(a, b) + 1)
    /\ \A i \in 1..(k - 1) : a[i] = b[i]
    /\ k <= Shared(a, b) => a[k] # b[k]
    /\ k > Shared(a, b) => Len(a) # Len(b)

\* The loop over the shared items, and the lengths after it, decide at the first
\* place where the sequences differ.
LEMMA Differences ==
    ASSUME NEW S, NEW c, IsOrder(S, c), NEW a \in Seq(S), NEW b \in Seq(S)
    PROVE  \/ a = b /\ InOrder(c, a, b) = 0
           \/ /\ a # b
              /\ \E k \in 1..(Shared(a, b) + 1) :
                  /\ FirstDifference(a, b, k)
                  /\ InOrder(c, a, b) =
                        IF k <= Shared(a, b) THEN c[<<a[k], b[k]>>] ELSE Len(a) - Len(b)
  <1> DEFINE n == Shared(a, b)
             items == [i \in 1..n |-> c[<<a[i], b[i]>>]]
             s == Append(items, Len(a) - Len(b))
  <1>1. n \in Nat /\ n <= Len(a) /\ n <= Len(b) /\ (n = Len(a) \/ n = Len(b))
    BY DEF Shared
  <1>2. \A i \in 1..n : a[i] \in S /\ b[i] \in S
    BY <1>1
  <1>3. \A i \in 1..n : c[<<a[i], b[i]>>] \in Int /\ (c[<<a[i], b[i]>>] = 0 <=> a[i] = b[i])
    BY <1>2, Zenon DEF IsOrder
  <1> HIDE DEF n
  <1>4. items \in Seq(Int) /\ Len(items) = n
    <2>1. items \in [1..n -> Int]
      BY <1>3
    <2> QED
      BY <1>1, <2>1
  <1>5. /\ s \in Seq(Int) /\ Len(s) = n + 1
        /\ s[n + 1] = Len(a) - Len(b)
        /\ \A i \in 1..n : s[i] = c[<<a[i], b[i]>>]
    BY <1>1, <1>4
  <1>6. InOrder(c, a, b) = FirstOf(s)
    BY DEF InOrder, n
  <1> HIDE DEF s
  <1>7. CASE FirstOf(s) = 0 /\ \A i \in 1..(n + 1) : s[i] = 0
    <2>1. \A i \in 1..n : a[i] = b[i]
      <3>1. ASSUME NEW i \in 1..n PROVE s[i] = 0
        BY <1>1, <1>7
      <3> QED
        BY <1>3, <1>5, <3>1, Zenon
    <2>2. Len(a) = Len(b) /\ n = Len(a)
      BY <1>1, <1>5, <1>7
    <2>3. a = b
      BY <2>1, <2>2
    <2> QED
      BY <1>6, <1>7, <2>3
  <1>8. ASSUME NEW k \in 1..(n + 1), s[k] # 0, FirstOf(s) = s[k], \A i \in 1..(k - 1) : s[i] = 0
        PROVE  /\ a # b
               /\ FirstDifference(a, b, k)
               /\ InOrder(c, a, b) = IF k <= n THEN c[<<a[k], b[k]>>] ELSE Len(a) - Len(b)
    <2>1. \A i \in 1..(k - 1) : a[i] = b[i]
      <3>1. ASSUME NEW i \in 1..(k - 1) PROVE i \in 1..n /\ s[i] = 0
        BY <1>1, <1>8
      <3> QED
        BY <1>3, <1>5, <3>1, Zenon
    <2>2. CASE k <= n
      <3>1. k \in 1..n /\ s[k] = c[<<a[k], b[k]>>] /\ a[k] # b[k]
        <4>1. k \in 1..n
          BY <1>1, <2>2
        <4> QED
          BY <1>3, <1>5, <1>8, <4>1, Zenon
      <3> QED
        BY <1>1, <1>6, <1>8, <2>1, <2>2, <3>1, SMTT(20) DEF FirstDifference, n
    <2>3. CASE k > n
      <3>1. k = n + 1 /\ s[k] = Len(a) - Len(b) /\ Len(a) # Len(b)
        BY <1>1, <1>5, <1>8, <2>3
      <3> QED
        BY <1>1, <1>6, <1>8, <2>1, <2>3, <3>1, SMTT(20) DEF FirstDifference, n
    <2> QED
      BY <1>1, <2>2, <2>3
  <1> QED
    BY <1>5, <1>7, <1>8, FirstOfDecides, Zenon DEF n

\* a comes before b in the order of sequences that the comparison c gives.
Below(c, a, b) ==
    \E k \in 1..Len(b) :
        /\ k <= Len(a) + 1
        /\ \A i \in 1..(k - 1) : a[i] = b[i]
        /\ k > Len(a) \/ c[<<a[k], b[k]>>] < 0

\* That order is strict.
LEMMA BelowExcludes ==
    ASSUME NEW S, NEW c, IsOrder(S, c), NEW a \in Seq(S), NEW b \in Seq(S), Below(c, a, b)
    PROVE  a # b /\ ~Below(c, b, a)
  <1>1. PICK k \in 1..Len(b) :
            /\ k <= Len(a) + 1
            /\ \A i \in 1..(k - 1) : a[i] = b[i]
            /\ k > Len(a) \/ c[<<a[k], b[k]>>] < 0
    BY Zenon DEF Below
  <1>2. \A i \in 1..Len(a) : a[i] \in S
    OBVIOUS
  <1>3. \A i \in 1..Len(b) : b[i] \in S
    OBVIOUS
  <1>4. \A x, y \in S : (c[<<x, y>>] < 0 => x # y /\ ~(c[<<y, x>>] < 0))
    BY DEF IsOrder
  <1>5. a # b
    BY <1>1, <1>2, <1>3, <1>4
  <1>6. ASSUME NEW l \in 1..Len(a), l <= Len(b) + 1, \A i \in 1..(l - 1) : b[i] = a[i],
               l > Len(b) \/ c[<<b[l], a[l]>>] < 0
        PROVE  FALSE
    <2>1. CASE k = l
      BY <1>1, <1>2, <1>3, <1>4, <1>6, <2>1, SMTT(20)
    <2>2. CASE k < l
      <3>1. k \in 1..Len(a) /\ k \in 1..(l - 1)
        BY <2>2
      <3> QED
        BY <1>1, <1>2, <1>3, <1>4, <1>6, <3>1, SMTT(20)
    <2>3. CASE l < k
      <3>1. l \in 1..Len(b) /\ l \in 1..(k - 1)
        BY <2>3
      <3> QED
        BY <1>1, <1>2, <1>3, <1>4, <1>6, <3>1, SMTT(20)
    <2> QED
      BY <2>1, <2>2, <2>3
  <1> QED
    BY <1>5, <1>6, Zenon DEF Below

\* And transitive.
LEMMA BelowIsTransitive ==
    ASSUME NEW S, NEW c, IsOrder(S, c), NEW a \in Seq(S), NEW b \in Seq(S), NEW d \in Seq(S),
           Below(c, a, b), Below(c, b, d)
    PROVE  Below(c, a, d)
  <1>1. PICK k \in 1..Len(b) :
            /\ k <= Len(a) + 1
            /\ \A i \in 1..(k - 1) : a[i] = b[i]
            /\ k > Len(a) \/ c[<<a[k], b[k]>>] < 0
    BY Zenon DEF Below
  <1>2. PICK l \in 1..Len(d) :
            /\ l <= Len(b) + 1
            /\ \A i \in 1..(l - 1) : b[i] = d[i]
            /\ l > Len(b) \/ c[<<b[l], d[l]>>] < 0
    BY Zenon DEF Below
  <1>3. CASE k = l
    <2>1. \A i \in 1..(k - 1) : a[i] = d[i]
      BY <1>1, <1>2, <1>3
    <2>2. ASSUME k <= Len(a)
          PROVE  c[<<a[k], d[k]>>] < 0
      <3>1. a[k] \in S /\ b[k] \in S /\ d[k] \in S
        BY <1>3, <2>2
      <3>2. c[<<a[k], b[k]>>] < 0 /\ c[<<b[k], d[k]>>] < 0
        BY <1>1, <1>2, <1>3, <2>2
      <3> QED
        BY <3>1, <3>2 DEF IsOrder
    <2>3. k \in 1..Len(d) /\ k <= Len(a) + 1 /\ (k > Len(a) \/ k <= Len(a))
      BY <1>1, <1>3
    <2> QED
      BY <2>1, <2>2, <2>3, Zenon DEF Below
  <1>4. CASE k < l
    <2>1. k \in 1..Len(d) /\ k \in 1..(l - 1) /\ b[k] = d[k]
      BY <1>2, <1>4
    <2>2. \A i \in 1..(k - 1) : a[i] = d[i]
      BY <1>1, <1>2, <1>4
    <2>3. k > Len(a) \/ c[<<a[k], d[k]>>] < 0
      BY <1>1, <2>1
    <2> QED
      BY <1>1, <2>1, <2>2, <2>3, Zenon DEF Below
  <1>5. CASE l < k
    <2>1. l \in 1..(k - 1) /\ a[l] = b[l] /\ l <= Len(a) + 1 /\ l <= Len(b)
      BY <1>1, <1>5
    <2>2. \A i \in 1..(l - 1) : a[i] = d[i]
      BY <1>1, <1>2, <1>5
    <2>3. c[<<a[l], d[l]>>] < 0
      BY <1>2, <2>1
    <2> QED
      BY <1>2, <2>1, <2>2, <2>3, Zenon DEF Below
  <1> QED
    BY <1>3, <1>4, <1>5

\* The loop over the items decides as that order does.
LEMMA InOrderIsBelow ==
    ASSUME NEW S, NEW c, IsOrder(S, c), NEW a \in Seq(S), NEW b \in Seq(S)
    PROVE  /\ InOrder(c, a, b) \in Int
           /\ InOrder(c, a, b) = 0 <=> a = b
           /\ InOrder(c, a, b) < 0 <=> Below(c, a, b)
           /\ InOrder(c, a, b) > 0 <=> Below(c, b, a)
  <1>1. CASE a = b /\ InOrder(c, a, b) = 0
    BY <1>1, BelowExcludes
  <1>2. ASSUME NEW k \in 1..(Shared(a, b) + 1), FirstDifference(a, b, k),
               InOrder(c, a, b) = IF k <= Shared(a, b) THEN c[<<a[k], b[k]>>] ELSE Len(a) - Len(b)
        PROVE  /\ InOrder(c, a, b) \in Int /\ InOrder(c, a, b) # 0
               /\ InOrder(c, a, b) < 0 => Below(c, a, b)
               /\ InOrder(c, a, b) > 0 => Below(c, b, a)
    <2>1. \A i \in 1..(k - 1) : a[i] = b[i]
      BY <1>2, Zenon DEF FirstDifference
    <2>2. CASE k <= Shared(a, b)
      <3>1. k \in 1..Len(a) /\ k \in 1..Len(b) /\ k <= Len(a) + 1 /\ k <= Len(b) + 1
        BY <2>2 DEF Shared
      <3>2. a[k] \in S /\ b[k] \in S /\ a[k] # b[k]
        BY <1>2, <2>2, <3>1 DEF FirstDifference
      <3>3. InOrder(c, a, b) = c[<<a[k], b[k]>>]
        BY <1>2, <2>2
      <3>4. c[<<a[k], b[k]>>] \in Int /\ c[<<a[k], b[k]>>] # 0
            /\ (c[<<a[k], b[k]>>] > 0 => c[<<b[k], a[k]>>] < 0)
        BY <3>2 DEF IsOrder
      <3>5. c[<<a[k], b[k]>>] < 0 => Below(c, a, b)
        BY <2>1, <3>1, Zenon DEF Below
      <3>6. c[<<b[k], a[k]>>] < 0 => Below(c, b, a)
        BY <2>1, <3>1, Zenon DEF Below
      <3> QED
        BY <3>3, <3>4, <3>5, <3>6
    <2>3. CASE k > Shared(a, b)
      <3>1. k = Shared(a, b) + 1 /\ InOrder(c, a, b) = Len(a) - Len(b) /\ Len(a) # Len(b)
        BY <1>2, <2>3 DEF FirstDifference, Shared
      <3>2. Len(a) < Len(b) => k \in 1..Len(b) /\ k <= Len(a) + 1 /\ k > Len(a)
        BY <3>1 DEF Shared
      <3>3. Len(b) < Len(a) => k \in 1..Len(a) /\ k <= Len(b) + 1 /\ k > Len(b)
        BY <3>1 DEF Shared
      <3>4. Len(a) < Len(b) => Below(c, a, b)
        BY <2>1, <3>2, Zenon DEF Below
      <3>5. Len(b) < Len(a) => Below(c, b, a)
        BY <2>1, <3>3, Zenon DEF Below
      <3> QED
        BY <3>1, <3>4, <3>5
    <2> QED
      BY <2>2, <2>3 DEF Shared
  <1>3. /\ Below(c, a, b) => ~Below(c, b, a) /\ a # b
        /\ Below(c, b, a) => ~Below(c, a, b) /\ a # b
    BY BelowExcludes
  <1>4. CASE \E k \in 1..(Shared(a, b) + 1) :
                  /\ FirstDifference(a, b, k)
                  /\ InOrder(c, a, b) =
                        IF k <= Shared(a, b) THEN c[<<a[k], b[k]>>] ELSE Len(a) - Len(b)
    <2>1. /\ InOrder(c, a, b) \in Int /\ InOrder(c, a, b) # 0
          /\ InOrder(c, a, b) < 0 => Below(c, a, b)
          /\ InOrder(c, a, b) > 0 => Below(c, b, a)
      BY <1>2, <1>4, Zenon
    <2> QED
      BY <1>3, <2>1
  <1>5. \/ a = b /\ InOrder(c, a, b) = 0
        \/ \E k \in 1..(Shared(a, b) + 1) :
                  /\ FirstDifference(a, b, k)
                  /\ InOrder(c, a, b) =
                        IF k <= Shared(a, b) THEN c[<<a[k], b[k]>>] ELSE Len(a) - Len(b)
    BY Differences
  <1> QED
    BY <1>1, <1>4, <1>5, Zenon

\* So sequences are ordered when their items are.
LEMMA SequencesInOrder ==
    ASSUME NEW S, NEW c, IsOrder(S, c)
    PROVE  IsOrder(Seq(S), [p \in Seq(S) \X Seq(S) |-> InOrder(c, p[1], p[2])])
  <1> DEFINE C == [p \in Seq(S) \X Seq(S) |-> InOrder(c, p[1], p[2])]
  <1>1. \A a, b \in Seq(S) : C[<<a, b>>] = InOrder(c, a, b)
    OBVIOUS
  <1>2. C \in [Seq(S) \X Seq(S) -> Int]
    BY InOrderIsBelow
  <1> HIDE DEF C
  <1>3. \A a, b \in Seq(S) : (C[<<a, b>>] = 0 <=> a = b) /\ (C[<<a, b>>] < 0 <=> C[<<b, a>>] > 0)
    <2> SUFFICES ASSUME NEW a \in Seq(S), NEW b \in Seq(S)
                 PROVE  (C[<<a, b>>] = 0 <=> a = b) /\ (C[<<a, b>>] < 0 <=> C[<<b, a>>] > 0)
      BY Zenon
    <2>1. /\ InOrder(c, a, b) = 0 <=> a = b
          /\ InOrder(c, a, b) < 0 <=> Below(c, a, b)
          /\ InOrder(c, b, a) > 0 <=> Below(c, a, b)
      BY InOrderIsBelow
    <2> QED
      BY <1>1, <2>1
  <1>4. \A a, b, d \in Seq(S) : C[<<a, b>>] < 0 /\ C[<<b, d>>] < 0 => C[<<a, d>>] < 0
    BY <1>1, InOrderIsBelow, BelowIsTransitive
  <1> QED
    BY <1>2, <1>3, <1>4, Zenon DEF IsOrder, C

\* The comparisons of semver.cpp as functions.
TextOrder == [p \in Seq(Nat) \X Seq(Nat) |-> CompareText(p[1], p[2])]
IdentifierOrder == [p \in Seq(Nat) \X Seq(Nat) |-> CompareIdentifier(p[1], p[2])]
PrereleaseOrder == [p \in Seq(Seq(Nat)) \X Seq(Seq(Nat)) |-> comparePrerelease(p[1], p[2])]

NumberOrder == [p \in Nat \X Nat |-> p[1] - p[2]]

\* It is negative where the first number is the smaller one.
LEMMA NumberOrderIsLess == \A m, n \in Nat : NumberOrder[<<m, n>>] < 0 <=> m < n
  BY DEF NumberOrder

\* The difference of two numbers compares them.
LEMMA NumbersAreOrdered == IsOrder(Nat, NumberOrder)
  <1>1. NumberOrder \in [Nat \X Nat -> Int]
    BY DEF NumberOrder
  <1>2. \A x, y \in Nat : NumberOrder[<<x, y>>] = x - y
    BY DEF NumberOrder
  <1> QED
    BY <1>1, <1>2 DEF IsOrder

\* operator<=> of std::string_view is an order of texts.
LEMMA TextIsOrdered ==
    /\ IsOrder(Seq(Nat), TextOrder)
    /\ \A a, b \in Seq(Nat) :
        /\ CompareText(a, b) = TextOrder[<<a, b>>]
        /\ CompareText(a, b) = InOrder(NumberOrder, a, b)
  <1>1. ASSUME NEW a \in Seq(Nat), NEW b \in Seq(Nat)
        PROVE  CompareText(a, b) = InOrder(NumberOrder, a, b)
    <2>1. \A i \in 1..Shared(a, b) : NumberOrder[<<a[i], b[i]>>] = a[i] - b[i]
      <3> TAKE i \in 1..Shared(a, b)
      <3>1. a[i] \in Nat /\ b[i] \in Nat
        BY DEF Shared
      <3> QED
        BY <3>1 DEF NumberOrder
    <2>2. [i \in 1..Shared(a, b) |-> NumberOrder[<<a[i], b[i]>>]]
            = [i \in 1..Shared(a, b) |-> a[i] - b[i]]
      BY <2>1
    <2> QED
      BY <2>2, Zenon DEF CompareText, InOrder
  <1>2. TextOrder = [p \in Seq(Nat) \X Seq(Nat) |-> InOrder(NumberOrder, p[1], p[2])]
    BY <1>1 DEF TextOrder
  <1>3. IsOrder(Seq(Nat), TextOrder)
    BY <1>2, NumbersAreOrdered, SequencesInOrder, Zenon
  <1> QED
    BY <1>1, <1>3 DEF TextOrder

\* The first of two comparisons that decides.
LEMMA FirstOfTwo ==
    ASSUME NEW x \in Int, NEW y \in Int
    PROVE  FirstOf(<<x, y>>) = IF x # 0 THEN x ELSE y
  <1> DEFINE s == <<x, y>>
  <1>1. s \in Seq(Int) /\ Len(s) = 2 /\ s[1] = x /\ s[2] = y
    OBVIOUS
  <1> HIDE DEF s
  <1>2. \/ FirstOf(s) = 0 /\ \A i \in 1..2 : s[i] = 0
        \/ \E k \in 1..2 :
             s[k] # 0 /\ FirstOf(s) = s[k] /\ \A i \in 1..(k - 1) : s[i] = 0
    BY <1>1, FirstOfDecides
  <1>3. FirstOf(s) = IF x # 0 THEN x ELSE y
    BY <1>1, <1>2
  <1> QED
    BY <1>3 DEF s

\* So is one round of comparePrerelease's loop, numbers below words, numbers by
\* their length first.
LEMMA IdentifiersAreOrdered == IsOrder(Seq(Nat), IdentifierOrder)
  <1> DEFINE c(x, y) == CompareIdentifier(x, y)
             t(x, y) == CompareText(x, y)
             num(x) == isNumericIdentifier(x)
  <1>0. \A x, y \in Seq(Nat) : TextOrder[<<x, y>>] = t(x, y)
    BY TextIsOrdered, Zenon
  <1> HIDE DEF t
  <1>1. \A x, y \in Seq(Nat) :
            t(x, y) \in Int /\ (t(x, y) = 0 <=> x = y) /\ (t(x, y) < 0 <=> t(y, x) > 0)
    <2> TAKE x, y \in Seq(Nat)
    <2>1. /\ TextOrder[<<x, y>>] \in Int /\ (TextOrder[<<x, y>>] = 0 <=> x = y)
          /\ TextOrder[<<x, y>>] < 0 <=> TextOrder[<<y, x>>] > 0
      BY TextIsOrdered DEF IsOrder
    <2> QED
      BY <1>0, <2>1
  <1>2. ASSUME NEW x \in Seq(Nat), NEW y \in Seq(Nat), NEW z \in Seq(Nat),
               t(x, y) < 0, t(y, z) < 0
        PROVE  t(x, z) < 0
    <2>1. TextOrder[<<x, y>>] < 0 /\ TextOrder[<<y, z>>] < 0 => TextOrder[<<x, z>>] < 0
      BY TextIsOrdered DEF IsOrder
    <2> QED
      BY <1>0, <1>2, <2>1
  <1>3. \A x, y \in Seq(Nat) : num(x) /\ num(y) =>
            c(x, y) = IF Len(x) # Len(y) THEN Len(x) - Len(y) ELSE t(x, y)
    BY <1>1, FirstOfTwo DEF CompareIdentifier, t
  <1>4. \A x, y \in Seq(Nat) : ~(num(x) /\ num(y)) =>
            c(x, y) = IF num(x) THEN -1 ELSE IF num(y) THEN 1 ELSE t(x, y)
    <2> TAKE x, y \in Seq(Nat)
    <2>1. isNumericIdentifier(x) \in BOOLEAN /\ isNumericIdentifier(y) \in BOOLEAN
      BY Zenon DEF isNumericIdentifier
    <2> QED
      BY <2>1, Zenon DEF CompareIdentifier, t
  <1> HIDE DEF c, num
  <1>5. \A x, y \in Seq(Nat) :
            c(x, y) \in Int /\ (c(x, y) = 0 <=> x = y) /\ (c(x, y) < 0 <=> c(y, x) > 0)
    BY <1>1, <1>3, <1>4
  <1>6. ASSUME NEW x \in Seq(Nat), NEW y \in Seq(Nat), NEW z \in Seq(Nat),
               c(x, y) < 0, c(y, z) < 0
        PROVE  c(x, z) < 0
    <2>1. Len(x) \in Nat /\ Len(y) \in Nat /\ Len(z) \in Nat
      OBVIOUS
    <2>2. CASE num(x) /\ num(z)
      <3>1. num(y)
        BY <1>4, <1>6, <2>2
      <3>2. /\ c(x, y) = IF Len(x) # Len(y) THEN Len(x) - Len(y) ELSE t(x, y)
            /\ c(y, z) = IF Len(y) # Len(z) THEN Len(y) - Len(z) ELSE t(y, z)
            /\ c(x, z) = IF Len(x) # Len(z) THEN Len(x) - Len(z) ELSE t(x, z)
        BY <1>3, <2>2, <3>1
      <3> QED
        BY <1>2, <1>6, <2>1, <3>2, SMTT(20)
    <2>3. CASE num(x) /\ ~num(z)
      BY <1>4, <2>3
    <2>4. CASE ~num(x) /\ num(y)
      BY <1>4, <1>6, <2>4
    <2>5. CASE ~num(x) /\ ~num(y)
      <3>1. ~num(z)
        BY <1>4, <1>6, <2>5
      <3>2. c(x, y) = t(x, y) /\ c(y, z) = t(y, z) /\ c(x, z) = t(x, z)
        BY <1>4, <2>5, <3>1
      <3> QED
        BY <1>2, <1>6, <3>2
    <2> QED
      BY <2>2, <2>3, <2>4, <2>5, SMTT(20)
  <1> QED
    BY <1>5, <1>6 DEF IsOrder, IdentifierOrder, c

\* Where both prereleases are there, comparePrerelease is the order of sequences
\* that the identifiers give.
LEMMA PrereleaseInOrder ==
    ASSUME NEW a \in Seq(Seq(Nat)), NEW b \in Seq(Seq(Nat))
    PROVE  comparePrerelease(a, b) =
             IF Len(a) = 0 \/ Len(b) = 0 THEN Len(b) - Len(a) ELSE InOrder(IdentifierOrder, a, b)
  <1>1. (a = <<>> <=> Len(a) = 0) /\ (b = <<>> <=> Len(b) = 0)
    OBVIOUS
  <1>2. \A i \in 1..Shared(a, b) :
            IdentifierOrder[<<a[i], b[i]>>] = CompareIdentifier(a[i], b[i])
    <2> TAKE i \in 1..Shared(a, b)
    <2>1. a[i] \in Seq(Nat) /\ b[i] \in Seq(Nat)
      BY DEF Shared
    <2> QED
      BY <2>1 DEF IdentifierOrder
  <1>3. [i \in 1..Shared(a, b) |-> IdentifierOrder[<<a[i], b[i]>>]]
          = [i \in 1..Shared(a, b) |-> CompareIdentifier(a[i], b[i])]
    BY <1>2
  <1> QED
    BY <1>1, <1>3, Zenon DEF comparePrerelease, InOrder

\* comparePrerelease is an order, with the empty prerelease on top.
LEMMA PrereleasesAreOrdered == IsOrder(Seq(Seq(Nat)), PrereleaseOrder)
  <1> DEFINE P == Seq(Seq(Nat))
             c(a, b) == comparePrerelease(a, b)
             o(a, b) == InOrder(IdentifierOrder, a, b)
  <1>1. \A a, b \in P : c(a, b) = IF Len(a) = 0 \/ Len(b) = 0 THEN Len(b) - Len(a) ELSE o(a, b)
    BY PrereleaseInOrder
  <1>2. \A a, b \in P : /\ o(a, b) \in Int /\ (o(a, b) = 0 <=> a = b)
                        /\ o(a, b) < 0 <=> o(b, a) > 0
    <2> TAKE a, b \in P
    <2>1. /\ o(a, b) \in Int /\ (o(a, b) = 0 <=> a = b)
          /\ o(a, b) < 0 <=> Below(IdentifierOrder, a, b)
          /\ o(b, a) > 0 <=> Below(IdentifierOrder, a, b)
      BY IdentifiersAreOrdered, InOrderIsBelow
    <2> QED
      BY <2>1, Zenon
  <1>3. ASSUME NEW a \in P, NEW b \in P, NEW d \in P, o(a, b) < 0, o(b, d) < 0
        PROVE  o(a, d) < 0
    <2>1. Below(IdentifierOrder, a, b) /\ Below(IdentifierOrder, b, d)
      BY <1>3, IdentifiersAreOrdered, InOrderIsBelow
    <2>2. Below(IdentifierOrder, a, d)
      BY <2>1, IdentifiersAreOrdered, BelowIsTransitive
    <2> QED
      BY <2>2, IdentifiersAreOrdered, InOrderIsBelow
  <1>4. \A a, b \in P : Len(a) \in Nat /\ (Len(a) = 0 /\ Len(b) = 0 => a = b)
    OBVIOUS
  <1> HIDE DEF P, c, o
  <1>5. \A a, b \in P : /\ c(a, b) \in Int /\ (c(a, b) = 0 <=> a = b)
                        /\ c(a, b) < 0 <=> c(b, a) > 0
    BY <1>1, <1>2, <1>4
  <1>6. ASSUME NEW a \in P, NEW b \in P, NEW d \in P, c(a, b) < 0, c(b, d) < 0
        PROVE  c(a, d) < 0
    <2>1. Len(a) # 0 /\ Len(b) # 0
      BY <1>1, <1>4, <1>6, SMTT(20)
    <2>2. CASE Len(d) = 0
      BY <1>1, <1>4, <2>1, <2>2, SMTT(20)
    <2>3. CASE Len(d) # 0
      BY <1>1, <1>3, <1>6, <2>1, <2>3, SMTT(20)
    <2> QED
      BY <2>2, <2>3
  <1> QED
    BY <1>5, <1>6 DEF IsOrder, PrereleaseOrder, P, c

\* Every version that parseSemVer may return.
AnyVersion == [numbers : [1..3 -> Nat], pre : Seq(Seq(Nat))]

\* compare() decides by the first number that differs, and by the prerelease
\* when none does.
LEMMA CompareDecides ==
    ASSUME NEW a \in AnyVersion, NEW b \in AnyVersion
    PROVE  LET d(i) == a.numbers[i] - b.numbers[i]
           IN compare(a, b) = IF d(1) # 0 THEN d(1) ELSE IF d(2) # 0 THEN d(2)
                              ELSE IF d(3) # 0 THEN d(3)
                              ELSE comparePrerelease(a.pre, b.pre)
  <1> DEFINE d(i) == a.numbers[i] - b.numbers[i]
             p == comparePrerelease(a.pre, b.pre)
             ds == [i \in 1..3 |-> d(i)]
             s == Append(ds, p)
  <1>1. p \in Int
    <2>1. a.pre \in Seq(Seq(Nat)) /\ b.pre \in Seq(Seq(Nat))
      BY DEF AnyVersion
    <2>2. PrereleaseOrder[<<a.pre, b.pre>>] \in Int
      BY <2>1, PrereleasesAreOrdered DEF IsOrder
    <2> QED
      BY <2>1, <2>2 DEF PrereleaseOrder
  <1>2. d(1) \in Int /\ d(2) \in Int /\ d(3) \in Int
    BY DEF AnyVersion
  <1> HIDE DEF p, d
  <1>3. ds \in [1..3 -> Int] /\ ds[1] = d(1) /\ ds[2] = d(2) /\ ds[3] = d(3)
    BY <1>2
  <1>4. compare(a, b) = FirstOf(s)
    BY DEF compare, p, d
  <1> HIDE DEF ds
  <1>5. ds \in Seq(Int) /\ Len(ds) = 3
    <2>1. \A n \in Nat : \A f \in [1..n -> Int] : f \in Seq(Int) /\ Len(f) = n
      BY IsSequence
    <2> QED
      BY <1>3, <2>1, 3 \in Nat, Zenon
  <1>6. s \in Seq(Int) /\ Len(s) = 4 /\ s[1] = d(1) /\ s[2] = d(2) /\ s[3] = d(3) /\ s[4] = p
    <2>1. \A f \in Seq(Int) : \A x \in Int :
            /\ Append(f, x) \in Seq(Int) /\ Len(Append(f, x)) = Len(f) + 1
            /\ Append(f, x)[Len(f) + 1] = x
            /\ \A i \in 1..Len(f) : Append(f, x)[i] = f[i]
      OBVIOUS
    <2>2. 1 \in 1..3 /\ 2 \in 1..3 /\ 3 \in 1..3 /\ 3 + 1 = 4
      OBVIOUS
    <2>3. /\ s \in Seq(Int) /\ Len(s) = Len(ds) + 1 /\ s[Len(ds) + 1] = p
          /\ \A i \in 1..Len(ds) : s[i] = ds[i]
      BY <1>1, <1>5, <2>1, Zenon
    <2> HIDE DEF s
    <2> QED
      BY <1>3, <1>5, <2>2, <2>3, SMTT(20)
  <1> HIDE DEF s
  <1>7. \/ FirstOf(s) = 0 /\ \A i \in 1..4 : s[i] = 0
        \/ \E k \in 1..4 :
             s[k] # 0 /\ FirstOf(s) = s[k] /\ \A i \in 1..(k - 1) : s[i] = 0
    BY <1>6, FirstOfDecides, SMTT(20)
  <1>8. FirstOf(s) = IF d(1) # 0 THEN d(1) ELSE IF d(2) # 0 THEN d(2)
                     ELSE IF d(3) # 0 THEN d(3) ELSE p
    <2>1. CASE FirstOf(s) = 0 /\ \A i \in 1..4 : s[i] = 0
      BY <1>6, <2>1
    <2>2. ASSUME NEW k \in 1..4, s[k] # 0, FirstOf(s) = s[k], \A i \in 1..(k - 1) : s[i] = 0
          PROVE  FirstOf(s) = IF d(1) # 0 THEN d(1) ELSE IF d(2) # 0 THEN d(2)
                              ELSE IF d(3) # 0 THEN d(3) ELSE p
      <3>1. k = 1 \/ k = 2 \/ k = 3 \/ k = 4
        OBVIOUS
      <3> QED
        BY <1>6, <2>2, <3>1
    <2> QED
      BY <1>7, <2>1, <2>2
  <1> QED
    BY <1>4, <1>8 DEF d, p

VersionOrder == [q \in AnyVersion \X AnyVersion |-> compare(q[1], q[2])]

\* compare() orders all versions: equal only what is the same, the other way
\* round the other sign, and no circles.
LEMMA VersionsAreOrdered == IsOrder(AnyVersion, VersionOrder)
  <1> DEFINE V == AnyVersion
             c(a, b) == compare(a, b)
             p(a, b) == comparePrerelease(a.pre, b.pre)
  <1>1. \A a \in V : /\ a.pre \in Seq(Seq(Nat)) /\ a.numbers \in [1..3 -> Nat]
                     /\ a.numbers[1] \in Nat /\ a.numbers[2] \in Nat /\ a.numbers[3] \in Nat
    BY DEF AnyVersion
  <1>2. \A x, y \in Seq(Seq(Nat)) : PrereleaseOrder[<<x, y>>] = comparePrerelease(x, y)
    BY DEF PrereleaseOrder
  <1>3. \A x, y \in Seq(Seq(Nat)) :
            /\ comparePrerelease(x, y) \in Int /\ (comparePrerelease(x, y) = 0 <=> x = y)
            /\ comparePrerelease(x, y) < 0 <=> comparePrerelease(y, x) > 0
    <2> TAKE x, y \in Seq(Seq(Nat))
    <2>1. /\ PrereleaseOrder[<<x, y>>] \in Int /\ (PrereleaseOrder[<<x, y>>] = 0 <=> x = y)
          /\ PrereleaseOrder[<<x, y>>] < 0 <=> PrereleaseOrder[<<y, x>>] > 0
      BY PrereleasesAreOrdered DEF IsOrder
    <2> QED
      BY <1>2, <2>1
  <1>4. ASSUME NEW x \in Seq(Seq(Nat)), NEW y \in Seq(Seq(Nat)), NEW z \in Seq(Seq(Nat)),
               comparePrerelease(x, y) < 0, comparePrerelease(y, z) < 0
        PROVE  comparePrerelease(x, z) < 0
    <2>1. PrereleaseOrder[<<x, y>>] < 0 /\ PrereleaseOrder[<<y, z>>] < 0
            => PrereleaseOrder[<<x, z>>] < 0
      BY PrereleasesAreOrdered DEF IsOrder
    <2> QED
      BY <1>2, <1>4, <2>1
  <1>5. \A a, b \in V : /\ p(a, b) \in Int /\ (p(a, b) = 0 <=> a.pre = b.pre)
                        /\ p(a, b) < 0 <=> p(b, a) > 0
    BY <1>1, <1>3, Zenon
  <1>6. \A a, b, d \in V : p(a, b) < 0 /\ p(b, d) < 0 => p(a, d) < 0
    BY <1>1, <1>4, Zenon
  <1>7. \A a, b \in V : a.pre = b.pre /\ a.numbers[1] = b.numbers[1]
            /\ a.numbers[2] = b.numbers[2] /\ a.numbers[3] = b.numbers[3] => a = b
    <2>1. \A f, g \in [1..3 -> Nat] : f[1] = g[1] /\ f[2] = g[2] /\ f[3] = g[3] => f = g
      <3>1. 1..3 = {1, 2, 3}
        OBVIOUS
      <3> QED
        BY <3>1
    <2>2. \A a, b \in V : a.pre = b.pre /\ a.numbers = b.numbers => a = b
      BY DEF AnyVersion
    <2> QED
      BY <1>1, <2>1, <2>2, Zenon
  <1>8. \A a, b \in V :
            c(a, b) = IF a.numbers[1] - b.numbers[1] # 0 THEN a.numbers[1] - b.numbers[1]
                      ELSE IF a.numbers[2] - b.numbers[2] # 0 THEN a.numbers[2] - b.numbers[2]
                      ELSE IF a.numbers[3] - b.numbers[3] # 0 THEN a.numbers[3] - b.numbers[3]
                      ELSE p(a, b)
    BY CompareDecides, SMTT(20)
  <1> DEFINE n(a, i) == a.numbers[i]
             Decided(a, b) ==
                 \/ n(a, 1) # n(b, 1) /\ c(a, b) = n(a, 1) - n(b, 1)
                 \/ n(a, 1) = n(b, 1) /\ n(a, 2) # n(b, 2) /\ c(a, b) = n(a, 2) - n(b, 2)
                 \/ /\ n(a, 1) = n(b, 1) /\ n(a, 2) = n(b, 2)
                    /\ n(a, 3) # n(b, 3) /\ c(a, b) = n(a, 3) - n(b, 3)
                 \/ /\ n(a, 1) = n(b, 1) /\ n(a, 2) = n(b, 2) /\ n(a, 3) = n(b, 3)
                    /\ c(a, b) = p(a, b)
  <1> HIDE DEF V, c, p
  <1>0. ASSUME NEW a \in V, NEW b \in V
        PROVE  /\ n(a, 1) \in Nat /\ n(a, 2) \in Nat /\ n(a, 3) \in Nat
               /\ Decided(a, b)
    <2>1. /\ a.numbers[1] \in Nat /\ a.numbers[2] \in Nat /\ a.numbers[3] \in Nat
          /\ b.numbers[1] \in Nat /\ b.numbers[2] \in Nat /\ b.numbers[3] \in Nat
      BY <1>1
    <2>2. c(a, b) = IF a.numbers[1] - b.numbers[1] # 0 THEN a.numbers[1] - b.numbers[1]
                    ELSE IF a.numbers[2] - b.numbers[2] # 0 THEN a.numbers[2] - b.numbers[2]
                    ELSE IF a.numbers[3] - b.numbers[3] # 0 THEN a.numbers[3] - b.numbers[3]
                    ELSE p(a, b)
      BY <1>8, SMTT(20)
    <2> QED
      BY <2>1, <2>2
  <1>9. \A a, b \in V : /\ c(a, b) \in Int /\ (c(a, b) = 0 <=> a = b)
                        /\ c(a, b) < 0 <=> c(b, a) > 0
    <2> SUFFICES ASSUME NEW a \in V, NEW b \in V
                 PROVE  /\ c(a, b) \in Int /\ (c(a, b) = 0 <=> a = b)
                        /\ c(a, b) < 0 <=> c(b, a) > 0
      BY Zenon
    <2>1. /\ n(a, 1) \in Nat /\ n(a, 2) \in Nat /\ n(a, 3) \in Nat /\ Decided(a, b)
          /\ n(b, 1) \in Nat /\ n(b, 2) \in Nat /\ n(b, 3) \in Nat /\ Decided(b, a)
      BY <1>0
    <2>2. p(a, b) \in Int /\ (p(a, b) = 0 <=> a.pre = b.pre) /\ (p(a, b) < 0 <=> p(b, a) > 0)
      BY <1>5
    <2>3. a = b <=> a.pre = b.pre /\ n(a, 1) = n(b, 1) /\ n(a, 2) = n(b, 2) /\ n(a, 3) = n(b, 3)
      BY <1>7, SMTT(20)
    <2> HIDE DEF n
    <2> QED
      BY <2>1, <2>2, <2>3
  <1>10. ASSUME NEW a \in V, NEW b \in V, NEW d \in V, c(a, b) < 0, c(b, d) < 0
         PROVE  c(a, d) < 0
    <2>3. /\ n(a, 1) \in Nat /\ n(a, 2) \in Nat /\ n(a, 3) \in Nat /\ Decided(a, b)
          /\ n(b, 1) \in Nat /\ n(b, 2) \in Nat /\ n(b, 3) \in Nat /\ Decided(b, d)
          /\ n(d, 1) \in Nat /\ n(d, 2) \in Nat /\ n(d, 3) \in Nat /\ Decided(a, d)
      BY <1>0
    <2>4. /\ p(a, b) \in Int /\ p(b, d) \in Int
          /\ p(a, b) < 0 /\ p(b, d) < 0 => p(a, d) < 0
      BY <1>5, <1>6
    <2> HIDE DEF n
    <2> QED
      BY <1>10, <2>3, <2>4, SMTT(20)
  <1> QED
    BY <1>9, <1>10 DEF IsOrder, VersionOrder, V, c

\* Induction over the natural numbers, for a set.
LEMMA NumberInduction ==
    ASSUME NEW S, 0 \in S, \A n \in Nat : n \in S => n + 1 \in S
    PROVE  \A n \in Nat : n \in S
  <1> SUFFICES ASSUME Nat \ S # {} PROVE FALSE
    OBVIOUS
  <1>1. PICK n \in Nat \ S : \A m \in Nat \ S : n <= m
    BY LeastNumber, Nat \ S \in SUBSET Nat, Zenon
  <1>2. n \in Nat /\ n # 0
    OBVIOUS
  <1>3. n - 1 \in Nat
    BY <1>2
  <1>4. n - 1 \in S
    BY <1>1, <1>3
  <1> QED
    BY <1>3, <1>4

\* What the local function of Value is: some function with this equation.
Spells(g, s, n) ==
    g = [i \in 0..n |-> IF i = 0 THEN 0 ELSE 10 * g[i - 1] + (s[i] - 48)]

\* There is such a function.
LEMMA SpellsExists ==
    ASSUME NEW s
    PROVE  \A n \in Nat : \E g : Spells(g, s, n)
  <1> DEFINE S == {n \in Nat : \E g : Spells(g, s, n)}
  <1>1. 0 \in S
    <2> DEFINE g == [i \in 0..0 |-> 0]
    <2>1. Spells(g, s, 0)
      BY DEF Spells
    <2> QED
      BY <2>1
  <1>2. ASSUME NEW n \in Nat, n \in S
        PROVE  n + 1 \in S
    <2>1. PICK g : Spells(g, s, n)
      BY <1>2
    <2> DEFINE h == [i \in 0..(n + 1) |-> IF i <= n THEN g[i] ELSE 10 * g[n] + (s[i] - 48)]
    <2>2. ASSUME NEW i \in 0..(n + 1)
          PROVE  h[i] = IF i = 0 THEN 0 ELSE 10 * h[i - 1] + (s[i] - 48)
      <3>1. CASE i = 0
        BY <2>1, <3>1 DEF Spells
      <3>2. CASE i # 0 /\ i <= n
        <4>1. i \in 0..n /\ i - 1 \in 0..(n + 1) /\ i - 1 <= n
          BY <3>2
        <4>2. g[i] = 10 * g[i - 1] + (s[i] - 48)
          BY <2>1, <3>2, <4>1 DEF Spells
        <4> QED
          BY <3>2, <4>1, <4>2
      <3>3. CASE i = n + 1
        <4>1. i - 1 = n /\ n \in 0..(n + 1) /\ ~(i <= n) /\ i # 0 /\ n <= n
          BY <3>3
        <4> QED
          BY <4>1
      <3> QED
        BY <3>1, <3>2, <3>3
    <2>3. Spells(h, s, n + 1)
      BY <2>2 DEF Spells
    <2> QED
      BY <2>3
  <1> HIDE DEF S
  <1>3. \A n \in Nat : n \in S
    BY <1>1, <1>2, NumberInduction
  <1> QED
    BY <1>3 DEF S

\* The steps by which Value reads a text.
Reads(g, s) ==
    /\ \A i \in 0..Len(s) : g[i] \in Int
    /\ g[0] = 0
    /\ \A i \in 0..(Len(s) - 1) : g[i + 1] = 10 * g[i] + (s[i + 1] - 48)

\* Value is where they end.
LEMMA ValueReads ==
    ASSUME NEW s \in Seq(Nat)
    PROVE  \E g : Reads(g, s) /\ Value(s) = g[Len(s)]
  <1> DEFINE g == CHOOSE g : Spells(g, s, Len(s))
  <1>1. Spells(g, s, Len(s))
    BY SpellsExists
  <1>2. Value(s) = g[Len(s)]
    BY DEF Value, Spells
  <1> HIDE DEF g
  <1>3. g[0] = 0
    BY <1>1 DEF Spells
  <1>4. ASSUME NEW i \in 0..(Len(s) - 1)
        PROVE  g[i + 1] = 10 * g[i] + (s[i + 1] - 48)
    <2>1. i + 1 \in 0..Len(s) /\ i + 1 # 0 /\ (i + 1) - 1 = i
      OBVIOUS
    <2> QED
      BY <1>1, <2>1 DEF Spells
  <1> DEFINE S == {i \in Nat : i <= Len(s) => g[i] \in Int}
  <1>5. 0 \in S
    BY <1>3
  <1>6. ASSUME NEW i \in Nat, i \in S
        PROVE  i + 1 \in S
    <2> SUFFICES ASSUME i + 1 <= Len(s) PROVE g[i + 1] \in Int
      OBVIOUS
    <2>1. i \in 0..(Len(s) - 1) /\ g[i] \in Int /\ s[i + 1] \in Nat
      BY <1>6
    <2> QED
      BY <1>4, <2>1
  <1> HIDE DEF S
  <1>7. \A i \in Nat : i \in S
    BY <1>5, <1>6, NumberInduction, Zenon
  <1>8. \A i \in 0..Len(s) : g[i] \in Int
    BY <1>7 DEF S
  <1> QED
    BY <1>2, <1>3, <1>4, <1>8 DEF Reads

\* What another digit does.
LEMMA AnotherDigit ==
    \A x, y \in Int : \A d, f \in 48..57 :
        /\ x < y => 10 * x + (d - 48) < 10 * y + (f - 48)
        /\ d < f => 10 * x + (d - 48) < 10 * x + (f - 48)
        /\ x > 0 \/ (x = 0 /\ d # 48) => 10 * x + (d - 48) > 0
  OBVIOUS

\* A number that is ahead once, e digits further on, stays ahead.
LEMMA AheadStaysAhead ==
    ASSUME NEW l \in Seq(Nat), NEW r \in Seq(Nat), NEW g, NEW h, Reads(g, l), Reads(h, r),
           isNumericIdentifier(l), isNumericIdentifier(r),
           NEW e \in Nat, Len(r) = Len(l) + e,
           NEW j \in 0..Len(l), g[j] < h[j + e]
    PROVE  g[Len(l)] < h[Len(r)]
  <1> DEFINE S == {i \in Nat : j <= i /\ i <= Len(l) => g[i] < h[i + e]}
  <1>1. 0 \in S
    <2>1. j <= 0 => j = 0
      OBVIOUS
    <2> QED
      BY <2>1, Zenon
  <1>2. ASSUME NEW i \in Nat, i \in S
        PROVE  i + 1 \in S
    <2> SUFFICES ASSUME j <= i + 1, i + 1 <= Len(l) PROVE g[i + 1] < h[(i + 1) + e]
      OBVIOUS
    <2>1. CASE j = i + 1
      BY <2>1
    <2>2. CASE j <= i
      <3>1. g[i] < h[i + e] /\ i \in 0..Len(l) /\ i \in 0..(Len(l) - 1)
        BY <1>2, <2>2
      <3>2. i + e \in 0..Len(r) /\ i + e \in 0..(Len(r) - 1) /\ (i + e) + 1 = (i + 1) + e
        BY <3>1
      <3>3. i + 1 \in DOMAIN l /\ (i + e) + 1 \in DOMAIN r
        BY <3>1, <3>2
      <3>4. l[i + 1] \in 48..57 /\ r[(i + e) + 1] \in 48..57
        BY <3>3, Zenon DEF isNumericIdentifier
      <3>5. g[i] \in Int /\ h[i + e] \in Int
        BY <3>1, <3>2, Zenon DEF Reads
      <3>6. g[i + 1] = 10 * g[i] + (l[i + 1] - 48)
        BY <3>1, Zenon DEF Reads
      <3>7. h[(i + e) + 1] = 10 * h[i + e] + (r[(i + e) + 1] - 48)
        BY <3>2, Zenon DEF Reads
      <3>8. 10 * g[i] + (l[i + 1] - 48) < 10 * h[i + e] + (r[(i + e) + 1] - 48)
        BY <3>1, <3>4, <3>5, AnotherDigit, Zenon
      <3> QED
        BY <3>2, <3>6, <3>7, <3>8, SMTT(20)
    <2> QED
      BY <2>1, <2>2
  <1> HIDE DEF S
  <1>3. \A i \in Nat : i \in S
    BY <1>1, <1>2, NumberInduction, Zenon
  <1> QED
    BY <1>3 DEF S

\* A number with more digits is the larger.
LEMMA LongerIsLarger ==
    ASSUME NEW l \in Seq(Nat), NEW r \in Seq(Nat), isNumericIdentifier(l), isNumericIdentifier(r),
           NoLeadingZero(r), l # <<>>, Len(l) < Len(r)
    PROVE  Value(l) < Value(r)
  <1>1. PICK g : Reads(g, l) /\ Value(l) = g[Len(l)]
    BY ValueReads
  <1>2. PICK h : Reads(h, r) /\ Value(r) = h[Len(r)]
    BY ValueReads
  <1>3. Len(l) \in Nat /\ Len(r) \in Nat /\ Len(l) > 0
    OBVIOUS
  <1>4. \A i \in 1..Len(r) : r[i] \in 48..57
    BY DOMAIN r = 1..Len(r), Zenon DEF isNumericIdentifier
  <1>5. r[1] # 48
    BY <1>3 DEF NoLeadingZero
  <1> DEFINE S == {i \in Nat : i <= Len(r) - 1 => h[i + 1] > 0}
  <1>6. \A i \in 0..(Len(r) - 1) : /\ h[i + 1] = 10 * h[i] + (r[i + 1] - 48)
                                   /\ h[i] \in Int /\ h[i + 1] \in Int
    BY <1>2 DEF Reads
  <1>7. 0 \in S
    <2>1. h[0] = 0
      BY <1>2 DEF Reads
    <2>2. 0 \in 0..(Len(r) - 1) /\ 1 \in 1..Len(r) /\ 0 + 1 = 1
      BY <1>3
    <2>3. h[1] = 10 * h[0] + (r[1] - 48) /\ r[1] \in 48..57
      BY <1>4, <1>6, <2>2
    <2>4. h[1] > 0
      BY <1>5, <2>1, <2>3, AnotherDigit, 0 \in Int, Zenon
    <2> QED
      BY <2>2, <2>4
  <1>8. ASSUME NEW i \in Nat, i \in S
        PROVE  i + 1 \in S
    <2> SUFFICES ASSUME i + 1 <= Len(r) - 1 PROVE h[(i + 1) + 1] > 0
      OBVIOUS
    <2>1. i + 1 \in 0..(Len(r) - 1) /\ (i + 1) + 1 \in 1..Len(r) /\ h[i + 1] > 0
      BY <1>8
    <2>2. h[(i + 1) + 1] = 10 * h[i + 1] + (r[(i + 1) + 1] - 48) /\ h[i + 1] \in Int
      BY <1>6, <2>1, SMTT(20)
    <2>3. r[(i + 1) + 1] \in 48..57
      BY <1>4, <2>1
    <2> QED
      BY <2>1, <2>2, <2>3, AnotherDigit, Zenon
  <1> HIDE DEF S
  <1>9. \A i \in Nat : i \in S
    BY <1>7, <1>8, NumberInduction, Zenon
  <1> DEFINE e == Len(r) - Len(l)
  <1>10. e \in Nat /\ Len(r) = Len(l) + e /\ e - 1 \in Nat /\ e - 1 <= Len(r) - 1
    BY <1>3
  <1>11. h[(e - 1) + 1] > 0 /\ (e - 1) + 1 = 0 + e
    BY <1>9, <1>10, SMTT(20) DEF S
  <1>12. g[0] < h[0 + e] /\ 0 \in 0..Len(l)
    <2>1. g[0] = 0 /\ 0 + e \in 0..Len(r)
      BY <1>1, <1>3, <1>10 DEF Reads
    <2>2. h[0 + e] \in Int
      BY <1>2, <2>1, Zenon DEF Reads
    <2> QED
      BY <1>3, <1>11, <2>1, <2>2
  <1> HIDE DEF e
  <1> QED
    BY <1>1, <1>2, <1>10, <1>12, AheadStaysAhead, Zenon

\* Of two numbers with as many digits, the text decides.
LEMMA TextDecides ==
    ASSUME NEW l \in Seq(Nat), NEW r \in Seq(Nat), isNumericIdentifier(l), isNumericIdentifier(r),
           Len(l) = Len(r), Below(NumberOrder, l, r)
    PROVE  Value(l) < Value(r)
  <1>1. PICK g : Reads(g, l) /\ Value(l) = g[Len(l)]
    BY ValueReads
  <1>2. PICK h : Reads(h, r) /\ Value(r) = h[Len(r)]
    BY ValueReads
  <1>3. PICK k \in 1..Len(r) : /\ \A i \in 1..(k - 1) : l[i] = r[i]
                               /\ NumberOrder[<<l[k], r[k]>>] < 0
    <2>1. PICK k \in 1..Len(r) : /\ \A i \in 1..(k - 1) : l[i] = r[i]
                                 /\ k > Len(l) \/ NumberOrder[<<l[k], r[k]>>] < 0
      BY Zenon DEF Below
    <2>2. ~(k > Len(l))
      OBVIOUS
    <2> QED
      BY <2>1, <2>2, Zenon
  <1>4. l[k] < r[k] /\ l[k] \in Nat /\ r[k] \in Nat
    <2>1. l[k] \in Nat /\ r[k] \in Nat
      OBVIOUS
    <2> QED
      BY <1>3, <2>1 DEF NumberOrder
  <1> DEFINE S == {i \in Nat : i <= k - 1 => g[i] = h[i]}
  <1>5. 0 \in S
    BY <1>1, <1>2 DEF Reads
  <1>6. ASSUME NEW i \in Nat, i \in S
        PROVE  i + 1 \in S
    <2> SUFFICES ASSUME i + 1 <= k - 1 PROVE g[i + 1] = h[i + 1]
      OBVIOUS
    <2>1. /\ i \in 0..(Len(l) - 1) /\ i \in 0..(Len(r) - 1)
          /\ g[i] = h[i] /\ l[i + 1] = r[i + 1]
      BY <1>3, <1>6
    <2>2. g[i + 1] = 10 * g[i] + (l[i + 1] - 48)
      BY <1>1, <2>1, Zenon DEF Reads
    <2>3. h[i + 1] = 10 * h[i] + (r[i + 1] - 48)
      BY <1>2, <2>1, Zenon DEF Reads
    <2> QED
      BY <2>1, <2>2, <2>3, Zenon
  <1> HIDE DEF S
  <1>7. \A i \in Nat : i \in S
    BY <1>5, <1>6, NumberInduction, Zenon
  <1>8. g[k - 1] = h[k - 1]
    BY <1>7 DEF S
  <1>9. /\ k - 1 \in 0..(Len(l) - 1) /\ k - 1 \in 0..(Len(r) - 1) /\ k - 1 \in 0..Len(l)
        /\ (k - 1) + 1 = k /\ k \in 0..Len(l) /\ k + 0 = k /\ Len(r) = Len(l) + 0
    OBVIOUS
  <1>10. g[(k - 1) + 1] = 10 * g[k - 1] + (l[(k - 1) + 1] - 48) /\ g[k - 1] \in Int
    BY <1>1, <1>9, Zenon DEF Reads
  <1>11. h[(k - 1) + 1] = 10 * h[k - 1] + (r[(k - 1) + 1] - 48)
    BY <1>2, <1>9, Zenon DEF Reads
  <1>12. g[k] < h[k]
    <2>1. g[k] = 10 * g[k - 1] + (l[k] - 48) /\ h[k] = 10 * g[k - 1] + (r[k] - 48)
      BY <1>8, <1>9, <1>10, <1>11
    <2>2. l[k] \in 48..57 /\ r[k] \in 48..57
      <3>1. k \in DOMAIN l /\ k \in DOMAIN r
        OBVIOUS
      <3> QED
        BY <3>1, Zenon DEF isNumericIdentifier
    <2>3. 10 * g[k - 1] + (l[k] - 48) < 10 * g[k - 1] + (r[k] - 48)
      BY <1>4, <1>10, <2>2, AnotherDigit, Zenon
    <2> QED
      BY <2>1, <2>3, Zenon
  <1>13. g[k] < h[k + 0] /\ 0 \in Nat
    BY <1>9, <1>12
  <1> QED
    BY <1>1, <1>2, <1>9, <1>13, AheadStaysAhead, Zenon

\* One round of comparePrerelease's loop decides as SemVer section 11 says.
LEMMA IdentifierDecides ==
    ASSUME NEW x \in Seq(Nat) \ {<<>>}, NEW y \in Seq(Nat) \ {<<>>},
           NoLeadingZero(x), NoLeadingZero(y)
    PROVE  IdentifierBelow(x, y) <=> IdentifierOrder[<<x, y>>] < 0
  <1> DEFINE c(a, b) == CompareIdentifier(a, b)
  <1>1. \A a, b \in Seq(Nat) :
            /\ CompareText(a, b) \in Int /\ (CompareText(a, b) = 0 <=> a = b)
            /\ CompareText(a, b) < 0 <=> Below(NumberOrder, a, b)
            /\ CompareText(a, b) > 0 <=> Below(NumberOrder, b, a)
    <2> TAKE a, b \in Seq(Nat)
    <2>1. CompareText(a, b) = InOrder(NumberOrder, a, b)
      BY TextIsOrdered, Zenon
    <2>2. /\ InOrder(NumberOrder, a, b) \in Int /\ (InOrder(NumberOrder, a, b) = 0 <=> a = b)
          /\ InOrder(NumberOrder, a, b) < 0 <=> Below(NumberOrder, a, b)
          /\ InOrder(NumberOrder, a, b) > 0 <=> Below(NumberOrder, b, a)
      BY NumbersAreOrdered, InOrderIsBelow
    <2> QED
      BY <2>1, <2>2
  <1>2. CASE isNumericIdentifier(x) /\ isNumericIdentifier(y)
    <2>1. c(x, y) = IF Len(x) # Len(y) THEN Len(x) - Len(y) ELSE CompareText(x, y)
      BY <1>1, <1>2, FirstOfTwo DEF CompareIdentifier
    <2>2. IdentifierBelow(x, y) <=> Value(x) < Value(y)
      BY <1>2, Zenon DEF IdentifierBelow
    <2>3. Value(x) \in Int /\ Value(y) \in Int
      BY ValueReads DEF Reads
    <2>4. /\ Len(x) < Len(y) => Value(x) < Value(y)
          /\ Len(y) < Len(x) => Value(y) < Value(x)
      BY <1>2, LongerIsLarger
    <2>5. ASSUME Len(x) = Len(y)
          PROVE  /\ CompareText(x, y) < 0 => Value(x) < Value(y)
                 /\ CompareText(x, y) > 0 => Value(y) < Value(x)
                 /\ CompareText(x, y) = 0 => Value(x) = Value(y)
      BY <1>1, <1>2, <2>5, TextDecides, SMTT(20)
    <2>6. c(x, y) < 0 <=> Value(x) < Value(y)
      <3>1. CompareText(x, y) \in Int /\ Len(x) \in Nat /\ Len(y) \in Nat
        BY <1>1
      <3> HIDE DEF c
      <3> QED
        BY <2>1, <2>3, <2>4, <2>5, <3>1, SMTT(20)
    <2> QED
      BY <2>2, <2>6 DEF IdentifierOrder
  <1>3. CASE isNumericIdentifier(x) /\ ~isNumericIdentifier(y)
    <2>1. c(x, y) = -1 /\ IdentifierBelow(x, y)
      BY <1>3, Zenon DEF CompareIdentifier, IdentifierBelow
    <2> QED
      BY <2>1 DEF IdentifierOrder
  <1>4. CASE ~isNumericIdentifier(x) /\ isNumericIdentifier(y)
    <2>1. c(x, y) = 1 /\ ~IdentifierBelow(x, y)
      BY <1>4, Zenon DEF CompareIdentifier, IdentifierBelow
    <2> QED
      BY <2>1 DEF IdentifierOrder
  <1>5. CASE ~isNumericIdentifier(x) /\ ~isNumericIdentifier(y)
    <2>1. c(x, y) = CompareText(x, y)
      <3>1. isNumericIdentifier(x) = FALSE /\ isNumericIdentifier(y) = FALSE
        BY <1>5, Zenon DEF isNumericIdentifier
      <3> QED
        BY <3>1, Zenon DEF CompareIdentifier
    <2>2. IdentifierBelow(x, y) <=> SeqBelow(x, y, <)
      BY <1>5, Zenon DEF IdentifierBelow
    <2>3. SeqBelow(x, y, <) <=> Below(NumberOrder, x, y)
      <3>1. \A k \in 1..Len(y) : ~(k > Len(x)) => (NumberOrder[<<x[k], y[k]>>] < 0 <=> x[k] < y[k])
        <4> SUFFICES ASSUME NEW k \in 1..Len(y), ~(k > Len(x))
                     PROVE  NumberOrder[<<x[k], y[k]>>] < 0 <=> x[k] < y[k]
          BY Zenon
        <4>1. x[k] \in Nat /\ y[k] \in Nat
          OBVIOUS
        <4> QED
          BY <4>1, NumberOrderIsLess, Zenon
      <3> QED
        BY <3>1, Zenon DEF SeqBelow, Below
    <2>4. c(x, y) = IdentifierOrder[<<x, y>>]
      BY DEF IdentifierOrder
    <2> QED
      <3>1. CompareText(x, y) < 0 <=> Below(NumberOrder, x, y)
        BY <1>1
      <3> HIDE DEF c
      <3> QED
        BY <2>1, <2>2, <2>3, <2>4, <3>1, Zenon
  <1> QED
    BY <1>2, <1>3, <1>4, <1>5, SMTT(20)

\* The versions that SemVer section 9 allows.
WellFormed ==
    [numbers : [1..3 -> Nat],
     pre : Seq({s \in Seq(Nat) \ {<<>>} : NoLeadingZero(s)})]

\* The three numbers decide as SemVer section 11 says.
LEMMA NumbersDecide ==
    ASSUME NEW f \in [1..3 -> Nat], NEW g \in [1..3 -> Nat]
    PROVE  SeqBelow(f, g, <) <=> \/ f[1] < g[1]
                                 \/ f[1] = g[1] /\ f[2] < g[2]
                                 \/ f[1] = g[1] /\ f[2] = g[2] /\ f[3] < g[3]
  <1>1. f \in Seq(Nat) /\ Len(f) = 3 /\ g \in Seq(Nat) /\ Len(g) = 3
    <2>1. \A n \in Nat : \A h \in [1..n -> Nat] : h \in Seq(Nat) /\ Len(h) = n
      BY IsSequence, SMTT(20)
    <2> QED
      BY <2>1, 3 \in Nat, Zenon
  <1>2. SeqBelow(f, g, <) <=> \E k \in 1..3 : (\A i \in 1..(k - 1) : f[i] = g[i]) /\ f[k] < g[k]
    <2>1. \A k \in 1..3 : k <= 3 + 1 /\ ~(k > 3)
      OBVIOUS
    <2> QED
      BY <1>1, <2>1, Zenon DEF SeqBelow
  <1>3. 1..3 = {1, 2, 3} /\ 1..(1 - 1) = {} /\ 1..(2 - 1) = {1} /\ 1..(3 - 1) = {1, 2}
    OBVIOUS
  <1> QED
    BY <1>2, <1>3, Zenon

\* So do the prereleases.
LEMMA PrereleaseDecides ==
    ASSUME NEW a \in Seq({s \in Seq(Nat) \ {<<>>} : NoLeadingZero(s)}),
           NEW b \in Seq({s \in Seq(Nat) \ {<<>>} : NoLeadingZero(s)})
    PROVE  comparePrerelease(a, b) < 0 <=>
             \/ a # <<>> /\ b = <<>>
             \/ a # <<>> /\ b # <<>> /\ SeqBelow(a, b, IdentifierBelow)
  <1>1. a \in Seq(Seq(Nat)) /\ b \in Seq(Seq(Nat))
    OBVIOUS
  <1>2. (a = <<>> <=> Len(a) = 0) /\ (b = <<>> <=> Len(b) = 0) /\ Len(a) \in Nat /\ Len(b) \in Nat
    OBVIOUS
  <1>3. comparePrerelease(a, b) =
          IF Len(a) = 0 \/ Len(b) = 0 THEN Len(b) - Len(a) ELSE InOrder(IdentifierOrder, a, b)
    BY <1>1, PrereleaseInOrder
  <1>4. InOrder(IdentifierOrder, a, b) < 0 <=> Below(IdentifierOrder, a, b)
    BY <1>1, IdentifiersAreOrdered, InOrderIsBelow
  <1>5. \A k \in 1..Len(b) : ~(k > Len(a)) =>
            (IdentifierOrder[<<a[k], b[k]>>] < 0 <=> IdentifierBelow(a[k], b[k]))
    <2> SUFFICES ASSUME NEW k \in 1..Len(b), ~(k > Len(a))
                 PROVE  IdentifierOrder[<<a[k], b[k]>>] < 0 <=> IdentifierBelow(a[k], b[k])
      BY Zenon
    <2>1. /\ a[k] \in Seq(Nat) \ {<<>>} /\ NoLeadingZero(a[k])
          /\ b[k] \in Seq(Nat) \ {<<>>} /\ NoLeadingZero(b[k])
      <3> DEFINE W == {s \in Seq(Nat) \ {<<>>} : NoLeadingZero(s)}
      <3>1. a \in Seq(W) /\ b \in Seq(W)
        OBVIOUS
      <3> HIDE DEF W
      <3>2. a[k] \in W /\ b[k] \in W
        <4>1. \A t \in Seq(W) : \A i \in 1..Len(t) : t[i] \in W
          OBVIOUS
        <4>2. k \in 1..Len(a)
          BY <1>2
        <4> QED
          BY <3>1, <4>1, <4>2, Zenon
      <3> QED
        BY <3>2, Zenon DEF W
    <2> QED
      BY <2>1, IdentifierDecides, Zenon
  <1>6. Below(IdentifierOrder, a, b) <=> SeqBelow(a, b, IdentifierBelow)
    BY <1>5, Zenon DEF SeqBelow, Below
  <1>7. Len(a) = 0 \/ Len(b) = 0 => (Len(b) - Len(a) < 0 <=> Len(a) # 0 /\ Len(b) = 0)
    BY <1>2
  <1> QED
    BY <1>2, <1>3, <1>4, <1>6, <1>7, Zenon

\* compare() is the precedence of SemVer section 11 on all versions of section
\* 9: numbers by value whatever their number of digits, a release above its
\* prereleases, and 0 for nothing but the same version.
THEOREM CompareIsPrecedence ==
    \A a, b \in WellFormed :
        /\ compare(a, b) < 0 <=> Precedes(a, b)
        /\ compare(a, b) > 0 <=> Precedes(b, a)
        /\ compare(a, b) = 0 <=> a = b
  <1>1. WellFormed \subseteq AnyVersion
    BY DEF WellFormed, AnyVersion
  <1>2. ASSUME NEW a \in WellFormed, NEW b \in WellFormed
        PROVE  compare(a, b) < 0 <=> Precedes(a, b)
    <2> DEFINE f == a.numbers
               g == b.numbers
               p == comparePrerelease(a.pre, b.pre)
    <2>1. f \in [1..3 -> Nat] /\ g \in [1..3 -> Nat]
      BY DEF WellFormed
    <2>2. /\ f[1] \in Nat /\ f[2] \in Nat /\ f[3] \in Nat
          /\ g[1] \in Nat /\ g[2] \in Nat /\ g[3] \in Nat
      BY <2>1, SMTT(20)
    <2>3. compare(a, b) = IF f[1] - g[1] # 0 THEN f[1] - g[1]
                          ELSE IF f[2] - g[2] # 0 THEN f[2] - g[2]
                          ELSE IF f[3] - g[3] # 0 THEN f[3] - g[3] ELSE p
      BY <1>1, CompareDecides, SMTT(20)
    <2>4. f = g <=> f[1] = g[1] /\ f[2] = g[2] /\ f[3] = g[3]
      <3>1. 1..3 = {1, 2, 3}
        OBVIOUS
      <3> QED
        BY <2>1, <3>1
    <2>5. p < 0 <=> \/ a.pre # <<>> /\ b.pre = <<>>
                    \/ a.pre # <<>> /\ b.pre # <<>> /\ SeqBelow(a.pre, b.pre, IdentifierBelow)
      <3>1. /\ a.pre \in Seq({s \in Seq(Nat) \ {<<>>} : NoLeadingZero(s)})
            /\ b.pre \in Seq({s \in Seq(Nat) \ {<<>>} : NoLeadingZero(s)})
        BY DEF WellFormed
      <3> QED
        BY <3>1, PrereleaseDecides
    <2>6. SeqBelow(f, g, <) <=> \/ f[1] < g[1]
                                \/ f[1] = g[1] /\ f[2] < g[2]
                                \/ f[1] = g[1] /\ f[2] = g[2] /\ f[3] < g[3]
      BY <2>1, NumbersDecide, Zenon
    <2>7. Precedes(a, b) <=> SeqBelow(f, g, <) \/ (f = g /\ p < 0)
      BY <2>5, Zenon DEF Precedes
    <2> HIDE DEF f, g, p
    <2>8. compare(a, b) < 0 <=>
            \/ f[1] < g[1]
            \/ f[1] = g[1] /\ f[2] < g[2]
            \/ f[1] = g[1] /\ f[2] = g[2] /\ f[3] < g[3]
            \/ f[1] = g[1] /\ f[2] = g[2] /\ f[3] = g[3] /\ p < 0
      BY <2>2, <2>3
    <2> QED
      BY <2>4, <2>6, <2>7, <2>8, Zenon
  <1>3. ASSUME NEW a \in WellFormed, NEW b \in WellFormed
        PROVE  (compare(a, b) = 0 <=> a = b) /\ (compare(a, b) > 0 <=> compare(b, a) < 0)
    <2>1. a \in AnyVersion /\ b \in AnyVersion
      BY <1>1
    <2>2. /\ VersionOrder[<<a, b>>] = compare(a, b) /\ VersionOrder[<<b, a>>] = compare(b, a)
          /\ VersionOrder[<<a, b>>] = 0 <=> a = b
          /\ VersionOrder[<<b, a>>] < 0 <=> VersionOrder[<<a, b>>] > 0
      BY <2>1, VersionsAreOrdered, Zenon DEF IsOrder, VersionOrder
    <2> QED
      BY <2>2
  <1> QED
    BY <1>2, <1>3, Zenon

-----------------------------------------------------------------------------
(* The update policy. *)

\* What runs, and what ran, are versions, and the console has gone up since.
WentUp ==
    /\ installed \in SemVer /\ past \in SemVer
    /\ past = installed \/ compare(past, installed) < 0

\* What is published, and what a manifest names as its minimum, are versions.
LEMMA PublishedVersions ==
    /\ SemVer \subseteq [numbers : [1..3 -> Nat], pre : Seq(Identifier)]
    /\ SemVer \subseteq AnyVersion
    /\ Minimum \subseteq AnyVersion
  <1>1. ASSUME NEW v \in SemVer
        PROVE  v \in [numbers : [1..3 -> Nat], pre : Seq(Identifier)]
    <2>1. /\ v = [numbers |-> v.numbers, pre |-> v.pre] /\ v.numbers \in Numbers
          /\ \E n \in 0..MaxIdentifiers : v.pre \in [1..n -> Identifier]
      BY DEF SemVer
    <2>2. v.pre \in Seq(Identifier)
      BY <2>1, PolicyAssumption, IsSequence, SMTT(20)
    <2> QED
      BY <2>1, <2>2, PolicyAssumption, SMTT(20)
  <1>2. [numbers : [1..3 -> Nat], pre : Seq(Identifier)] \subseteq AnyVersion
    BY PolicyAssumption DEF AnyVersion
  <1> QED
    BY <1>1, <1>2, PolicyAssumption, SMTT(20)

\* Whatever is published, with or without leading zeros, a console that accepts
\* an offer goes up in the order of compare(), so it never meets a version again.
THEOREM WentUpAlways == PolicySpec => []WentUp
  <1>1. PolicyInit => WentUp
    BY DEF PolicyInit, WentUp
  <1>2. WentUp /\ [PolicyNext]_policyVars => WentUp'
    <2> SUFFICES ASSUME WentUp, [PolicyNext]_policyVars
                 PROVE  WentUp'
      OBVIOUS
    <2>1. CASE Accept
      <3>1. PICK m \in Manifest : Offered(installed, m) /\ installed' = m.version
        BY <2>1 DEF Accept
      <3>2. compare(installed', installed) > 0
        BY <3>1 DEF Offered, decideUpdate, isNewerThan
      <3>3. m.version \in SemVer
        BY DEF Manifest
      <3>4. /\ installed \in AnyVersion /\ past \in AnyVersion /\ installed' \in AnyVersion
            /\ past' \in {past, installed}
        BY <2>1, <3>1, <3>3, PublishedVersions, SMTT(20) DEF WentUp, Accept
      <3>5. \A a, b \in AnyVersion : VersionOrder[<<a, b>>] = compare(a, b)
        BY DEF VersionOrder
      <3>6. compare(installed, installed') < 0
        <4>1. VersionOrder[<<installed, installed'>>] < 0
                <=> VersionOrder[<<installed', installed>>] > 0
          BY <3>4, VersionsAreOrdered, SMTT(20) DEF IsOrder
        <4> QED
          BY <3>2, <3>4, <3>5, <4>1, SMTT(20)
      <3>7. compare(past, installed) < 0 => compare(past, installed') < 0
        <4>1. VersionOrder[<<past, installed>>] < 0 /\ VersionOrder[<<installed, installed'>>] < 0
                => VersionOrder[<<past, installed'>>] < 0
          BY <3>4, VersionsAreOrdered DEF IsOrder
        <4> QED
          BY <3>4, <3>5, <3>6, <4>1, SMTT(20)
      <3> QED
        BY <3>1, <3>3, <3>4, <3>6, <3>7, SMTT(20) DEF WentUp
    <2>2. CASE UNCHANGED policyVars
      BY <2>2 DEF WentUp, policyVars
    <2> QED
      BY <2>1, <2>2 DEF PolicyNext
  <1> QED
    BY <1>1, <1>2, PTL DEF PolicySpec

\* Where numbers are written without leading zeros, that order is SemVer's: the
\* console never comes back to a version it has left, nor to one before it.
THEOREM NeverReturnsAlways ==
    ASSUME \A s \in Identifier : NoLeadingZero(s)
    PROVE  PolicySpec => []NeverReturns
  <1>1. SemVer \subseteq WellFormed
    <2>1. Identifier \subseteq {s \in Seq(Nat) \ {<<>>} : NoLeadingZero(s)}
      BY PolicyAssumption
    <2>2. Seq(Identifier) \subseteq Seq({s \in Seq(Nat) \ {<<>>} : NoLeadingZero(s)})
      BY <2>1
    <2> QED
      BY <2>2, PublishedVersions DEF WellFormed
  <1>2. WentUp => NeverReturns
    BY <1>1, CompareIsPrecedence, SMTT(20) DEF WentUp, NeverReturns
  <1> QED
    BY <1>2, WentUpAlways, PTL

\* And a release that a supported console has not reached is offered to it.
THEOREM NewerIsOfferedAlways ==
    ASSUME \A s \in Identifier : NoLeadingZero(s)
    PROVE  PolicySpec => []NewerIsOffered
  <1>1. SemVer \subseteq WellFormed /\ Minimum \subseteq WellFormed
    <2>1. Identifier \subseteq {s \in Seq(Nat) \ {<<>>} : NoLeadingZero(s)}
      BY PolicyAssumption
    <2>2. Seq(Identifier) \subseteq Seq({s \in Seq(Nat) \ {<<>>} : NoLeadingZero(s)})
      BY <2>1
    <2>3. [numbers : [1..3 -> Nat], pre : Seq(Identifier)] \subseteq WellFormed
      BY <2>2 DEF WellFormed
    <2> QED
      BY <2>3, PublishedVersions, PolicyAssumption, SMTT(20)
  <1>2. WentUp => NewerIsOffered
    <2> SUFFICES ASSUME WentUp, NEW m \in Manifest,
                        Precedes(installed, m.version), ~Precedes(installed, m.min)
                 PROVE  Offered(installed, m)
      BY DEF NewerIsOffered
    <2>1. /\ m.version \in SemVer /\ m.min \in Minimum /\ m.channel \in Channel
          /\ m.mandatory \in BOOLEAN
      BY DEF Manifest
    <2>2. /\ compare(m.version, installed) > 0
          /\ ~(compare(installed, m.min) < 0)
      BY <1>1, <2>1, CompareIsPrecedence, SMTT(20) DEF WentUp
    <2>3. decideUpdate(installed, m, m.channel) \in {"Optional", "Mandatory"}
      BY <2>1, <2>2 DEF decideUpdate, isNewerThan
    <2> QED
      BY <2>1, <2>3, SMTT(20) DEF Offered
  <1> QED
    BY <1>2, WentUpAlways, PTL
=============================================================================
