---------------------------- MODULE ManifestProofs ----------------------------
(***************************************************************************)
(* Proofs about the manifest check for any number of concurrent checks,    *)
(* any documents, time-to-live and backoff policy, and any number of       *)
(* failed writes, power cuts and clicks.                                   *)
(*                                                                         *)
(* The three files are never trusted: whatever mixture of them two checks  *)
(* leave behind, every metadata record and every backoff that exists       *)
(* anywhere is a true statement about the past.  That is the invariant.    *)
(***************************************************************************)
EXTENDS ManifestCheck, FiniteSets, TLAPS

-----------------------------------------------------------------------------
(* Ages and deadlines. *)

\* What was fetched at a time when it was still served, and is younger than the
\* TTL, was served less than a TTL ago.
LEMMA YoungerThanTtl ==
    \A now, at, last, ttl \in Int : at <= last /\ now - at < ttl => now < last + ttl
  OBVIOUS

\* A deadline that is still ahead was set less than the cap ago.
LEMMA AheadOfDeadline ==
    \A now, next, fail, cap \in Int :
        now >= 0 /\ next > now /\ (next > 0 => next <= fail + cap) => now < fail + cap
  OBVIOUS

\* The wait is the distance to the deadline, when that is ahead.
LEMMA WaitIsAhead ==
    \A now, next, cap \in Int :
        (IF next <= now \/ next - now > cap THEN 0 ELSE next - now) > 0 => next > now
  OBVIOUS

-----------------------------------------------------------------------------
(* What is needed of induction and counting.  It is proved last, from the      *)
(* library: its theorems are many, and slow the provers down wherever they are *)
(* in sight.                                                                   *)

\* A set of naturals that has 0 and the successor of each of its members is
\* all of them.
Induction ==
    \A S : 0 \in S /\ (\A n \in Nat : n \in S => n + 1 \in S) => \A n \in Nat : n \in S

Counting ==
    /\ IsFiniteSet({}) /\ Cardinality({}) = 0
    /\ \A S : IsFiniteSet(S) => Cardinality(S) \in Nat
    /\ \A S, x : IsFiniteSet(S) /\ x \notin S =>
         IsFiniteSet(S \cup {x}) /\ Cardinality(S \cup {x}) = Cardinality(S) + 1
    /\ \A S : \A x \in S : IsFiniteSet(S) =>
         IsFiniteSet(S \ {x}) /\ Cardinality(S \ {x}) = Cardinality(S) - 1
    /\ \A S : \A T \in SUBSET S : IsFiniteSet(S) =>
         IsFiniteSet(T) /\ Cardinality(T) <= Cardinality(S)

Groundwork == Induction /\ Counting

-----------------------------------------------------------------------------
(* Doubling that stops at the cap. *)

\* One doubling.
Grow(d) == IF d >= Cap - d THEN Cap ELSE 2 * d

\* What the local function of growCapped is: some function with this equation.
Grows(g, n) == g = [i \in 0..n |-> IF i = 0 THEN Base ELSE Grow(g[i - 1])]

\* A doubling stays between 1 and the cap.
LEMMA GrowBound ==
    \A d \in 1..Cap : Grow(d) \in 1..Cap
  BY CheckAssumption DEF Grow

\* There is such a function for every number of steps.
LEMMA GrowsExists ==
    ASSUME Groundwork
    PROVE  \A n \in Nat : \E g : Grows(g, n)
  <1> DEFINE S == {n \in Nat : \E g : Grows(g, n)}
  <1>1. 0 \in S
    <2> DEFINE g == [i \in 0..0 |-> Base]
    <2>1. Grows(g, 0)
      BY DEF Grows
    <2> QED
      BY <2>1, Zenon
  <1>2. ASSUME NEW n \in Nat, n \in S
        PROVE  n + 1 \in S
    <2>1. PICK g : Grows(g, n)
      BY <1>2, Zenon
    <2> DEFINE k == [i \in 0..(n + 1) |-> IF i <= n THEN g[i] ELSE Grow(g[n])]
    <2>2. ASSUME NEW i \in 0..(n + 1)
          PROVE  k[i] = IF i = 0 THEN Base ELSE Grow(k[i - 1])
      <3>1. CASE i = 0
        BY <2>1, <3>1 DEF Grows
      <3>2. CASE i # 0 /\ i <= n
        <4>1. i \in 0..n /\ i - 1 \in 0..n /\ i - 1 \in 0..(n + 1) /\ i - 1 <= n
          BY <3>2
        <4>2. g[i] = Grow(g[i - 1])
          BY <2>1, <3>2, <4>1, Zenon DEF Grows
        <4> QED
          BY <3>2, <4>1, <4>2, Zenon
      <3>3. CASE i = n + 1
        <4>1. i - 1 = n /\ n \in 0..(n + 1) /\ ~(i <= n) /\ i # 0 /\ n <= n
          BY <3>3
        <4> QED
          BY <4>1, Zenon
      <3> QED
        BY <3>1, <3>2, <3>3
    <2>3. Grows(k, n + 1)
      BY <2>2, Zenon DEF Grows
    <2> QED
      BY <2>3
  <1> HIDE DEF S
  <1>3. \A n \in Nat : n \in S
    BY <1>1, <1>2, Zenon DEF Groundwork, Induction
  <1> QED
    BY <1>3, Zenon DEF S

\* And every value of it is between 1 and the cap.
LEMMA GrowsBound ==
    ASSUME Groundwork, NEW n \in Nat, NEW g, Grows(g, n)
    PROVE  g[n] \in 1..Cap
  <1> DEFINE S == {i \in Nat : i <= n => g[i] \in 1..Cap}
  <1>1. 0 \in S
    <2>1. 0 \in 0..n
      OBVIOUS
    <2>2. g[0] = Base
      BY <2>1, Zenon DEF Grows
    <2> QED
      BY <2>2, CheckAssumption
  <1>2. ASSUME NEW i \in Nat, i \in S
        PROVE  i + 1 \in S
    <2> SUFFICES ASSUME i + 1 <= n PROVE g[i + 1] \in 1..Cap
      OBVIOUS
    <2>1. i + 1 \in 0..n /\ i + 1 # 0 /\ (i + 1) - 1 = i /\ i <= n
      OBVIOUS
    <2>2. g[i + 1] = Grow(g[i])
      BY <2>1, Zenon DEF Grows
    <2> QED
      BY <1>2, <2>1, <2>2, GrowBound, Zenon
  <1> HIDE DEF S
  <1>3. \A i \in Nat : i \in S
    BY <1>1, <1>2, Zenon DEF Groundwork, Induction
  <1> QED
    BY <1>3 DEF S

\* growCapped: between one second and the cap, after any number of failures.
LEMMA GrowCappedBound ==
    ASSUME Groundwork
    PROVE  \A n \in Nat : growCapped(n) \in 1..Cap
  <1> SUFFICES ASSUME NEW n \in Nat PROVE growCapped(n) \in 1..Cap
    OBVIOUS
  <1> DEFINE g == CHOOSE g : Grows(g, n)
  <1>1. Grows(g, n)
    BY GrowsExists, Zenon
  <1>2. growCapped(n) = g[n]
    BY Zenon DEF growCapped, Grows, Grow
  <1> QED
    BY <1>1, <1>2, GrowsBound, Zenon

\* backoffDelay: so is the delay, whatever the jitter chooses.
LEMMA DelayBound ==
    ASSUME Groundwork
    PROVE  \A n \in Nat \ {0} : backoffDelay(n) \subseteq 1..Cap
  <1> SUFFICES ASSUME NEW n \in Nat \ {0} PROVE backoffDelay(n) \subseteq 1..Cap
    OBVIOUS
  <1> DEFINE plain == growCapped(n - 1)
             span == (plain * Jitter) \div 100
             Clamp(d) == IF d < 1 THEN 1 ELSE IF d > Cap THEN Cap ELSE d
  <1>1. plain \in 1..Cap
    <2>1. n - 1 \in Nat
      OBVIOUS
    <2> QED
      BY <2>1, GrowCappedBound, Zenon
  <1>2. \A d \in Int : Clamp(d) \in 1..Cap
    BY CheckAssumption
  <1>3. span \in Int
    BY <1>1, CheckAssumption
  <1>4. backoffDelay(n)
          = IF span = 0 THEN {plain} ELSE {Clamp(plain + o) : o \in (-span)..(span - 1)}
    BY Zenon DEF backoffDelay
  <1> HIDE DEF plain, span, Clamp
  <1>5. \A o \in (-span)..(span - 1) : plain + o \in Int
    BY <1>1, <1>3
  <1> QED
    BY <1>1, <1>2, <1>4, <1>5

-----------------------------------------------------------------------------
(* The invariant. *)

\* The checks that have not had their answer yet.
Active == {w \in Worker : pc[w] \in {"readMeta", "readDoc", "plan", "fetch", "mirror"}}

\* The metadata that are true: the document was being served at the time they
\* name, and their ETag is one of it.
TrueMeta ==
    {m \in Metadata : m.at <= seen[m.doc] /\ (m.etag # None => m.etag.doc = m.doc)}

\* The backoffs that are true: no more failures than checks that had an answer,
\* and no deadline further away from the last failure than the cap.
TrueBackoff ==
    {b \in Backoff :
        /\ b.failures + Cardinality(Active) <= checks
        /\ b.next > 0 => b.next <= lastFail + Cap}

\* What a check holds is true, too.
TrueLocal ==
    {l \in Local :
        /\ l.now <= clock
        /\ l.meta \in TrueMeta \cup {None} /\ l.newMeta \in TrueMeta \cup {None}
        /\ l.backoff \in TrueBackoff /\ l.newBackoff \in TrueBackoff}

\* A cache that was accepted describes its document; a check that writes the
\* cache has something to write.
Steady(w) ==
    /\ pc[w] = "readDoc" => loc[w].meta # None
    /\ pc[w] \in {"plan", "fetch", "mirror"} /\ loc[w].meta # None
         => loc[w].doc = loc[w].meta.doc
    /\ pc[w] \in {"write", "clear", "move"} /\ file[w] # "backoff"
         => loc[w].newMeta # None

\* The hosts serve what was seen last, and nothing is later than the clock.
WorldInv ==
    /\ clock \in Time /\ serves \in [Host -> Doc] /\ seen \in [Doc -> Time \cup {-1}]
    /\ asks \in Host /\ toggle \in BOOLEAN /\ clicks \in 0..MaxClicks
    /\ lastFail \in Time \cup {-1 - Cap} /\ lastFail <= clock
    /\ \A h \in Host : seen[serves[h]] = clock
    /\ \A d \in Doc : seen[d] <= clock

\* What is on the card is true.
FilesInv ==
    /\ disk = [f \in File |-> disk[f]] /\ tmp = [f \in File |-> tmp[f]]
    /\ disk["doc"] \in Doc \cup {None} /\ tmp["doc"] \in Doc \cup {None}
    /\ disk["meta"] \in TrueMeta \cup {None} /\ tmp["meta"] \in TrueMeta \cup {None}
    /\ disk["backoff"] \in TrueBackoff \cup {None}
    /\ tmp["backoff"] \in TrueBackoff \cup {None}

Step == {"idle", "readMeta", "readDoc", "plan", "fetch", "mirror", "write", "clear", "move"}

ChecksInv ==
    /\ pc \in [Worker -> Step] /\ file \in [Worker -> File]
    /\ loc \in [Worker -> TrueLocal]
    /\ \A w \in Worker : Steady(w)

CountersInv ==
    /\ IsFiniteSet(Active) /\ Cardinality(Active) <= checks
    /\ checks \in 0..MaxChecks /\ faults \in 0..MaxFaults /\ cuts \in 0..MaxCuts

\* The inductive invariant behind FreshIsRecent, DeferralIsEarned and the
\* types: what is stored or held anywhere is true of the past, however old.
CheckInv == WorldInv /\ FilesInv /\ ChecksInv /\ CountersInv

\* The types follow: in particular a deadline is no further from now than the
\* cap, because the last failure is not in the future.
LEMMA InvTypes == CheckInv => TypeOK
  <1> SUFFICES ASSUME CheckInv PROVE TypeOK
    OBVIOUS
  <1> USE DEF CheckInv
  <1>1. TrueMeta \subseteq Metadata /\ TrueBackoff \subseteq Backoff /\ TrueLocal \subseteq Local
    BY Zenon DEF TrueMeta, TrueBackoff, TrueLocal
  <1>2. disk["backoff"] # None => disk["backoff"].next <= clock + Cap
    <2> SUFFICES ASSUME disk["backoff"] # None PROVE disk["backoff"].next <= clock + Cap
      OBVIOUS
    <2>1. disk["backoff"] \in TrueBackoff
      BY Zenon DEF FilesInv
    <2>2. PICK n \in 0..(MaxTime + Cap) : disk["backoff"].next = n /\ (n > 0 => n <= lastFail + Cap)
      BY <2>1, Zenon DEF TrueBackoff, Backoff
    <2> QED
      BY <2>2, CheckAssumption DEF WorldInv, Time
  <1>3. loc \in [Worker -> Local]
    BY <1>1, Zenon DEF ChecksInv
  <1> QED
    BY <1>1, <1>2, <1>3, Zenon DEF TypeOK, WorldInv, FilesInv, ChecksInv, CountersInv, Step

-----------------------------------------------------------------------------
(* What was true stays true. *)

\* A document may be seen again later, never unseen.
LEMMA MetaStaysTrue ==
    ASSUME seen \in [Doc -> Time \cup {-1}], seen' \in [Doc -> Time \cup {-1}],
           \A d \in Doc : seen[d] <= seen'[d]
    PROVE  TrueMeta \subseteq TrueMeta'
  <1> SUFFICES ASSUME NEW m \in TrueMeta PROVE m \in TrueMeta'
    OBVIOUS
  <1>1. m \in Metadata /\ m.doc \in Doc /\ m.at \in Time
    BY Zenon DEF TrueMeta, Metadata
  <1>2. m.at <= seen[m.doc] /\ seen[m.doc] <= seen'[m.doc]
    BY <1>1, Zenon DEF TrueMeta
  <1>3. m.at <= seen'[m.doc]
    BY <1>1, <1>2, CheckAssumption DEF Time
  <1> QED
    BY <1>1, <1>3, Zenon DEF TrueMeta

\* A failure is one of a check that has had its answer, and the last one only
\* moves on.
LEMMA BackoffStaysTrue ==
    ASSUME checks \in Nat, checks' \in Nat,
           Cardinality(Active) \in Nat, Cardinality(Active') \in Nat,
           Cardinality(Active') + checks <= Cardinality(Active) + checks',
           lastFail \in Int, lastFail' \in Int, lastFail <= lastFail'
    PROVE  TrueBackoff \subseteq TrueBackoff'
  <1> SUFFICES ASSUME NEW b \in TrueBackoff PROVE b \in TrueBackoff'
    OBVIOUS
  <1>1. b \in Backoff /\ b.failures \in Nat /\ b.next \in Nat
    BY CheckAssumption DEF TrueBackoff, Backoff, Time
  <1>2. b.failures + Cardinality(Active) <= checks
    BY Zenon DEF TrueBackoff
  <1>3. b.failures + Cardinality(Active') <= checks'
    BY <1>1, <1>2
  <1>4. b.next > 0 => b.next <= lastFail' + Cap
    BY <1>1, CheckAssumption DEF TrueBackoff
  <1> QED
    BY <1>1, <1>3, <1>4, Zenon DEF TrueBackoff

\* What a check holds in its local variables stays true while others go on.
LEMMA LocalStaysTrue ==
    ASSUME TrueMeta \subseteq TrueMeta', TrueBackoff \subseteq TrueBackoff',
           clock \in Time, clock' \in Time, clock <= clock'
    PROVE  TrueLocal \subseteq TrueLocal'
  <1> SUFFICES ASSUME NEW l \in TrueLocal PROVE l \in TrueLocal'
    OBVIOUS
  <1>1. l \in Local /\ l.now \in Time /\ l.now <= clock
    BY Zenon DEF TrueLocal, Local
  <1>2. l.now <= clock'
    BY <1>1, CheckAssumption DEF Time
  <1> QED
    BY <1>1, <1>2, Zenon DEF TrueLocal

\* What is on the card stays true as long as nobody writes.
LEMMA FilesStayTrue ==
    ASSUME FilesInv, TrueMeta \subseteq TrueMeta', TrueBackoff \subseteq TrueBackoff',
           UNCHANGED diskVars
    PROVE  FilesInv'
  BY Zenon DEF FilesInv, diskVars

-----------------------------------------------------------------------------
(* One step of one worker. *)

\* No other worker moves.
Only(w) ==
    /\ pc' = [pc EXCEPT ![w] = pc'[w]]
    /\ file' = [file EXCEPT ![w] = file'[w]]
    /\ loc' = [loc EXCEPT ![w] = loc'[w]]

\* A check that gets its answer, or goes on without one, keeps the counters.
LEMMA CountersKept ==
    ASSUME Groundwork, CountersInv, WorldInv, Active' \subseteq Active, UNCHANGED checks,
           faults' \in 0..MaxFaults, cuts' \in 0..MaxCuts, lastFail' \in Time \cup {-1 - Cap}, lastFail <= lastFail'
    PROVE  CountersInv' /\ TrueBackoff \subseteq TrueBackoff'
  <1>1. /\ IsFiniteSet(Active') /\ Cardinality(Active') <= Cardinality(Active)
        /\ Cardinality(Active') \in Nat /\ Cardinality(Active) \in Nat
    BY Zenon DEF Groundwork, Counting, CountersInv
  <1>2. checks \in Nat /\ checks' = checks /\ lastFail \in Int /\ lastFail' \in Int
    BY CheckAssumption DEF CountersInv, WorldInv, Time
  <1>3. CountersInv'
    BY <1>1, <1>2 DEF CountersInv
  <1>4. TrueBackoff \subseteq TrueBackoff'
    BY <1>1, <1>2, BackoffStaysTrue
  <1> QED
    BY <1>3, <1>4, Zenon

\* What a step of a worker has to show: that it writes and holds what is true.
LEMMA WorkerStep ==
    ASSUME Groundwork, CheckInv, NEW w \in Worker, Only(w),
           pc'[w] \in Step, file'[w] \in File,
           pc'[w] \in {"readMeta", "readDoc", "plan", "fetch", "mirror"} => w \in Active,
           UNCHANGED <<worldVars, checks, cuts>>, faults' \in 0..MaxFaults,
           lastFail' \in Time \cup {-1 - Cap}, lastFail <= lastFail', lastFail' <= clock
    PROVE  /\ WorldInv' /\ CountersInv'
           /\ TrueMeta' = TrueMeta
           /\ TrueBackoff \subseteq TrueBackoff' /\ TrueLocal \subseteq TrueLocal'
           /\ loc'[w] \in TrueLocal' /\ Steady(w)' => ChecksInv'
  <1>1. Active' \subseteq Active
    BY Zenon DEF Only, Active, CheckInv, ChecksInv
  <1>2. CountersInv' /\ TrueBackoff \subseteq TrueBackoff'
    <2>1. cuts' \in 0..MaxCuts
      BY Zenon DEF CheckInv, CountersInv
    <2> QED
      BY <1>1, <2>1, CountersKept, Zenon DEF CheckInv
  <1>3. WorldInv'
    BY Zenon DEF CheckInv, WorldInv, worldVars, configVars
  <1>4. TrueMeta' = TrueMeta
    BY Zenon DEF TrueMeta, worldVars
  <1>5. clock \in Time /\ clock' = clock /\ clock <= clock'
    BY CheckAssumption, Zenon DEF CheckInv, WorldInv, worldVars, Time
  <1>6. TrueLocal \subseteq TrueLocal'
    BY <1>2, <1>4, <1>5, LocalStaysTrue, Zenon
  <1>7. ASSUME loc'[w] \in TrueLocal', Steady(w)'
        PROVE  ChecksInv'
    <2>1. pc' \in [Worker -> Step] /\ file' \in [Worker -> File]
      BY Zenon DEF Only, CheckInv, ChecksInv
    <2>2. loc' \in [Worker -> TrueLocal']
      BY <1>6, <1>7, Zenon DEF Only, CheckInv, ChecksInv
    <2>3. ASSUME NEW v \in Worker
          PROVE  Steady(v)'
      <3>1. CASE v = w
        BY <1>7, <3>1, Zenon
      <3>2. CASE v # w
        <4>1. pc'[v] = pc[v] /\ file'[v] = file[v] /\ loc'[v] = loc[v]
          BY <3>2, Zenon DEF Only, CheckInv, ChecksInv
        <4>2. Steady(v)
          BY Zenon DEF CheckInv, ChecksInv
        <4> QED
          BY <4>1, <4>2, Zenon DEF Steady
      <3> QED
        BY <3>1, <3>2, Zenon
    <2> QED
      BY <2>1, <2>2, <2>3, Zenon DEF ChecksInv
  <1> QED
    BY <1>2, <1>3, <1>4, <1>6, <1>7, Zenon

\* A check that has returned holds nothing.
LEMMA NothingIsLocal ==
    NoBackoff \in Backoff /\ NoLocal \in Local
  <1>1. 0 \in Time /\ 0 \in 0..MaxChecks /\ 0 \in 0..(MaxTime + Cap)
    BY CheckAssumption DEF Time
  <1>2. NoBackoff \in Backoff
    BY <1>1, Zenon DEF NoBackoff, Backoff
  <1> QED
    BY <1>1, <1>2, Zenon DEF NoLocal, Local, Host

\* Nothing is true.
LEMMA NothingIsTrue ==
    ASSUME Groundwork, CheckInv
    PROVE  NoBackoff \in TrueBackoff /\ NoLocal \in TrueLocal
  <1>1. Cardinality(Active) \in Nat /\ Cardinality(Active) <= checks /\ checks \in Nat
    BY CheckAssumption DEF Groundwork, Counting, CheckInv, CountersInv
  <1>2. NoBackoff \in TrueBackoff
    BY <1>1, NothingIsLocal DEF NoBackoff, TrueBackoff
  <1>3. NoLocal.now <= clock
    BY DEF NoLocal, Time, CheckInv, WorldInv
  <1> QED
    BY <1>2, <1>3, NothingIsLocal, Zenon DEF NoLocal, TrueLocal

\* A check begins: one more check, and one more that has had no answer.
LEMMA BeginKeepsInv ==
    ASSUME Groundwork, CheckInv, NEW w \in Worker, Begin(w)
    PROVE  CheckInv'
  <1>1. pc \in [Worker -> Step] /\ loc \in [Worker -> TrueLocal] /\ pc[w] = "idle"
    BY Zenon DEF CheckInv, ChecksInv, Begin
  <1>2. Active' = Active \cup {w} /\ w \notin Active
    BY <1>1, Zenon DEF Begin, Active
  <1>3. /\ IsFiniteSet(Active') /\ Cardinality(Active') = Cardinality(Active) + 1
        /\ Cardinality(Active) \in Nat /\ Cardinality(Active') \in Nat
    BY <1>2, Zenon DEF Groundwork, Counting, CheckInv, CountersInv
  <1>4. checks \in Nat /\ checks' = checks + 1 /\ checks' \in 0..MaxChecks
    BY CheckAssumption DEF Begin, CheckInv, CountersInv
  <1>5. CountersInv'
    BY <1>3, <1>4 DEF CheckInv, CountersInv, Begin
  <1>6. WorldInv'
    BY Zenon DEF CheckInv, WorldInv, Begin, worldVars, configVars
  <1>7. TrueMeta' = TrueMeta
    BY Zenon DEF TrueMeta, Begin, worldVars
  <1>8. lastFail \in Int /\ lastFail' = lastFail
    BY CheckAssumption DEF Begin, CheckInv, WorldInv, Time
  <1>9. TrueBackoff \subseteq TrueBackoff'
    BY <1>3, <1>4, <1>8, BackoffStaysTrue
  <1>10. clock \in Time /\ clock' = clock /\ clock <= clock'
    BY CheckAssumption, Zenon DEF CheckInv, WorldInv, Begin, worldVars, Time
  <1>11. TrueLocal \subseteq TrueLocal'
    BY <1>7, <1>9, <1>10, LocalStaysTrue, Zenon
  <1>12. [NoLocal EXCEPT !.now = clock] \in TrueLocal
    <2>1. NoLocal \in TrueLocal
      BY NothingIsTrue, Zenon
    <2> QED
      BY <2>1, <1>10, Zenon DEF TrueLocal, Local
  <1>13. ChecksInv'
    <2>1. pc' \in [Worker -> Step] /\ file' \in [Worker -> File]
      BY <1>1, Zenon DEF Begin, CheckInv, ChecksInv, Step
    <2>2. loc' \in [Worker -> TrueLocal']
      BY <1>1, <1>11, <1>12, Zenon DEF Begin
    <2>3. ASSUME NEW v \in Worker PROVE Steady(v)'
      <3>1. CASE v = w
        BY <1>1, <3>1, Zenon DEF Begin, Steady
      <3>2. CASE v # w
        <4>1. pc'[v] = pc[v] /\ file'[v] = file[v] /\ loc'[v] = loc[v]
          BY <1>1, <3>2, Zenon DEF Begin
        <4>2. Steady(v)
          BY Zenon DEF CheckInv, ChecksInv
        <4> QED
          BY <4>1, <4>2, Zenon DEF Steady
      <3> QED
        BY <3>1, <3>2, Zenon
    <2> QED
      BY <2>1, <2>2, <2>3, Zenon DEF ChecksInv
  <1>14. FilesInv'
    BY <1>7, <1>9, FilesStayTrue, Zenon DEF CheckInv, Begin
  <1> QED
    BY <1>5, <1>6, <1>13, <1>14, Zenon DEF CheckInv

\* The steps that read the card and decide.
LEMMA ReadKeepsInv ==
    ASSUME Groundwork, CheckInv, NEW w \in Worker, ReadMeta(w) \/ ReadDoc(w) \/ PlanFetch(w)
    PROVE  CheckInv'
  <1>1. /\ pc \in [Worker -> Step] /\ file \in [Worker -> File]
        /\ loc \in [Worker -> TrueLocal] /\ loc[w] \in TrueLocal /\ Steady(w)
    BY Zenon DEF CheckInv, ChecksInv
  <1>2. /\ UNCHANGED <<worldVars, checks, cuts>> /\ UNCHANGED diskVars
        /\ UNCHANGED <<file, lastFail, faults>>
    BY Zenon DEF ReadMeta, ReadDoc, PlanFetch
  <1>3. /\ faults' \in 0..MaxFaults
        /\ lastFail' \in Time \cup {-1 - Cap} /\ lastFail <= lastFail' /\ lastFail' <= clock
    BY <1>2, CheckAssumption DEF CheckInv, CountersInv, WorldInv, Time
  <1>4. w \in Active
    BY Zenon DEF ReadMeta, ReadDoc, PlanFetch, Active
  <1>5. NoLocal \in TrueLocal
    BY NothingIsTrue, Zenon
  <1>6. /\ Only(w) /\ pc'[w] \in Step /\ file'[w] \in File
        /\ loc'[w] \in TrueLocal /\ Steady(w)'
    <2>1. CASE ReadMeta(w)
      <3>1. loc' = [loc EXCEPT ![w] = [loc[w] EXCEPT !.meta = disk["meta"]]]
        BY <2>1, <1>1, Zenon DEF ReadMeta
      <3>2. pc' = [pc EXCEPT ![w] = IF disk["meta"] = None THEN "plan" ELSE "readDoc"]
        BY <2>1, Zenon DEF ReadMeta
      <3>3. disk["meta"] \in TrueMeta \cup {None} /\ TrueMeta \subseteq Metadata
        BY Zenon DEF CheckInv, FilesInv, TrueMeta
      <3>4. loc'[w] = [loc[w] EXCEPT !.meta = disk["meta"]]
        BY <3>1, <1>1, Zenon
      <3>5. loc'[w] \in TrueLocal /\ loc'[w].meta = disk["meta"]
        BY <3>4, <3>3, <1>1, Zenon DEF TrueLocal, Local
      <3>6. Only(w) /\ pc'[w] \in Step /\ file'[w] \in File
        BY <3>1, <3>2, <1>1, <1>2, Zenon DEF Only, Step
      <3>7. Steady(w)'
        BY <3>2, <3>5, <1>1, Zenon DEF Steady
      <3> QED
        BY <3>5, <3>6, <3>7, Zenon
    <2>2. CASE ReadDoc(w)
      <3> DEFINE l == IF disk["doc"] # None /\ cacheMatchesDocument(loc[w].meta, disk["doc"])
                      THEN [loc[w] EXCEPT !.doc = disk["doc"]]
                      ELSE [loc[w] EXCEPT !.meta = None]
      <3>1. loc' = [loc EXCEPT ![w] = l]
        BY <2>2, <1>1, Zenon DEF ReadDoc
      <3>2. pc' = [pc EXCEPT ![w] = "plan"]
        BY <2>2, Zenon DEF ReadDoc
      <3>3. disk["doc"] \in Doc \cup {None}
        BY Zenon DEF CheckInv, FilesInv
      <3>4. l \in TrueLocal /\ (l.meta # None => l.doc = l.meta.doc)
        BY <3>3, <1>1, Zenon DEF TrueLocal, Local, cacheMatchesDocument
      <3> HIDE DEF l
      <3>5. Only(w) /\ pc'[w] \in Step /\ file'[w] \in File /\ loc'[w] = l
        BY <3>1, <3>2, <1>1, <1>2, Zenon DEF Only, Step
      <3>6. Steady(w)'
        BY <3>2, <3>4, <3>5, <1>1, Zenon DEF Steady
      <3> QED
        BY <3>4, <3>5, <3>6, Zenon
    <2>3. CASE PlanFetch(w)
      <3>1. CASE Plan(w) \in {"Revalidate", "Fetch"}
        <4>1. loc' = [loc EXCEPT ![w] = [loc[w] EXCEPT !.backoff = loadBackoff, !.host = asks]]
          BY <2>3, <3>1, <1>1, Zenon DEF PlanFetch
        <4>2. pc[w] = "plan" /\ pc' = [pc EXCEPT ![w] = "fetch"]
          BY <2>3, <3>1, Zenon DEF PlanFetch
        <4>3. loadBackoff \in TrueBackoff /\ TrueBackoff \subseteq Backoff /\ asks \in Host
          BY NothingIsTrue, Zenon DEF loadBackoff, CheckInv, FilesInv, WorldInv, TrueBackoff
        <4>4. loc'[w] = [loc[w] EXCEPT !.backoff = loadBackoff, !.host = asks]
          BY <4>1, <1>1, Zenon
        <4>5. /\ loc'[w] \in TrueLocal
              /\ loc'[w].meta = loc[w].meta /\ loc'[w].doc = loc[w].doc
          BY <4>3, <4>4, <1>1, Zenon DEF TrueLocal, Local
        <4>6. Only(w) /\ pc'[w] \in Step /\ file'[w] \in File
          BY <4>1, <4>2, <1>1, <1>2, Zenon DEF Only, Step
        <4>7. Steady(w)'
          BY <4>2, <4>5, <1>1, Zenon DEF Steady
        <4> QED
          BY <4>5, <4>6, <4>7, Zenon
      <3>2. CASE Plan(w) \notin {"Revalidate", "Fetch"}
        <4>1. pc' = [pc EXCEPT ![w] = "idle"] /\ loc' = [loc EXCEPT ![w] = NoLocal]
          BY <2>3, <3>2, Zenon DEF PlanFetch, Done
        <4>2. Only(w) /\ pc'[w] \in Step /\ file'[w] \in File /\ loc'[w] = NoLocal
          BY <4>1, <1>1, <1>2, Zenon DEF Only, Step
        <4>3. Steady(w)'
          BY <4>1, <1>1, Zenon DEF Steady
        <4> QED
          BY <4>2, <4>3, <1>5, Zenon
      <3> QED
        BY <3>1, <3>2, Zenon
    <2> QED
      BY <2>1, <2>2, <2>3, Zenon
  <1>7. /\ WorldInv' /\ CountersInv' /\ TrueMeta' = TrueMeta
        /\ TrueBackoff \subseteq TrueBackoff' /\ ChecksInv'
    BY <1>2, <1>3, <1>4, <1>6, WorkerStep, Zenon
  <1>8. FilesInv'
    BY <1>2, <1>7, FilesStayTrue, Zenon DEF CheckInv
  <1> QED
    BY <1>7, <1>8, Zenon DEF CheckInv

\* A failed check adds one failure, its own, and a deadline within the cap.
LEMMA FailureIsTrue ==
    ASSUME Groundwork, CheckInv, NEW w \in Active, UNCHANGED checks,
           pc' = [pc EXCEPT ![w] = "write"],
           lastFail' = IF loc[w].now > lastFail THEN loc[w].now ELSE lastFail,
           NEW b \in afterFailure(loc[w].backoff, loc[w].now)
    PROVE  b \in TrueBackoff'
  <1> DEFINE now == loc[w].now
             f == loc[w].backoff.failures
  <1>1. w \in Worker /\ loc[w] \in TrueLocal /\ pc \in [Worker -> Step]
    BY Zenon DEF CheckInv, ChecksInv, Active
  <1>2. now \in Time /\ now <= clock /\ loc[w].backoff \in TrueBackoff
    BY <1>1, SMTT(20) DEF TrueLocal, Local
  <1>3. f \in Nat /\ f + Cardinality(Active) <= checks
    <2>1. loc[w].backoff \in Backoff /\ f + Cardinality(Active) <= checks
      BY <1>2, Zenon DEF TrueBackoff
    <2>2. f \in 0..MaxChecks
      BY <2>1, Zenon DEF Backoff
    <2> QED
      BY <2>1, <2>2
  <1>4. PICK d \in 1..Cap : b = [failures |-> f + 1, next |-> now + d]
    <2>1. f + 1 \in Nat \ {0}
      BY <1>3
    <2> QED
      BY <2>1, DelayBound, Zenon DEF afterFailure
  <1>5. Active' = Active \ {w}
    BY <1>1, Zenon DEF Active
  <1>6. /\ Cardinality(Active') = Cardinality(Active) - 1
        /\ Cardinality(Active) \in Nat /\ Cardinality(Active') \in Nat
    BY <1>1, <1>5, Zenon DEF Groundwork, Counting, CheckInv, CountersInv
  <1>7. checks' = checks /\ checks \in 0..MaxChecks
    BY Zenon DEF CheckInv, CountersInv
  <1>8. f + 1 + Cardinality(Active') <= checks' /\ f + 1 \in 0..MaxChecks
    BY <1>3, <1>6, <1>7, CheckAssumption
  <1>9. now + d \in 0..(MaxTime + Cap)
    BY <1>2, CheckAssumption DEF Time
  <1>10. now + d <= lastFail' + Cap
    <2>1. lastFail \in Int /\ now \in Int /\ now <= lastFail' /\ lastFail' \in Int
      BY <1>2, CheckAssumption DEF CheckInv, WorldInv, Time
    <2> QED
      BY <2>1, CheckAssumption
  <1> HIDE DEF now, f
  <1> QED
    BY <1>4, <1>8, <1>9, <1>10, Zenon DEF TrueBackoff, Backoff

\* A response that was read, or "not modified" to the ETag that was sent, is
\* true of the document that is being served.
LEMMA ResponseIsTrue ==
    ASSUME Groundwork, CheckInv, NEW w \in Active
    PROVE  /\ \A e \in {[host |-> loc[w].host, doc |-> serves[loc[w].host]], None} :
                [doc |-> serves[loc[w].host], at |-> loc[w].now, etag |-> e] \in TrueMeta
           /\ Matches(w) => [loc[w].meta EXCEPT !.at = loc[w].now] \in TrueMeta
  <1>1. w \in Worker /\ loc[w] \in TrueLocal
    BY Zenon DEF CheckInv, ChecksInv, Active
  <1>2. loc[w].now \in Time /\ loc[w].now <= clock /\ loc[w].host \in Host
    BY <1>1, Zenon DEF TrueLocal, Local
  <1>3. serves[loc[w].host] \in Doc /\ seen[serves[loc[w].host]] = clock
    BY <1>2, Zenon DEF CheckInv, WorldInv
  <1>4. \A e \in {[host |-> loc[w].host, doc |-> serves[loc[w].host]], None} :
                [doc |-> serves[loc[w].host], at |-> loc[w].now, etag |-> e] \in TrueMeta
    <2> DEFINE h == loc[w].host
               d == serves[h]
               n == loc[w].now
    <2>1. [host |-> h, doc |-> d] \in ETag /\ n <= seen[d]
      BY <1>2, <1>3, Zenon DEF ETag
    <2>2. n \in Time /\ d \in Doc
      BY <1>2, <1>3, Zenon
    <2> HIDE DEF d, n
    <2>3. \A e \in {[host |-> h, doc |-> d], None} :
            [doc |-> d, at |-> n, etag |-> e] \in Metadata
      BY <2>1, <2>2, Zenon DEF Metadata
    <2>4. \A e \in {[host |-> h, doc |-> d], None} :
            [doc |-> d, at |-> n, etag |-> e] \in TrueMeta
      BY <2>1, <2>3 DEF TrueMeta
    <2> QED
      BY <2>4, Zenon DEF d, n
  <1>5. ASSUME Matches(w)
        PROVE  [loc[w].meta EXCEPT !.at = loc[w].now] \in TrueMeta
    <2> DEFINE served == [host |-> loc[w].host, doc |-> serves[loc[w].host]]
    <2>1. served # None
      <3>1. served \in ETag
        BY <1>2, <1>3, Zenon DEF ETag
      <3> QED
        BY <3>1, NoneAssumption, Zenon
    <2>2. loc[w].meta # None /\ loc[w].meta.etag = served
      BY <1>5, <2>1, Zenon DEF Matches, ifNoneMatch
    <2>3. loc[w].meta \in TrueMeta
      BY <1>1, <2>2, Zenon DEF TrueLocal
    <2>4. loc[w].meta \in Metadata /\ loc[w].meta.doc = serves[loc[w].host]
      BY <2>1, <2>2, <2>3 DEF TrueMeta
    <2> QED
      BY <1>2, <1>3, <2>1, <2>2, <2>4 DEF TrueMeta, Metadata
  <1> QED
    BY <1>4, <1>5, Zenon

\* The fetch from the first host and from the other one.
LEMMA FetchKeepsInv ==
    ASSUME Groundwork, CheckInv, NEW w \in Worker, FetchPrimary(w) \/ FetchMirror(w)
    PROVE  CheckInv'
  <1>1. /\ pc \in [Worker -> Step] /\ file \in [Worker -> File]
        /\ loc \in [Worker -> TrueLocal] /\ loc[w] \in TrueLocal /\ Steady(w)
    BY Zenon DEF CheckInv, ChecksInv
  <1>2. UNCHANGED <<worldVars, checks, cuts>> /\ UNCHANGED diskVars /\ UNCHANGED faults
    BY Zenon DEF FetchPrimary, FetchMirror
  <1>3. w \in Active /\ pc[w] \in {"fetch", "mirror"}
    BY Zenon DEF FetchPrimary, FetchMirror, Active
  <1>4. NoLocal \in TrueLocal /\ NoBackoff \in TrueBackoff /\ faults' \in 0..MaxFaults
    BY <1>2, NothingIsTrue, Zenon DEF CheckInv, CountersInv
  <1>5. /\ lastFail \in Time \cup {-1 - Cap} /\ lastFail <= clock
        /\ clock \in Time /\ asks \in Host /\ loc[w].now \in Time /\ loc[w].now <= clock
    BY <1>1, Zenon DEF CheckInv, WorldInv, TrueLocal, Local
  <1>6. CASE Failed(w)
    <2>1. PICK b \in afterFailure(loc[w].backoff, loc[w].now) :
            loc' = [loc EXCEPT ![w] = [NoLocal EXCEPT !.newBackoff = b]]
      BY <1>6, Zenon DEF Failed
    <2>2. /\ lastFail' = IF loc[w].now > lastFail THEN loc[w].now ELSE lastFail
          /\ file' = [file EXCEPT ![w] = "backoff"] /\ pc' = [pc EXCEPT ![w] = "write"]
      BY <1>6, Zenon DEF Failed, WriteNext
    <2>3. lastFail' \in Time \cup {-1 - Cap} /\ lastFail <= lastFail' /\ lastFail' <= clock
      <3>1. Time \subseteq Int /\ -1 - Cap \in Int
        BY CheckAssumption DEF Time
      <3>2. lastFail \in Int /\ loc[w].now \in Int
        BY <1>5, <3>1, Zenon
      <3> QED
        BY <1>5, <2>2, <3>2
    <2>4. /\ Only(w) /\ pc'[w] = "write" /\ file'[w] = "backoff"
          /\ loc'[w] = [NoLocal EXCEPT !.newBackoff = b]
      BY <2>1, <2>2, <1>1, Zenon DEF Only
    <2>5. b \in TrueBackoff'
      BY <1>2, <1>3, <2>2, FailureIsTrue, Zenon
    <2>6. /\ WorldInv' /\ CountersInv' /\ TrueMeta' = TrueMeta
          /\ TrueBackoff \subseteq TrueBackoff' /\ TrueLocal \subseteq TrueLocal'
          /\ loc'[w] \in TrueLocal' /\ Steady(w)' => ChecksInv'
      BY <1>2, <1>3, <1>4, <2>3, <2>4, WorkerStep, Zenon DEF Step, File
    <2>7. loc'[w] \in TrueLocal'
      <3>1. NoLocal \in TrueLocal' /\ TrueBackoff' \subseteq Backoff
        BY <1>4, <2>6, Zenon DEF TrueBackoff
      <3> QED
        BY <2>4, <2>5, <3>1, SMTT(20) DEF TrueLocal, Local
    <2>8. Steady(w)'
      BY <2>4, Zenon DEF Steady
    <2>9. FilesInv'
      BY <1>2, <2>6, FilesStayTrue, Zenon DEF CheckInv
    <2> QED
      BY <2>6, <2>7, <2>8, <2>9, Zenon DEF CheckInv
  <1>7. ASSUME NEW m \in TrueMeta, Store(w, m), WriteNext(w, "doc"), UNCHANGED lastFail,
               m # None
        PROVE  CheckInv'
    <2> DEFINE l == [NoLocal EXCEPT !.newMeta = m, !.newBackoff = NoBackoff]
    <2>1. l \in TrueLocal /\ l.newMeta = m
      BY <1>4, <1>7, Zenon DEF TrueLocal, Local, TrueMeta, TrueBackoff, NoLocal
    <2>2. loc' = [loc EXCEPT ![w] = l]
      BY <1>7, Zenon DEF Store, afterSuccess
    <2> HIDE DEF l
    <2>3. file' = [file EXCEPT ![w] = "doc"] /\ pc' = [pc EXCEPT ![w] = "write"]
      BY <1>7, Zenon DEF WriteNext
    <2>4. Only(w) /\ pc'[w] = "write" /\ file'[w] = "doc" /\ loc'[w] = l
      BY <2>2, <2>3, <1>1, Zenon DEF Only
    <2>5. lastFail' \in Time \cup {-1 - Cap} /\ lastFail <= lastFail' /\ lastFail' <= clock
      BY <1>7, <1>5, CheckAssumption DEF Time
    <2>6. /\ WorldInv' /\ CountersInv' /\ TrueMeta' = TrueMeta
          /\ TrueBackoff \subseteq TrueBackoff' /\ TrueLocal \subseteq TrueLocal'
          /\ loc'[w] \in TrueLocal' /\ Steady(w)' => ChecksInv'
      BY <1>2, <1>3, <1>4, <2>4, <2>5, WorkerStep, Zenon DEF Step, File
    <2>7. Steady(w)'
      BY <1>7, <2>1, <2>4, Zenon DEF Steady
    <2>8. FilesInv'
      BY <1>2, <2>6, FilesStayTrue, Zenon DEF CheckInv
    <2> QED
      BY <2>1, <2>4, <2>6, <2>7, <2>8, Zenon DEF CheckInv
  <1>8. CASE Received(w)
    <2>1. CASE Failed(w)
      BY <1>6, <2>1, Zenon
    <2>2. CASE ~Failed(w)
      <3>1. PICK e \in {[host |-> loc[w].host, doc |-> serves[loc[w].host]], None} :
              Store(w, [doc |-> serves[loc[w].host], at |-> loc[w].now, etag |-> e])
        BY <1>8, <2>2, SMTT(20) DEF Received
      <3>2. WriteNext(w, "doc") /\ UNCHANGED lastFail
        BY <1>8, <2>2, Zenon DEF Received
      <3> DEFINE m == [doc |-> serves[loc[w].host], at |-> loc[w].now, etag |-> e]
      <3>3. m \in TrueMeta /\ Store(w, m)
        BY <1>3, <3>1, ResponseIsTrue, Zenon
      <3>4. m # None
        BY <3>3, NoneAssumption, Zenon DEF TrueMeta
      <3> HIDE DEF m
      <3> QED
        BY <1>7, <3>2, <3>3, <3>4, SMTT(20)
    <2> QED
      BY <2>1, <2>2, Zenon
  <1>9. CASE NotModified(w)
    <2> DEFINE m == [loc[w].meta EXCEPT !.at = loc[w].now]
    <2>1. m \in TrueMeta /\ Store(w, m) /\ WriteNext(w, "doc") /\ UNCHANGED lastFail
      BY <1>3, <1>9, ResponseIsTrue, Zenon DEF NotModified
    <2>2. m # None
      BY <2>1, NoneAssumption, SMTT(20) DEF TrueMeta
    <2> HIDE DEF m
    <2> QED
      BY <1>7, <2>1, <2>2, Zenon
  <1>10. CASE /\ pc' = [pc EXCEPT ![w] = "mirror"]
              /\ loc' = [loc EXCEPT ![w].host = Other(asks)]
              /\ UNCHANGED <<file, lastFail>>
    <2>1. Other(asks) \in Host
      <3>1. \E o \in Host : o # asks
        BY Zenon DEF Host
      <3> QED
        BY <3>1, Zenon DEF Other
    <2>2. loc' = [loc EXCEPT ![w] = [loc[w] EXCEPT !.host = Other(asks)]]
      BY <1>1, <1>10, Zenon
    <2>3. /\ Only(w) /\ pc'[w] = "mirror" /\ file'[w] \in File
          /\ loc'[w] = [loc[w] EXCEPT !.host = Other(asks)]
      BY <1>1, <1>10, <2>2, Zenon DEF Only
    <2>4. /\ loc'[w] \in TrueLocal
          /\ loc'[w].meta = loc[w].meta /\ loc'[w].doc = loc[w].doc
      BY <2>1, <2>3, <1>1, Zenon DEF TrueLocal, Local
    <2>5. lastFail' \in Time \cup {-1 - Cap} /\ lastFail <= lastFail' /\ lastFail' <= clock
      BY <1>10, <1>5, CheckAssumption DEF Time
    <2>6. /\ WorldInv' /\ CountersInv' /\ TrueMeta' = TrueMeta
          /\ TrueBackoff \subseteq TrueBackoff' /\ TrueLocal \subseteq TrueLocal'
          /\ loc'[w] \in TrueLocal' /\ Steady(w)' => ChecksInv'
      BY <1>2, <1>3, <1>4, <2>3, <2>5, WorkerStep, Zenon DEF Step
    <2>7. Steady(w)'
      BY <1>1, <1>3, <2>3, <2>4, Zenon DEF Steady
    <2>8. FilesInv'
      BY <1>2, <2>6, FilesStayTrue, Zenon DEF CheckInv
    <2> QED
      BY <2>4, <2>6, <2>7, <2>8, Zenon DEF CheckInv
  <1> QED
    BY <1>6, <1>8, <1>9, <1>10, Zenon DEF FetchPrimary, FetchMirror

\* The steps of writeAtomic.
LEMMA WriteKeepsInv ==
    ASSUME Groundwork, CheckInv, NEW w \in Worker,
           WriteTmp(w) \/ WriteTmpFails(w) \/ ClearOld(w) \/ MoveIn(w)
    PROVE  CheckInv'
  <1>1. /\ pc \in [Worker -> Step] /\ file \in [Worker -> File]
        /\ loc \in [Worker -> TrueLocal] /\ loc[w] \in TrueLocal /\ Steady(w)
        /\ file[w] \in File /\ pc[w] \in {"write", "clear", "move"}
    BY Zenon DEF CheckInv, ChecksInv, WriteTmp, WriteTmpFails, ClearOld, MoveIn
  <1>2. UNCHANGED <<worldVars, checks, cuts>> /\ UNCHANGED lastFail
    BY Zenon DEF WriteTmp, WriteTmpFails, ClearOld, MoveIn
  <1>3. faults' \in 0..MaxFaults
    <2>1. faults' = faults \/ (faults < MaxFaults /\ faults' = faults + 1)
      BY Zenon DEF WriteTmp, WriteTmpFails, ClearOld, MoveIn
    <2> QED
      BY <2>1, CheckAssumption DEF CheckInv, CountersInv
  <1>4. lastFail' \in Time \cup {-1 - Cap} /\ lastFail <= lastFail' /\ lastFail' <= clock
    BY <1>2, CheckAssumption DEF CheckInv, WorldInv, Time
  <1>5. NoLocal \in TrueLocal
    BY NothingIsTrue, Zenon
  <1>6. /\ Only(w) /\ pc'[w] \in {"idle", "write", "clear", "move"} /\ file'[w] \in File
        /\ loc'[w] \in TrueLocal /\ Steady(w)'
    <2>1. CASE WriteTmp(w) \/ ClearOld(w)
      <3>1. /\ file' = file /\ loc' = loc
            /\ pc' = [pc EXCEPT ![w] = IF WriteTmp(w) THEN "clear" ELSE "move"]
        BY <2>1, Zenon DEF WriteTmp, ClearOld
      <3>2. Only(w) /\ pc'[w] \in {"clear", "move"} /\ file'[w] = file[w] /\ loc'[w] = loc[w]
        BY <1>1, <3>1, SMTT(20) DEF Only
      <3>3. Steady(w)'
        BY <1>1, <3>2, SMTT(20) DEF Steady
      <3> QED
        BY <1>1, <3>2, <3>3, Zenon
    <2>2. ASSUME NEW ok \in BOOLEAN, Written(w, ok)
          PROVE  /\ Only(w) /\ pc'[w] \in {"idle", "write"} /\ file'[w] \in File
                 /\ loc'[w] \in TrueLocal /\ Steady(w)'
      <3>1. CASE file[w] = "backoff"
        <4>1. /\ pc' = [pc EXCEPT ![w] = "idle"] /\ loc' = [loc EXCEPT ![w] = NoLocal]
              /\ file' = file
          BY <2>2, <3>1, Zenon DEF Written, Done
        <4>2. Only(w) /\ pc'[w] = "idle" /\ file'[w] \in File /\ loc'[w] = NoLocal
          BY <1>1, <4>1, Zenon DEF Only
        <4> QED
          BY <1>5, <4>2, Zenon DEF Steady
      <3>2. CASE file[w] = "doc" /\ ok
        <4>1. /\ pc' = [pc EXCEPT ![w] = "write"] /\ file' = [file EXCEPT ![w] = "meta"]
              /\ loc' = loc
          BY <2>2, <3>2, Zenon DEF Written, WriteNext
        <4>2. Only(w) /\ pc'[w] = "write" /\ file'[w] = "meta" /\ loc'[w] = loc[w]
          BY <1>1, <4>1, SMTT(20) DEF Only
        <4>3. Steady(w)'
          BY <1>1, <3>2, <4>2, Zenon DEF Steady
        <4> QED
          BY <1>1, <4>2, <4>3, Zenon DEF File
      <3>3. CASE file[w] = "meta" \/ (file[w] = "doc" /\ ~ok)
        <4>1. /\ pc' = [pc EXCEPT ![w] = "write"] /\ file' = [file EXCEPT ![w] = "backoff"]
              /\ loc' = [loc EXCEPT ![w] = [loc[w] EXCEPT !.newMeta = None]]
          BY <1>1, <2>2, <3>3, Zenon DEF Written, WriteNext
        <4>2. /\ Only(w) /\ pc'[w] = "write" /\ file'[w] = "backoff"
              /\ loc'[w] = [loc[w] EXCEPT !.newMeta = None]
          BY <1>1, <4>1, Zenon DEF Only
        <4>3. loc'[w] \in TrueLocal
          BY <1>1, <4>2, Zenon DEF TrueLocal, Local
        <4>4. Steady(w)'
          BY <4>2, Zenon DEF Steady
        <4> QED
          BY <4>2, <4>3, <4>4, Zenon DEF File
      <3> QED
        BY <1>1, <2>2, <3>1, <3>2, <3>3, SMTT(20) DEF File
    <2>3. CASE WriteTmpFails(w) \/ MoveIn(w)
      BY <2>2, <2>3, Zenon DEF WriteTmpFails, MoveIn
    <2> QED
      BY <2>1, <2>3, Zenon
  <1>7. /\ WorldInv' /\ CountersInv' /\ TrueMeta' = TrueMeta
        /\ TrueBackoff \subseteq TrueBackoff' /\ ChecksInv'
    <2>1. pc'[w] \in Step /\ pc'[w] \notin {"readMeta", "readDoc", "plan", "fetch", "mirror"}
      BY <1>6, Zenon DEF Step
    <2> QED
      BY <1>2, <1>3, <1>4, <1>6, <2>1, WorkerStep, SMTT(20)
  <1>8. FilesInv'
    <2>1. FilesInv /\ TrueMeta' = TrueMeta /\ TrueBackoff \subseteq TrueBackoff'
      BY <1>7, Zenon DEF CheckInv
    <2>2. ASSUME NEW x, disk' = disk, tmp' = [tmp EXCEPT ![file[w]] = x],
                 \/ x = None
                 \/ file[w] = "doc" /\ x \in Doc
                 \/ file[w] = "meta" /\ x \in TrueMeta
                 \/ file[w] = "backoff" /\ x \in TrueBackoff
          PROVE  FilesInv'
      BY <1>1, <2>1, <2>2, Zenon DEF FilesInv, File
    <2>3. CASE WriteTmp(w)
      <3>1. \/ file[w] = "doc" /\ Data(w) \in Doc
            \/ file[w] = "meta" /\ Data(w) \in TrueMeta
            \/ file[w] = "backoff" /\ Data(w) \in TrueBackoff
        <4>1. CASE file[w] = "backoff"
          BY <1>1, <4>1, Zenon DEF Data, TrueLocal
        <4>2. CASE file[w] # "backoff"
          <5>1. loc[w].newMeta \in TrueMeta /\ loc[w].newMeta.doc \in Doc
            BY <1>1, <4>2, Zenon DEF Steady, TrueLocal, TrueMeta, Metadata
          <5> QED
            BY <1>1, <4>2, <5>1, Zenon DEF Data, File
        <4> QED
          BY <4>1, <4>2, Zenon
      <3> QED
        BY <2>2, <2>3, <3>1, Zenon DEF WriteTmp
    <2>4. CASE WriteTmpFails(w)
      BY <2>2, <2>4, Zenon DEF WriteTmpFails
    <2>5. CASE ClearOld(w)
      BY <1>1, <2>1, <2>5, Zenon DEF ClearOld, FilesInv, File
    <2>6. CASE MoveIn(w)
      <3>1. CASE disk' = disk
        BY <2>2, <2>6, <3>1, Zenon DEF MoveIn
      <3>2. CASE disk' # disk
        <4>1. /\ disk' = [disk EXCEPT ![file[w]] = tmp[file[w]]]
              /\ tmp' = [tmp EXCEPT ![file[w]] = None]
          BY <2>6, <3>2, Zenon DEF MoveIn
        <4> QED
          BY <1>1, <2>1, <4>1, Zenon DEF FilesInv, File
      <3> QED
        BY <3>1, <3>2, Zenon
    <2> QED
      BY <2>3, <2>4, <2>5, <2>6, Zenon
  <1> QED
    BY <1>7, <1>8, Zenon DEF CheckInv

-----------------------------------------------------------------------------
(* Steps of the world. *)

\* What Observe does: what is served is seen now, the rest when it was.
LEMMA SeenMovesOn ==
    ASSUME WorldInv, clock' \in Time, clock <= clock',
           serves' \in [Host -> Doc], Observe(clock', serves')
    PROVE  /\ seen' \in [Doc -> Time \cup {-1}]
           /\ \A d \in Doc : seen[d] <= seen'[d] /\ seen'[d] <= clock'
           /\ \A h \in Host : seen'[serves'[h]] = clock'
  <1>1. /\ clock \in Time /\ seen \in [Doc -> Time \cup {-1}]
        /\ \A d \in Doc : seen[d] <= clock
    BY Zenon DEF WorldInv
  <1>2. \A d \in Doc :
          seen'[d] = IF \E h \in Host : serves'[h] = d THEN clock' ELSE seen[d]
    BY Zenon DEF Observe
  <1>3. seen' \in [Doc -> Time \cup {-1}]
    BY <1>1, Zenon DEF Observe
  <1>4. \A h \in Host : seen'[serves'[h]] = clock'
    BY <1>2, Zenon
  <1>5. ASSUME NEW d \in Doc
        PROVE  seen[d] <= seen'[d] /\ seen'[d] <= clock'
    <2>1. seen[d] \in Int /\ seen[d] <= clock /\ clock \in Int /\ clock' \in Int
      BY <1>1, CheckAssumption DEF Time
    <2>2. seen'[d] = clock' \/ seen'[d] = seen[d]
      BY <1>2, Zenon
    <2> QED
      BY <2>1, <2>2
  <1> QED
    BY <1>3, <1>4, <1>5, Zenon

\* The clock, the publisher, the toggle and the power: nobody writes.
LEMMA WorldKeepsInv ==
    ASSUME Groundwork, CheckInv, Tick \/ Publish \/ ClickMirror \/ PowerCut
    PROVE  CheckInv'
  <1>1. UNCHANGED <<diskVars, file, lastFail, checks, faults>>
    BY Zenon DEF Tick, Publish, ClickMirror, PowerCut
  <1>2. clock \in Time /\ serves \in [Host -> Doc] /\ asks \in Host
    BY Zenon DEF CheckInv, WorldInv
  <1>3. WorldInv' /\ (\A d \in Doc : seen[d] <= seen'[d]) /\ clock <= clock'
    <2>1. CASE Tick \/ Publish
      <3>1. clock' \in Time /\ clock <= clock' /\ UNCHANGED configVars
        <4>1. /\ clock' = clock \/ (clock < MaxTime /\ clock' = clock + 1)
              /\ UNCHANGED configVars
          BY <2>1, Zenon DEF Tick, Publish
        <4> QED
          BY <1>2, <4>1, CheckAssumption DEF Time
      <3>2. serves' \in [Host -> Doc]
        <4>1. CASE Tick
          BY <1>2, <4>1, Zenon DEF Tick
        <4>2. CASE Publish
          <5>1. /\ serves["primary"] \in Doc
                /\ serves["primary"] < MaxDoc => serves["primary"] + 1 \in Doc
            BY <1>2, CheckAssumption DEF Host, Doc
          <5> QED
            BY <1>2, <4>2, <5>1, Zenon DEF Publish, Host
        <4> QED
          BY <2>1, <4>1, <4>2, Zenon
      <3>3. Observe(clock', serves')
        BY <2>1 DEF Tick, Publish, Observe
      <3>4. /\ seen' \in [Doc -> Time \cup {-1}]
            /\ \A d \in Doc : seen[d] <= seen'[d] /\ seen'[d] <= clock'
            /\ \A h \in Host : seen'[serves'[h]] = clock'
        BY <3>1, <3>2, <3>3, SeenMovesOn, Zenon DEF CheckInv
      <3>5. lastFail' \in Time \cup {-1 - Cap} /\ lastFail' <= clock'
        <4>1. lastFail' = lastFail /\ lastFail \in Time \cup {-1 - Cap} /\ lastFail <= clock
          BY <1>1, Zenon DEF CheckInv, WorldInv
        <4> QED
          BY <1>2, <3>1, <4>1, CheckAssumption DEF Time
      <3> QED
        BY <3>1, <3>2, <3>4, <3>5, Zenon DEF CheckInv, WorldInv, configVars
    <2>2. CASE ClickMirror \/ PowerCut
      <3>1. UNCHANGED <<clock, serves, seen>>
        BY <2>2, Zenon DEF ClickMirror, PowerCut
      <3>2. asks' \in Host /\ toggle' \in BOOLEAN
        <4>1. CASE PowerCut
          BY <4>1, Zenon DEF PowerCut, Host
        <4>2. CASE ClickMirror
          <5>1. \E o \in Host : o # asks
            BY Zenon DEF Host
          <5>2. Other(asks) \in Host
            BY <5>1, Zenon DEF Other
          <5>3. toggle' = ~toggle /\ toggle \in BOOLEAN
            BY <4>2, Zenon DEF ClickMirror, CheckInv, WorldInv
          <5>4. asks' \in Host
            BY <1>2, <4>2, <5>2, Zenon DEF ClickMirror, setPreferMirror
          <5> QED
            BY <5>3, <5>4, Zenon
        <4> QED
          BY <2>2, <4>1, <4>2, Zenon
      <3>3. clicks' \in 0..MaxClicks
        <4>1. clicks' = clicks \/ (clicks < MaxClicks /\ clicks' = clicks + 1)
          BY <2>2, Zenon DEF ClickMirror, PowerCut
        <4> QED
          BY <4>1, CheckAssumption DEF CheckInv, WorldInv
      <3>4. (\A d \in Doc : seen[d] <= seen'[d]) /\ clock <= clock'
        <4>1. seen' = seen /\ clock' = clock /\ clock \in Int
              /\ \A d \in Doc : seen[d] \in Int
          BY <3>1, CheckAssumption DEF CheckInv, WorldInv, Time
        <4> QED
          BY <4>1
      <3> QED
        BY <1>1, <3>1, <3>2, <3>3, <3>4, Zenon DEF CheckInv, WorldInv
    <2> QED
      BY <2>1, <2>2, Zenon
  <1>4. Active' \subseteq Active
    BY Zenon DEF Tick, Publish, ClickMirror, PowerCut, Active
  <1>5. cuts' \in 0..MaxCuts
    <2>1. cuts' = cuts \/ (cuts < MaxCuts /\ cuts' = cuts + 1)
      BY Zenon DEF Tick, Publish, ClickMirror, PowerCut
    <2> QED
      BY <2>1, CheckAssumption DEF CheckInv, CountersInv
  <1>6. CountersInv' /\ TrueBackoff \subseteq TrueBackoff'
    <2>1. /\ checks' = checks /\ faults' \in 0..MaxFaults
          /\ lastFail' \in Time \cup {-1 - Cap} /\ lastFail <= lastFail'
      BY <1>1, CheckAssumption DEF CheckInv, CountersInv, WorldInv, Time
    <2> QED
      BY <1>4, <1>5, <2>1, CountersKept, Zenon DEF CheckInv
  <1>7. TrueMeta \subseteq TrueMeta'
    BY <1>3, MetaStaysTrue, Zenon DEF CheckInv, WorldInv
  <1>8. TrueLocal \subseteq TrueLocal'
    BY <1>2, <1>3, <1>6, <1>7, LocalStaysTrue, Zenon DEF WorldInv
  <1>9. ChecksInv'
    <2>1. CASE UNCHANGED <<pc, loc>>
      <3>1. \A w \in Worker : Steady(w)'
        BY <1>1, <2>1, Zenon DEF CheckInv, ChecksInv, Steady
      <3> QED
        BY <1>1, <1>8, <2>1, <3>1, SMTT(20) DEF CheckInv, ChecksInv
    <2>2. CASE PowerCut
      <3>1. pc' = [w \in Worker |-> "idle"] /\ loc' = [w \in Worker |-> NoLocal]
        BY <2>2, Zenon DEF PowerCut
      <3>2. \A w \in Worker : Steady(w)'
        BY <3>1, Zenon DEF Steady
      <3>3. NoLocal \in TrueLocal'
        BY <1>8, NothingIsTrue, Zenon
      <3> QED
        BY <1>1, <3>1, <3>2, <3>3, Zenon DEF CheckInv, ChecksInv, Step
    <2> QED
      BY <2>1, <2>2, Zenon DEF Tick, Publish, ClickMirror
  <1>10. FilesInv'
    BY <1>1, <1>6, <1>7, FilesStayTrue, Zenon DEF CheckInv
  <1> QED
    BY <1>3, <1>6, <1>9, <1>10, Zenon DEF CheckInv


\* A first start has nothing that could be false.
LEMMA InitInv ==
    ASSUME Groundwork, Init
    PROVE  CheckInv
  <1>1. Active = {} /\ IsFiniteSet(Active) /\ Cardinality(Active) = 0
    <2>1. Active = {}
      BY Zenon DEF Init, Active
    <2> QED
      BY <2>1, Zenon DEF Groundwork, Counting
  <1>2. CountersInv
    BY <1>1, CheckAssumption DEF Init, CountersInv
  <1>3. WorldInv
    <2>1. clock \in Time /\ 1 \in Doc /\ serves \in [Host -> Doc]
      BY CheckAssumption DEF Init, Time, Doc
    <2>2. seen \in [Doc -> Time \cup {-1}] /\ \A d \in Doc : seen[d] <= clock
      BY <2>1 DEF Init
    <2>3. \A h \in Host : seen[serves[h]] = clock
      BY <2>1, Zenon DEF Init
    <2>4. lastFail \in Time \cup {-1 - Cap} /\ lastFail <= clock /\ clicks \in 0..MaxClicks
      BY CheckAssumption DEF Init
    <2> QED
      BY <2>1, <2>2, <2>3, <2>4, Zenon DEF Init, WorldInv, Host
  <1>4. NoBackoff \in TrueBackoff
    BY <1>1, NothingIsLocal DEF Init, NoBackoff, TrueBackoff
  <1>5. NoLocal \in TrueLocal
    <2>1. clock = 0 /\ NoLocal.now = 0
      BY Zenon DEF Init, NoLocal
    <2>2. NoLocal.now <= clock
      BY <2>1
    <2> QED
      BY <1>4, <2>2, NothingIsLocal, Zenon DEF NoLocal, TrueLocal
  <1>6. ChecksInv
    <2>1. \A w \in Worker : Steady(w)
      BY Zenon DEF Init, Steady
    <2> QED
      BY <1>5, <2>1, Zenon DEF Init, ChecksInv, Step, File
  <1>7. FilesInv
    BY Zenon DEF Init, FilesInv, File
  <1> QED
    BY <1>2, <1>3, <1>6, <1>7, Zenon DEF CheckInv

\* Every step of check() and around it keeps the invariant.
LEMMA StepKeepsInv ==
    ASSUME Groundwork, CheckInv, [Next]_vars
    PROVE  CheckInv'
  <1>1. CASE UNCHANGED vars
    <2>1. /\ UNCHANGED <<clock, serves, seen, asks, toggle, clicks, lastFail>>
          /\ UNCHANGED <<disk, tmp, pc, file, loc, checks, faults, cuts>>
      BY <1>1, Zenon DEF vars, diskVars, worldVars, configVars
    <2>2. Active' = Active
      BY <2>1, Zenon DEF Active
    <2>3. TrueMeta' = TrueMeta /\ TrueBackoff' = TrueBackoff
      BY <2>1, <2>2, Zenon DEF TrueMeta, TrueBackoff
    <2>4. TrueLocal' = TrueLocal
      BY <2>1, <2>3, Zenon DEF TrueLocal
    <2>5. \A w \in Worker : Steady(w) => Steady(w)'
      BY <2>1, Zenon DEF Steady
    <2> QED
      BY <2>1, <2>2, <2>3, <2>4, <2>5
      DEF CheckInv, WorldInv, FilesInv, ChecksInv, CountersInv
  <1>2. ASSUME NEW w \in Worker, Check(w)
        PROVE  CheckInv'
    BY <1>2, BeginKeepsInv, ReadKeepsInv, FetchKeepsInv, WriteKeepsInv, Zenon DEF Check
  <1>3. CASE Tick \/ Publish \/ ClickMirror \/ PowerCut
    BY <1>3, WorldKeepsInv, Zenon
  <1> QED
    BY <1>1, <1>2, <1>3, Zenon DEF Next

\* The metadata a check accepts is true and describes the document it accepts.
LEMMA InvIsFresh ==
    ASSUME CheckInv
    PROVE  FreshIsRecent
  <1> SUFFICES ASSUME NEW w \in Worker, pc[w] = "plan", Plan(w) = "ServeCache"
               PROVE  loc[w].now < seen[loc[w].doc] + Ttl
    BY Zenon DEF FreshIsRecent
  <1> DEFINE m == loc[w].meta
  <1>1. m # None /\ cacheIsFresh(m, loc[w].now)
    BY Zenon DEF Plan, planManifestFetch
  <1>2. loc[w] \in TrueLocal /\ Steady(w)
    BY Zenon DEF CheckInv, ChecksInv
  <1>3. m \in TrueMeta /\ loc[w].doc = m.doc /\ loc[w].now \in Time
    BY <1>1, <1>2, Zenon DEF Steady, TrueLocal, Local
  <1>4. m.at \in Time /\ m.doc \in Doc /\ m.at <= seen[m.doc]
    BY <1>3, Zenon DEF TrueMeta, Metadata
  <1>5. seen[m.doc] \in Int /\ m.at \in Int /\ loc[w].now \in Int
    <2>1. Time \subseteq Int /\ -1 \in Int
      BY DEF Time
    <2>2. seen[m.doc] \in Time \cup {-1}
      BY <1>4, Zenon DEF CheckInv, WorldInv
    <2> QED
      BY <1>3, <1>4, <2>1, <2>2, Zenon
  <1>6. loc[w].now - m.at < Ttl
    BY <1>1, Zenon DEF cacheIsFresh
  <1>7. Ttl \in Int
    BY CheckAssumption
  <1> QED
    BY <1>3, <1>4, <1>5, <1>6, <1>7, YoungerThanTtl, Zenon

\* A deadline that exists anywhere is one that some failure set.
LEMMA InvIsEarned ==
    ASSUME Groundwork, CheckInv
    PROVE  DeferralIsEarned
  <1> SUFFICES ASSUME NEW w \in Worker, pc[w] = "plan",
                      Plan(w) \in {"DeferToCache", "DeferNoCache"}
               PROVE  loc[w].now < lastFail + Cap
    BY Zenon DEF DeferralIsEarned
  <1>1. secondsUntilNextAttempt(loadBackoff, loc[w].now) > 0
    BY Zenon DEF Plan, planManifestFetch
  <1>2. loadBackoff \in TrueBackoff
    BY NothingIsTrue, Zenon DEF loadBackoff, CheckInv, FilesInv
  <1>3. loc[w].now \in Int /\ loc[w].now >= 0
    BY CheckAssumption DEF CheckInv, ChecksInv, TrueLocal, Local, Time
  <1>4. loadBackoff.next \in Int /\ (loadBackoff.next > 0 => loadBackoff.next <= lastFail + Cap)
    BY <1>2, CheckAssumption DEF TrueBackoff, Backoff
  <1>5. lastFail \in Int
    BY CheckAssumption DEF CheckInv, WorldInv, Time
  <1>6. Cap \in Int
    BY CheckAssumption
  <1>7. loadBackoff.next > loc[w].now
    BY <1>1, <1>3, <1>4, <1>6, WaitIsAhead, Zenon DEF secondsUntilNextAttempt
  <1> QED
    BY <1>3, <1>4, <1>5, <1>6, <1>7, AheadOfDeadline, Zenon

-----------------------------------------------------------------------------
(* The groundwork holds. *)

INSTANCE FiniteSetTheorems

\* Induction, from the smallest number that is not in the set.
LEMMA InductionHolds == Induction
  <1> SUFFICES ASSUME NEW S, 0 \in S, \A n \in Nat : n \in S => n + 1 \in S, Nat \ S # {}
               PROVE  FALSE
    BY Zenon DEF Induction
  <1>1. PICK n \in Nat \ S : \A m \in Nat \ S : ~(<<m, n>> \in OpToRel(<, Nat))
    BY WFMin, NatLessThanWellFounded, Zenon
  <1>2. \A m \in Nat \ S : ~(m < n)
    BY <1>1, Zenon DEF OpToRel
  <1>3. n - 1 \in Nat
    <2>1. n \in Nat /\ n # 0
      OBVIOUS
    <2> QED
      BY <2>1
  <1>4. n - 1 \in S
    BY <1>2, <1>3
  <1> QED
    BY <1>3, <1>4

\* And the cardinality of finite sets.
LEMMA GroundworkHolds == Groundwork
  BY InductionHolds, FS_EmptySet, FS_CardinalityType, FS_AddElement, FS_RemoveElement, FS_Subset, Zenon
  DEF Groundwork, Counting

-----------------------------------------------------------------------------
(* The theorems. *)

\* The invariant of check(): what is stored or held anywhere is true.
THEOREM CheckInvariant == Spec => []CheckInv
  BY GroundworkHolds, InitInv, StepKeepsInv, PTL DEF Spec

\* Every variable has its type, and no deadline on the card is further away
\* than the cap, whatever the jitter chose (backoffDelaySeconds).
THEOREM CheckTypes == Spec => []TypeOK
  BY CheckInvariant, InvTypes, PTL

\* A document served as fresh was being served less than a TTL before: the
\* metadata a check accepts is true and describes the document it accepts.
THEOREM FreshIsRecentAlways == Spec => []FreshIsRecent
  BY CheckInvariant, InvIsFresh, PTL

\* A check is put off only when one that began less than the cap before failed:
\* a deadline that exists anywhere is one that some failure set.
THEOREM DeferralIsEarnedAlways == Spec => []DeferralIsEarned
  BY CheckInvariant, GroundworkHolds, InvIsEarned, PTL
=============================================================================
