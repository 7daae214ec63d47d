---------------------------- MODULE ManifestCheck ----------------------------
(***************************************************************************)
(* Looking for a published document and remembering the answer             *)
(* (UpdateService::check, core/update/manifest_cache.cpp, backoff.cpp;     *)
(* CatalogService::fetch is the same algorithm on files of its own).       *)
(*                                                                         *)
(* Three files on the card: the document, the metadata that describes it   *)
(* and the backoff.  Checks run on threads of their own (the home tab's    *)
(* and the update tab's) and share the files and their temporary names,    *)
(* and the configuration, whose two URLs the settings tab swaps meanwhile. *)
(* The clock only moves forward here.                                      *)
(***************************************************************************)
EXTENDS Integers

CONSTANTS
    Worker,         \* the threads that check
    MaxDoc,         \* documents are published in the order 1, 2, ..., MaxDoc
    Unreadable,     \* the documents this build cannot read
    None,
    Ttl,            \* cacheTtlSeconds
    Base, Cap, Jitter,  \* BackoffPolicy: seconds, seconds, percent
    MaxTime,        \* how far the clock goes
    MaxChecks,      \* how many checks are started
    MaxFaults,      \* how many writes may fail
    MaxCuts,        \* how many power cuts may happen
    MaxClicks       \* how often the mirror toggle is clicked

ASSUME CheckAssumption ==
    /\ MaxDoc \in Nat \ {0} /\ None \notin Int
    /\ Unreadable \subseteq 1..MaxDoc
    /\ Ttl \in Nat /\ Base \in Nat \ {0} /\ Cap \in Nat /\ Cap >= Base
    /\ Jitter \in 0..100
    /\ MaxTime \in Nat /\ MaxChecks \in Nat /\ MaxFaults \in Nat /\ MaxCuts \in Nat
    /\ MaxClicks \in Nat

VARIABLES
    disk, tmp,  \* the three files, and their ".tmp" neighbours
    clock,      \* seconds
    serves,     \* the document each host serves
    seen,       \* when a document was last served, by either host
    asks,       \* the host manifestUrl names; mirrorUrl names the other one
    toggle,     \* what the settings tab shows: prefer the mirror
    pc,         \* where each worker is
    file,       \* the file a worker is writing
    loc,        \* what a worker has read and decided
    lastFail,   \* the newest stamp of a check that failed
    checks, faults, cuts, clicks

diskVars == <<disk, tmp>>
configVars == <<asks, toggle, clicks>>
worldVars == <<clock, serves, seen, configVars>>
vars == <<diskVars, worldVars, pc, file, loc, lastFail, checks, faults, cuts>>

Doc == 1..MaxDoc
Host == {"primary", "mirror"}
Other(h) == CHOOSE o \in Host : o # h
File == {"doc", "meta", "backoff"}
Time == 0..MaxTime

\* An ETag names a document of one host; a response may come without one.
ETag == [host : Host, doc : Doc]

\* CacheMetadata: the digest and size are the document's number.  sourceUrl is
\* stored and never used.
Metadata == [doc : Doc, at : Time, etag : ETag \cup {None}]

ASSUME NoneAssumption == None \notin ETag \cup Metadata

\* BackoffState, without the two fields that are only displayed.
Backoff == [failures : 0..MaxChecks, next : 0..(MaxTime + Cap)]

NoBackoff == [failures |-> 0, next |-> 0]

\* What a check has in hand: its time, the cache and the backoff as it read
\* them, the host it has asked, and what it is going to write.
Local ==
    [now : Time, meta : Metadata \cup {None}, doc : Doc \cup {None},
     backoff : Backoff, host : Host, newMeta : Metadata \cup {None}, newBackoff : Backoff]

NoLocal ==
    [now |-> 0, meta |-> None, doc |-> None, backoff |-> NoBackoff,
     host |-> "primary", newMeta |-> None, newBackoff |-> NoBackoff]

-----------------------------------------------------------------------------
(* core/update/backoff.cpp *)

\* Doubling that stops at the cap.
growCapped(steps) ==
    LET grown[i \in 0..steps] ==
            IF i = 0 THEN Base
            ELSE IF grown[i - 1] >= Cap - grown[i - 1] THEN Cap
            ELSE 2 * grown[i - 1]
    IN grown[steps]

\* Mutant: the jitter only adds, and after the cap.
Bug_backoffDelay(failures) ==
    LET plain == growCapped(failures - 1)
    IN {plain + o : o \in 0..((plain * Jitter) \div 100)}

\* backoffDelaySeconds: the delays the jitter can choose.
backoffDelay(failures) ==
    LET plain == growCapped(failures - 1)
        span == (plain * Jitter) \div 100
        Clamp(d) == IF d < 1 THEN 1 ELSE IF d > Cap THEN Cap ELSE d
    IN IF span = 0 THEN {plain} ELSE {Clamp(plain + o) : o \in (-span)..(span - 1)}

afterFailure(b, now) ==
    {[failures |-> b.failures + 1, next |-> now + d] : d \in backoffDelay(b.failures + 1)}

afterSuccess(b) == NoBackoff

\* Mutant: a deadline stays in force for another cap.
Bug_secondsUntilNextAttempt(b, now) == IF b.next + Cap <= now THEN 0 ELSE b.next + Cap - now

\* A deadline further away than the cap is not honoured.
secondsUntilNextAttempt(b, now) ==
    IF b.next <= now \/ b.next - now > Cap THEN 0 ELSE b.next - now

-----------------------------------------------------------------------------
(* core/update/manifest_cache.cpp *)

\* Mutant: the document is taken for the one the metadata describes.
Bug_cacheMatchesDocument(meta, doc) == TRUE

cacheMatchesDocument(meta, doc) == meta.doc = doc

\* Mutant: the TTL's last second counts twice.
Bug_cacheIsFresh(meta, now) == meta.at <= now /\ now - meta.at <= Ttl

cacheIsFresh(meta, now) == meta.at <= now /\ now - meta.at < Ttl

planManifestFetch(meta, b, now) ==
    IF meta # None /\ cacheIsFresh(meta, now) THEN "ServeCache"
    ELSE IF secondsUntilNextAttempt(b, now) > 0
         THEN (IF meta # None THEN "DeferToCache" ELSE "DeferNoCache")
    ELSE IF meta # None /\ meta.etag # None THEN "Revalidate"
    ELSE "Fetch"

-----------------------------------------------------------------------------
(* check(), up to the network. *)

Begin(w) ==
    /\ pc[w] = "idle" /\ checks < MaxChecks
    /\ checks' = checks + 1
    /\ loc' = [loc EXCEPT ![w] = [NoLocal EXCEPT !.now = clock]]
    /\ pc' = [pc EXCEPT ![w] = "readMeta"]
    /\ UNCHANGED <<diskVars, worldVars, file, lastFail, faults, cuts>>

\* loadCache(): metadata first; without it the document is not looked at.
ReadMeta(w) ==
    /\ pc[w] = "readMeta"
    /\ loc' = [loc EXCEPT ![w].meta = disk["meta"]]
    /\ pc' = [pc EXCEPT ![w] = IF disk["meta"] = None THEN "plan" ELSE "readDoc"]
    /\ UNCHANGED <<diskVars, worldVars, file, lastFail, checks, faults, cuts>>

\* A cache that does not describe itself is no cache at all.
ReadDoc(w) ==
    /\ pc[w] = "readDoc"
    /\ loc' = IF disk["doc"] # None /\ cacheMatchesDocument(loc[w].meta, disk["doc"])
              THEN [loc EXCEPT ![w].doc = disk["doc"]]
              ELSE [loc EXCEPT ![w].meta = None]
    /\ pc' = [pc EXCEPT ![w] = "plan"]
    /\ UNCHANGED <<diskVars, worldVars, file, lastFail, checks, faults, cuts>>

\* loadBackoff(): a backoff that was never saved, or is being replaced, is none.
loadBackoff == IF disk["backoff"] = None THEN NoBackoff ELSE disk["backoff"]

\* What a check whose cache is loaded is about to do.
Plan(w) == planManifestFetch(loc[w].meta, loadBackoff, loc[w].now)

\* check() returns; nothing of it is left but the files.
Done(w) ==
    /\ pc' = [pc EXCEPT ![w] = "idle"]
    /\ loc' = [loc EXCEPT ![w] = NoLocal]

\* ServeCache and DeferToCache answer with the cached document, DeferNoCache
\* with none; the other plans go to the network.
PlanFetch(w) ==
    /\ pc[w] = "plan"
    /\ IF Plan(w) \in {"Revalidate", "Fetch"}
       THEN /\ loc' = [loc EXCEPT ![w].backoff = loadBackoff, ![w].host = asks]
            /\ pc' = [pc EXCEPT ![w] = "fetch"]
       ELSE Done(w)
    /\ UNCHANGED <<diskVars, worldVars, file, lastFail, checks, faults, cuts>>

-----------------------------------------------------------------------------
(* The network, and what check() makes of each response. *)

\* The conditional header: the cached ETag, whichever host it came from.
ifNoneMatch(w) == IF loc[w].meta = None THEN None ELSE loc[w].meta.etag

\* writeAtomic() comes next, for this file.
WriteNext(w, f) ==
    /\ file' = [file EXCEPT ![w] = f]
    /\ pc' = [pc EXCEPT ![w] = "write"]

\* No response, or one that cannot be read: back off.  The cache answers, if any.
Failed(w) ==
    /\ \E b \in afterFailure(loc[w].backoff, loc[w].now) :
        loc' = [loc EXCEPT ![w] = [NoLocal EXCEPT !.newBackoff = b]]
    /\ lastFail' = IF loc[w].now > lastFail THEN loc[w].now ELSE lastFail
    /\ WriteNext(w, "backoff")

\* storeCache() and saveBackoff() are going to write this; what was read is not
\* used again.
Store(w, meta) ==
    loc' = [loc EXCEPT ![w] = [NoLocal EXCEPT
                !.newMeta = meta,
                !.newBackoff = afterSuccess(loc[w].backoff)]]

\* A document from the host that was asked, with an ETag or without.
Received(w) ==
    LET served == [host |-> loc[w].host, doc |-> serves[loc[w].host]]
    IN  \/ /\ served.doc \notin Unreadable
           /\ \E e \in {served, None} :
                Store(w, [doc |-> served.doc, at |-> loc[w].now, etag |-> e])
           /\ WriteNext(w, "doc")
           /\ UNCHANGED lastFail
        \/ served.doc \in Unreadable /\ Failed(w)

\* The header names what the host serves.
Matches(w) == ifNoneMatch(w) = [host |-> loc[w].host, doc |-> serves[loc[w].host]]

\* 304.
NotModified(w) ==
    /\ Matches(w)
    /\ Store(w, [loc[w].meta EXCEPT !.at = loc[w].now])
    /\ WriteNext(w, "doc")
    /\ UNCHANGED lastFail

\* An unreachable host sends the check to mirrorUrl, as it is by now; a refusal
\* does not.
FetchPrimary(w) ==
    /\ pc[w] = "fetch"
    /\ \/ NotModified(w)
       \/ ~Matches(w) /\ Received(w)
       \/ Failed(w)
       \/ /\ pc' = [pc EXCEPT ![w] = "mirror"]
          /\ loc' = [loc EXCEPT ![w].host = Other(asks)]
          /\ UNCHANGED <<file, lastFail>>
    /\ UNCHANGED <<diskVars, worldVars, checks, faults, cuts>>

FetchMirror(w) ==
    /\ pc[w] = "mirror"
    /\ Received(w) \/ Failed(w)
    /\ UNCHANGED <<diskVars, worldVars, checks, faults, cuts>>

-----------------------------------------------------------------------------
(* SdFileStore::writeAtomic on files another check may be writing too. *)

Data(w) ==
    CASE file[w] = "doc" -> loc[w].newMeta.doc
      [] file[w] = "meta" -> loc[w].newMeta
      [] file[w] = "backoff" -> loc[w].newBackoff

\* storeCache() gives up at the first file it cannot write; the backoff is
\* saved in either case, and its failure is nobody's.
Written(w, ok) ==
    \/ /\ file[w] = "backoff"
       /\ Done(w)
       /\ UNCHANGED file
    \/ /\ file[w] = "doc" /\ ok
       /\ WriteNext(w, "meta")
       /\ UNCHANGED loc
    \/ /\ file[w] = "meta" \/ (file[w] = "doc" /\ ~ok)
       /\ WriteNext(w, "backoff")
       /\ loc' = [loc EXCEPT ![w].newMeta = None]

WriteTmp(w) ==
    /\ pc[w] = "write"
    /\ tmp' = [tmp EXCEPT ![file[w]] = Data(w)]
    /\ pc' = [pc EXCEPT ![w] = "clear"]
    /\ UNCHANGED <<disk, worldVars, file, loc, lastFail, checks, faults, cuts>>

WriteTmpFails(w) ==
    /\ pc[w] = "write"
    /\ faults < MaxFaults /\ faults' = faults + 1
    /\ tmp' = [tmp EXCEPT ![file[w]] = None]
    /\ Written(w, FALSE)
    /\ UNCHANGED <<disk, worldVars, lastFail, checks, cuts>>

ClearOld(w) ==
    /\ pc[w] = "clear"
    /\ disk' = [disk EXCEPT ![file[w]] = None]
    /\ pc' = [pc EXCEPT ![w] = "move"]
    /\ UNCHANGED <<tmp, worldVars, file, loc, lastFail, checks, faults, cuts>>

\* The rename fails when the temporary file is gone or the name is taken; what
\* is left under the temporary name is then deleted, whoever wrote it.
MoveIn(w) ==
    /\ pc[w] = "move"
    /\ tmp' = [tmp EXCEPT ![file[w]] = None]
    /\ IF tmp[file[w]] # None /\ disk[file[w]] = None
       THEN disk' = [disk EXCEPT ![file[w]] = tmp[file[w]]] /\ Written(w, TRUE)
       ELSE UNCHANGED disk /\ Written(w, FALSE)
    /\ UNCHANGED <<worldVars, lastFail, checks, faults, cuts>>

-----------------------------------------------------------------------------
(* Around it. *)

Observe(now, served) ==
    seen' = [d \in Doc |-> IF \E h \in Host : served[h] = d THEN now ELSE seen[d]]

Tick ==
    /\ clock < MaxTime
    /\ clock' = clock + 1
    /\ Observe(clock', serves)
    /\ UNCHANGED <<diskVars, serves, configVars, pc, file, loc, lastFail, checks, faults, cuts>>

\* A release is published; the mirror follows later.
Publish ==
    /\ \/ serves["primary"] < MaxDoc /\ serves' = [serves EXCEPT !["primary"] = @ + 1]
       \/ serves' = [serves EXCEPT !["mirror"] = serves["primary"]] /\ serves' # serves
    /\ Observe(clock, serves')
    /\ UNCHANGED <<diskVars, clock, configVars, pc, file, loc, lastFail, checks, faults, cuts>>

\* UpdateService::setPreferMirror: a swap when the mirror is preferred, nothing
\* when it no longer is.
setPreferMirror(prefer) == asks' = IF prefer THEN Other(asks) ELSE asks

\* The mirror toggle of the settings tab, on the interface's thread.
ClickMirror ==
    /\ clicks < MaxClicks
    /\ clicks' = clicks + 1
    /\ toggle' = ~toggle
    /\ setPreferMirror(toggle')
    /\ UNCHANGED <<diskVars, clock, serves, seen, pc, file, loc, lastFail, checks, faults, cuts>>

\* The application restarts; a temporary file may be torn, and nothing reads it.
PowerCut ==
    /\ cuts < MaxCuts
    /\ cuts' = cuts + 1
    /\ pc' = [w \in Worker |-> "idle"]
    /\ loc' = [w \in Worker |-> NoLocal]
    /\ asks' = "primary" /\ toggle' = FALSE
    /\ UNCHANGED <<diskVars, clock, serves, seen, clicks, file, lastFail, checks, faults>>

Check(w) ==
    \/ Begin(w) \/ ReadMeta(w) \/ ReadDoc(w) \/ PlanFetch(w)
    \/ FetchPrimary(w) \/ FetchMirror(w)
    \/ WriteTmp(w) \/ WriteTmpFails(w) \/ ClearOld(w) \/ MoveIn(w)

Next == (\E w \in Worker : Check(w)) \/ Tick \/ Publish \/ ClickMirror \/ PowerCut

\* A first start: nothing on the card.
Init ==
    /\ disk = [f \in File |-> None] /\ tmp = disk
    /\ clock = 0 /\ serves = [h \in Host |-> 1]
    /\ seen = [d \in Doc |-> IF d = 1 THEN 0 ELSE -1]
    /\ asks = "primary" /\ toggle = FALSE /\ clicks = 0
    /\ pc = [w \in Worker |-> "idle"] /\ file = [w \in Worker |-> "doc"]
    /\ loc = [w \in Worker |-> NoLocal]
    /\ lastFail = -1 - Cap /\ checks = 0 /\ faults = 0 /\ cuts = 0

Spec == Init /\ [][Next]_vars

-----------------------------------------------------------------------------
(* Properties. *)

\* Every variable has its type; in particular no deadline is ever further away
\* than the longest delay of the policy.
TypeOK ==
    /\ disk["doc"] \in Doc \cup {None} /\ tmp["doc"] \in Doc \cup {None}
    /\ disk["meta"] \in Metadata \cup {None} /\ tmp["meta"] \in Metadata \cup {None}
    /\ disk["backoff"] \in Backoff \cup {None}
    /\ disk["backoff"] # None => disk["backoff"].next <= clock + Cap
    /\ tmp["backoff"] \in Backoff \cup {None}
    /\ clock \in Time /\ serves \in [Host -> Doc]
    /\ seen \in [Doc -> Time \cup {-1}]
    /\ asks \in Host /\ toggle \in BOOLEAN /\ clicks \in 0..MaxClicks
    /\ pc \in [Worker -> {"idle", "readMeta", "readDoc", "plan", "fetch",
                          "mirror", "write", "clear", "move"}]
    /\ file \in [Worker -> File]
    /\ loc \in [Worker -> Local]
    /\ lastFail \in Time \cup {-1 - Cap}
    /\ checks \in 0..MaxChecks /\ faults \in 0..MaxFaults /\ cuts \in 0..MaxCuts

\* A document served as fresh was being served by a host less than a TTL before,
\* however two checks, a swap of the hosts and a power cut mixed up the three
\* files: loadCache() only accepts a document its metadata describes.
FreshIsRecent ==
    \A w \in Worker :
        pc[w] = "plan" /\ Plan(w) = "ServeCache" =>
            loc[w].now < seen[loc[w].doc] + Ttl

\* A check is only put off when a check that failed began less than the cap
\* before, also when one check's success and another's failure are saved in
\* either order (saveBackoff, secondsUntilNextAttempt).
DeferralIsEarned ==
    \A w \in Worker :
        pc[w] = "plan" /\ Plan(w) \in {"DeferToCache", "DeferNoCache"} =>
            loc[w].now < lastFail + Cap

(* Claims of documents and comments that the code does not keep. *)

\* The conditional header is not "sent somewhere it cannot mean anything": what
\* a host is asked was issued by that host.
OwnETagOnly ==
    \A w \in Worker :
        pc[w] = "fetch" /\ ifNoneMatch(w) # None => ifNoneMatch(w).host = loc[w].host

\* setPreferMirror() decides "whether to swap": the mirror is asked first while
\* the toggle is on, and only then.
PreferredIsAsked == toggle <=> asks = "mirror"

\* A check asks two hosts, not one of them twice.
FallsBackElsewhere ==
    [][\A w \in Worker :
        pc[w] = "fetch" /\ pc'[w] = "mirror" => loc'[w].host # loc[w].host]_vars
=============================================================================
