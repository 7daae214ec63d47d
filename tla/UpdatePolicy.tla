----------------------------- MODULE UpdatePolicy -----------------------------
(***************************************************************************)
(* Which published release is offered (core/version/semver.cpp and         *)
(* core/update/update_policy.cpp), and where a console that always accepts *)
(* the offer ends up.                                                      *)
(*                                                                         *)
(* A version has three numbers and a prerelease, a sequence of             *)
(* identifiers.  An identifier is the sequence of its character codes.     *)
(***************************************************************************)
EXTENDS Integers, Sequences

CONSTANTS
    Numbers,        \* the triples <<major, minor, patch>> that are published
    Identifier,     \* the identifiers of prereleases
    MaxIdentifiers, \* how many of them a prerelease has
    Minimum,        \* the values of min_supported
    Channel         \* the release channels

\* What parseSemVer leaves: three numbers, and identifiers that are not empty.
ASSUME PolicyAssumption ==
    /\ Numbers \subseteq [1..3 -> Nat]
    /\ Identifier \subseteq Seq(Nat) \ {<<>>}
    /\ MaxIdentifiers \in Nat
    /\ Minimum \subseteq [numbers : [1..3 -> Nat], pre : Seq(Identifier)]

VARIABLES
    installed,  \* the version that runs
    past        \* some version that ran earlier, or the same

policyVars == <<installed, past>>

SemVer ==
    [numbers : Numbers,
     pre : UNION {[1..n -> Identifier] : n \in 0..MaxIdentifiers}]

Manifest ==
    [version : SemVer, min : Minimum, channel : Channel, mandatory : BOOLEAN]

-----------------------------------------------------------------------------
(* core/version/semver.cpp; an ordering is a negative number, 0 or a positive *)
(* one.                                                                       *)

\* The least of a set of positions.
First(I) == CHOOSE i \in I : \A j \in I : i <= j

\* The first of these comparisons that decides.
FirstOf(orderings) ==
    LET deciding == {i \in 1..Len(orderings) : orderings[i] # 0}
    IN IF deciding = {} THEN 0 ELSE orderings[First(deciding)]

Shared(a, b) == IF Len(a) < Len(b) THEN Len(a) ELSE Len(b)

\* operator<=> of std::string_view.
CompareText(a, b) ==
    FirstOf(Append([i \in 1..Shared(a, b) |-> a[i] - b[i]], Len(a) - Len(b)))

isNumericIdentifier(s) == \A i \in DOMAIN s : s[i] \in 48..57

\* Mutant: numbers are compared as text.
Bug_CompareIdentifier(l, r) ==
    IF isNumericIdentifier(l) # isNumericIdentifier(r)
    THEN (IF isNumericIdentifier(l) THEN -1 ELSE 1)
    ELSE CompareText(l, r)

\* One round of comparePrerelease's loop: of two numbers the one with more
\* digits is the larger.
CompareIdentifier(l, r) ==
    IF isNumericIdentifier(l) /\ isNumericIdentifier(r)
    THEN FirstOf(<<Len(l) - Len(r), CompareText(l, r)>>)
    ELSE IF isNumericIdentifier(l) # isNumericIdentifier(r)
    THEN (IF isNumericIdentifier(l) THEN -1 ELSE 1)
    ELSE CompareText(l, r)

comparePrerelease(a, b) ==
    IF a = <<>> \/ b = <<>>
    THEN Len(b) - Len(a)
    ELSE FirstOf(Append([i \in 1..Shared(a, b) |-> CompareIdentifier(a[i], b[i])],
                        Len(a) - Len(b)))

compare(a, b) ==
    FirstOf(Append([i \in 1..3 |-> a.numbers[i] - b.numbers[i]],
                   comparePrerelease(a.pre, b.pre)))

isNewerThan(candidate, current) == compare(candidate, current) > 0

-----------------------------------------------------------------------------
(* core/update/update_policy.cpp *)

\* Mutant: anything but the installed version is taken for newer.
Bug_decideUpdate(current, m, channel) ==
    IF m.channel # channel THEN "WrongChannel"
    ELSE IF compare(current, m.min) < 0 THEN "UnsupportedPath"
    ELSE IF compare(m.version, current) = 0 THEN "UpToDate"
    ELSE "Optional"

decideUpdate(current, m, channel) ==
    IF m.channel # channel THEN "WrongChannel"
    ELSE IF compare(current, m.min) < 0 THEN "UnsupportedPath"
    ELSE IF ~isNewerThan(m.version, current) THEN "UpToDate"
    ELSE IF m.mandatory THEN "Mandatory"
    ELSE "Optional"

Offered(current, m) ==
    \E channel \in Channel : decideUpdate(current, m, channel) \in {"Optional", "Mandatory"}

PolicyInit == installed \in SemVer /\ past = installed

\* A release is published, offered and installed.
Accept ==
    /\ \E m \in Manifest : Offered(installed, m) /\ installed' = m.version
    /\ past' \in {past, installed}

PolicyNext == Accept

PolicySpec == PolicyInit /\ [][PolicyNext]_policyVars

-----------------------------------------------------------------------------
(* SemVer section 11, stated without the algorithm. *)

\* The number a numeric identifier spells.
Value(s) ==
    LET spelled[i \in 0..Len(s)] == IF i = 0 THEN 0 ELSE 10 * spelled[i - 1] + (s[i] - 48)
    IN spelled[Len(s)]

\* A number is written without a leading zero (section 9).  parseSemVer does not
\* insist on it in a prerelease.
NoLeadingZero(s) == isNumericIdentifier(s) => Len(s) = 1 \/ s[1] # 48

\* a comes before b in the order of sequences that Less gives on the items.
SeqBelow(a, b, Less(_, _)) ==
    \E k \in 1..Len(b) :
        /\ k <= Len(a) + 1
        /\ \A i \in 1..(k - 1) : a[i] = b[i]
        /\ k > Len(a) \/ Less(a[k], b[k])

IdentifierBelow(x, y) ==
    CASE isNumericIdentifier(x) /\ isNumericIdentifier(y) -> Value(x) < Value(y)
      [] isNumericIdentifier(x) /\ ~isNumericIdentifier(y) -> TRUE
      [] ~isNumericIdentifier(x) /\ isNumericIdentifier(y) -> FALSE
      [] ~isNumericIdentifier(x) /\ ~isNumericIdentifier(y) -> SeqBelow(x, y, <)

Precedes(a, b) ==
    \/ SeqBelow(a.numbers, b.numbers, <)
    \/ /\ a.numbers = b.numbers
       /\ \/ a.pre # <<>> /\ b.pre = <<>>
          \/ a.pre # <<>> /\ b.pre # <<>> /\ SeqBelow(a.pre, b.pre, IdentifierBelow)

\* However many releases are published and accepted, in any order and on any
\* channel, a console never comes back to a version it has left, nor to one
\* before it: compare() agrees with SemVer precedence, prereleases and two-digit
\* numbers included.
NeverReturns == past = installed \/ Precedes(past, installed)

\* A release that a supported installation has not reached yet is never taken
\* for an old one (decideUpdate answers "is current").
NewerIsOffered ==
    \A m \in Manifest :
        Precedes(installed, m.version) /\ ~Precedes(installed, m.min) => Offered(installed, m)
=============================================================================
