---------------------------- MODULE PreserveRules ----------------------------
(***************************************************************************)
(* The user's list of files an installation leaves alone                   *)
(* (core/paths/preserve_rules.cpp): which paths a list of rules keeps.     *)
(*                                                                         *)
(* A component is a sequence of characters, a pattern or a path a sequence *)
(* of components.  Rule::directory is not modelled: preserves() does the   *)
(* same with it and without.                                               *)
(***************************************************************************)
EXTENDS Integers, SequencesExt

CONSTANTS
    Pattern,    \* the patterns a rule may have
    Path,       \* the paths an installation asks about
    MaxRules    \* how long the list gets

VARIABLE rules  \* m_rules

Rule == [pattern : Pattern, negated : BOOLEAN]

-----------------------------------------------------------------------------
(* detail:: *)

lower(c) == CASE c = "A" -> "a" [] c = "B" -> "b" [] OTHER -> c

\* Mutant: a star never gives way again.
Bug_Retry(m) == [m EXCEPT !.failed = TRUE]

\* The star seen last takes one more character; without a star the names differ.
Retry(m) ==
    IF m.star = 0
    THEN [m EXCEPT !.failed = TRUE]
    ELSE [m EXCEPT !.p = m.star + 1, !.starText = m.starText + 1, !.s = m.starText + 1]

\* One component against one component, with a single place to come back to.
matchComponent(pattern, text) ==
    LET InPattern(m) == m.p <= Len(pattern)
        RECURSIVE Loop(_)
        Loop(m) ==
            IF m.s > Len(text) \/ m.failed THEN m
            ELSE IF InPattern(m) /\ \/ pattern[m.p] = "?"
                                    \/ lower(pattern[m.p]) = lower(text[m.s])
            THEN Loop([m EXCEPT !.p = m.p + 1, !.s = m.s + 1])
            ELSE IF InPattern(m) /\ pattern[m.p] = "*"
            THEN Loop([m EXCEPT !.star = m.p, !.p = m.p + 1, !.starText = m.s])
            ELSE Loop(Retry(m))
        end == Loop([p |-> 1, s |-> 1, star |-> 0, starText |-> 0, failed |-> FALSE])
    IN ~end.failed /\ \A i \in end.p..Len(pattern) : pattern[i] = "*"

\* The lengths of the prefixes of the path that the pattern accounts for, one
\* component of the pattern after the other.
matchAll(pattern, path) ==
    LET Step(reachable, component) ==
            IF component = <<"*", "*">>
            THEN {j \in 0..Len(path) : \E i \in reachable : i <= j}
            ELSE {j \in 1..Len(path) :
                    j - 1 \in reachable /\ matchComponent(component, path[j])}
    IN Len(path) \in FoldLeft(Step, {0}, pattern)

\* A rule, and what lies beneath the directory it names.
Hit(rule, path) ==
    matchAll(rule.pattern, path) \/ matchAll(Append(rule.pattern, <<"*", "*">>), path)

\* The last rule that matches decides.
preserves(path) ==
    FoldLeft(LAMBDA kept, rule : IF Hit(rule, path) THEN ~rule.negated ELSE kept, FALSE, rules)

\* parse() has read one more line that holds a rule.
AddRule(rule) ==
    /\ Len(rules) < MaxRules
    /\ rules' = Append(rules, rule)

PreserveInit == rules = <<>>
PreserveNext == \E rule \in Rule : AddRule(rule)

-----------------------------------------------------------------------------
(* What a list of rules means. *)

\* "*" takes a run of characters, "?" one of them, a letter itself.
RECURSIVE NameMatches(_, _)
NameMatches(glob, name) ==
    \/ glob = <<>> /\ name = <<>>
    \/ /\ glob # <<>> /\ Head(glob) = "*"
       /\ \E k \in 0..Len(name) : NameMatches(Tail(glob), SubSeq(name, k + 1, Len(name)))
    \/ /\ glob # <<>> /\ name # <<>> /\ Head(glob) # "*"
       /\ Head(glob) = "?" \/ lower(Head(glob)) = lower(Head(name))
       /\ NameMatches(Tail(glob), Tail(name))

\* "**" takes a run of components, any other component one that it matches.
RECURSIVE PathMatches(_, _)
PathMatches(pattern, path) ==
    \/ pattern = <<>> /\ path = <<>>
    \/ /\ pattern # <<>> /\ Head(pattern) = <<"*", "*">>
       /\ \E k \in 0..Len(path) : PathMatches(Tail(pattern), SubSeq(path, k + 1, Len(path)))
    \/ /\ pattern # <<>> /\ path # <<>> /\ Head(pattern) # <<"*", "*">>
       /\ NameMatches(Head(pattern), Head(path))
       /\ PathMatches(Tail(pattern), Tail(path))

\* The rule names the path or a directory above it.
Covers(rule, path) ==
    \E k \in 0..Len(path) : PathMatches(rule.pattern, SubSeq(path, 1, k))

\* For every list, the files that are kept are those the rules name: the loop
\* with one backtrack point and the table of reachable prefixes compute what
\* "*", "?", "**" and "!" mean, and the last rule that names a file decides.
PreservesAsWritten ==
    \A path \in Path :
        preserves(path) <=>
            \E i \in DOMAIN rules :
                /\ Covers(rules[i], path) /\ ~rules[i].negated
                /\ \A j \in (i + 1)..Len(rules) : ~Covers(rules[j], path)
=============================================================================
