----------------------------- MODULE MCComponents -----------------------------
(***************************************************************************)
(* Six components that share no state, model-checked side by side: the     *)
(* hash, the download, the update policy, the preserve rules, the archive- *)
(* bit repair and the home tab.  A behaviour is one of one component; the  *)
(* others stay as they are.                                                *)
(***************************************************************************)
EXTENDS Sha256, Download, UpdatePolicy, PreserveRules, ArchiveBit, HomeTab

VARIABLE component

allVars == <<component, shaVars, downloadVars, policyVars, rules, repairVars, homeVars>>

Component == {"hash", "download", "policy", "preserve", "repair", "home"}

-----------------------------------------------------------------------------
(* Values of the constants. *)

\* Two numbers of which the later one is the smaller text.
MCNumbers == {<<0, 9, 1>>, <<0, 10, 0>>}

\* "9", "10", "11", "a", "a1": no number with a leading zero.
MCIdentifier == {<<57>>, <<49, 48>>, <<49, 49>>, <<97>>, <<97, 49>>}

MCMinimum ==
    [numbers : {<<0, 9, 1>>}, pre : {<<>>, <<<<57>>>>}]

MCText(S, n) == UNION {[1..k -> S] : k \in 1..n}

\* Every short glob alone, and patterns of up to three components.
MCPattern ==
    MCText({<<"a">>, <<"b", "*">>, <<"*", "*">>}, 3)
        \cup MCText(MCText({"a", "B", "*"}, 3) \cup {<<"?">>, <<"*", "?">>, <<"?", "a">>}, 1)

MCPath ==
    MCText(MCText({"A", "b"}, 3), 1) \cup MCText({<<"a">>, <<"b", "a">>}, 3)

\* A directory in a directory, and a second target.
MCName(word) == <<word, 0>>
MCTargets == <<<<MCName("atmosphere")>>, <<MCName("switch")>>>>
MCLayout ==
    LET atmosphere == MCTargets[1]
        contents == Append(atmosphere, MCName("contents"))
    IN {atmosphere, contents, Append(contents, MCName("flag")), MCTargets[2],
        Append(atmosphere, MCName("ini")), Append(MCTargets[2], MCName("nro"))}
MCFileWord == {"flag", "ini", "nro"}

MCJobs == {"telemetry", "check"}

-----------------------------------------------------------------------------

MCInit ==
    /\ component \in Component
    /\ ShaInit /\ DownloadInit /\ PreserveInit /\ RepairInit /\ HomeInit
    /\ PolicyInit
    /\ component # "policy" => installed = [numbers |-> <<0, 9, 1>>, pre |-> <<>>]
    /\ component # "home" => updates = [j \in Jobs |-> 1]

MCNext ==
    /\ UNCHANGED component
    /\ \/ /\ component = "hash" /\ ShaNext
          /\ UNCHANGED <<downloadVars, policyVars, rules, repairVars, homeVars>>
       \/ /\ component = "download" /\ DownloadNext
          /\ UNCHANGED <<shaVars, policyVars, rules, repairVars, homeVars>>
       \/ /\ component = "policy" /\ PolicyNext
          /\ UNCHANGED <<shaVars, downloadVars, rules, repairVars, homeVars>>
       \/ /\ component = "preserve" /\ PreserveNext
          /\ UNCHANGED <<shaVars, downloadVars, policyVars, repairVars, homeVars>>
       \/ /\ component = "repair" /\ RepairNext
          /\ UNCHANGED <<shaVars, downloadVars, policyVars, rules, homeVars>>
       \/ /\ component = "home" /\ HomeNext
          /\ UNCHANGED <<shaVars, downloadVars, policyVars, rules, repairVars>>

MCSpec == MCInit /\ [][MCNext]_allVars

\* NewerIsOffered where the policy is what runs: a release that a supported
\* installation has not reached yet is offered (decideUpdate).
PolicyOffersNewer == component = "policy" => NewerIsOffered
=============================================================================
