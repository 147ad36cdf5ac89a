------------------------------ MODULE MCRefresh -------------------------------
(***************************************************************************)
(* A refresh of pull requests: when one is due, of AutoSyncHistory; with   *)
(* which credentials it asks, of Credentials; and what it does to the      *)
(* rows, of PullRequestSync.  A behaviour takes the steps of one of the    *)
(* three (`part`): their states add up.                                    *)
(*                                                                         *)
(* Credentials has two methods, a repository with two pull requests and    *)
(* one with a single one.  A world is what GitHub and the environment say  *)
(* during the refresh, together with what was configured and cached        *)
(* before: every entry of the cache can be left from an earlier refresh.   *)
(***************************************************************************)
EXTENDS AutoSyncHistory, Credentials, PullRequestSync, TLC

CONSTANTS m1, m2, t1, t2, r1, r2, pr1, pr2, pr3

MCMethods == {m1, m2}
MCTokens == {t1, t2}
MCListed == <<[repository |-> r1, prs |-> <<pr1, pr2>>], [repository |-> r2, prs |-> <<pr3>>]>>
MCTogether == <<pr1, pr2, pr3>>
MCRepository == (pr1 :> r1) @@ (pr2 :> r1) @@ (pr3 :> r2)

TokenChoices == {(m1 :> t1) @@ (m2 :> t2), (m1 :> t1) @@ (m2 :> t1), (m1 :> None) @@ (m2 :> t2)}
AccessChoices == [MCTokens -> {(r1 :> a) @@ (r2 :> b) : a \in {"full", "core", "none"}, b \in {"full", "none"}}]
States == {(pr1 :> a) @@ (pr2 :> b) @@ (pr3 :> "open") : a \in {"open", "missing"}, b \in {"open", "merged"}}

MCWorlds ==
    {[world |-> [token |-> t, revoked |-> v, access |-> a, state |-> s], methods |-> l, cache |-> (r1 :> c) @@ (r2 :> d)] :
        t \in TokenChoices, v \in {{}, {t1}}, a \in AccessChoices, s \in States,
        l \in {<<m1, m2>>, <<m2>>, <<>>}, c \in {None, m1, m2}, d \in {None, m1}}

VARIABLE part       \* what is looked at

historyVars == <<autoSyncVars, overtaken, sinceGrant>>
refreshVars == <<historyVars, credentialsVars, pullRequestVars, part>>

\* A part that is not looked at stands in a state where nothing is left that its
\* fairness asks for: a call that never asks, a world, no row of a pull request.
NobodyAsks == /\ age = Lapsed /\ owner = NoRun /\ open = FALSE /\ result = "none"
              /\ phase = [p \in Callers |-> "away"] /\ wait = [p \in Callers |-> 0]
              /\ due = [p \in Callers |-> Default] /\ outcome = [p \in Callers |-> "none"]
              /\ manuals = 0 /\ failures = 0 /\ overtaken = {} /\ sinceGrant = 0

AnyWorld == CHOOSE w \in MCWorlds : TRUE

NoRows == /\ github = [pr \in PullRequests |-> "open"] /\ left = 0
          /\ tasks = {} /\ rows = <<>> /\ sync = [p \in Refreshers |-> Idle]

MCInit == /\ part \in {"due", "credentials", "rows"}
          /\ IF part = "due" THEN HistoryInit ELSE NobodyAsks
          /\ CredentialsInit
          /\ part # "credentials" => <<world, methods, cache>> = <<AnyWorld.world, AnyWorld.methods, AnyWorld.cache>>
          /\ IF part = "rows" THEN PullRequestSyncInit ELSE NoRows

MCNext == \/ part = "due" /\ HistoryNext /\ UNCHANGED <<credentialsVars, pullRequestVars, part>>
          \/ part = "credentials" /\ CredentialsNext /\ UNCHANGED <<historyVars, pullRequestVars, part>>
          \/ part = "rows" /\ PullRequestSyncNext /\ UNCHANGED <<historyVars, credentialsVars, part>>

MCSpec == MCInit /\ [][MCNext]_refreshVars /\ AutoSyncFairness /\ PullRequestSyncFairness
===============================================================================
