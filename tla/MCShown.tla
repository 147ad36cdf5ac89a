------------------------------- MODULE MCShown -------------------------------
(***************************************************************************)
(* What a reader is shown: the snapshot of the tab, the pull request, the  *)
(* diagnostic report and the labels of tasks.  These four read what others *)
(* write and share no state, so a behaviour takes the steps of one of them *)
(* (`part`) while the rest stand still: the states of the four add up.     *)
(*                                                                         *)
(* The snapshot is taken of one feature and three tasks, the third of      *)
(* which waits for the first two.                                          *)
(***************************************************************************)
EXTENDS Snapshot, MCFacts, Diagnosis, Labels

VARIABLE part       \* what is looked at

shownVars == <<snapshotVars, factsVars, diagnosisVars, labelsVars, part>>

PullRequest(t, state) == [number |-> t, state |-> state, review |-> "none", answered |-> FALSE,
                          conflict |-> FALSE, failing |-> FALSE]

MCBodies == {"auto", "not_started", "in_progress", "completed"}
MCStatuses == {"not_started", "in_progress", "completed"}
MCPullRequests == {PullRequest(t, state) : t \in {1, 3}, state \in {"unknown", "open", "merged"}}

MCKeys == {"in_progress", "completed", "in_review"}
MCStable == {"in_progress", "completed"}
MCTexts == {"Working", "completed"}

SeedTask(status) == [feature |-> 1, body |-> status]

MCInit ==
    /\ sequences = [project |-> 2, feature |-> 2, task |-> 4, document |-> 1]
    /\ projects = <<[archived |-> FALSE, body |-> "auto"]>>
    /\ features = <<[project |-> 1, archived |-> FALSE, body |-> "auto"]>>
    /\ tasks = <<SeedTask("completed"), SeedTask("not_started"), SeedTask("not_started")>>
    /\ dependencies = {<<1, 3>>, <<2, 3>>}
    /\ pullRequests = <<>> /\ documents = <<>>
    /\ SnapshotIdle /\ FactsIdle /\ DiagnosisIdle /\ LabelsIdle
    /\ settings.hosts = {"github.com"}   \* nnx is set up
    /\ part \in {"snapshot", "facts", "diagnosis", "labels"}

MCNext ==
    \/ /\ part = "snapshot" /\ SnapshotNext
       /\ UNCHANGED <<factsVars, diagnosisVars, labelsVars, part>>
    \/ /\ part = "facts" /\ FactsNext
       /\ UNCHANGED <<snapshotVars, diagnosisVars, labelsVars, part>>
    \/ /\ part = "diagnosis" /\ DiagnosisNext
       /\ UNCHANGED <<snapshotVars, factsVars, labelsVars, part>>
    \/ /\ part = "labels" /\ LabelsNext
       /\ UNCHANGED <<snapshotVars, factsVars, diagnosisVars, part>>

\* The two callers of the snapshot share the database and what the tab shows, and
\* no query of one changes what the other reads: it is enough to let one read at
\* a time.
OneReads == \E r \in Readers : at[r] = 0

MCSpec == MCInit /\ [][MCNext]_shownVars /\ SnapshotFairness

==============================================================================
