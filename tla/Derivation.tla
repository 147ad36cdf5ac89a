----------------------------- MODULE Derivation ------------------------------
(***************************************************************************)
(* What internal/domain/status.go and graph.go derive from the rows of a   *)
(* snapshot, and the condition under which GetBatchPrompt hands a set of   *)
(* tasks over (internal/app/prompt.go).                                    *)
(*                                                                         *)
(* A snapshot s has one field per query: projects, features, tasks (the    *)
(* body of a task row is its stored status, of a feature row its stored    *)
(* status), dependencies, pullRequests and plans (the tasks with an        *)
(* implementation plan).  A pull request is a record with the fields state,*)
(* review, answered (a review is requested, or something was pushed after  *)
(* the request for changes), conflict and failing.                         *)
(***************************************************************************)
EXTENDS Naturals, FiniteSets

Settled == {"completed", "closed"}   \* the stored statuses that win over a pull request
FinishedStates == {"completed", "closed", "merged"}
CandidateStates == {"not_started", "designing", "designed"}

TaskDisplayStateFromPR(pr) ==
    IF pr.state \in {"merged", "closed"} THEN pr.state
    ELSE IF pr.review = "approved" THEN "approved"
    ELSE IF pr.answered THEN "in_review"
    ELSE IF pr.state = "open" THEN "implemented" ELSE "unknown"

HasPR(s, t) == t \in DOMAIN s.pullRequests

DisplayState(s, t) ==
    LET status == s.tasks[t].body
    IN  IF status \in Settled THEN status
        ELSE IF HasPR(s, t) THEN TaskDisplayStateFromPR(s.pullRequests[t])
        ELSE IF status = "in_progress" THEN status
        ELSE IF t \in s.plans THEN "designed" ELSE status

IsTaskFinished(state) == state \in FinishedStates

IsSatisfied(s, t) ==
    \/ s.tasks[t].body \in Settled
    \/ HasPR(s, t) /\ s.pullRequests[t].state \in {"open", "closed", "merged"}

Blockers(s, t) == {e[1] : e \in {d \in s.dependencies : d[2] = t}}
Unresolved(s, b) == b \in DOMAIN s.tasks => ~IsSatisfied(s, b)

\* Slips one could make in Derive: to look at one blocker and leave the loop,
\* and to keep the blockers of a task that is finished.
OnlyFirstBlocker(s, t) ==
    LET known == {b \in Blockers(s, t) : \A c \in Blockers(s, t) : b <= c}
    IN  {b \in known : Unresolved(s, b)}
PendingBlockers(s, t) == {b \in Blockers(s, t) : Unresolved(s, b)}

BlockLabels(s, t) ==
    {label \in {"dependency", "conflict", "changes", "checks"} :
        \/ label = "dependency" /\ PendingBlockers(s, t) # {}
        \/ HasPR(s, t) /\ LET pr == s.pullRequests[t]
                          IN  \/ label = "conflict" /\ pr.conflict
                              \/ label = "changes" /\ pr.review = "changes_requested"
                              \/ label = "checks" /\ pr.failing}

\* Derive, for one task.  A finished task has neither blockers nor labels.
DerivedTask(s, t) ==
    LET state == DisplayState(s, t)
        finished == IsTaskFinished(state)
    IN  [feature |-> s.tasks[t].feature, state |-> state,
         ready   |-> state \in CandidateStates /\ PendingBlockers(s, t) = {},
         pending |-> IF finished THEN {} ELSE PendingBlockers(s, t),
         labels  |-> IF finished THEN {} ELSE BlockLabels(s, t)]

\* A slip one could make in FeatureDisplayStatus: one finished task is enough.
AnyFinished(tasks, finished) == finished # {}
AllFinished(tasks, finished) == tasks # {} /\ finished = tasks

FeatureDisplayStatus(stored, tasks, finished) ==
    IF stored # "auto" THEN stored
    ELSE IF AllFinished(tasks, finished) THEN "completed" ELSE "active"

\* deriveSnapshot.  A task whose feature was not read counts for no feature.
Derived(s) ==
    LET derived == [t \in DOMAIN s.tasks |-> DerivedTask(s, t)]
        Of(f) == {t \in DOMAIN derived : derived[t].feature = f}
        Finished(f) == {t \in Of(f) : IsTaskFinished(derived[t].state)}
    IN  [tasks    |-> derived,
         features |-> [f \in DOMAIN s.features |->
            [status   |-> FeatureDisplayStatus(s.features[f].body, Of(f), Finished(f)),
             readOnly |-> \/ s.features[f].archived
                          \/ /\ s.features[f].project \in DOMAIN s.projects
                             /\ s.projects[s.features[f].project].archived,
             count    |-> Cardinality(Of(f)), finished |-> Cardinality(Finished(f))]]]

------------------------------------------------------------------------------
\* A slip one could make in requirePromptBlockers: the browser has looked already.
TrustTheBrowser(derived, batch) == TRUE
RequirePromptBlockers(derived, batch) ==
    \A t \in batch : derived.tasks[t].pending \subseteq batch

==============================================================================
