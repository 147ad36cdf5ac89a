------------------------------ MODULE Snapshot -------------------------------
(***************************************************************************)
(* Repository.Snapshot reads the database in seven queries with no         *)
(* transaction around them (internal/store/repository.go), so other        *)
(* commits fall between the queries.  Two callers read here: the query     *)
(* cache of an open tab, which fetches again whenever it hears of a change *)
(* (web/src/hooks.ts), and GetBatchPrompt (internal/app/prompt.go), which  *)
(* the tab asks for a batch it chose from what it shows.                   *)
(*                                                                         *)
(* The notification of module Revision is one step: after a commit the tab *)
(* hears of it at some later time.                                         *)
(***************************************************************************)
EXTENDS Store, Derivation, Sequences

CONSTANTS
    Statuses,           \* the task statuses that writers set
    FeatureStatuses,    \* the feature statuses that writers set: "auto", or one by hand
    MaxCommits          \* bounds the commits of other clients

TaskStatuses == {"not_started", "designing", "in_progress", "completed", "closed"}

ASSUME SnapshotAssumption == Statuses \subseteq TaskStatuses /\ MaxCommits \in Nat

VARIABLES
    at,         \* by reader, its next query; 0 when it does not read
    got,        \* by reader, the answers to the queries before it
    batch,      \* what the tab asks a prompt for
    news,       \* whether the tab is yet to hear of a commit
    view,       \* what the tab shows
    lasting,    \* by reader, what has been so at every moment of its reading
    commits     \* the commits so far

readVars == <<at, got, lasting>>
snapshotVars == <<storeVars, readVars, batch, news, view, commits>>

Readers == {"tab", "prompt"}

------------------------------------------------------------------------------
\* The database as a snapshot, and facts about it that can last

Queries == <<"projects", "features", "tasks", "dependencies", "pullRequests", "plans", "documents">>

ListProjects == projects
ListFeatures == features
ListTasks == tasks
ListDependencies == dependencies
ListPullRequests == pullRequests
ListImplementationPlanTaskIDs == {t \in DOMAIN tasks : PlansOf(t) # {}}
ListDocuments == DOMAIN documents

Tables == [projects |-> ListProjects, features |-> ListFeatures, tasks |-> ListTasks,
           dependencies |-> ListDependencies, pullRequests |-> ListPullRequests,
           plans |-> ListImplementationPlanTaskIDs, documents |-> ListDocuments]

\* The unfinished tasks, and the dependencies such a task waits for.
Facts == LET now == Tables
             unfinished == {t \in DOMAIN now.tasks : ~IsTaskFinished(DisplayState(now, t))}
         IN  [unfinished |-> unfinished,
              waiting    |-> {e \in now.dependencies : e[2] \in unfinished /\ Unresolved(now, e[1])}]

Both(a, b) == [fact \in DOMAIN a |-> a[fact] \cap b[fact]]
NoFacts == [waiting |-> {}, unfinished |-> {}]

------------------------------------------------------------------------------
\* Commits of other clients

Write ==
    \/ CreateFeature(1, "auto")
    \/ \E p \in DOMAIN projects :
          \/ UpdateProject(p, [projects[p] EXCEPT !.archived = ~@])
          \/ DeleteProject(p, TRUE)
    \/ \E f \in DOMAIN features :
          \/ UpdateFeature(f, [features[f] EXCEPT !.archived = ~@])
          \/ \E status \in FeatureStatuses \ {features[f].body} :
                UpdateFeature(f, [features[f] EXCEPT !.body = status])
          \/ CreateTask(f, "not_started")
          \/ DeleteFeature(f, TRUE)
    \/ \E t \in DOMAIN tasks :
          \/ \E status \in Statuses \ {tasks[t].body} : UpdateTask(t, status)
          \/ DeleteTask(t, TRUE)
          \/ \E u \in DOMAIN tasks : AddDependency(t, u) \/ RemoveDependency(t, u)
          \/ \E pr \in PullRequests : pr.number = t /\ UpsertPullRequest(t, pr)
          \/ DeletePullRequest(t)
          \/ UpsertImplementationPlan(t, "auto", "auto")
          \/ DeleteImplementationPlan(t)

Reading(r) == at[r] \in 1..Len(Queries)

Commit == /\ commits < MaxCommits /\ Write
          /\ commits' = commits + 1
          /\ news' = TRUE
          /\ lasting' = [r \in Readers |-> IF Reading(r) THEN Both(lasting[r], Facts')
                                                         ELSE lasting[r]]
          /\ UNCHANGED <<at, got, batch, view>>

------------------------------------------------------------------------------
\* Repository.Snapshot

Begin(r) == /\ at' = [at EXCEPT ![r] = 1]
            /\ got' = [got EXCEPT ![r] = <<>>]
            /\ lasting' = [lasting EXCEPT ![r] = Facts]

Query(r) == LET table == Queries[at[r]]
            IN  /\ Reading(r)
                /\ got' = [got EXCEPT ![r] = Put(@, table, Tables[table])]
                /\ at' = [at EXCEPT ![r] = @ + 1]
                /\ UNCHANGED <<storeVars, batch, news, view, lasting, commits>>

HasRead(r) == at[r] = Len(Queries) + 1

Leaves(r) == /\ at' = [at EXCEPT ![r] = 0]
             /\ got' = [got EXCEPT ![r] = <<>>]
             /\ lasting' = [lasting EXCEPT ![r] = NoFacts]

------------------------------------------------------------------------------
\* The tab: invalidateQueries drops the fetch under way and begins another

\* A slip one could make: a fetch under way is as good as another.
JoinsFetch == at["tab"] # 0
Restarts == FALSE

Hear == /\ news /\ news' = FALSE
        /\ IF Restarts THEN UNCHANGED readVars ELSE Begin("tab")
        /\ UNCHANGED <<storeVars, batch, view, commits>>

Show == /\ HasRead("tab")
        /\ view' = Derived(got["tab"])
        /\ Leaves("tab")
        /\ UNCHANGED <<storeVars, batch, news, commits>>

------------------------------------------------------------------------------
\* GetBatchPrompt

NoBatch == [feature |-> 0, project |-> 0, tasks |-> {}]

\* What the dialog offers: a set of tasks that are not begun, each with at most
\* one blocker to wait for and with that blocker (web/src/views/batchPromptTasks.ts).
Selectable(f) ==
    LET offered == {t \in DOMAIN view.tasks :
                       /\ view.tasks[t].feature = f
                       /\ view.tasks[t].state \in CandidateStates
                       /\ Cardinality(view.tasks[t].pending) <= 1}
    IN  {S \in SUBSET offered : S # {} /\ \A t \in S : view.tasks[t].pending \subseteq S}

\* ResolveFeature comes first: a feature that is gone ends the request.
Ask == /\ at["prompt"] = 0
       /\ \E f \in DOMAIN view.features \cap DOMAIN features :
             \E S \in Selectable(f) :
                batch' = [feature |-> f, project |-> features[f].project, tasks |-> S]
       /\ Begin("prompt")
       /\ UNCHANGED <<storeVars, news, view, commits>>

\* Every task must be there, in the feature, with its blockers, and the project
\* whose templates apply must still be there after the snapshot.
Renders(derived) ==
    /\ \A t \in batch.tasks : /\ t \in DOMAIN derived.tasks
                              /\ derived.tasks[t].feature = batch.feature
                              /\ batch.feature \in DOMAIN derived.features
    /\ RequirePromptBlockers(derived, batch.tasks)
    /\ batch.project \in DOMAIN projects

Render == /\ HasRead("prompt")
          /\ Renders(Derived(got["prompt"]))
          /\ Leaves("prompt") /\ batch' = NoBatch
          /\ UNCHANGED <<storeVars, news, view, commits>>

Refuse == /\ HasRead("prompt")
          /\ ~Renders(Derived(got["prompt"]))
          /\ Leaves("prompt") /\ batch' = NoBatch
          /\ UNCHANGED <<storeVars, news, view, commits>>

------------------------------------------------------------------------------
\* Nobody reads, and the tab shows the database.
SnapshotIdle ==
    /\ at = [r \in Readers |-> 0] /\ got = [r \in Readers |-> <<>>]
    /\ lasting = [r \in Readers |-> NoFacts]
    /\ batch = NoBatch /\ view = Derived(Tables)
    /\ news = FALSE /\ commits = 0

SnapshotNext == Commit \/ Hear \/ Show \/ Ask \/ Render \/ Refuse \/ \E r \in Readers : Query(r)

\* The tab hears of a change (ChangesArrive of module Revision), its queries are
\* answered and its cache takes the answer.
SnapshotFairness == /\ WF_snapshotVars(Hear) /\ WF_snapshotVars(Show)
                    /\ WF_snapshotVars(Query("tab"))

------------------------------------------------------------------------------
\* Properties

\* What a snapshot derives may mix the database before a commit with the one
\* after it, and still shows nothing that was wrong all the while it was read:
\* a task shown as ready had no blocker that stayed unresolved throughout, and
\* a feature shown as completed, unless by hand, had no task that stayed unfinished throughout.
ShownWasSo ==
    [][Show => LET lasted == lasting["tab"]
               IN  /\ \A e \in lasted.waiting : ~view'.tasks[e[2]].ready
                   /\ \A t \in lasted.unfinished, f \in DOMAIN view'.features :
                         got["tab"].features[f].body = "auto" /\ view'.features[f].status = "completed"
                            => view'.tasks[t].feature # f
      ]_snapshotVars

\* A prompt that is handed out holds every blocker its tasks had to wait for
\* while it was put together, whatever was added or reopened after the tab
\* offered the batch.
BatchesAreClosed ==
    [][Render => \A e \in lasting["prompt"].waiting :
                    e[2] \in batch.tasks => e[1] \in batch.tasks]_snapshotVars

\* A mixed snapshot does not last: once the commits stop, every tab comes to
\* show what the database holds, and keeps showing it.
TabsConverge == <>[](view = Derived(Tables))

==============================================================================
