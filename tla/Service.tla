------------------------------- MODULE Service --------------------------------
(***************************************************************************)
(* The application layer of internal/app (service.go, archive.go,          *)
(* project.go) over the store.  CLI processes and the server's handlers    *)
(* run the same requests on one database.  A request reads, one query at a *)
(* time and outside any transaction, the row it is about and the           *)
(* containers that may be archived; then it commits one transaction of     *)
(* the store.  It may fail before any of these steps (not found, archived, *)
(* a busy database, a cancelled context) and has then written nothing.     *)
(***************************************************************************)
EXTENDS Requests

CONSTANTS
    Servers, Clients,   \* the processes: a server's handlers take messages, the CLI's take commands
    Messages, Commands, \* the requests made of either kind
    MaxRequests         \* bound on the requests made

ASSUME ServiceAssumption ==
    /\ Servers \cap Clients = {}
    /\ \A r \in Messages : Message(r)
    /\ \A r \in Commands : Message(r) \/ PlanCommand(r)
    /\ \A r \in Messages \cup Commands : r.target \in Parents \cup ({"document"} \X DocumentIDs) \cup {NoTarget}
    /\ BodiesOf(Texts) \subseteq Bodies

Processes == Servers \cup Clients
RequestsOf(p) == IF p \in Servers THEN Messages ELSE Commands

VARIABLES
    process,       \* by process: pc, request, the container to look at next, the row read
    made,          \* requests made so far
    overtaken      \* history: the processes whose request a set archived flag overtook

serviceVars == <<storeVars, process, made, overtaken>>

Idle == [pc |-> "idle", request |-> <<>>, container |-> <<>>, row |-> <<>>]

------------------------------------------------------------------------------
\* Requests

\* DeleteProject and DeleteFeature are not guarded on purpose; CreateProject
\* has no container.
Unguarded == {"CreateProject", "DeleteProject", "DeleteFeature"}

\* archivedFeatureFlagOnly, archivedProjectFlagOnly: nothing but the flag.
FlagOnly(r) == r.op \in {"UpdateFeature", "UpdateProject"} /\ DOMAIN r.fields = {"archived"}

Moves(r) == r.op = "UpdateFeature" /\ "project" \in DOMAIN r.fields
NewPlan(r) == r.op = "AddDocument" /\ r.plan

Start(p, r) ==
    /\ process[p].pc = "idle" /\ made < MaxRequests
    /\ r \in RequestsOf(p)
    /\ made' = made + 1
    /\ process' = [process EXCEPT ![p] =
                     [pc |-> IF r.op \in Unguarded THEN "commit" ELSE "guard",
                      request |-> r, container |-> r.target, row |-> <<>>]]
    /\ UNCHANGED storeVars

------------------------------------------------------------------------------
\* The guard, one query a step.  What it refuses is left to Fail.

\* A slip one could make in archivedFeatureFlagOnly: naming the flag is enough.
FlagNamed(r, row) ==
    \/ r.op \in {"UpdateFeature", "UpdateProject"} /\ "archived" \in DOMAIN r.fields
    \/ ~row.archived
\* Whether the flag of the row lets the request through.
Admits(r, row) == FlagOnly(r) \/ ~row.archived

\* The next query.  The row that an update is about is kept for its transaction.
GoTo(p, pc, container) ==
    /\ process' = [process EXCEPT ![p].pc = pc, ![p].container = container]
    /\ UNCHANGED <<storeVars, made>>
Keep(p, row, pc, container) ==
    LET r == process[p].request
        kept == IF r.op \in {"UpdateProject", "UpdateFeature", "UpdateTask", "UpdateDocument"}
                     /\ r.target = process[p].container THEN row ELSE process[p].row
    IN  /\ process' = [process EXCEPT ![p].pc = pc, ![p].container = container, ![p].row = kept]
        /\ UNCHANGED <<storeVars, made>>

GuardDocument(p) ==
    LET d == process[p].container[2]
    IN  /\ process[p].pc = "guard" /\ process[p].container[1] = "document"
        /\ d \in DOMAIN documents
        /\ Keep(p, documents[d], "guard", documents[d].parent)

GuardTask(p) ==
    LET t == process[p].container[2]
    IN  /\ process[p].pc = "guard" /\ process[p].container[1] = "task"
        /\ t \in DOMAIN tasks
        /\ Keep(p, tasks[t], "guard", <<"feature", tasks[t].feature>>)

GuardFeature(p) ==
    LET r == process[p].request
        f == process[p].container[2]
    IN  /\ process[p].pc = "guard" /\ process[p].container[1] = "feature"
        /\ f \in DOMAIN features
        /\ Admits(r, features[f])
        /\ Keep(p, features[f], IF FlagOnly(r) THEN "commit" ELSE "guard",
                <<"project", features[f].project>>)

GuardProject(p) ==
    LET r == process[p].request
        q == process[p].container[2]
    IN  /\ process[p].pc = "guard" /\ process[p].container[1] = "project"
        /\ q \in DOMAIN projects
        /\ Admits(r, projects[q])
        /\ IF Moves(r) THEN Keep(p, projects[q], "destination", <<"project", r.fields.project>>)
           ELSE Keep(p, projects[q], IF NewPlan(r) THEN "plan" ELSE "commit", r.target)

\* resolveProjectAssignment: no feature moves into an archived project.
GuardDestination(p) ==
    LET q == process[p].container[2]
    IN  /\ process[p].pc = "destination"
        /\ q \in DOMAIN projects /\ ~projects[q].archived
        /\ GoTo(p, "commit", process[p].container)

\* resolveDocumentParent looks for a plan before the unique index does.
CheckPlan(p) ==
    /\ process[p].pc = "plan"
    /\ PlansOf(process[p].container[2]) = {}
    /\ GoTo(p, "commit", process[p].container)

------------------------------------------------------------------------------
\* The transaction

\* A slip one could make in UpdateDocument: hand on the row that was read.
WholeRow(r, row) == r.fields @@ row
NamedFields(r, row) == r.fields

\* The columns that an update leaves: those named, over the row as it was read
\* before the guard.  An empty status counts as not named.
Named(r, c) == c \in DOMAIN r.fields /\ (c = "status" => r.fields[c] # Unset)
Merged(r, row) == [c \in DOMAIN row |-> IF Named(r, c) THEN r.fields[c] ELSE row[c]]
MergedRow(r, row) == [Merged(r, row) EXCEPT !.body = Merged(r, row.body)]

\* A title may not be empty: the service refuses it, or the CHECK of the table does.
Titled(body) == body.title # Unset

CreateProjectRequest(r) ==
    r.op = "CreateProject" /\ Titled(r) /\ CreateProject([title |-> r.title, overrides |-> Unset])
UpdateProjectRequest(r, row) ==
    r.op = "UpdateProject" /\ Titled(MergedRow(r, row).body) /\ UpdateProject(r.target[2], MergedRow(r, row))
DeleteProjectRequest(r) == r.op = "DeleteProject" /\ DeleteProject(r.target[2], r.cascade)

CreateFeatureRequest(r) ==
    /\ r.op = "CreateFeature" /\ Titled(r)
    /\ CreateFeature(r.target[2], [title |-> r.title, status |-> Default, overrides |-> Unset])
UpdateFeatureRequest(r, row) ==
    r.op = "UpdateFeature" /\ Titled(MergedRow(r, row).body) /\ UpdateFeature(r.target[2], MergedRow(r, row))
DeleteFeatureRequest(r) == r.op = "DeleteFeature" /\ DeleteFeature(r.target[2], r.cascade)

CreateTaskRequest(r) ==
    r.op = "CreateTask" /\ Titled(r) /\ CreateTask(r.target[2], [title |-> r.title, status |-> Default])
UpdateTaskRequest(r, row) ==
    r.op = "UpdateTask" /\ Titled(MergedRow(r, row).body) /\ UpdateTask(r.target[2], MergedRow(r, row).body)
DeleteTaskRequest(r) == r.op = "DeleteTask" /\ DeleteTask(r.target[2], r.cascade)

AddDependencyRequest(r) == r.op = "AddDependency" /\ AddDependency(r.target[2], r.blocked)
RemoveDependencyRequest(r) == r.op = "RemoveDependency" /\ RemoveDependency(r.target[2], r.blocked)
\* Both hosts of a URL name one identity here; the refresh that follows is PullRequestSync's.
AttachPullRequestRequest(r) == r.op = "AttachPullRequest" /\ UpsertPullRequest(r.target[2], r.pr)
DetachPullRequestRequest(r) == r.op = "DetachPullRequest" /\ DeletePullRequest(r.target[2])

AddDocumentRequest(r) ==
    /\ r.op = "AddDocument" /\ (r.plan => r.target[1] = "task") /\ r.source # Unset
    /\ CreateDocument(r.target, r.title, r.source, r.plan)
UpdateDocumentRequest(r, row) ==
    LET plan == IF "plan" \in DOMAIN r.fields THEN r.fields.plan ELSE row.plan
    IN  /\ r.op = "UpdateDocument" /\ (plan => row.parent[1] = "task")
        /\ "source" \in DOMAIN r.fields => r.fields.source # Unset
        /\ UpdateDocument(r.target[2], NamedFields(r, row))
DeleteDocumentRequest(r) == r.op = "DeleteDocument" /\ DeleteDocument(r.target[2])
UpsertImplementationPlanRequest(r) ==
    r.op = "UpsertImplementationPlan" /\ r.source # Unset /\ UpsertImplementationPlan(r.target[2], Unset, r.source)
DeleteImplementationPlanRequest(r) == r.op = "DeleteImplementationPlan" /\ DeleteImplementationPlan(r.target[2])

Apply(r, row) ==
    \/ CreateProjectRequest(r) \/ UpdateProjectRequest(r, row) \/ DeleteProjectRequest(r)
    \/ CreateFeatureRequest(r) \/ UpdateFeatureRequest(r, row) \/ DeleteFeatureRequest(r)
    \/ CreateTaskRequest(r) \/ UpdateTaskRequest(r, row) \/ DeleteTaskRequest(r)
    \/ AddDependencyRequest(r) \/ RemoveDependencyRequest(r)
    \/ AttachPullRequestRequest(r) \/ DetachPullRequestRequest(r)
    \/ AddDocumentRequest(r) \/ UpdateDocumentRequest(r, row) \/ DeleteDocumentRequest(r)
    \/ UpsertImplementationPlanRequest(r) \/ DeleteImplementationPlanRequest(r)

Commit(p) ==
    /\ process[p].pc = "commit"
    /\ Apply(process[p].request, process[p].row)
    /\ process' = [process EXCEPT ![p] = Idle]
    /\ UNCHANGED made

Fail(p) ==
    /\ process[p].pc # "idle"
    /\ process' = [process EXCEPT ![p] = Idle]
    /\ UNCHANGED <<storeVars, made>>

------------------------------------------------------------------------------
Step(p) ==
    \/ \E r \in Messages \cup Commands : Start(p, r)
    \/ GuardDocument(p) \/ GuardTask(p) \/ GuardFeature(p) \/ GuardProject(p)
    \/ GuardDestination(p) \/ CheckPlan(p)
    \/ Commit(p) \/ Fail(p)

FlagSet == \/ \E f \in DOMAIN features \cap DOMAIN features' :
                 ~features[f].archived /\ features'[f].archived
           \/ \E q \in DOMAIN projects \cap DOMAIN projects' :
                 ~projects[q].archived /\ projects'[q].archived

\* The history variable: who is in flight when a flag is set, or when the write
\* of a request that a flag overtook lands.
Observe ==
    LET gap == FlagSet \/ \E q \in overtaken : process[q].pc = "commit" /\ process'[q].pc = "idle"
    IN  overtaken' = {p \in Processes : process'[p].pc # "idle" /\ (p \in overtaken \/ gap)}

ServiceNext == (\E p \in Processes : Step(p)) /\ Observe

ServiceIdle == /\ process = [p \in Processes |-> Idle]
               /\ made = 0 /\ overtaken = {}

------------------------------------------------------------------------------
\* Properties

Running == [pc : {"idle", "guard", "destination", "plan", "commit"},
            request : Messages \cup Commands \cup {<<>>},
            container : Parents \cup ({"document"} \X DocumentIDs) \cup {<<>>, NoTarget},
            row : ProjectRow \cup FeatureRow \cup TaskRow \cup DocumentRow \cup {<<>>}]

ServiceTypeOK == /\ StoreTypeOK
                 /\ process \in [Processes -> Running]
                 /\ made \in 0..MaxRequests /\ overtaken \subseteq Processes

ReadOnlyProject(q) == projects[q].archived
ReadOnlyFeature(f) == features[f].archived \/ ReadOnlyProject(features[f].project)

\* What the wall protects: everything inside a feature and the feature's own
\* columns but the flag, and the same for a project.
FeatureContents(f) ==
    LET ts == TasksOf({f})
        ds == DocumentsOf({<<"feature", f>>} \cup ({"task"} \X ts))
    IN  <<features[f].body, features[f].project, Restrict(tasks, ts),
          Restrict(documents, ds), Restrict(pullRequests, ts \cap DOMAIN pullRequests),
          FeatureDependencies(f)>>
ProjectContents(q) ==
    <<projects[q].body, FeaturesOf(q), Restrict(documents, DocumentsOf({<<"project", q>>}))>>

\* The process that takes a step that changes the store.
Committing(p) == process[p].pc = "commit" /\ storeVars' # storeVars /\ process'[p] # process[p]

\* The archive wall: nothing inside an archived feature or project is created,
\* changed, removed, moved in or moved out, except by deleting a container,
\* unless an archived flag was set while the request was in flight (the gap
\* that archive.md describes).  The guard of a dependency looks at the blocker
\* only, that of a document at whatever its parent is.
ArchiveWall ==
    [][\A p \in Processes :
         Committing(p) /\ process[p].request.op \notin Unguarded /\ p \notin overtaken
         => /\ \A f \in DOMAIN features \cap DOMAIN features' :
                 ReadOnlyFeature(f) => FeatureContents(f)' = FeatureContents(f)
            /\ \A q \in DOMAIN projects \cap DOMAIN projects' :
                 ReadOnlyProject(q) => ProjectContents(q)' = ProjectContents(q)]_serviceVars

\* The columns of document d that the request writes.
Writes(r, d) ==
    IF r.op = "UpdateDocument" /\ r.target = <<"document", d>> THEN DOMAIN r.fields
    ELSE IF r.op = "UpsertImplementationPlan" /\ r.target = documents[d].parent THEN {"source"}
    ELSE {}

\* Independent columns of a document survive concurrent updates: a column
\* changes only in the transaction of a request that names it, however long
\* ago that request read the row (repository.go, UpdateDocument).
DocumentColumnsIndependent ==
    [][\A p \in Processes, d \in DOMAIN documents \cap DOMAIN documents' :
         Committing(p) => \A c \in {"title", "source", "plan"} \ Writes(process[p].request, d) :
                             documents'[d][c] = documents[d][c]]_serviceVars

\* What the rows that are written as a whole do not promise: a column of a task
\* changes only in a request that names it (UpdateTask hands on every column).
TaskColumnsIndependent ==
    [][\A p \in Processes, t \in DOMAIN tasks \cap DOMAIN tasks' :
         Committing(p) /\ process[p].request.op = "UpdateTask" =>
             \A c \in {"title", "status"} \ DOMAIN process[p].request.fields :
                 tasks'[t].body[c] = tasks[t].body[c]]_serviceVars

\* The flag of a feature changes only in a request that names it.
ArchivedOnlyByRequest ==
    [][\A p \in Processes, f \in DOMAIN features \cap DOMAIN features' :
         Committing(p) /\ features'[f].archived # features[f].archived
         => "archived" \in DOMAIN process[p].request.fields]_serviceVars

==============================================================================
