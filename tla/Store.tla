-------------------------------- MODULE Store --------------------------------
(***************************************************************************)
(* The SQLite store of internal/store/repository.go: the tables and one    *)
(* action per transaction.  Every connection opens its transactions with   *)
(* BEGIN IMMEDIATE (store.go, _txlock=immediate), so a transaction is one  *)
(* step, and one that fails is rolled back and changes nothing: only the   *)
(* committed transactions are steps here.  A statement that reads a row to *)
(* translate a public ID and then writes with foreign keys on is one step  *)
(* as well, since the foreign key rejects what the read could miss.        *)
(*                                                                         *)
(* A table is a function from the IDs of its rows to the rows.  Titles,    *)
(* descriptions, statuses and prompt overrides are one column, `body'.     *)
(***************************************************************************)
EXTENDS Naturals, Functions, TaskGraph

CONSTANTS
    MaxProjects, MaxFeatures, MaxTasks, MaxDocuments, \* bounds on the IDs handed out
    Bodies,        \* values of the columns that no invariant looks into
    PullRequests   \* pull request identities: host, owner, repository, number

ASSUME StoreAssumption ==
    {MaxProjects, MaxFeatures, MaxTasks, MaxDocuments} \subseteq Nat

VARIABLES
    sequences,     \* id_sequences.next_value, and the next fresh document UUID
    projects, features, tasks, dependencies, pullRequests, documents

tables == <<projects, features, tasks, dependencies, pullRequests, documents>>
storeVars == <<sequences, tables>>

------------------------------------------------------------------------------
\* Rows

ProjectIDs == 1..MaxProjects
FeatureIDs == 1..MaxFeatures
TaskIDs == 1..MaxTasks
DocumentIDs == 1..MaxDocuments

Bound == [project |-> MaxProjects, feature |-> MaxFeatures,
          task |-> MaxTasks, document |-> MaxDocuments]
Entities == {"project", "feature", "task", "document"}

ProjectRow == [archived : BOOLEAN, body : Bodies]
FeatureRow == [project : ProjectIDs, archived : BOOLEAN, body : Bodies]
TaskRow == [feature : FeatureIDs, body : Bodies]

\* A document has one parent: a project, a feature or a task.
Parents == ({"project"} \X ProjectIDs) \cup ({"feature"} \X FeatureIDs)
             \cup ({"task"} \X TaskIDs)
DocumentRow == [parent : Parents, title : Bodies, source : Bodies, plan : BOOLEAN]

\* What UpdateDocument may be asked to write: any columns but the owner.
DocumentFields == {[c \in columns |-> row[c]] : columns \in SUBSET {"title", "source", "plan"},
                                                row \in [title : Bodies, source : Bodies, plan : BOOLEAN]}

IsTable(table, ids, row) == DOMAIN table \subseteq ids /\ table \in [DOMAIN table -> row]

Put(table, id, row) ==
    [i \in DOMAIN table \cup {id} |-> IF i = id THEN row ELSE table[i]]
Erase(table, ids) == Restrict(table, DOMAIN table \ ids)

StoreTypeOK ==
    /\ sequences \in [Entities -> Nat \ {0}]
    /\ IsTable(projects, ProjectIDs, ProjectRow)
    /\ IsTable(features, FeatureIDs, FeatureRow)
    /\ IsTable(tasks, TaskIDs, TaskRow)
    /\ IsTable(documents, DocumentIDs, DocumentRow)
    /\ IsTable(pullRequests, TaskIDs, PullRequests)
    /\ dependencies \subseteq TaskIDs \X TaskIDs

StoreInit ==
    /\ sequences = [e \in Entities |-> 1]
    /\ projects = <<>> /\ features = <<>> /\ tasks = <<>>
    /\ documents = <<>> /\ pullRequests = <<>> /\ dependencies = {}

------------------------------------------------------------------------------
\* What the transactions read

Exists(parent) ==
    \/ parent[1] = "project" /\ parent[2] \in DOMAIN projects
    \/ parent[1] = "feature" /\ parent[2] \in DOMAIN features
    \/ parent[1] = "task" /\ parent[2] \in DOMAIN tasks

TasksOf(fs) == {t \in DOMAIN tasks : tasks[t].feature \in fs}
FeaturesOf(p) == {f \in DOMAIN features : features[f].project = p}
DocumentsOf(parents) == {d \in DOMAIN documents : documents[d].parent \in parents}
PlansOf(t) == {d \in DocumentsOf({<<"task", t>>}) : documents[d].plan}

\* The rows ListDependenciesByFeature joins on the blocker.
FeatureDependencies(f) == {e \in dependencies : tasks[e[1]].feature = f}

\* nextPublicID stores the next value and returns the one before it.
ValueStored(e) == sequences[e] + 1
NextPublicID(e) == sequences[e]

\* A slip one could make: the value is read and never moved on.
ReadSequence(e) == sequences[e] <= Bound[e] /\ UNCHANGED sequences
Allocate(e) == /\ sequences[e] <= Bound[e]
               /\ sequences' = [sequences EXCEPT ![e] = @ + 1]

------------------------------------------------------------------------------
\* Projects, features and tasks

CreateProject(body) ==
    /\ Allocate("project")
    /\ projects' = Put(projects, NextPublicID("project"),
                       [archived |-> FALSE, body |-> body])
    /\ UNCHANGED <<features, tasks, dependencies, pullRequests, documents>>

\* The whole row is written, archived flag included.
UpdateProject(p, row) ==
    /\ p \in DOMAIN projects
    /\ projects' = Put(projects, p, row)
    /\ UNCHANGED <<sequences, features, tasks, dependencies, pullRequests, documents>>

CreateFeature(p, body) ==
    /\ p \in DOMAIN projects
    /\ Allocate("feature")
    /\ features' = Put(features, NextPublicID("feature"),
                       [project |-> p, archived |-> FALSE, body |-> body])
    /\ UNCHANGED <<projects, tasks, dependencies, pullRequests, documents>>

\* The whole row is written, project and archived flag included.
UpdateFeature(f, row) ==
    /\ f \in DOMAIN features /\ row.project \in DOMAIN projects
    /\ features' = Put(features, f, row)
    /\ UNCHANGED <<sequences, projects, tasks, dependencies, pullRequests, documents>>

CreateTask(f, body) ==
    /\ f \in DOMAIN features
    /\ Allocate("task")
    /\ tasks' = Put(tasks, NextPublicID("task"), [feature |-> f, body |-> body])
    /\ UNCHANGED <<projects, features, dependencies, pullRequests, documents>>

\* Every column but the feature is written: a task never changes its feature.
UpdateTask(t, body) ==
    /\ t \in DOMAIN tasks
    /\ tasks' = Put(tasks, t, [feature |-> tasks[t].feature, body |-> body])
    /\ UNCHANGED <<sequences, projects, features, dependencies, pullRequests, documents>>

------------------------------------------------------------------------------
\* Deletion.  Without cascade a row that something refers to is kept.

\* deleteFeatureContents for the features fs.  It deletes the dependencies by
\* their blocker only; ON DELETE RESTRICT then refuses a task that is still
\* blocked by a task of another feature.
Restricted(fs) ==
    \E e \in dependencies : /\ tasks[e[2]].feature \in fs
                            /\ tasks[e[1]].feature # tasks[e[2]].feature

\* The documents go with the parents `extra' as well as with fs and its tasks.
DeleteFeatureContents(fs, extra) ==
    LET gone == TasksOf(fs)
    IN  /\ ~Restricted(fs)
        /\ dependencies' = {e \in dependencies : e[1] \notin gone}
        /\ pullRequests' = Erase(pullRequests, gone)
        /\ documents' = Erase(documents, DocumentsOf(
               extra \cup ({"feature"} \X fs) \cup ({"task"} \X gone)))
        /\ tasks' = Erase(tasks, gone)

DeleteProject(p, cascade) ==
    LET held == FeaturesOf(p)
    IN  /\ p \in DOMAIN projects
        /\ ~cascade => held = {} /\ DocumentsOf({<<"project", p>>}) = {}
        /\ DeleteFeatureContents(held, {<<"project", p>>})
        /\ features' = Erase(features, held)
        /\ projects' = Erase(projects, {p})
        /\ UNCHANGED sequences

DeleteFeature(f, cascade) ==
    /\ f \in DOMAIN features
    /\ ~cascade => TasksOf({f}) = {} /\ DocumentsOf({<<"feature", f>>}) = {}
    /\ DeleteFeatureContents({f}, {})
    /\ features' = Erase(features, {f})
    /\ UNCHANGED <<sequences, projects>>

DeleteTask(t, cascade) ==
    LET edges == {e \in dependencies : t \in {e[1], e[2]}}
        owned == DocumentsOf({<<"task", t>>})
    IN  /\ t \in DOMAIN tasks
        /\ ~cascade => edges = {} /\ owned = {} /\ t \notin DOMAIN pullRequests
        /\ dependencies' = dependencies \ edges
        /\ pullRequests' = Erase(pullRequests, {t})
        /\ documents' = Erase(documents, owned)
        /\ tasks' = Erase(tasks, {t})
        /\ UNCHANGED <<sequences, projects, features>>

------------------------------------------------------------------------------
\* Dependencies

\* A slip one could make in AddDependency: tasks of any two features.
AnyTwoTasks(blocker, blocked) == TRUE
WithinOneFeature(blocker, blocked) == tasks[blocker].feature = tasks[blocked].feature

AddDependency(blocker, blocked) ==
    LET f == tasks[blocker].feature
    IN  /\ {blocker, blocked} \subseteq DOMAIN tasks
        /\ WithinOneFeature(blocker, blocked)
        /\ <<blocker, blocked>> \notin dependencies
        /\ ~ClosesCycle(FeatureDependencies(f), blocker, blocked)
        /\ dependencies' = dependencies \cup {<<blocker, blocked>>}
        /\ UNCHANGED <<sequences, projects, features, tasks, pullRequests, documents>>

RemoveDependency(blocker, blocked) ==
    /\ {blocker, blocked} \subseteq DOMAIN tasks
    /\ <<blocker, blocked>> \in dependencies
    /\ dependencies' = dependencies \ {<<blocker, blocked>>}
    /\ UNCHANGED <<sequences, projects, features, tasks, pullRequests, documents>>

------------------------------------------------------------------------------
\* Pull requests: at most one per task, and a pull request has one task

UpsertPullRequest(t, pr) ==
    /\ t \in DOMAIN tasks
    /\ \A u \in DOMAIN pullRequests \ {t} : pullRequests[u] # pr
    /\ pullRequests' = Put(pullRequests, t, pr)
    /\ UNCHANGED <<sequences, projects, features, tasks, dependencies, documents>>

DeletePullRequest(t) ==
    /\ t \in DOMAIN pullRequests
    /\ pullRequests' = Erase(pullRequests, {t})
    /\ UNCHANGED <<sequences, projects, features, tasks, dependencies, documents>>

------------------------------------------------------------------------------
\* Documents and the implementation plan

\* The CHECK constraint and the partial unique index on implementation plans:
\* a plan belongs to a task that has no other plan.
PlanAllowed(d, parent) == parent[1] = "task" /\ PlansOf(parent[2]) \subseteq {d}

CreateDocument(parent, title, source, plan) ==
    LET id == NextPublicID("document")
    IN  /\ Exists(parent)
        /\ plan => PlanAllowed(id, parent)
        /\ Allocate("document")
        /\ documents' = Put(documents, id, [parent |-> parent, title |-> title,
                                            source |-> source, plan |-> plan])
        /\ UNCHANGED <<projects, features, tasks, dependencies, pullRequests>>

\* Only the columns in DOMAIN fields are written.
UpdateDocument(d, fields) ==
    LET Column(c) == IF c \in DOMAIN fields THEN fields[c] ELSE documents[d][c]
        row == [parent |-> documents[d].parent, title |-> Column("title"),
                source |-> Column("source"), plan |-> Column("plan")]
    IN  /\ d \in DOMAIN documents
        /\ row.plan => PlanAllowed(d, row.parent)
        /\ documents' = Put(documents, d, row)
        /\ UNCHANGED <<sequences, projects, features, tasks, dependencies, pullRequests>>

DeleteDocument(d) ==
    /\ d \in DOMAIN documents
    /\ documents' = Erase(documents, {d})
    /\ UNCHANGED <<sequences, projects, features, tasks, dependencies, pullRequests>>

\* An existing plan keeps its ID and its title.
UpsertImplementationPlan(t, title, source) ==
    \/ \E d \in PlansOf(t) : UpdateDocument(d, [source |-> source])
    \/ PlansOf(t) = {} /\ CreateDocument(<<"task", t>>, title, source, TRUE)

DeleteImplementationPlan(t) ==
    /\ t \in DOMAIN tasks /\ PlansOf(t) # {}
    /\ documents' = Erase(documents, PlansOf(t))
    /\ UNCHANGED <<sequences, projects, features, tasks, dependencies, pullRequests>>

------------------------------------------------------------------------------
StoreNext ==
    \/ \E body \in Bodies : CreateProject(body)
    \/ \E p \in ProjectIDs : \/ \E row \in ProjectRow : UpdateProject(p, row)
                             \/ \E body \in Bodies : CreateFeature(p, body)
                             \/ \E cascade \in BOOLEAN : DeleteProject(p, cascade)
    \/ \E f \in FeatureIDs : \/ \E row \in FeatureRow : UpdateFeature(f, row)
                             \/ \E body \in Bodies : CreateTask(f, body)
                             \/ \E cascade \in BOOLEAN : DeleteFeature(f, cascade)
    \/ \E t \in TaskIDs : \/ \E body \in Bodies : UpdateTask(t, body)
                          \/ \E cascade \in BOOLEAN : DeleteTask(t, cascade)
                          \/ \E u \in TaskIDs : AddDependency(t, u) \/ RemoveDependency(t, u)
                          \/ \E pr \in PullRequests : UpsertPullRequest(t, pr)
                          \/ DeletePullRequest(t)
                          \/ \E b, c \in Bodies : UpsertImplementationPlan(t, b, c)
                          \/ DeleteImplementationPlan(t)
    \/ \E parent \in Parents, b, c \in Bodies, plan \in BOOLEAN :
          CreateDocument(parent, b, c, plan)
    \/ \E d \in DocumentIDs :
          \/ \E fields \in DocumentFields : UpdateDocument(d, fields)
          \/ DeleteDocument(d)

StoreSpec == StoreInit /\ [][StoreNext]_storeVars

------------------------------------------------------------------------------
\* Properties

\* Foreign keys, as PRAGMA foreign_key_check reads them.
ForeignKeys ==
    /\ \A f \in DOMAIN features : features[f].project \in DOMAIN projects
    /\ \A t \in DOMAIN tasks : tasks[t].feature \in DOMAIN features
    /\ \A e \in dependencies : {e[1], e[2]} \subseteq DOMAIN tasks
    /\ DOMAIN pullRequests \subseteq DOMAIN tasks
    /\ \A d \in DOMAIN documents : Exists(documents[d].parent)

\* Whatever transactions commit, in whatever order, `nnx debug' finds nothing
\* to report: Validate's foreign key check is clean and TopologicalOrder places
\* every task, although AddDependency looks at one feature's edges only.
ValidateClean == ForeignKeys /\ Acyclic(DOMAIN tasks, dependencies)

\* A dependency never leaves its feature, over every sequence of creations,
\* moves between projects, deletions and cascades.
DependenciesWithinOneFeature ==
    \A e \in dependencies : tasks[e[1]].feature = tasks[e[2]].feature

\* A cascading delete is never refused: deleteFeatureContents removes a
\* feature's dependencies by their blocker only, and that is enough for the
\* foreign keys on the blocked side, for every feature and every project.
CascadeNeverRestricted ==
    /\ \A f \in DOMAIN features : ~Restricted({f})
    /\ \A p \in DOMAIN projects : ~Restricted(FeaturesOf(p))

==============================================================================
