---------------------------- MODULE Transactions -----------------------------
(***************************************************************************)
(* The operations of the store statement by statement: how Go code over    *)
(* SQLite makes the single steps of Store.  An operation on several rows   *)
(* runs between BEGIN IMMEDIATE, which keeps every other writer out, and   *)
(* COMMIT, on tables that nobody else sees; one on a single row looks up   *)
(* its IDs first and writes with a statement of its own, and anything may  *)
(* be committed in between.  SQLite refuses a statement whose result       *)
(* breaks a foreign key (all of them RESTRICT, so checked at once) or a    *)
(* unique index.  Any operation may fail or die between two statements;    *)
(* what it did in a transaction is then undone.                            *)
(***************************************************************************)
EXTENDS StoreHistory, Sequences, FiniteSets

CONSTANTS
    Connections,   \* connections of the CLI's processes and of the server's pool
    Operations,    \* the operations they may run, with their arguments
    MaxOperations  \* bound on the operations run

\* The arguments are of the columns' types; an ID that is looked up may name no row.
Operation ==
    [do : {"CreateProject"}, body : Bodies]
      \cup [do : {"CreateFeature", "CreateTask", "UpdateTask", "UpsertImplementationPlanDocument"},
            id : Nat, body : Bodies]
      \cup [do : {"UpdateProject"}, id : Nat, row : ProjectRow]
      \cup [do : {"UpdateFeature"}, id : Nat, row : FeatureRow]
      \cup [do : {"DeleteProject", "DeleteFeature", "DeleteTask"}, id : Nat, cascade : BOOLEAN]
      \cup [do : {"AddDependency", "RemoveDependency"}, id : Nat, blocked : Nat]
      \cup [do : {"UpsertPullRequest"}, id : Nat, pr : PullRequests]
      \cup [do : {"CreateDocument"}, row : DocumentRow]
      \cup [do : {"UpdateDocument"}, id : Nat, fields : DocumentFields]
      \cup [do : {"DeletePullRequest", "DeleteDocument", "DeleteImplementationPlanDocument"}, id : Nat]

ASSUME TransactionsAssumption == MaxOperations \in Nat /\ Operations \subseteq Operation

VARIABLES
    connection,    \* by connection: operation, statements left, tables as its transaction sees them
    ran            \* operations run so far

transactionVars == <<historyVars, connection, ran>>

Idle == [operation |-> <<>>, script |-> <<>>, db |-> <<>>]
Running(c) == connection[c] # Idle
InTransaction(c) == connection[c].db # <<>>

\* What a connection outside a transaction sees.
Committed == [sequences |-> sequences, projects |-> projects, features |-> features, tasks |-> tasks,
              dependencies |-> dependencies, pullRequests |-> pullRequests, documents |-> documents]

------------------------------------------------------------------------------
\* Queries

GetProjectByPublicID(d, p) == p \in DOMAIN d.projects
GetFeatureByPublicID(d, f) == f \in DOMAIN d.features
GetTaskByPublicID(d, t) == t \in DOMAIN d.tasks
GetParent(d, parent) == CASE parent[1] = "project" -> GetProjectByPublicID(d, parent[2])
                          [] parent[1] = "feature" -> GetFeatureByPublicID(d, parent[2])
                          [] parent[1] = "task" -> GetTaskByPublicID(d, parent[2])

ListFeaturesByProject(d, p) == {f \in DOMAIN d.features : d.features[f].project = p}
ListTasksByFeature(d, f) == {t \in DOMAIN d.tasks : d.tasks[t].feature = f}
ListDependenciesByFeature(d, f) == {e \in d.dependencies : d.tasks[e[1]].feature = f}
DocumentsUnder(d, parents) == {i \in DOMAIN d.documents : d.documents[i].parent \in parents}
PlanDocuments(d, t) == {i \in DocumentsUnder(d, {<<"task", t>>}) : d.documents[i].plan}

CountProjectReferences(d, p) ==
    Cardinality(ListFeaturesByProject(d, p)) + Cardinality(DocumentsUnder(d, {<<"project", p>>}))
CountFeatureReferences(d, f) ==
    Cardinality(ListTasksByFeature(d, f)) + Cardinality(DocumentsUnder(d, {<<"feature", f>>}))
CountTaskReferences(d, t) ==
    Cardinality({e \in d.dependencies : t \in {e[1], e[2]}}) + Cardinality({t} \cap DOMAIN d.pullRequests)
        + Cardinality(DocumentsUnder(d, {<<"task", t>>}))

------------------------------------------------------------------------------
\* Statements that write.  Each gives the databases it may lead to: none when
\* the row that it needs is not there, or is there already.

\* A slip one could make: the statement returns the value and does not move it on.
ReturnSequence(d, entity) == {d}
\* The value of a sequence, while the bound of the model leaves one.
Free(d, entity) == {d.sequences[entity]} \cap 1..Bound[entity]
IncrementIDSequence(d, entity) == {[d EXCEPT !.sequences[entity] = i + 1] : i \in Free(d, entity)}

\* nextPublicID: the value before the one that IncrementIDSequence returned.
New(d, entity, table) == {d.sequences[entity] - 1} \ DOMAIN table

InsertProject(d, body) ==
    {[d EXCEPT !.projects = Put(@, p, [archived |-> FALSE, body |-> body])]
        : p \in New(d, "project", d.projects)}
InsertFeature(d, p, body) ==
    {[d EXCEPT !.features = Put(@, f, [project |-> p, archived |-> FALSE, body |-> body])]
        : f \in New(d, "feature", d.features)}
InsertTask(d, f, body) ==
    {[d EXCEPT !.tasks = Put(@, t, [feature |-> f, body |-> body])] : t \in New(d, "task", d.tasks)}

WriteProject(d, p, row) ==
    {[d EXCEPT !.projects[q] = row] : q \in {p} \cap DOMAIN d.projects}
WriteFeature(d, f, row) ==
    {[d EXCEPT !.features[g] = row] : g \in {f} \cap DOMAIN d.features}
WriteTask(d, t, body) ==
    {[d EXCEPT !.tasks[u].body = body] : u \in {t} \cap DOMAIN d.tasks}

InsertDependency(d, edge) ==
    {[d EXCEPT !.dependencies = @ \cup {e}] : e \in {edge} \ d.dependencies}
EraseDependency(d, edge) ==
    {[d EXCEPT !.dependencies = @ \ {e}] : e \in {edge} \cap d.dependencies}

InsertPullRequest(d, t, pr) == {[d EXCEPT !.pullRequests = Put(@, t, pr)]}

\* The UUID of a document is drawn anew each time.
InsertDocument(d, row) ==
    {[d EXCEPT !.sequences["document"] = i + 1, !.documents = Put(@, i, row)] : i \in Free(d, "document")}

\* Only the columns whose set_ flag the caller raised.
WriteDocument(d, i, fields) ==
    {[d EXCEPT !.documents[j] = [c \in DOMAIN @ |-> IF c \in DOMAIN fields THEN fields[c] ELSE @[c]]]
        : j \in {i} \cap DOMAIN d.documents}

\* INSERT ... ON CONFLICT(task_id) WHERE is_implementation_plan = 1 DO UPDATE.
InsertImplementationPlan(d, t, title, source) ==
    IF PlanDocuments(d, t) = {}
    THEN InsertDocument(d, [parent |-> <<"task", t>>, title |-> title, source |-> source, plan |-> TRUE])
    ELSE UNION {WriteDocument(d, i, [source |-> source]) : i \in PlanDocuments(d, t)}

------------------------------------------------------------------------------
\* Statements that delete.

DeleteDependenciesForFeature(d, f) ==
    [d EXCEPT !.dependencies = {e \in @ : e[1] \notin ListTasksByFeature(d, f)}]
DeletePullRequestsForFeature(d, f) ==
    [d EXCEPT !.pullRequests = Erase(@, ListTasksByFeature(d, f))]
DeleteDocumentsForFeature(d, f) ==
    [d EXCEPT !.documents = Erase(@, DocumentsUnder(d, {<<"feature", f>>}
                                         \cup ({"task"} \X ListTasksByFeature(d, f))))]
DeleteTasksForFeature(d, f) == [d EXCEPT !.tasks = Erase(@, ListTasksByFeature(d, f))]
EraseFeature(d, f) == [d EXCEPT !.features = Erase(@, {f})]

DeleteDocumentsForProject(d, p) ==
    [d EXCEPT !.documents = Erase(@, DocumentsUnder(d, {<<"project", p>>}))]
EraseProject(d, p) == [d EXCEPT !.projects = Erase(@, {p})]

DeleteDependenciesForTask(d, t) == [d EXCEPT !.dependencies = {e \in @ : t \notin {e[1], e[2]}}]
ErasePullRequest(d, t) == [d EXCEPT !.pullRequests = Erase(@, {t})]
DeleteDocumentsForTask(d, t) == [d EXCEPT !.documents = Erase(@, DocumentsUnder(d, {<<"task", t>>}))]
EraseTask(d, t) == [d EXCEPT !.tasks = Erase(@, {t})]

EraseDocument(d, i) == [d EXCEPT !.documents = Erase(@, {i})]
EraseImplementationPlan(d, t) == [d EXCEPT !.documents = Erase(@, PlanDocuments(d, t))]

Deleted(s, d) ==
    CASE s.do = "DeleteDependenciesForFeature" -> DeleteDependenciesForFeature(d, s.id)
      [] s.do = "DeletePullRequestsForFeature" -> DeletePullRequestsForFeature(d, s.id)
      [] s.do = "DeleteDocumentsForFeature" -> DeleteDocumentsForFeature(d, s.id)
      [] s.do = "DeleteTasksForFeature" -> DeleteTasksForFeature(d, s.id)
      [] s.do = "DeleteFeature" -> EraseFeature(d, s.id)
      [] s.do = "DeleteDocumentsForProject" -> DeleteDocumentsForProject(d, s.id)
      [] s.do = "DeleteProject" -> EraseProject(d, s.id)
      [] s.do = "DeleteDependenciesForTask" -> DeleteDependenciesForTask(d, s.id)
      [] s.do = "DeletePullRequest" -> ErasePullRequest(d, s.id)
      [] s.do = "DeleteDocumentsForTask" -> DeleteDocumentsForTask(d, s.id)
      [] s.do = "DeleteTask" -> EraseTask(d, s.id)
      [] s.do = "DeleteDocument" -> EraseDocument(d, s.id)
      [] s.do = "DeleteImplementationPlanDocument" -> EraseImplementationPlan(d, s.id)

Written(s, d) ==
    CASE s.do = "IncrementIDSequence" -> IncrementIDSequence(d, s.entity)
      [] s.do = "CreateProject" -> InsertProject(d, s.body)
      [] s.do = "CreateFeature" -> InsertFeature(d, s.id, s.body)
      [] s.do = "CreateTask" -> InsertTask(d, s.id, s.body)
      [] s.do = "UpdateProject" -> WriteProject(d, s.id, s.row)
      [] s.do = "UpdateFeature" -> WriteFeature(d, s.id, s.row)
      [] s.do = "UpdateTask" -> WriteTask(d, s.id, s.body)
      [] s.do = "AddDependency" -> InsertDependency(d, <<s.id, s.blocked>>)
      [] s.do = "RemoveDependency" -> EraseDependency(d, <<s.id, s.blocked>>)
      [] s.do = "UpsertPullRequest" -> InsertPullRequest(d, s.id, s.pr)
      [] s.do = "CreateDocument" -> InsertDocument(d, s.row)
      [] s.do = "UpdateDocument" -> WriteDocument(d, s.id, s.fields)
      [] s.do = "UpsertImplementationPlanDocument" -> InsertImplementationPlan(d, s.id, s.body, s.body)
      [] OTHER -> {Deleted(s, d)}

------------------------------------------------------------------------------
\* What the schema accepts

References(d) ==
    /\ \A f \in DOMAIN d.features : GetProjectByPublicID(d, d.features[f].project)
    /\ \A t \in DOMAIN d.tasks : GetFeatureByPublicID(d, d.tasks[t].feature)
    /\ \A e \in d.dependencies : GetTaskByPublicID(d, e[1]) /\ GetTaskByPublicID(d, e[2])
    /\ \A t \in DOMAIN d.pullRequests : GetTaskByPublicID(d, t)
    /\ \A i \in DOMAIN d.documents : GetParent(d, d.documents[i].parent)

UniqueIndexes(d) ==
    /\ IsInjective(d.pullRequests)
    /\ \A i \in DOMAIN d.documents : d.documents[i].plan => /\ d.documents[i].parent[1] = "task"
                                                            /\ PlanDocuments(d, d.documents[i].parent[2]) = {i}

Outcomes(s, d) == {e \in Written(s, d) : References(e) /\ UniqueIndexes(e)}

------------------------------------------------------------------------------
\* Operations: what an operation looks up, and the statements that follow.

\* A slip one could make in deleteFeatureContents: the tasks before what refers to them.
TasksFirst == <<"DeleteTasksForFeature", "DeleteDependenciesForFeature", "DeletePullRequestsForFeature",
                "DeleteDocumentsForFeature", "DeleteFeature">>
ContentsOrder == <<"DeleteDependenciesForFeature", "DeletePullRequestsForFeature",
                   "DeleteDocumentsForFeature", "DeleteTasksForFeature", "DeleteFeature">>

Delete(do, id) == [do |-> do, id |-> id]
On(id, statements) == [i \in DOMAIN statements |-> Delete(statements[i], id)]
FeatureGoes(f) == On(f, ContentsOrder)

\* The operations on several rows, with BEGIN IMMEDIATE.
ButDeletions(o) == o.do \in {"CreateProject", "CreateFeature", "CreateTask", "AddDependency", "RemoveDependency"}
Transactional(o) == o.do \in {"CreateProject", "CreateFeature", "CreateTask", "AddDependency",
                              "RemoveDependency", "DeleteProject", "DeleteFeature", "DeleteTask"}

\* The reads of an operation let it go on.
Finds(o, d) ==
    CASE o.do = "CreateProject" -> TRUE
      [] o.do \in {"UpdateProject", "CreateFeature"} -> GetProjectByPublicID(d, o.id)
      [] o.do = "UpdateFeature" -> GetFeatureByPublicID(d, o.id) /\ GetProjectByPublicID(d, o.row.project)
      [] o.do = "CreateTask" -> GetFeatureByPublicID(d, o.id)
      [] o.do \in {"UpdateTask", "UpsertPullRequest", "DeletePullRequest",
                   "UpsertImplementationPlanDocument", "DeleteImplementationPlanDocument"}
           -> GetTaskByPublicID(d, o.id)
      [] o.do = "CreateDocument" -> GetParent(d, o.row.parent)
      [] o.do \in {"UpdateDocument", "DeleteDocument"} -> TRUE
      [] o.do = "DeleteProject" ->
           GetProjectByPublicID(d, o.id) /\ (o.cascade \/ CountProjectReferences(d, o.id) = 0)
      [] o.do = "DeleteFeature" ->
           GetFeatureByPublicID(d, o.id) /\ (o.cascade \/ CountFeatureReferences(d, o.id) = 0)
      [] o.do = "DeleteTask" ->
           GetTaskByPublicID(d, o.id) /\ (o.cascade \/ CountTaskReferences(d, o.id) = 0)
      [] o.do = "RemoveDependency" -> GetTaskByPublicID(d, o.id) /\ GetTaskByPublicID(d, o.blocked)
      [] o.do = "AddDependency" ->
           /\ GetTaskByPublicID(d, o.id) /\ GetTaskByPublicID(d, o.blocked)
           /\ d.tasks[o.id].feature = d.tasks[o.blocked].feature
           /\ LET edges == ListDependenciesByFeature(d, d.tasks[o.id].feature)
              IN  <<o.id, o.blocked>> \notin edges /\ ~ClosesCycle(edges, o.id, o.blocked)

\* The loop over the features that ListFeaturesByProject returned.
EachFeature(ids) == [do |-> "EachFeature", ids |-> ids]

\* The statements that write, in their order.
DeletesProject(o, d) ==
    IF o.cascade
    THEN <<Delete("DeleteDocumentsForProject", o.id), EachFeature(ListFeaturesByProject(d, o.id)),
           Delete("DeleteProject", o.id)>>
    ELSE <<Delete("DeleteProject", o.id)>>
DeletesFeature(o) == IF o.cascade THEN FeatureGoes(o.id) ELSE <<Delete("DeleteFeature", o.id)>>
DeletesTask(o) ==
    On(o.id, IF o.cascade
             THEN <<"DeleteDependenciesForTask", "DeletePullRequest", "DeleteDocumentsForTask", "DeleteTask">>
             ELSE <<"DeleteTask">>)
Creates(o, entity) == <<[do |-> "IncrementIDSequence", entity |-> entity], o>>

Script(o, d) ==
    CASE o.do = "CreateProject" -> Creates(o, "project")
      [] o.do = "CreateFeature" -> Creates(o, "feature")
      [] o.do = "CreateTask" -> Creates(o, "task")
      [] o.do = "DeleteProject" -> DeletesProject(o, d)
      [] o.do = "DeleteFeature" -> DeletesFeature(o)
      [] o.do = "DeleteTask" -> DeletesTask(o)
      [] OTHER -> <<o>>

------------------------------------------------------------------------------
\* Steps

NoWriter == \A c \in Connections : ~InTransaction(c)
Goes(c, state) == connection' = [connection EXCEPT ![c] = state]

Begin(c, o) ==
    /\ ~Running(c) /\ ran < MaxOperations
    /\ Transactional(o) => NoWriter
    /\ Finds(o, Committed)
    /\ Goes(c, [operation |-> o, script |-> Script(o, Committed),
                db |-> IF Transactional(o) THEN Committed ELSE <<>>])
    /\ ran' = ran + 1
    /\ UNCHANGED historyVars

Loops(script) == script # <<>> /\ Head(script).do = "EachFeature"

\* The loop goes on with any of the features left, since they come by their last
\* change, which the tables here leave out; or it ends.
Iterate(c) ==
    LET now == connection[c]
        left == Head(now.script).ids
    IN  /\ InTransaction(c) /\ Loops(now.script)
        /\ \/ left = {} /\ Goes(c, [now EXCEPT !.script = Tail(@)])
           \/ \E f \in left :
                 Goes(c, [now EXCEPT !.script = FeatureGoes(f) \o <<EachFeature(left \ {f})>> \o Tail(@)])
        /\ UNCHANGED <<historyVars, ran>>

\* A statement of a transaction: nobody else sees it.
Execute(c) ==
    LET now == connection[c]
    IN  /\ InTransaction(c) /\ now.script # <<>> /\ ~Loops(now.script)
        /\ \E e \in Outcomes(Head(now.script), now.db) :
             Goes(c, [now EXCEPT !.script = Tail(@), !.db = e])
        /\ UNCHANGED <<historyVars, ran>>

Becomes(e) ==
    /\ sequences' = e.sequences
    /\ projects' = e.projects /\ features' = e.features /\ tasks' = e.tasks
    /\ dependencies' = e.dependencies /\ pullRequests' = e.pullRequests /\ documents' = e.documents
    /\ issued' = [i \in DOMAIN issued |-> issued[i] \cup Issued'[i]]

Commits(c) ==
    /\ InTransaction(c) /\ connection[c].script = <<>>
    /\ Becomes(connection[c].db)
    /\ Goes(c, Idle)
    /\ UNCHANGED ran

\* Deletions that report an error when no row was affected.
MustAffect == {"DeletePullRequest", "DeleteDocument", "DeleteImplementationPlanDocument"}

\* A statement outside a transaction commits by itself.
WriteAlone(c) ==
    LET now == connection[c]
        s == Head(now.script)
    IN  /\ Running(c) /\ ~InTransaction(c) /\ NoWriter
        /\ \E e \in Outcomes(s, Committed) :
             /\ s.do \in MustAffect => e # Committed
             /\ Becomes(e)
        /\ Goes(c, Idle)
        /\ UNCHANGED ran

\* An error, a cancelled context or the end of the process: a transaction is rolled back.
Fail(c) == Running(c) /\ Goes(c, Idle) /\ UNCHANGED <<historyVars, ran>>

TransactionsNext ==
    \E c \in Connections :
      (\E o \in Operations : Begin(c, o)) \/ Iterate(c) \/ Execute(c) \/ Commits(c) \/ WriteAlone(c) \/ Fail(c)

TransactionsIdle == connection = [c \in Connections |-> Idle] /\ ran = 0

\* From an empty database.
TransactionsSpec == HInit /\ TransactionsIdle /\ [][TransactionsNext]_transactionVars

------------------------------------------------------------------------------
\* Properties

\* Every operation takes effect in one step of the store or not at all, with what it looked up, checked
\* and counted still true at that step, whatever other connections commit between its statements and
\* wherever it fails: the store of single steps that the other modules and the proofs speak of.
TransactionsAreAtomic == [][StoreNext]_storeVars

\* A cascade is never refused half-way: the order of its statements leaves no row behind that still
\* refers to one it deletes (deleteFeatureContents finds dependencies by their blocker only).
CascadesSucceed ==
    \A c \in Connections :
        LET now == connection[c]
            ready == InTransaction(c) /\ now.script # <<>> /\ ~Loops(now.script)
        IN  ready /\ "cascade" \in DOMAIN now.operation => Outcomes(Head(now.script), now.db) # {}

==============================================================================
