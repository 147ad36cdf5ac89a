------------------------------ MODULE Requests -------------------------------
(***************************************************************************)
(* What the two ways into the application may ask of it: the messages that *)
(* the ConnectRPC handlers of the server turn into calls, and the commands *)
(* of the CLI.  A request is a record: its `op', the `target' that its     *)
(* guard starts from, and the arguments.  An update has `fields', with the *)
(* columns that the caller named: a column left out is a nil pointer.      *)
(***************************************************************************)
EXTENDS Store, TLC

CONSTANTS
    Texts,   \* what a column may hold
    Unset,   \* the empty text
    Default  \* the status of what has just been created

ASSUME RequestsAssumption == {Unset, Default} \subseteq Texts

\* The columns that a request may name.  The text of a project's or a feature's
\* prompts and labels is one column, and so is a document's source.
ProjectColumns == [title |-> Texts, overrides |-> Texts, archived |-> BOOLEAN]
FeatureColumns == [title |-> Texts, status |-> Texts, overrides |-> Texts, archived |-> BOOLEAN, project |-> ProjectIDs]
TaskColumns == [title |-> Texts, status |-> Texts]
DocumentColumns == [title |-> Texts, source |-> Texts, plan |-> BOOLEAN]

\* What a row's `body' may be.
BodiesOf(texts) == texts \cup [title : texts, overrides : texts] \cup [title : texts, status : texts]
                   \cup [title : texts, status : texts, overrides : texts]

Project(p) == <<"project", p>>
Feature(f) == <<"feature", f>>
Task(t) == <<"task", t>>
Document(d) == <<"document", d>>
NoTarget == <<"none", 0>>

\* Whether r carries just the arguments given, each from its set.
Carries(r, arguments) ==
    DOMAIN r = {"op", "target"} \cup DOMAIN arguments /\ \A a \in DOMAIN arguments : r[a] \in arguments[a]

\* Whether r is an update of some of the columns.
Names(r, columns) ==
    /\ DOMAIN r = {"op", "target", "fields"}
    /\ DOMAIN r.fields \subseteq DOMAIN columns
    /\ \A c \in DOMAIN r.fields : r.fields[c] \in columns[c]

------------------------------------------------------------------------------
\* The messages of the web UI, by handler.

CreateProjectMessage(r) == r.op = "CreateProject" /\ r.target = NoTarget /\ Carries(r, [title |-> Texts])
UpdateProjectMessage(r) == r.op = "UpdateProject" /\ r.target[1] = "project"
                           /\ Names(r, ProjectColumns)
DeleteProjectMessage(r) == r.op = "DeleteProject" /\ r.target[1] = "project" /\ Carries(r, [cascade |-> BOOLEAN])
CreateFeatureMessage(r) == r.op = "CreateFeature" /\ r.target[1] = "project" /\ Carries(r, [title |-> Texts])
UpdateFeatureMessage(r) == r.op = "UpdateFeature" /\ r.target[1] = "feature"
                           /\ Names(r, FeatureColumns)
DeleteFeatureMessage(r) == r.op = "DeleteFeature" /\ r.target[1] = "feature" /\ Carries(r, [cascade |-> BOOLEAN])
CreateTaskMessage(r) == r.op = "CreateTask" /\ r.target[1] = "feature" /\ Carries(r, [title |-> Texts])
UpdateTaskMessage(r) == r.op = "UpdateTask" /\ r.target[1] = "task" /\ Names(r, TaskColumns)
DeleteTaskMessage(r) == r.op = "DeleteTask" /\ r.target[1] = "task" /\ Carries(r, [cascade |-> BOOLEAN])
AddDependencyMessage(r) == r.op = "AddDependency" /\ r.target[1] = "task" /\ Carries(r, [blocked |-> TaskIDs])
RemoveDependencyMessage(r) == r.op = "RemoveDependency" /\ r.target[1] = "task" /\ Carries(r, [blocked |-> TaskIDs])
AttachPullRequestMessage(r) == r.op = "AttachPullRequest" /\ r.target[1] = "task" /\ Carries(r, [pr |-> PullRequests])
DetachPullRequestMessage(r) == r.op = "DetachPullRequest" /\ r.target[1] = "task" /\ DOMAIN r = {"op", "target"}
AddDocumentMessage(r) == r.op = "AddDocument" /\ r.target \in Parents /\ Carries(r, DocumentColumns)
UpdateDocumentMessage(r) == r.op = "UpdateDocument" /\ r.target[1] = "document" /\ Names(r, DocumentColumns)
DeleteDocumentMessage(r) == r.op = "DeleteDocument" /\ r.target[1] = "document" /\ DOMAIN r = {"op", "target"}

Message(r) ==
    \/ CreateProjectMessage(r) \/ UpdateProjectMessage(r) \/ DeleteProjectMessage(r)
    \/ CreateFeatureMessage(r) \/ UpdateFeatureMessage(r) \/ DeleteFeatureMessage(r)
    \/ CreateTaskMessage(r) \/ UpdateTaskMessage(r) \/ DeleteTaskMessage(r)
    \/ AddDependencyMessage(r) \/ RemoveDependencyMessage(r)
    \/ AttachPullRequestMessage(r) \/ DetachPullRequestMessage(r)
    \/ AddDocumentMessage(r) \/ UpdateDocumentMessage(r) \/ DeleteDocumentMessage(r)

------------------------------------------------------------------------------
\* The commands of the CLI.

ProjectCreate(title) == [op |-> "CreateProject", target |-> NoTarget, title |-> title]
ProjectUpdate(p, fields) == [op |-> "UpdateProject", target |-> Project(p), fields |-> fields]
ProjectArchive(p, archived) == ProjectUpdate(p, [archived |-> archived])
ProjectDelete(p, cascade) == [op |-> "DeleteProject", target |-> Project(p), cascade |-> cascade]

FeatureCreate(p, title) == [op |-> "CreateFeature", target |-> Project(p), title |-> title]
FeatureUpdate(f, fields) == [op |-> "UpdateFeature", target |-> Feature(f), fields |-> fields]
FeatureArchive(f, archived) == FeatureUpdate(f, [archived |-> archived])
FeatureDelete(f, cascade) == [op |-> "DeleteFeature", target |-> Feature(f), cascade |-> cascade]

\* `project prompt', `feature prompt', `project label' and `feature label': set is a text, unset is none.
ProjectPrompt(p, text) == ProjectUpdate(p, [overrides |-> text])
FeaturePrompt(f, text) == FeatureUpdate(f, [overrides |-> text])
LabelSet(target, text) == [op |-> IF target[1] = "project" THEN "UpdateProject" ELSE "UpdateFeature",
                           target |-> target, fields |-> [overrides |-> text]]
LabelUnset(target) == LabelSet(target, Unset)

TaskCreate(f, title) == [op |-> "CreateTask", target |-> Feature(f), title |-> title]
TaskUpdate(t, fields) == [op |-> "UpdateTask", target |-> Task(t), fields |-> fields]
TaskDelete(t, cascade) == [op |-> "DeleteTask", target |-> Task(t), cascade |-> cascade]

DependencyAdd(t, u) == [op |-> "AddDependency", target |-> Task(t), blocked |-> u]
DependencyRemove(t, u) == [op |-> "RemoveDependency", target |-> Task(t), blocked |-> u]
PullRequestAttach(t, pr) == [op |-> "AttachPullRequest", target |-> Task(t), pr |-> pr]
PullRequestDetach(t) == [op |-> "DetachPullRequest", target |-> Task(t)]

DocumentAdd(parent, title, source, plan) ==
    [op |-> "AddDocument", target |-> parent, title |-> title, source |-> source, plan |-> plan]
DocumentUpdate(d, fields) == [op |-> "UpdateDocument", target |-> Document(d), fields |-> fields]
DocumentDelete(d) == [op |-> "DeleteDocument", target |-> Document(d)]
PlanSet(t, source) == [op |-> "UpsertImplementationPlan", target |-> Task(t), source |-> source]
PlanUnset(t) == [op |-> "DeleteImplementationPlan", target |-> Task(t)]

\* What no message asks for.
PlanCommand(r) ==
    /\ r.target[1] = "task"
    /\ \/ r.op = "UpsertImplementationPlan" /\ Carries(r, [source |-> Texts])
       \/ r.op = "DeleteImplementationPlan" /\ DOMAIN r = {"op", "target"}

==============================================================================
