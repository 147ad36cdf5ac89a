---------------------------- MODULE ServiceProofs -----------------------------
(***************************************************************************)
(* Theorems about Service, for every set of processes, requests and texts, *)
(* every bound and every store that is in order at first: requests keep    *)
(* the store in order, the archive wall stands, and the columns of a       *)
(* document are independent.                                               *)
(***************************************************************************)
EXTENDS Service, StoreProofs

\* The bodies of the rows, by table.
ProjectBodies == [title : Texts, overrides : Texts]
FeatureBodies == [title : Texts, status : Texts, overrides : Texts]
TaskBodies == [title : Texts, status : Texts]

Shaped ==
    /\ \A q \in DOMAIN projects : projects[q].body \in ProjectBodies
    /\ \A f \in DOMAIN features : features[f].body \in FeatureBodies
    /\ \A t \in DOMAIN tasks : tasks[t].body \in TaskBodies

------------------------------------------------------------------------------
\* The targets there are.
Target == Parents \cup ({"document"} \X DocumentIDs) \cup {NoTarget}

\* What is above a target: the projects and the features whose flag its guard
\* looks at.

\* What the document x belongs to while it exists; x itself otherwise.
Holder(x) == IF x[1] = "document" /\ x[2] \in DOMAIN documents THEN documents[x[2]].parent ELSE x

FeaturesAbove(x) ==
    {f \in DOMAIN features :
        \/ Holder(x) = Feature(f)
        \/ \E t \in DOMAIN tasks : Holder(x) = Task(t) /\ tasks[t].feature = f}
ProjectsAbove(x) ==
    {q \in DOMAIN projects :
        Holder(x) = Project(q) \/ \E f \in FeaturesAbove(x) : features[f].project = q}

FrozenFeatures(x) == {f \in FeaturesAbove(x) : features[f].archived}
FrozenProjects(x) == {q \in ProjectsAbove(x) : projects[q].archived}

Clear(x) == FrozenFeatures(x) = {} /\ FrozenProjects(x) = {}
OpenProject(q) == q \in DOMAIN projects => ~projects[q].archived

\* Whether the target x has existed: its ID is never handed out again.
Known(x) == x[1] \in Entities /\ x[2] < sequences[x[1]]

------------------------------------------------------------------------------
\* What a process knows of the request that it runs.  Here s is the state of a
\* process, process[p].

\* The row of the target is read by the first query of the guard.
RowRead(s) == \/ s.pc \in {"destination", "plan", "commit"}
              \/ s.pc = "guard" /\ s.container # s.request.target

\* The row that an update keeps is one of the table it came from.
RowShaped(s) ==
    /\ s.request.op = "UpdateProject" => s.row \in [archived : BOOLEAN, body : ProjectBodies]
    /\ s.request.op = "UpdateFeature" => s.row \in [project : ProjectIDs, archived : BOOLEAN, body : FeatureBodies]
    /\ s.request.op = "UpdateTask" => s.row \in [feature : FeatureIDs, body : TaskBodies]

\* A process at work has a request, and has read the row when it goes on.
WellFormed(s) ==
    s.pc # "idle" => /\ s.request \in Messages \cup Commands /\ s.container \in Target
                     /\ RowRead(s) => RowShaped(s)
                     /\ s.request.op \in Unguarded => s.pc = "commit"

\* What is frozen above the target is at, or beyond, the next container.
Ahead(s) ==
    LET x == s.request.target
        c == s.container
    IN  /\ c[1] = "document" => c = x
        /\ c[1] = "task" => Holder(x) = c \/ (x[1] = "document" /\ Holder(x) = x)
        /\ c[1] = "feature" => FeaturesAbove(x) \subseteq {c[2]} /\ Holder(x)[1] # "project"
        /\ c[1] = "project" => FrozenFeatures(x) = {} /\ FrozenProjects(x) \subseteq {c[2]}

\* The project that an update of a feature will leave it in is not archived.
Landing(s) ==
    s.request.op = "UpdateFeature" =>
        /\ s.pc = "guard" /\ s.container # s.request.target => s.container = Project(s.row.project)
        /\ s.pc = "destination" => Moves(s.request) /\ s.container = Project(s.request.fields.project)
        /\ s.pc # "plan"
        /\ s.pc = "commit" => OpenProject(MergedRow(s.request, s.row).project)

\* A request that only sets the flag writes back what is there, if that is read-only.
Unchanged(s) ==
    LET i == s.request.target[2]
    IN  /\ s.request.op = "UpdateProject" /\ i \in DOMAIN projects /\ projects[i].archived =>
              s.row.body = projects[i].body
        /\ s.request.op = "UpdateFeature" /\ i \in DOMAIN features /\ ReadOnlyFeature(i) =>
              s.row.body = features[i].body /\ s.row.project = features[i].project
        /\ s.request.op = "UpdateFeature" /\ i \in DOMAIN features /\ ~OpenProject(s.row.project) =>
              s.row.project = features[i].project

\* What the guard of a request has established so far, unless a flag overtook it.
Guarded(s) ==
    /\ RowRead(s) => Known(s.request.target)
    /\ FlagOnly(s.request) /\ RowRead(s) => s.pc = "commit" /\ Unchanged(s)
    /\ ~FlagOnly(s.request) => /\ s.pc = "guard" => Ahead(s)
                               /\ s.pc # "guard" => Clear(s.request.target)
                               /\ Landing(s)

InFlight(s) == s.pc # "idle" /\ s.request.op \notin Unguarded

ServiceInv ==
    /\ StoreInv /\ Shaped
    /\ process \in [Processes -> Running] /\ overtaken \subseteq Processes
    /\ \A p \in Processes : WellFormed(process[p])
    /\ \A p \in Processes \ overtaken : InFlight(process[p]) => Guarded(process[p])
------------------------------------------------------------------------------
\* Requests

\* What a request carries, by operation, whichever side it comes from.
LEMMA Arguments ==
    ASSUME NEW r \in Messages \cup Commands
    PROVE  /\ r.op = "CreateProject" => r.title \in Texts
           /\ r.op = "UpdateProject" => r.target[1] = "project" /\ Names(r, ProjectColumns)
           /\ r.op = "DeleteProject" => r.target[1] = "project" /\ r.cascade \in BOOLEAN
           /\ r.op = "CreateFeature" => r.target[1] = "project" /\ r.title \in Texts
           /\ r.op = "UpdateFeature" => r.target[1] = "feature" /\ Names(r, FeatureColumns)
           /\ r.op = "DeleteFeature" => r.target[1] = "feature" /\ r.cascade \in BOOLEAN
           /\ r.op = "CreateTask" => r.target[1] = "feature" /\ r.title \in Texts
           /\ r.op = "UpdateTask" => r.target[1] = "task" /\ Names(r, TaskColumns)
           /\ r.op = "DeleteTask" => r.target[1] = "task" /\ r.cascade \in BOOLEAN
           /\ r.op \in {"AddDependency", "RemoveDependency"} => r.target[1] = "task" /\ r.blocked \in TaskIDs
           /\ r.op = "AttachPullRequest" => r.target[1] = "task" /\ r.pr \in PullRequests
           /\ r.op = "DetachPullRequest" => r.target[1] = "task"
           /\ r.op = "AddDocument" => /\ r.target \in Parents
                                      /\ r.title \in Texts /\ r.source \in Texts /\ r.plan \in BOOLEAN
           /\ r.op = "UpdateDocument" => r.target[1] = "document" /\ Names(r, DocumentColumns)
           /\ r.op = "DeleteDocument" => r.target[1] = "document"
           /\ r.op = "UpsertImplementationPlan" => r.target[1] = "task" /\ r.source \in Texts
           /\ r.op = "DeleteImplementationPlan" => r.target[1] = "task"
<1>1. Message(r) \/ PlanCommand(r)
    BY ServiceAssumption
<1>2. CASE Message(r)
    BY <1>2 DEF Message, CreateProjectMessage, UpdateProjectMessage, DeleteProjectMessage, CreateFeatureMessage,
       UpdateFeatureMessage, DeleteFeatureMessage, CreateTaskMessage, UpdateTaskMessage, DeleteTaskMessage,
       AddDependencyMessage, RemoveDependencyMessage, AttachPullRequestMessage, DetachPullRequestMessage,
       AddDocumentMessage, UpdateDocumentMessage, DeleteDocumentMessage, Carries, DocumentColumns
<1>3. CASE PlanCommand(r)
    BY <1>3 DEF PlanCommand, Carries
<1> QED BY <1>1, <1>2, <1>3

\* The target of a request by its kind.
LEMMA Targets ==
    ASSUME NEW r \in Messages \cup Commands
    PROVE  /\ r.target \in Parents \cup ({"document"} \X DocumentIDs) \cup {NoTarget}
           /\ r.target[1] = "project" => r.target[2] \in ProjectIDs /\ r.target = Project(r.target[2])
           /\ r.target[1] = "feature" => r.target[2] \in FeatureIDs /\ r.target = Feature(r.target[2])
           /\ r.target[1] = "task" => r.target[2] \in TaskIDs /\ r.target = Task(r.target[2])
           /\ r.target[1] = "document" => r.target[2] \in DocumentIDs /\ r.target = Document(r.target[2])
<1>1. r.target \in Parents \cup ({"document"} \X DocumentIDs) \cup {NoTarget}
    BY ServiceAssumption
<1> QED BY <1>1 DEF Parents, NoTarget, Project, Feature, Task, Document

\* The rows of the store are made of the texts that a request may name.
LEMMA BodiesOfTexts ==
    /\ Texts \subseteq Bodies /\ ProjectBodies \subseteq Bodies
    /\ FeatureBodies \subseteq Bodies /\ TaskBodies \subseteq Bodies
    /\ Unset \in Texts /\ Default \in Texts
BY ServiceAssumption, RequestsAssumption DEF BodiesOf, ProjectBodies, FeatureBodies, TaskBodies

------------------------------------------------------------------------------
\* Merging the columns named over the row that was read

\* A project's row stays one, and a request of the flag only keeps its columns.
LEMMA MergedProject ==
    ASSUME NEW r, Names(r, ProjectColumns), NEW row \in [archived : BOOLEAN, body : ProjectBodies]
    PROVE  /\ MergedRow(r, row) \in [archived : BOOLEAN, body : ProjectBodies]
           /\ DOMAIN r.fields = {"archived"} => MergedRow(r, row).body = row.body
<1>1. /\ "body" \notin DOMAIN r.fields
      /\ \A c \in {"title", "overrides"} : c \in DOMAIN r.fields => r.fields[c] \in Texts
      /\ "archived" \in DOMAIN r.fields => r.fields["archived"] \in BOOLEAN
    BY DEF Names, ProjectColumns
<1>2. Merged(r, row) = [archived |-> IF Named(r, "archived") THEN r.fields["archived"] ELSE row.archived,
                        body |-> row.body]
    BY <1>1 DEF Merged, Named
<1>3. Merged(r, row.body) = [title |-> IF Named(r, "title") THEN r.fields["title"] ELSE row.body.title,
                             overrides |-> IF Named(r, "overrides") THEN r.fields["overrides"] ELSE row.body.overrides]
    BY DEF Merged, ProjectBodies
<1>4. Merged(r, row.body) \in ProjectBodies
    BY <1>1, <1>3 DEF ProjectBodies, Named
<1>5. MergedRow(r, row) = [archived |-> IF Named(r, "archived") THEN r.fields["archived"] ELSE row.archived,
                           body |-> Merged(r, row.body)]
    BY <1>2 DEF MergedRow
<1>6. DOMAIN r.fields = {"archived"} => Merged(r, row.body) = row.body
    BY <1>3 DEF Named, ProjectBodies
<1> QED BY <1>1, <1>4, <1>5, <1>6 DEF Named

\* So does a feature's, which goes to the project named, if one is.
LEMMA MergedFeature ==
    ASSUME NEW r, Names(r, FeatureColumns),
           NEW row \in [project : ProjectIDs, archived : BOOLEAN, body : FeatureBodies]
    PROVE  /\ MergedRow(r, row) \in [project : ProjectIDs, archived : BOOLEAN, body : FeatureBodies]
           /\ MergedRow(r, row).project = IF "project" \in DOMAIN r.fields THEN r.fields.project ELSE row.project
           /\ DOMAIN r.fields = {"archived"} =>
                 MergedRow(r, row).body = row.body /\ MergedRow(r, row).project = row.project
<1>1. /\ "body" \notin DOMAIN r.fields
      /\ \A c \in {"title", "status", "overrides"} : c \in DOMAIN r.fields => r.fields[c] \in Texts
      /\ "archived" \in DOMAIN r.fields => r.fields["archived"] \in BOOLEAN
      /\ "project" \in DOMAIN r.fields => r.fields["project"] \in ProjectIDs
    BY DEF Names, FeatureColumns
<1>2. Merged(r, row) = [project |-> IF Named(r, "project") THEN r.fields["project"] ELSE row.project,
                        archived |-> IF Named(r, "archived") THEN r.fields["archived"] ELSE row.archived,
                        body |-> row.body]
    BY <1>1 DEF Merged, Named
<1>3. Merged(r, row.body) = [title |-> IF Named(r, "title") THEN r.fields["title"] ELSE row.body.title,
                             status |-> IF Named(r, "status") THEN r.fields["status"] ELSE row.body.status,
                             overrides |-> IF Named(r, "overrides") THEN r.fields["overrides"] ELSE row.body.overrides]
    BY DEF Merged, FeatureBodies
<1>4. Merged(r, row.body) \in FeatureBodies
    BY <1>1, <1>3 DEF FeatureBodies, Named
<1>5. MergedRow(r, row) = [project |-> IF Named(r, "project") THEN r.fields["project"] ELSE row.project,
                           archived |-> IF Named(r, "archived") THEN r.fields["archived"] ELSE row.archived,
                           body |-> Merged(r, row.body)]
    BY <1>2 DEF MergedRow
<1>6. DOMAIN r.fields = {"archived"} => Merged(r, row.body) = row.body
    BY <1>3 DEF Named, FeatureBodies
<1> QED BY <1>1, <1>4, <1>5, <1>6 DEF Named

\* And a task's columns stay texts.
LEMMA MergedTask ==
    ASSUME NEW r, Names(r, TaskColumns), NEW row \in [feature : FeatureIDs, body : TaskBodies]
    PROVE  MergedRow(r, row).body \in TaskBodies
<1>1. /\ DOMAIN r.fields \subseteq {"title", "status"}
      /\ \A c \in DOMAIN r.fields : r.fields[c] \in Texts
    BY DEF Names, TaskColumns
<1>2. Merged(r, row) = [feature |-> row.feature, body |-> row.body]
    BY <1>1 DEF Merged, Named
<1>3. Merged(r, row.body) = [title |-> IF Named(r, "title") THEN r.fields["title"] ELSE row.body.title,
                             status |-> IF Named(r, "status") THEN r.fields["status"] ELSE row.body.status]
    BY DEF Merged, TaskBodies
<1>4. Merged(r, row.body) \in TaskBodies
    BY <1>1, <1>3 DEF TaskBodies, Named
<1>5. MergedRow(r, row) = [feature |-> row.feature, body |-> Merged(r, row.body)]
    BY <1>2 DEF MergedRow
<1> QED BY <1>4, <1>5

------------------------------------------------------------------------------
\* What every transaction respects, whichever request it is for

\* IDs and references: sequences only grow, a new row has the ID that its
\* sequence stood at and is not archived, and the rows that stay keep the
\* feature or the parent that they belong to.
Grows ==
    /\ \A e \in Entities : sequences'[e] >= sequences[e]
    /\ \A q \in DOMAIN projects' \ DOMAIN projects : q >= sequences["project"] /\ ~projects'[q].archived
    /\ \A f \in DOMAIN features' \ DOMAIN features : f >= sequences["feature"] /\ ~features'[f].archived
    /\ \A t \in DOMAIN tasks' : IF t \in DOMAIN tasks THEN tasks'[t].feature = tasks[t].feature
                                ELSE t >= sequences["task"]
    /\ \A d \in DOMAIN documents' : IF d \in DOMAIN documents THEN documents'[d].parent = documents[d].parent
                                    ELSE d >= sequences["document"]

\* The columns of the documents that the request r does not name stay.
ColumnsKept(r) ==
    \A d \in DOMAIN documents \cap DOMAIN documents' :
        \A c \in {"title", "source", "plan"} \ Writes(r, d) : documents'[d][c] = documents[d][c]

\* Only what is in a container above x changes, the containers themselves included.
Confined(x) ==
    /\ \A f \in (DOMAIN features \cap DOMAIN features') \ FeaturesAbove(x) :
          FeatureContents(f)' = FeatureContents(f)
    /\ \A q \in (DOMAIN projects \cap DOMAIN projects') \ ProjectsAbove(x) :
          ProjectContents(q)' = ProjectContents(q)

\* A transaction that creates nothing.
LEMMA GrowsByNothing ==
    ASSUME StoreInv, sequences' = sequences,
           DOMAIN projects' \subseteq DOMAIN projects, DOMAIN features' \subseteq DOMAIN features,
           \A t \in DOMAIN tasks' : t \in DOMAIN tasks /\ tasks'[t].feature = tasks[t].feature,
           \A d \in DOMAIN documents' : d \in DOMAIN documents /\ documents'[d].parent = documents[d].parent
    PROVE  Grows
<1>1. \A e \in Entities : sequences[e] \in Nat
    BY DEF StoreInv, StoreTypeOK
<1> QED BY <1>1 DEF Grows

\* Where the sequences stand once an ID has been handed out.
LEMMA SequencesGrow ==
    ASSUME StoreInv, NEW k \in Entities, Allocate(k)
    PROVE  /\ \A e \in Entities : sequences'[e] >= sequences[e]
           /\ NextPublicID(k) >= sequences[k]
<1>1. \A e \in Entities : sequences[e] \in Nat
    BY DEF StoreInv, StoreTypeOK
<1>2. /\ sequences'[k] = sequences[k] + 1
      /\ \A e \in Entities \ {k} : sequences'[e] = sequences[e]
    BY AllocateStep DEF StoreInv, NextPublicID
<1> QED BY <1>1, <1>2 DEF NextPublicID

\* Documents that are as they were.
LEMMA SameDocuments ==
    ASSUME NEW r, \A d \in DOMAIN documents \cap DOMAIN documents' : documents'[d] = documents[d]
    PROVE  ColumnsKept(r)
BY DEF ColumnsKept

------------------------------------------------------------------------------
\* One lemma per request: its transaction keeps the store in order, and what it
\* leaves alone

\* A project that is created has a new ID and is not archived.
LEMMA CreateProjectApplied ==
    ASSUME StoreInv, Shaped, NEW r \in Messages \cup Commands, CreateProjectRequest(r)
    PROVE  /\ StoreInv' /\ Shaped' /\ Grows /\ ColumnsKept(r)
           /\ features' = features
           /\ \A q \in DOMAIN projects : projects'[q] = projects[q]
<1> DEFINE body == [title |-> r.title, overrides |-> Unset]
           id == NextPublicID("project")
<1>1. CreateProject(body) /\ body \in ProjectBodies
    BY Arguments, BodiesOfTexts DEF CreateProjectRequest, ProjectBodies
<1> HIDE DEF body
<1>2. StoreInv'
    BY <1>1, BodiesOfTexts, CreateProjectStep
<1>3. /\ projects' = Put(projects, id, [archived |-> FALSE, body |-> body]) /\ Allocate("project")
      /\ UNCHANGED <<features, tasks, documents>>
    BY <1>1 DEF CreateProject
<1>4. /\ \A e \in Entities : sequences'[e] >= sequences[e]
      /\ id >= sequences["project"]
    BY <1>3, SequencesGrow DEF Entities
<1>5. id \notin DOMAIN projects
    BY DEF StoreInv, StoreTypeOK, SequencesAhead, NextPublicID, ProjectIDs, IsTable
<1> HIDE DEF id
<1>6. /\ DOMAIN projects' = DOMAIN projects \cup {id}
      /\ projects'[id] = [archived |-> FALSE, body |-> body]
      /\ \A q \in DOMAIN projects : projects'[q] = projects[q]
    BY <1>3, <1>5 DEF Put
<1>7. Shaped'
    <2>1. \A q \in DOMAIN projects' : projects'[q].body \in ProjectBodies
        BY <1>1, <1>6 DEF Shaped
    <2> QED BY <1>3, <2>1 DEF Shaped
<1>8. Grows
    BY <1>3, <1>4, <1>6 DEF Grows
<1> QED BY <1>2, <1>3, <1>6, <1>7, <1>8, SameDocuments

\* What a request that updates a project does to the projects.
LEMMA UpdateProjectApplied ==
    ASSUME StoreInv, Shaped, NEW r \in Messages \cup Commands,
           NEW row \in [archived : BOOLEAN, body : ProjectBodies], UpdateProjectRequest(r, row)
    PROVE  /\ StoreInv' /\ Shaped' /\ Grows /\ ColumnsKept(r)
           /\ r.target[2] \in DOMAIN projects /\ DOMAIN projects' = DOMAIN projects
           /\ projects'[r.target[2]] = MergedRow(r, row)
           /\ \A q \in DOMAIN projects : q # r.target[2] => projects'[q] = projects[q]
           /\ UNCHANGED <<features, tasks, dependencies, pullRequests, documents>>
<1> DEFINE q0 == r.target[2]
           new == MergedRow(r, row)
<1>1. UpdateProject(q0, new) /\ r.op = "UpdateProject"
    BY DEF UpdateProjectRequest
<1>2. new \in [archived : BOOLEAN, body : ProjectBodies] /\ q0 \in ProjectIDs
    BY <1>1, Arguments, Targets, MergedProject
<1> HIDE DEF q0, new
<1>3. new \in ProjectRow
    BY <1>2, BodiesOfTexts DEF ProjectRow
<1>4. StoreInv'
    BY <1>1, <1>2, <1>3, UpdateProjectStep
<1>5. /\ q0 \in DOMAIN projects /\ projects' = Put(projects, q0, new)
      /\ UNCHANGED <<sequences, features, tasks, dependencies, pullRequests, documents>>
    BY <1>1 DEF UpdateProject
<1>6. /\ DOMAIN projects' = DOMAIN projects
      /\ projects'[q0] = new
      /\ \A q \in DOMAIN projects : q # q0 => projects'[q] = projects[q]
    BY <1>5 DEF Put
<1>7. Shaped'
    BY <1>2, <1>5, <1>6 DEF Shaped
<1>8. Grows
    BY <1>5, <1>6, GrowsByNothing
<1> QED BY <1>4, <1>5, <1>6, <1>7, <1>8, SameDocuments DEF q0, new

\* Deleting a project takes what belongs to it and leaves the rest as it is.
LEMMA DeleteProjectApplied ==
    ASSUME StoreInv, Shaped, NEW r \in Messages \cup Commands, DeleteProjectRequest(r)
    PROVE  /\ StoreInv' /\ Shaped' /\ Grows /\ ColumnsKept(r)
           /\ \A q \in DOMAIN projects' : q \in DOMAIN projects /\ projects'[q] = projects[q]
           /\ \A f \in DOMAIN features' : f \in DOMAIN features /\ features'[f] = features[f]
<1> DEFINE q0 == r.target[2]
           held == FeaturesOf(q0)
           extra == {<<"project", q0>>}
<1>1. DeleteProject(q0, r.cascade) /\ r.op = "DeleteProject"
    BY DEF DeleteProjectRequest
<1>2. q0 \in ProjectIDs /\ r.cascade \in BOOLEAN
    BY <1>1, Arguments, Targets
<1>3. StoreInv'
    BY <1>1, <1>2, DeleteProjectStep
<1>4. /\ DeleteFeatureContents(held, extra) /\ sequences' = sequences
      /\ features' = Erase(features, held) /\ projects' = Erase(projects, {q0})
    BY <1>1 DEF DeleteProject
<1> HIDE DEF q0, held, extra
<1>5. /\ \A t \in DOMAIN tasks' : t \in DOMAIN tasks /\ tasks'[t] = tasks[t]
      /\ \A d \in DOMAIN documents' : d \in DOMAIN documents /\ documents'[d] = documents[d]
    BY <1>4, DeleteFeatureContentsStep
<1>6. /\ \A q \in DOMAIN projects' : q \in DOMAIN projects /\ projects'[q] = projects[q]
      /\ \A f \in DOMAIN features' : f \in DOMAIN features /\ features'[f] = features[f]
    BY <1>4 DEF Erase, Restrict
<1>7. Shaped'
    BY <1>5, <1>6 DEF Shaped
<1>8. Grows
    BY <1>4, <1>5, <1>6, GrowsByNothing
<1> QED BY <1>3, <1>5, <1>6, <1>7, <1>8, SameDocuments

\* So does deleting a feature.
LEMMA DeleteFeatureApplied ==
    ASSUME StoreInv, Shaped, NEW r \in Messages \cup Commands, DeleteFeatureRequest(r)
    PROVE  /\ StoreInv' /\ Shaped' /\ Grows /\ ColumnsKept(r)
           /\ projects' = projects
           /\ \A f \in DOMAIN features' : f \in DOMAIN features /\ features'[f] = features[f]
<1> DEFINE f0 == r.target[2]
<1>1. DeleteFeature(f0, r.cascade) /\ r.op = "DeleteFeature"
    BY DEF DeleteFeatureRequest
<1>2. f0 \in FeatureIDs /\ r.cascade \in BOOLEAN
    BY <1>1, Arguments, Targets
<1>3. StoreInv'
    BY <1>1, <1>2, DeleteFeatureStep
<1>4. /\ DeleteFeatureContents({f0}, {}) /\ sequences' = sequences /\ projects' = projects
      /\ features' = Erase(features, {f0})
    BY <1>1 DEF DeleteFeature
<1> HIDE DEF f0
<1>5. /\ \A t \in DOMAIN tasks' : t \in DOMAIN tasks /\ tasks'[t] = tasks[t]
      /\ \A d \in DOMAIN documents' : d \in DOMAIN documents /\ documents'[d] = documents[d]
    BY <1>4, DeleteFeatureContentsStep
<1>6. \A f \in DOMAIN features' : f \in DOMAIN features /\ features'[f] = features[f]
    BY <1>4 DEF Erase, Restrict
<1>7. Shaped'
    BY <1>4, <1>5, <1>6 DEF Shaped
<1>8. Grows
    BY <1>4, <1>5, <1>6, GrowsByNothing
<1> QED BY <1>3, <1>4, <1>5, <1>6, <1>7, <1>8, SameDocuments

------------------------------------------------------------------------------
\* What changes inside a container

\* The parents whose documents are in the containers above x.
HomesAbove(x) ==
    {parent \in Parents :
        /\ \A q \in DOMAIN projects : parent = Project(q) => q \in ProjectsAbove(x)
        /\ \A f \in DOMAIN features : parent = Feature(f) => f \in FeaturesAbove(x)
        /\ \A t \in DOMAIN tasks : parent = Task(t) => tasks[t].feature \in FeaturesAbove(x)}

\* What a request is about, or its document's parent, is one of the homes above it.
LEMMA HolderIsHome ==
    ASSUME StoreInv, NEW x, Holder(x) \in Parents PROVE Holder(x) \in HomesAbove(x)
BY DEF HomesAbove, ProjectsAbove, FeaturesAbove, StoreInv, ForeignKeys

\* A feature whose tasks, documents, pull requests and dependencies are all as
\* they were has the contents it had.
LEMMA SameFeature ==
    ASSUME NEW f, NEW S, NEW D,
           features'[f].body = features[f].body, features'[f].project = features[f].project,
           S = TasksOf({f}), S = TasksOf({f})', \A t \in S : tasks'[t] = tasks[t],
           D = DocumentsOf({<<"feature", f>>} \cup ({"task"} \X S)),
           D = DocumentsOf({<<"feature", f>>} \cup ({"task"} \X S))',
           \A d \in D : documents'[d] = documents[d],
           \A t \in S : /\ t \in DOMAIN pullRequests' <=> t \in DOMAIN pullRequests
                        /\ t \in DOMAIN pullRequests => pullRequests'[t] = pullRequests[t],
           FeatureDependencies(f)' = FeatureDependencies(f)
    PROVE  FeatureContents(f)' = FeatureContents(f)
<1>1. S \cap DOMAIN pullRequests' = S \cap DOMAIN pullRequests
    OBVIOUS
<1>2. Restrict(tasks, S)' = Restrict(tasks, S) /\ Restrict(documents, D)' = Restrict(documents, D)
    BY DEF Restrict
<1>3. Restrict(pullRequests, S \cap DOMAIN pullRequests)' = Restrict(pullRequests, S \cap DOMAIN pullRequests)
    BY <1>1 DEF Restrict
<1>4. FeatureContents(f) = <<features[f].body, features[f].project, Restrict(tasks, S), Restrict(documents, D),
                             Restrict(pullRequests, S \cap DOMAIN pullRequests), FeatureDependencies(f)>>
    BY DEF FeatureContents
<1>5. FeatureContents(f)' = <<features'[f].body, features'[f].project, Restrict(tasks', S), Restrict(documents', D),
                              Restrict(pullRequests', S \cap DOMAIN pullRequests'), FeatureDependencies(f)'>>
    BY DEF FeatureContents
<1> QED BY <1>2, <1>3, <1>4, <1>5

\* Changes of the tasks of T, of what is attached to them and of the documents
\* of D are confined to the containers that hold T and D.
LEMMA ConfinedChange ==
    ASSUME StoreInv, StoreInv', NEW x, NEW T, NEW D, UNCHANGED <<projects, features>>,
           \A t \in (DOMAIN tasks \cup DOMAIN tasks') \ T :
               t \in DOMAIN tasks /\ t \in DOMAIN tasks' /\ tasks'[t] = tasks[t],
           \A t \in (DOMAIN pullRequests \cup DOMAIN pullRequests') \ T :
               /\ t \in DOMAIN pullRequests /\ t \in DOMAIN pullRequests'
               /\ pullRequests'[t] = pullRequests[t],
           \A e \in (dependencies \cup dependencies') :
               e[1] \in T \/ (e \in dependencies /\ e \in dependencies'),
           \A t \in T : /\ t \in DOMAIN tasks => tasks[t].feature \in FeaturesAbove(x)
                        /\ t \in DOMAIN tasks' => tasks'[t].feature \in FeaturesAbove(x),
           \A d \in (DOMAIN documents \cup DOMAIN documents') \ D :
               d \in DOMAIN documents /\ d \in DOMAIN documents' /\ documents'[d] = documents[d],
           \A d \in D : /\ d \in DOMAIN documents => documents[d].parent \in HomesAbove(x)
                        /\ d \in DOMAIN documents' => documents'[d].parent \in HomesAbove(x)
    PROVE  Confined(x)
<1>1. ASSUME NEW f \in (DOMAIN features \cap DOMAIN features') \ FeaturesAbove(x)
      PROVE  FeatureContents(f)' = FeatureContents(f)
    <2>1. PICK S : S = TasksOf({f})
        OBVIOUS
    <2>2. S = TasksOf({f})' /\ S \cap T = {} /\ S \subseteq DOMAIN tasks
        BY <2>1 DEF TasksOf
    <2>3. PICK C : C = DocumentsOf({<<"feature", f>>} \cup ({"task"} \X S))
        OBVIOUS
    <2>4. ASSUME NEW d, d \in D, NEW parent \in HomesAbove(x)
          PROVE  parent \notin {<<"feature", f>>} \cup ({"task"} \X S)
        BY <1>1, <2>1, <2>4 DEF HomesAbove, Feature, Task, TasksOf
    <2>5. C = DocumentsOf({<<"feature", f>>} \cup ({"task"} \X S))' /\ C \cap D = {}
        BY <2>3, <2>4 DEF DocumentsOf
    <2>6. \A d \in C : documents'[d] = documents[d]
        BY <2>3, <2>5 DEF DocumentsOf
    <2>7. FeatureDependencies(f)' = FeatureDependencies(f)
        <3>1. ASSUME NEW e \in dependencies \cup dependencies'
              PROVE  (e \in dependencies' /\ tasks'[e[1]].feature = f) <=> (e \in dependencies /\ tasks[e[1]].feature = f)
            <4>1. /\ e \in dependencies => e[1] \in DOMAIN tasks
                  /\ e \in dependencies' => e[1] \in DOMAIN tasks'
                BY DEF StoreInv, ForeignKeys
            <4> QED BY <1>1, <4>1
        <3> QED BY <3>1 DEF FeatureDependencies
    <2>8. \A t \in S : /\ t \in DOMAIN pullRequests' <=> t \in DOMAIN pullRequests
                       /\ t \in DOMAIN pullRequests => pullRequests'[t] = pullRequests[t]
        BY <2>2
    <2>9. features'[f].body = features[f].body /\ features'[f].project = features[f].project
        OBVIOUS
    <2>10. \A t \in S : tasks'[t] = tasks[t]
        BY <2>2
    <2>11. S = TasksOf({f})' /\ C = DocumentsOf({<<"feature", f>>} \cup ({"task"} \X S))'
        BY <2>2, <2>5
    <2> QED BY <2>1, <2>3, <2>6, <2>7, <2>8, <2>9, <2>10, <2>11, SameFeature
<1>2. ASSUME NEW q \in (DOMAIN projects \cap DOMAIN projects') \ ProjectsAbove(x)
      PROVE  ProjectContents(q)' = ProjectContents(q)
    <2>1. PICK C : C = DocumentsOf({<<"project", q>>})
        OBVIOUS
    <2>2. ASSUME NEW parent \in HomesAbove(x) PROVE parent \notin {<<"project", q>>}
        BY <1>2, <2>2 DEF HomesAbove, Project
    <2>3. C = DocumentsOf({<<"project", q>>})' /\ C \cap D = {}
        BY <2>1, <2>2 DEF DocumentsOf
    <2>4. \A d \in C : documents'[d] = documents[d]
        BY <2>1, <2>3 DEF DocumentsOf
    <2>5. Restrict(documents, C)' = Restrict(documents, C)
        BY <2>4 DEF Restrict
    <2>6. FeaturesOf(q)' = FeaturesOf(q)
        BY DEF FeaturesOf
    <2> QED BY <2>1, <2>3, <2>5, <2>6 DEF ProjectContents
<1> QED BY <1>1, <1>2 DEF Confined

\* A change of the tasks T only, whose features are above the target.
LEMMA ConfinedToTasks ==
    ASSUME StoreInv, StoreInv', NEW x, NEW T,
           UNCHANGED <<projects, features, dependencies, pullRequests, documents>>,
           \A t \in (DOMAIN tasks \cup DOMAIN tasks') \ T :
               t \in DOMAIN tasks /\ t \in DOMAIN tasks' /\ tasks'[t] = tasks[t],
           \A t \in T : /\ t \in DOMAIN tasks => tasks[t].feature \in FeaturesAbove(x)
                        /\ t \in DOMAIN tasks' => tasks'[t].feature \in FeaturesAbove(x)
    PROVE  Confined(x)
<1>0. PICK none : none = {}
    OBVIOUS
<1>1. UNCHANGED <<projects, features>>
    OBVIOUS
<1>2. \A t \in (DOMAIN pullRequests \cup DOMAIN pullRequests') \ T :
          /\ t \in DOMAIN pullRequests /\ t \in DOMAIN pullRequests'
          /\ pullRequests'[t] = pullRequests[t]
    OBVIOUS
<1>3. \A e \in (dependencies \cup dependencies') :
          e[1] \in T \/ (e \in dependencies /\ e \in dependencies')
    OBVIOUS
<1>4. \A d \in (DOMAIN documents \cup DOMAIN documents') \ none :
          d \in DOMAIN documents /\ d \in DOMAIN documents' /\ documents'[d] = documents[d]
    BY <1>0
<1>5. \A d \in none : /\ d \in DOMAIN documents => documents[d].parent \in HomesAbove(x)
                      /\ d \in DOMAIN documents' => documents'[d].parent \in HomesAbove(x)
    BY <1>0
<1> QED BY <1>1, <1>2, <1>3, <1>4, <1>5, ConfinedChange

\* A change of the documents D only, whose parents are above the target.
LEMMA ConfinedToDocuments ==
    ASSUME StoreInv, StoreInv', NEW x, NEW D,
           UNCHANGED <<projects, features, tasks, dependencies, pullRequests>>,
           \A d \in (DOMAIN documents \cup DOMAIN documents') \ D :
               d \in DOMAIN documents /\ d \in DOMAIN documents' /\ documents'[d] = documents[d],
           \A d \in D : /\ d \in DOMAIN documents => documents[d].parent \in HomesAbove(x)
                        /\ d \in DOMAIN documents' => documents'[d].parent \in HomesAbove(x)
    PROVE  Confined(x)
<1>0. PICK none : none = {}
    OBVIOUS
<1>1. UNCHANGED <<projects, features>>
    OBVIOUS
<1>2. \A t \in (DOMAIN pullRequests \cup DOMAIN pullRequests') \ none :
          /\ t \in DOMAIN pullRequests /\ t \in DOMAIN pullRequests'
          /\ pullRequests'[t] = pullRequests[t]
    BY <1>0
<1>3. \A e \in (dependencies \cup dependencies') :
          e[1] \in none \/ (e \in dependencies /\ e \in dependencies')
    BY <1>0
<1>4. \A t \in (DOMAIN tasks \cup DOMAIN tasks') \ none :
          t \in DOMAIN tasks /\ t \in DOMAIN tasks' /\ tasks'[t] = tasks[t]
    BY <1>0
<1>5. \A t \in none : /\ t \in DOMAIN tasks => tasks[t].feature \in FeaturesAbove(x)
                      /\ t \in DOMAIN tasks' => tasks'[t].feature \in FeaturesAbove(x)
    BY <1>0
<1> QED BY <1>1, <1>2, <1>3, <1>4, <1>5, ConfinedChange

\* A change of the pull request of the target task, or of its edges as the blocker.
LEMMA ConfinedToLinks ==
    ASSUME StoreInv, StoreInv', NEW t0 \in DOMAIN tasks,
           UNCHANGED <<projects, features, tasks, documents>>,
           \A t \in DOMAIN pullRequests \cup DOMAIN pullRequests' :
               t # t0 => /\ t \in DOMAIN pullRequests /\ t \in DOMAIN pullRequests'
                         /\ pullRequests'[t] = pullRequests[t],
           \A e \in (dependencies \cup dependencies') :
               e[1] = t0 \/ (e \in dependencies /\ e \in dependencies')
    PROVE  Confined(Task(t0))
<1>0. PICK none : none = {}
    OBVIOUS
<1>1. PICK T : T = {t0}
    OBVIOUS
<1>2. UNCHANGED <<projects, features>>
    OBVIOUS
<1>3. \A t \in (DOMAIN pullRequests \cup DOMAIN pullRequests') \ T :
          /\ t \in DOMAIN pullRequests /\ t \in DOMAIN pullRequests'
          /\ pullRequests'[t] = pullRequests[t]
    BY <1>1
<1>4. \A e \in (dependencies \cup dependencies') :
          e[1] \in T \/ (e \in dependencies /\ e \in dependencies')
    BY <1>1
<1>5. \A t \in (DOMAIN tasks \cup DOMAIN tasks') \ T :
          t \in DOMAIN tasks /\ t \in DOMAIN tasks' /\ tasks'[t] = tasks[t]
    OBVIOUS
<1>6. tasks[t0].feature \in FeaturesAbove(Task(t0))
    BY DEF FeaturesAbove, Holder, Task, StoreInv, ForeignKeys
<1>7. \A t \in T : /\ t \in DOMAIN tasks => tasks[t].feature \in FeaturesAbove(Task(t0))
                   /\ t \in DOMAIN tasks' => tasks'[t].feature \in FeaturesAbove(Task(t0))
    BY <1>1, <1>6
<1>8. \A d \in (DOMAIN documents \cup DOMAIN documents') \ none :
          d \in DOMAIN documents /\ d \in DOMAIN documents' /\ documents'[d] = documents[d]
    OBVIOUS
<1>9. \A d \in none : /\ d \in DOMAIN documents => documents[d].parent \in HomesAbove(Task(t0))
                      /\ d \in DOMAIN documents' => documents'[d].parent \in HomesAbove(Task(t0))
    BY <1>0
<1> QED BY <1>2, <1>3, <1>4, <1>5, <1>7, <1>8, <1>9, ConfinedChange

------------------------------------------------------------------------------
\* Requests about features

\* A new feature is in the project that its guard looked at.
LEMMA CreateFeatureApplied ==
    ASSUME StoreInv, Shaped, NEW r \in Messages \cup Commands, CreateFeatureRequest(r)
    PROVE  /\ StoreInv' /\ Shaped' /\ Grows /\ ColumnsKept(r) /\ Confined(r.target)
           /\ projects' = projects
           /\ \A f \in DOMAIN features : f \in DOMAIN features' /\ features'[f] = features[f]
<1> DEFINE body == [title |-> r.title, status |-> Default, overrides |-> Unset]
           id == NextPublicID("feature")
           q0 == r.target[2]
<1>1. CreateFeature(q0, body) /\ body \in FeatureBodies /\ q0 \in ProjectIDs /\ r.target = Project(q0)
    BY Arguments, Targets, BodiesOfTexts DEF CreateFeatureRequest, FeatureBodies
<1> HIDE DEF body, q0
<1>2. StoreInv'
    BY <1>1, BodiesOfTexts, CreateFeatureStep
<1>3. /\ features' = Put(features, id, [project |-> q0, archived |-> FALSE, body |-> body])
      /\ Allocate("feature") /\ q0 \in DOMAIN projects
      /\ UNCHANGED <<projects, tasks, dependencies, pullRequests, documents>>
    BY <1>1 DEF CreateFeature
<1>4. /\ \A e \in Entities : sequences'[e] >= sequences[e]
      /\ id >= sequences["feature"]
    BY <1>3, SequencesGrow DEF Entities
<1>5. id \notin DOMAIN features
    BY DEF StoreInv, StoreTypeOK, SequencesAhead, NextPublicID, FeatureIDs, IsTable
<1> HIDE DEF id
<1>6. /\ DOMAIN features' = DOMAIN features \cup {id}
      /\ features'[id] = [project |-> q0, archived |-> FALSE, body |-> body]
      /\ \A f \in DOMAIN features : features'[f] = features[f]
    BY <1>3, <1>5 DEF Put
<1>7. Shaped'
    <2>1. \A f \in DOMAIN features' : features'[f].body \in FeatureBodies
        BY <1>1, <1>6 DEF Shaped
    <2> QED BY <1>3, <2>1 DEF Shaped
<1>8. Grows
    BY <1>3, <1>4, <1>6 DEF Grows
<1>9. Confined(r.target)
    <2>1. ASSUME NEW f \in DOMAIN features PROVE FeatureContents(f)' = FeatureContents(f)
        BY <1>3, <1>6 DEF FeatureContents, TasksOf, DocumentsOf, FeatureDependencies
    <2>2. q0 \in ProjectsAbove(r.target)
        BY <1>1, <1>3 DEF ProjectsAbove, Holder, Project
    <2>3. ASSUME NEW q \in DOMAIN projects, q # q0 PROVE ProjectContents(q)' = ProjectContents(q)
        <3>1. FeaturesOf(q)' = FeaturesOf(q)
            BY <1>6, <2>3 DEF FeaturesOf
        <3> QED BY <1>3, <3>1 DEF ProjectContents, DocumentsOf
    <2> QED BY <2>1, <2>2, <2>3 DEF Confined
<1> QED BY <1>2, <1>3, <1>6, <1>7, <1>8, <1>9, SameDocuments

\* What a request that updates a feature does to the features.
LEMMA UpdateFeatureApplied ==
    ASSUME StoreInv, Shaped, NEW r \in Messages \cup Commands,
           NEW row \in [project : ProjectIDs, archived : BOOLEAN, body : FeatureBodies],
           UpdateFeatureRequest(r, row)
    PROVE  /\ StoreInv' /\ Shaped' /\ Grows /\ ColumnsKept(r)
           /\ r.target[2] \in DOMAIN features /\ DOMAIN features' = DOMAIN features
           /\ features'[r.target[2]] = MergedRow(r, row)
           /\ \A f \in DOMAIN features : f # r.target[2] => features'[f] = features[f]
           /\ UNCHANGED <<projects, tasks, dependencies, pullRequests, documents>>
<1> DEFINE f0 == r.target[2]
           new == MergedRow(r, row)
<1>1. UpdateFeature(f0, new) /\ r.op = "UpdateFeature"
    BY DEF UpdateFeatureRequest
<1>2. new \in [project : ProjectIDs, archived : BOOLEAN, body : FeatureBodies] /\ f0 \in FeatureIDs
    BY <1>1, Arguments, Targets, MergedFeature
<1> HIDE DEF f0, new
<1>3. new \in FeatureRow
    BY <1>2, BodiesOfTexts DEF FeatureRow
<1>4. StoreInv'
    BY <1>1, <1>2, <1>3, UpdateFeatureStep
<1>5. /\ f0 \in DOMAIN features /\ features' = Put(features, f0, new)
      /\ UNCHANGED <<sequences, projects, tasks, dependencies, pullRequests, documents>>
    BY <1>1 DEF UpdateFeature
<1>6. /\ DOMAIN features' = DOMAIN features
      /\ features'[f0] = new
      /\ \A f \in DOMAIN features : f # f0 => features'[f] = features[f]
    BY <1>5 DEF Put
<1>7. Shaped'
    BY <1>2, <1>5, <1>6 DEF Shaped
<1>8. Grows
    BY <1>5, <1>6, GrowsByNothing
<1> QED BY <1>4, <1>5, <1>6, <1>7, <1>8, SameDocuments DEF f0, new

------------------------------------------------------------------------------
\* Requests about tasks

\* A new task is in the feature that its guard looked at.
LEMMA CreateTaskApplied ==
    ASSUME StoreInv, Shaped, NEW r \in Messages \cup Commands, CreateTaskRequest(r)
    PROVE  /\ StoreInv' /\ Shaped' /\ Grows /\ ColumnsKept(r) /\ Confined(r.target)
           /\ UNCHANGED <<projects, features>>
<1> DEFINE body == [title |-> r.title, status |-> Default]
           id == NextPublicID("task")
           f0 == r.target[2]
<1>1. CreateTask(f0, body) /\ body \in TaskBodies /\ f0 \in FeatureIDs /\ r.target = Feature(f0)
    BY Arguments, Targets, BodiesOfTexts DEF CreateTaskRequest, TaskBodies
<1> HIDE DEF body, f0
<1>2. StoreInv'
    BY <1>1, BodiesOfTexts, CreateTaskStep
<1>3. /\ tasks' = Put(tasks, id, [feature |-> f0, body |-> body])
      /\ Allocate("task") /\ f0 \in DOMAIN features
      /\ UNCHANGED <<projects, features, dependencies, pullRequests, documents>>
    BY <1>1 DEF CreateTask
<1>4. /\ \A e \in Entities : sequences'[e] >= sequences[e]
      /\ id >= sequences["task"]
    BY <1>3, SequencesGrow DEF Entities
<1>5. id \notin DOMAIN tasks
    BY DEF StoreInv, StoreTypeOK, SequencesAhead, NextPublicID, TaskIDs, IsTable
<1> HIDE DEF id
<1>6. /\ DOMAIN tasks' = DOMAIN tasks \cup {id}
      /\ tasks'[id] = [feature |-> f0, body |-> body]
      /\ \A t \in DOMAIN tasks : tasks'[t] = tasks[t]
    BY <1>3, <1>5 DEF Put
<1>7. Shaped'
    <2>1. \A t \in DOMAIN tasks' : tasks'[t].body \in TaskBodies
        BY <1>1, <1>6 DEF Shaped
    <2> QED BY <1>3, <2>1 DEF Shaped
<1>8. Grows
    BY <1>3, <1>4, <1>6 DEF Grows
<1>9. Confined(r.target)
    <2>1. PICK T : T = {id}
        OBVIOUS
    <2>2. \A t \in (DOMAIN tasks \cup DOMAIN tasks') \ T :
              t \in DOMAIN tasks /\ t \in DOMAIN tasks' /\ tasks'[t] = tasks[t]
        BY <1>6, <2>1
    <2>3. \A t \in T : /\ t \in DOMAIN tasks => tasks[t].feature \in FeaturesAbove(r.target)
                       /\ t \in DOMAIN tasks' => tasks'[t].feature \in FeaturesAbove(r.target)
        BY <1>1, <1>3, <1>5, <1>6, <2>1 DEF FeaturesAbove, Holder, Feature
    <2>4. UNCHANGED <<projects, features, dependencies, pullRequests, documents>>
        BY <1>3
    <2> QED BY <1>2, <2>2, <2>3, <2>4, ConfinedToTasks
<1> QED BY <1>2, <1>3, <1>7, <1>8, <1>9, SameDocuments

\* An update of a task leaves it in its feature.
LEMMA UpdateTaskApplied ==
    ASSUME StoreInv, Shaped, NEW r \in Messages \cup Commands,
           NEW row \in [feature : FeatureIDs, body : TaskBodies], UpdateTaskRequest(r, row)
    PROVE  /\ StoreInv' /\ Shaped' /\ Grows /\ ColumnsKept(r) /\ Confined(r.target)
           /\ UNCHANGED <<projects, features>>
<1> DEFINE t0 == r.target[2]
           body == MergedRow(r, row).body
<1>1. UpdateTask(t0, body) /\ r.op = "UpdateTask"
    BY DEF UpdateTaskRequest
<1>2. body \in TaskBodies /\ t0 \in TaskIDs /\ r.target = Task(t0)
    BY <1>1, Arguments, Targets, MergedTask
<1> HIDE DEF body, t0
<1>3. StoreInv'
    BY <1>1, <1>2, BodiesOfTexts, UpdateTaskStep
<1>4. /\ tasks' = Put(tasks, t0, [feature |-> tasks[t0].feature, body |-> body]) /\ t0 \in DOMAIN tasks
      /\ UNCHANGED <<sequences, projects, features, dependencies, pullRequests, documents>>
    BY <1>1 DEF UpdateTask
<1>5. /\ DOMAIN tasks' = DOMAIN tasks
      /\ tasks'[t0] = [feature |-> tasks[t0].feature, body |-> body]
      /\ \A t \in DOMAIN tasks : t # t0 => tasks'[t] = tasks[t]
    BY <1>4 DEF Put
<1>6. Shaped'
    <2>1. \A t \in DOMAIN tasks' : tasks'[t].body \in TaskBodies
        BY <1>2, <1>5 DEF Shaped
    <2> QED BY <1>4, <2>1 DEF Shaped
<1>7. Grows
    <2>1. \A t \in DOMAIN tasks' : t \in DOMAIN tasks /\ tasks'[t].feature = tasks[t].feature
        BY <1>5
    <2> QED BY <1>4, <2>1, GrowsByNothing
<1>8. Confined(r.target)
    <2>1. PICK T : T = {t0}
        OBVIOUS
    <2>2. \A t \in (DOMAIN tasks \cup DOMAIN tasks') \ T :
              t \in DOMAIN tasks /\ t \in DOMAIN tasks' /\ tasks'[t] = tasks[t]
        BY <1>5, <2>1
    <2>3. tasks[t0].feature \in FeaturesAbove(r.target)
        BY <1>2, <1>4 DEF FeaturesAbove, Holder, Task, StoreInv, ForeignKeys
    <2>4. \A t \in T : /\ t \in DOMAIN tasks => tasks[t].feature \in FeaturesAbove(r.target)
                       /\ t \in DOMAIN tasks' => tasks'[t].feature \in FeaturesAbove(r.target)
        BY <1>5, <2>1, <2>3
    <2>5. UNCHANGED <<projects, features, dependencies, pullRequests, documents>>
        BY <1>4
    <2> QED BY <1>3, <2>2, <2>4, <2>5, ConfinedToTasks
<1> QED BY <1>3, <1>4, <1>6, <1>7, <1>8, SameDocuments

\* A task goes with its documents, its pull request and its edges, all of its feature.
LEMMA DeleteTaskApplied ==
    ASSUME StoreInv, Shaped, NEW r \in Messages \cup Commands, DeleteTaskRequest(r)
    PROVE  /\ StoreInv' /\ Shaped' /\ Grows /\ ColumnsKept(r) /\ Confined(r.target)
           /\ UNCHANGED <<projects, features>>
<1> DEFINE t0 == r.target[2]
<1>1. DeleteTask(t0, r.cascade) /\ r.op = "DeleteTask"
    BY DEF DeleteTaskRequest
<1>2. t0 \in TaskIDs /\ r.cascade \in BOOLEAN /\ r.target = Task(t0)
    BY <1>1, Arguments, Targets
<1> HIDE DEF t0
<1>3. StoreInv'
    BY <1>1, <1>2, DeleteTaskStep
<1>4. PICK D : D = DocumentsOf({<<"task", t0>>})
    OBVIOUS
<1>5. /\ t0 \in DOMAIN tasks /\ UNCHANGED <<sequences, projects, features>>
      /\ dependencies' = dependencies \ {e \in dependencies : t0 \in {e[1], e[2]}}
      /\ pullRequests' = Erase(pullRequests, {t0}) /\ tasks' = Erase(tasks, {t0})
      /\ documents' = Erase(documents, D)
    BY <1>1, <1>4 DEF DeleteTask
<1>6. /\ DOMAIN tasks' = DOMAIN tasks \ {t0} /\ \A t \in DOMAIN tasks' : tasks'[t] = tasks[t]
      /\ DOMAIN documents' = DOMAIN documents \ D /\ \A d \in DOMAIN documents' : documents'[d] = documents[d]
      /\ DOMAIN pullRequests' = DOMAIN pullRequests \ {t0}
      /\ \A t \in DOMAIN pullRequests' : pullRequests'[t] = pullRequests[t]
    BY <1>5 DEF Erase, Restrict
<1>7. Shaped'
    BY <1>5, <1>6 DEF Shaped
<1>8. Grows
    BY <1>5, <1>6, GrowsByNothing
<1>9. Confined(r.target)
    <2>1. PICK T : T = TasksOf({tasks[t0].feature})
        OBVIOUS
    <2>2. t0 \in T
        BY <1>5, <2>1 DEF TasksOf
    <2>3. UNCHANGED <<projects, features>>
        BY <1>5
    <2>4. \A t \in (DOMAIN tasks \cup DOMAIN tasks') \ T :
              t \in DOMAIN tasks /\ t \in DOMAIN tasks' /\ tasks'[t] = tasks[t]
        BY <1>6, <2>2
    <2>5. \A t \in (DOMAIN pullRequests \cup DOMAIN pullRequests') \ T :
              /\ t \in DOMAIN pullRequests /\ t \in DOMAIN pullRequests'
              /\ pullRequests'[t] = pullRequests[t]
        BY <1>6, <2>2
    <2>6. \A e \in (dependencies \cup dependencies') :
              e[1] \in T \/ (e \in dependencies /\ e \in dependencies')
        BY <1>5, <2>1 DEF TasksOf, StoreInv, ForeignKeys, DependenciesWithinOneFeature
    <2>7. tasks[t0].feature \in FeaturesAbove(r.target)
        BY <1>2, <1>5 DEF FeaturesAbove, Holder, Task, StoreInv, ForeignKeys
    <2>8. \A t \in T : /\ t \in DOMAIN tasks => tasks[t].feature \in FeaturesAbove(r.target)
                       /\ t \in DOMAIN tasks' => tasks'[t].feature \in FeaturesAbove(r.target)
        BY <1>6, <2>1, <2>7 DEF TasksOf
    <2>9. \A d \in (DOMAIN documents \cup DOMAIN documents') \ D :
              d \in DOMAIN documents /\ d \in DOMAIN documents' /\ documents'[d] = documents[d]
        BY <1>6
    <2>10. r.target \in HomesAbove(r.target)
        BY <1>2, HolderIsHome DEF Holder, Task, Parents
    <2>11. \A d \in D : /\ d \in DOMAIN documents => documents[d].parent \in HomesAbove(r.target)
                        /\ d \in DOMAIN documents' => documents'[d].parent \in HomesAbove(r.target)
        BY <1>2, <1>4, <1>6, <2>10 DEF DocumentsOf, Task
    <2> QED BY <1>3, <2>3, <2>4, <2>5, <2>6, <2>8, <2>9, <2>11, ConfinedChange
<1> QED BY <1>3, <1>5, <1>6, <1>7, <1>8, <1>9, SameDocuments

------------------------------------------------------------------------------
\* Requests about what is attached to a task

\* A new edge is between two tasks of the blocker's feature.
LEMMA AddDependencyApplied ==
    ASSUME StoreInv, Shaped, NEW r \in Messages \cup Commands, AddDependencyRequest(r)
    PROVE  /\ StoreInv' /\ Shaped' /\ Grows /\ ColumnsKept(r) /\ Confined(r.target)
           /\ UNCHANGED <<projects, features>>
<1> DEFINE t0 == r.target[2]
<1>1. AddDependency(t0, r.blocked) /\ r.op = "AddDependency"
    BY DEF AddDependencyRequest
<1>2. t0 \in TaskIDs /\ r.blocked \in TaskIDs /\ r.target = Task(t0)
    BY <1>1, Arguments, Targets
<1> HIDE DEF t0
<1>3. StoreInv'
    BY <1>1, <1>2, AddDependencyStep
<1>4. /\ t0 \in DOMAIN tasks /\ dependencies' = dependencies \cup {<<t0, r.blocked>>}
      /\ UNCHANGED <<sequences, projects, features, tasks, pullRequests, documents>>
    BY <1>1 DEF AddDependency
<1>5. Shaped' /\ Grows
    BY <1>4, GrowsByNothing DEF Shaped
<1>6. Confined(Task(t0))
    <2>1. UNCHANGED <<projects, features, tasks, documents>>
        BY <1>4
    <2>2. \A t \in DOMAIN pullRequests \cup DOMAIN pullRequests' :
              t # t0 => /\ t \in DOMAIN pullRequests /\ t \in DOMAIN pullRequests'
                        /\ pullRequests'[t] = pullRequests[t]
        BY <1>4
    <2>3. \A e \in (dependencies \cup dependencies') :
              e[1] = t0 \/ (e \in dependencies /\ e \in dependencies')
        BY <1>4
    <2> QED BY <1>3, <1>4, <2>1, <2>2, <2>3, ConfinedToLinks
<1> QED BY <1>2, <1>3, <1>4, <1>5, <1>6, SameDocuments

\* The edge that goes is one of the blocker's.
LEMMA RemoveDependencyApplied ==
    ASSUME StoreInv, Shaped, NEW r \in Messages \cup Commands, RemoveDependencyRequest(r)
    PROVE  /\ StoreInv' /\ Shaped' /\ Grows /\ ColumnsKept(r) /\ Confined(r.target)
           /\ UNCHANGED <<projects, features>>
<1> DEFINE t0 == r.target[2]
<1>1. RemoveDependency(t0, r.blocked) /\ r.op = "RemoveDependency"
    BY DEF RemoveDependencyRequest
<1>2. t0 \in TaskIDs /\ r.blocked \in TaskIDs /\ r.target = Task(t0)
    BY <1>1, Arguments, Targets
<1> HIDE DEF t0
<1>3. StoreInv'
    BY <1>1, <1>2, RemoveDependencyStep
<1>4. /\ t0 \in DOMAIN tasks /\ dependencies' = dependencies \ {<<t0, r.blocked>>}
      /\ UNCHANGED <<sequences, projects, features, tasks, pullRequests, documents>>
    BY <1>1 DEF RemoveDependency
<1>5. Shaped' /\ Grows
    BY <1>4, GrowsByNothing DEF Shaped
<1>6. Confined(Task(t0))
    <2>1. UNCHANGED <<projects, features, tasks, documents>>
        BY <1>4
    <2>2. \A t \in DOMAIN pullRequests \cup DOMAIN pullRequests' :
              t # t0 => /\ t \in DOMAIN pullRequests /\ t \in DOMAIN pullRequests'
                        /\ pullRequests'[t] = pullRequests[t]
        BY <1>4
    <2>3. \A e \in (dependencies \cup dependencies') :
              e[1] = t0 \/ (e \in dependencies /\ e \in dependencies')
        BY <1>4
    <2> QED BY <1>3, <1>4, <2>1, <2>2, <2>3, ConfinedToLinks
<1> QED BY <1>2, <1>3, <1>4, <1>5, <1>6, SameDocuments

\* A pull request comes to the target task, and from no other.
LEMMA AttachPullRequestApplied ==
    ASSUME StoreInv, Shaped, NEW r \in Messages \cup Commands, AttachPullRequestRequest(r)
    PROVE  /\ StoreInv' /\ Shaped' /\ Grows /\ ColumnsKept(r) /\ Confined(r.target)
           /\ UNCHANGED <<projects, features>>
<1> DEFINE t0 == r.target[2]
<1>1. UpsertPullRequest(t0, r.pr) /\ r.op = "AttachPullRequest"
    BY DEF AttachPullRequestRequest
<1>2. t0 \in TaskIDs /\ r.pr \in PullRequests /\ r.target = Task(t0)
    BY <1>1, Arguments, Targets
<1> HIDE DEF t0
<1>3. StoreInv'
    BY <1>1, <1>2, UpsertPullRequestStep
<1>4. /\ t0 \in DOMAIN tasks /\ pullRequests' = Put(pullRequests, t0, r.pr)
      /\ UNCHANGED <<sequences, projects, features, tasks, dependencies, documents>>
    BY <1>1 DEF UpsertPullRequest
<1>5. Shaped' /\ Grows
    BY <1>4, GrowsByNothing DEF Shaped
<1>6. Confined(Task(t0))
    <2>1. UNCHANGED <<projects, features, tasks, documents>>
        BY <1>4
    <2>2. \A t \in DOMAIN pullRequests \cup DOMAIN pullRequests' :
              t # t0 => /\ t \in DOMAIN pullRequests /\ t \in DOMAIN pullRequests'
                        /\ pullRequests'[t] = pullRequests[t]
        BY <1>4 DEF Put
    <2>3. \A e \in (dependencies \cup dependencies') :
              e[1] = t0 \/ (e \in dependencies /\ e \in dependencies')
        BY <1>4
    <2> QED BY <1>3, <1>4, <2>1, <2>2, <2>3, ConfinedToLinks
<1> QED BY <1>2, <1>3, <1>4, <1>5, <1>6, SameDocuments

\* It leaves the target task.
LEMMA DetachPullRequestApplied ==
    ASSUME StoreInv, Shaped, NEW r \in Messages \cup Commands, DetachPullRequestRequest(r)
    PROVE  /\ StoreInv' /\ Shaped' /\ Grows /\ ColumnsKept(r) /\ Confined(r.target)
           /\ UNCHANGED <<projects, features>>
<1> DEFINE t0 == r.target[2]
<1>1. DeletePullRequest(t0) /\ r.op = "DetachPullRequest"
    BY DEF DetachPullRequestRequest
<1>2. t0 \in TaskIDs /\ r.target = Task(t0)
    BY <1>1, Arguments, Targets
<1> HIDE DEF t0
<1>3. StoreInv'
    BY <1>1, <1>2, DeletePullRequestStep
<1>4. /\ t0 \in DOMAIN tasks /\ pullRequests' = Erase(pullRequests, {t0})
      /\ UNCHANGED <<sequences, projects, features, tasks, dependencies, documents>>
    BY <1>1 DEF DeletePullRequest, StoreInv, ForeignKeys
<1>5. Shaped' /\ Grows
    BY <1>4, GrowsByNothing DEF Shaped
<1>6. Confined(Task(t0))
    <2>1. UNCHANGED <<projects, features, tasks, documents>>
        BY <1>4
    <2>2. \A t \in DOMAIN pullRequests \cup DOMAIN pullRequests' :
              t # t0 => /\ t \in DOMAIN pullRequests /\ t \in DOMAIN pullRequests'
                        /\ pullRequests'[t] = pullRequests[t]
        BY <1>4 DEF Erase, Restrict
    <2>3. \A e \in (dependencies \cup dependencies') :
              e[1] = t0 \/ (e \in dependencies /\ e \in dependencies')
        BY <1>4
    <2> QED BY <1>3, <1>4, <2>1, <2>2, <2>3, ConfinedToLinks
<1> QED BY <1>2, <1>3, <1>4, <1>5, <1>6, SameDocuments

------------------------------------------------------------------------------
\* Requests about documents and plans

\* A document comes with an ID that no document has.
LEMMA DocumentCreated ==
    ASSUME StoreInv, Shaped, NEW parent \in Parents, NEW title \in Bodies, NEW source \in Bodies,
           NEW plan \in BOOLEAN, CreateDocument(parent, title, source, plan)
    PROVE  /\ StoreInv' /\ Shaped' /\ Grows /\ Confined(parent)
           /\ UNCHANGED <<projects, features>>
           /\ \A d \in DOMAIN documents : documents'[d] = documents[d]
<1> DEFINE id == NextPublicID("document")
           row == [parent |-> parent, title |-> title, source |-> source, plan |-> plan]
<1>1. StoreInv'
    BY CreateDocumentStep
<1>2. /\ documents' = Put(documents, id, row) /\ Allocate("document")
      /\ UNCHANGED <<projects, features, tasks, dependencies, pullRequests>>
    BY DEF CreateDocument
<1>3. /\ \A e \in Entities : sequences'[e] >= sequences[e]
      /\ id >= sequences["document"]
    BY <1>2, SequencesGrow DEF Entities
<1>4. id \notin DOMAIN documents
    BY DEF StoreInv, StoreTypeOK, SequencesAhead, NextPublicID, DocumentIDs, IsTable
<1> HIDE DEF id
<1>5. /\ DOMAIN documents' = DOMAIN documents \cup {id}
      /\ documents'[id].parent = parent
      /\ \A d \in DOMAIN documents : documents'[d] = documents[d]
    BY <1>2, <1>4 DEF Put
<1>6. Shaped'
    BY <1>2 DEF Shaped
<1>7. Grows
    BY <1>2, <1>3, <1>5 DEF Grows
<1>8. Confined(parent)
    <2>1. PICK D : D = {id}
        OBVIOUS
    <2>2. UNCHANGED <<projects, features, tasks, dependencies, pullRequests>>
        BY <1>2
    <2>3. \A d \in (DOMAIN documents \cup DOMAIN documents') \ D :
              d \in DOMAIN documents /\ d \in DOMAIN documents' /\ documents'[d] = documents[d]
        BY <1>5, <2>1
    <2>4. Holder(parent) = parent
        BY DEF Holder, Parents
    <2>5. parent \in HomesAbove(parent)
        BY <2>4, HolderIsHome
    <2>6. \A d \in D : /\ d \in DOMAIN documents => documents[d].parent \in HomesAbove(parent)
                       /\ d \in DOMAIN documents' => documents'[d].parent \in HomesAbove(parent)
        BY <1>4, <1>5, <2>1, <2>5
    <2> QED BY <1>1, <2>2, <2>3, <2>6, ConfinedToDocuments
<1> QED BY <1>1, <1>2, <1>5, <1>6, <1>7, <1>8

\* An edit of a document leaves the columns it does not name, and the parent.
LEMMA DocumentUpdated ==
    ASSUME StoreInv, Shaped, NEW d0 \in DocumentIDs, NEW fields,
           "title" \in DOMAIN fields => fields["title"] \in Texts,
           "source" \in DOMAIN fields => fields["source"] \in Texts,
           "plan" \in DOMAIN fields => fields["plan"] \in BOOLEAN,
           UpdateDocument(d0, fields)
    PROVE  /\ StoreInv' /\ Shaped' /\ Grows
           /\ \A x : Holder(x) = documents[d0].parent => Confined(x)
           /\ UNCHANGED <<projects, features>>
           /\ d0 \in DOMAIN documents
           /\ \A d \in DOMAIN documents : d # d0 => documents'[d] = documents[d]
           /\ \A c \in {"title", "source", "plan"} \ DOMAIN fields : documents'[d0][c] = documents[d0][c]
<1> DEFINE Column(c) == IF c \in DOMAIN fields THEN fields[c] ELSE documents[d0][c]
           row == [parent |-> documents[d0].parent, title |-> Column("title"),
                   source |-> Column("source"), plan |-> Column("plan")]
<1>1. StoreInv'
    BY BodiesOfTexts, UpdateDocumentStep
<1>2. /\ d0 \in DOMAIN documents /\ documents' = Put(documents, d0, row)
      /\ UNCHANGED <<sequences, projects, features, tasks, dependencies, pullRequests>>
    BY DEF UpdateDocument
<1>3. /\ row.parent = documents[d0].parent
      /\ \A c \in {"title", "source", "plan"} \ DOMAIN fields : row[c] = documents[d0][c]
    OBVIOUS
<1> HIDE DEF row, Column
<1>4. /\ DOMAIN documents' = DOMAIN documents /\ documents'[d0] = row
      /\ \A d \in DOMAIN documents : d # d0 => documents'[d] = documents[d]
    BY <1>2 DEF Put
<1>5. \A d \in DOMAIN documents' : d \in DOMAIN documents /\ documents'[d].parent = documents[d].parent
    BY <1>3, <1>4
<1>6. Shaped' /\ Grows
    BY <1>2, <1>5, GrowsByNothing DEF Shaped
<1>7. ASSUME NEW x, Holder(x) = documents[d0].parent PROVE Confined(x)
    <2>1. PICK D : D = {d0}
        OBVIOUS
    <2>2. UNCHANGED <<projects, features, tasks, dependencies, pullRequests>>
        BY <1>2
    <2>3. \A d \in (DOMAIN documents \cup DOMAIN documents') \ D :
              d \in DOMAIN documents /\ d \in DOMAIN documents' /\ documents'[d] = documents[d]
        BY <1>4, <2>1
    <2>4. documents[d0].parent \in Parents
        BY <1>2 DEF StoreInv, StoreTypeOK, IsTable, DocumentRow
    <2>5. documents[d0].parent \in HomesAbove(x)
        BY <1>7, <2>4, HolderIsHome
    <2>6. \A d \in D : /\ d \in DOMAIN documents => documents[d].parent \in HomesAbove(x)
                       /\ d \in DOMAIN documents' => documents'[d].parent \in HomesAbove(x)
        BY <1>5, <2>1, <2>5
    <2> QED BY <1>1, <2>2, <2>3, <2>6, ConfinedToDocuments
<1> QED BY <1>1, <1>2, <1>3, <1>4, <1>6, <1>7

\* Deleting documents of one parent.
LEMMA DocumentsErased ==
    ASSUME StoreInv, Shaped, NEW D, NEW x, documents' = Erase(documents, D),
           \A d \in D : d \in DOMAIN documents /\ documents[d].parent = Holder(x),
           UNCHANGED <<sequences, projects, features, tasks, dependencies, pullRequests>>
    PROVE  /\ StoreInv' /\ Shaped' /\ Grows /\ Confined(x)
           /\ \A d \in DOMAIN documents' : d \in DOMAIN documents /\ documents'[d] = documents[d]
<1>1. StoreInv'
    BY EraseDocumentsStep
<1>2. /\ DOMAIN documents' = DOMAIN documents \ D
      /\ \A d \in DOMAIN documents' : documents'[d] = documents[d]
    BY DEF Erase, Restrict
<1>3. Shaped' /\ Grows
    BY <1>2, GrowsByNothing DEF Shaped
<1>4. Confined(x)
    <2>1. UNCHANGED <<projects, features, tasks, dependencies, pullRequests>>
        OBVIOUS
    <2>2. \A d \in (DOMAIN documents \cup DOMAIN documents') \ D :
              d \in DOMAIN documents /\ d \in DOMAIN documents' /\ documents'[d] = documents[d]
        BY <1>2
    <2>3. \A d \in DOMAIN documents : documents[d].parent \in Parents
        BY DEF StoreInv, StoreTypeOK, IsTable, DocumentRow
    <2>4. \A d \in D : documents[d].parent \in HomesAbove(x)
        BY <2>3, HolderIsHome
    <2>5. \A d \in D : /\ d \in DOMAIN documents => documents[d].parent \in HomesAbove(x)
                       /\ d \in DOMAIN documents' => documents'[d].parent \in HomesAbove(x)
        BY <1>2, <2>4
    <2> QED BY <1>1, <2>1, <2>2, <2>5, ConfinedToDocuments
<1> QED BY <1>1, <1>2, <1>3, <1>4

\* A new document is the target's.
LEMMA AddDocumentApplied ==
    ASSUME StoreInv, Shaped, NEW r \in Messages \cup Commands, AddDocumentRequest(r)
    PROVE  /\ StoreInv' /\ Shaped' /\ Grows /\ ColumnsKept(r) /\ Confined(r.target)
           /\ UNCHANGED <<projects, features>>
<1>1. CreateDocument(r.target, r.title, r.source, r.plan) /\ r.op = "AddDocument"
    BY DEF AddDocumentRequest
<1>2. r.target \in Parents /\ r.title \in Bodies /\ r.source \in Bodies /\ r.plan \in BOOLEAN
    BY <1>1, Arguments, BodiesOfTexts
<1> QED BY <1>1, <1>2, DocumentCreated, SameDocuments

\* An update writes the columns it names and leaves the document where it is.
LEMMA UpdateDocumentApplied ==
    ASSUME StoreInv, Shaped, NEW r \in Messages \cup Commands, NEW row, UpdateDocumentRequest(r, row)
    PROVE  /\ StoreInv' /\ Shaped' /\ Grows /\ ColumnsKept(r) /\ Confined(r.target)
           /\ UNCHANGED <<projects, features>>
<1>1. UpdateDocument(r.target[2], r.fields) /\ r.op = "UpdateDocument"
    BY DEF UpdateDocumentRequest, NamedFields
<1>2. /\ r.target[2] \in DocumentIDs /\ r.target = Document(r.target[2])
      /\ "title" \in DOMAIN r.fields => r.fields["title"] \in Texts
      /\ "source" \in DOMAIN r.fields => r.fields["source"] \in Texts
      /\ "plan" \in DOMAIN r.fields => r.fields["plan"] \in BOOLEAN
    BY <1>1, Arguments, Targets DEF Names, DocumentColumns
<1>3. /\ StoreInv' /\ Shaped' /\ Grows
      /\ \A x : Holder(x) = documents[r.target[2]].parent => Confined(x)
      /\ UNCHANGED <<projects, features>>
      /\ r.target[2] \in DOMAIN documents
      /\ \A d \in DOMAIN documents : d # r.target[2] => documents'[d] = documents[d]
      /\ \A c \in {"title", "source", "plan"} \ DOMAIN r.fields :
            documents'[r.target[2]][c] = documents[r.target[2]][c]
    BY <1>1, <1>2, DocumentUpdated
<1>4. Holder(r.target) = documents[r.target[2]].parent
    BY <1>2, <1>3 DEF Holder, Document
<1>5. ColumnsKept(r)
    <2>1. Writes(r, r.target[2]) = DOMAIN r.fields
        BY <1>1, <1>2 DEF Writes, Document
    <2> QED BY <1>3, <2>1 DEF ColumnsKept
<1> QED BY <1>3, <1>4, <1>5

\* One document goes.
LEMMA DeleteDocumentApplied ==
    ASSUME StoreInv, Shaped, NEW r \in Messages \cup Commands, DeleteDocumentRequest(r)
    PROVE  /\ StoreInv' /\ Shaped' /\ Grows /\ ColumnsKept(r) /\ Confined(r.target)
           /\ UNCHANGED <<projects, features>>
<1> DEFINE d0 == r.target[2]
<1>1. DeleteDocument(d0) /\ r.op = "DeleteDocument"
    BY DEF DeleteDocumentRequest
<1>2. r.target = Document(d0)
    BY <1>1, Arguments, Targets
<1> HIDE DEF d0
<1>3. PICK D : D = {d0}
    OBVIOUS
<1>4. /\ d0 \in DOMAIN documents /\ documents' = Erase(documents, D)
      /\ UNCHANGED <<sequences, projects, features, tasks, dependencies, pullRequests>>
    BY <1>1, <1>3 DEF DeleteDocument
<1>5. \A d \in D : d \in DOMAIN documents /\ documents[d].parent = Holder(r.target)
    BY <1>2, <1>3, <1>4 DEF Holder, Document
<1> QED BY <1>4, <1>5, DocumentsErased, SameDocuments

\* The plan of the target task is made, or its source written.
LEMMA UpsertImplementationPlanApplied ==
    ASSUME StoreInv, Shaped, NEW r \in Messages \cup Commands, UpsertImplementationPlanRequest(r)
    PROVE  /\ StoreInv' /\ Shaped' /\ Grows /\ ColumnsKept(r) /\ Confined(r.target)
           /\ UNCHANGED <<projects, features>>
<1> DEFINE t0 == r.target[2]
<1>1. UpsertImplementationPlan(t0, Unset, r.source) /\ r.op = "UpsertImplementationPlan"
    BY DEF UpsertImplementationPlanRequest
<1>2. r.source \in Texts /\ t0 \in TaskIDs /\ r.target = Task(t0)
    BY <1>1, Arguments, Targets
<1> HIDE DEF t0
<1>3. CASE \E d \in PlansOf(t0) : UpdateDocument(d, [source |-> r.source])
    <2>1. PICK d \in PlansOf(t0) : UpdateDocument(d, [source |-> r.source])
        BY <1>3
    <2>2. documents[d].parent = r.target /\ d \in DocumentIDs
        BY <1>2 DEF PlansOf, DocumentsOf, Task, StoreInv, StoreTypeOK, IsTable
    <2>3. PICK fields : fields = [source |-> r.source]
        OBVIOUS
    <2>4. /\ "title" \in DOMAIN fields => fields["title"] \in Texts
          /\ "source" \in DOMAIN fields => fields["source"] \in Texts
          /\ "plan" \in DOMAIN fields => fields["plan"] \in BOOLEAN
          /\ DOMAIN fields = {"source"}
        BY <1>2, <2>3
    <2>5. UpdateDocument(d, fields)
        BY <2>1, <2>3
    <2>6. /\ StoreInv' /\ Shaped' /\ Grows
          /\ \A x : Holder(x) = documents[d].parent => Confined(x)
          /\ UNCHANGED <<projects, features>>
          /\ d \in DOMAIN documents
          /\ \A i \in DOMAIN documents : i # d => documents'[i] = documents[i]
          /\ \A c \in {"title", "source", "plan"} \ DOMAIN fields : documents'[d][c] = documents[d][c]
        BY <2>2, <2>4, <2>5, DocumentUpdated
    <2>7. Holder(r.target) = r.target
        BY <1>2 DEF Holder, Task
    <2>8. Writes(r, d) = {"source"}
        BY <1>1, <2>2 DEF Writes
    <2>9. ColumnsKept(r)
        BY <2>4, <2>6, <2>8 DEF ColumnsKept
    <2> QED BY <2>2, <2>6, <2>7, <2>9
<1>4. CASE CreateDocument(<<"task", t0>>, Unset, r.source, TRUE)
    <2>1. r.target \in Parents /\ r.target = <<"task", t0>> /\ r.source \in Bodies /\ Unset \in Bodies
        BY <1>2, BodiesOfTexts DEF Task, Parents
    <2>2. CreateDocument(r.target, Unset, r.source, TRUE)
        BY <1>4, <2>1
    <2> QED BY <2>1, <2>2, DocumentCreated, SameDocuments
<1> QED BY <1>1, <1>3, <1>4 DEF UpsertImplementationPlan

\* The plan of the target task goes.
LEMMA DeleteImplementationPlanApplied ==
    ASSUME StoreInv, Shaped, NEW r \in Messages \cup Commands, DeleteImplementationPlanRequest(r)
    PROVE  /\ StoreInv' /\ Shaped' /\ Grows /\ ColumnsKept(r) /\ Confined(r.target)
           /\ UNCHANGED <<projects, features>>
<1> DEFINE t0 == r.target[2]
<1>1. DeleteImplementationPlan(t0) /\ r.op = "DeleteImplementationPlan"
    BY DEF DeleteImplementationPlanRequest
<1>2. r.target = Task(t0)
    BY <1>1, Arguments, Targets
<1> HIDE DEF t0
<1>3. PICK D : D = PlansOf(t0)
    OBVIOUS
<1>4. /\ documents' = Erase(documents, D)
      /\ UNCHANGED <<sequences, projects, features, tasks, dependencies, pullRequests>>
    BY <1>1, <1>3 DEF DeleteImplementationPlan
<1>5. \A d \in D : d \in DOMAIN documents /\ documents[d].parent = Holder(r.target)
    BY <1>2, <1>3 DEF Holder, Task, PlansOf, DocumentsOf
<1> QED BY <1>4, <1>5, DocumentsErased, SameDocuments

------------------------------------------------------------------------------
\* The transaction of any request

\* It keeps the store in order.
LEMMA Applied ==
    ASSUME StoreInv, Shaped, NEW s \in Running, WellFormed(s), s.pc = "commit", Apply(s.request, s.row)
    PROVE  StoreInv' /\ Shaped' /\ Grows /\ ColumnsKept(s.request)
<1> DEFINE r == s.request
           row == s.row
<1>1. r \in Messages \cup Commands /\ RowShaped(s)
    BY DEF WellFormed, RowRead
<1>2. /\ UpdateProjectRequest(r, row) => row \in [archived : BOOLEAN, body : ProjectBodies]
      /\ UpdateFeatureRequest(r, row) => row \in [project : ProjectIDs, archived : BOOLEAN, body : FeatureBodies]
      /\ UpdateTaskRequest(r, row) => row \in [feature : FeatureIDs, body : TaskBodies]
    BY <1>1 DEF RowShaped, UpdateProjectRequest, UpdateFeatureRequest, UpdateTaskRequest
<1>3. Apply(r, row)
    OBVIOUS
<1> HIDE DEF r, row
<1>4. CASE CreateProjectRequest(r) \/ UpdateProjectRequest(r, row) \/ DeleteProjectRequest(r)
    BY <1>1, <1>2, <1>4, CreateProjectApplied, UpdateProjectApplied, DeleteProjectApplied DEF r
<1>5. CASE CreateFeatureRequest(r) \/ UpdateFeatureRequest(r, row) \/ DeleteFeatureRequest(r)
    BY <1>1, <1>2, <1>5, CreateFeatureApplied, UpdateFeatureApplied, DeleteFeatureApplied DEF r
<1>6. CASE CreateTaskRequest(r) \/ UpdateTaskRequest(r, row) \/ DeleteTaskRequest(r)
    BY <1>1, <1>2, <1>6, CreateTaskApplied, UpdateTaskApplied, DeleteTaskApplied DEF r
<1>7. CASE \/ AddDependencyRequest(r) \/ RemoveDependencyRequest(r)
           \/ AttachPullRequestRequest(r) \/ DetachPullRequestRequest(r)
    BY <1>1, <1>7, AddDependencyApplied, RemoveDependencyApplied, AttachPullRequestApplied,
       DetachPullRequestApplied DEF r
<1>8. CASE \/ AddDocumentRequest(r) \/ UpdateDocumentRequest(r, row) \/ DeleteDocumentRequest(r)
           \/ UpsertImplementationPlanRequest(r) \/ DeleteImplementationPlanRequest(r)
    BY <1>1, <1>8, AddDocumentApplied, UpdateDocumentApplied, DeleteDocumentApplied,
       UpsertImplementationPlanApplied, DeleteImplementationPlanApplied DEF r
<1> QED BY <1>3, <1>4, <1>5, <1>6, <1>7, <1>8 DEF Apply

Updates == {"UpdateProject", "UpdateFeature"}

\* It leaves the features and the projects alone unless it updates one, and
\* stays inside the containers that its guard has looked at.
LEMMA AppliedInside ==
    ASSUME StoreInv, Shaped, NEW s \in Running, WellFormed(s), s.pc = "commit", Apply(s.request, s.row),
           s.request.op \notin Updates
    PROVE  /\ s.request.op \notin Unguarded => Confined(s.request.target)
           /\ \A f \in DOMAIN features \cap DOMAIN features' : features'[f] = features[f]
           /\ \A q \in DOMAIN projects \cap DOMAIN projects' : projects'[q] = projects[q]
<1> DEFINE r == s.request
           row == s.row
<1>1. r \in Messages \cup Commands /\ RowShaped(s)
    BY DEF WellFormed, RowRead
<1>2. /\ ~UpdateProjectRequest(r, row) /\ ~UpdateFeatureRequest(r, row)
      /\ UpdateTaskRequest(r, row) => row \in [feature : FeatureIDs, body : TaskBodies]
    BY <1>1 DEF RowShaped, UpdateProjectRequest, UpdateFeatureRequest, UpdateTaskRequest, Updates
<1>3. Apply(r, row)
    OBVIOUS
<1> HIDE DEF r, row
<1>4. CASE CreateProjectRequest(r) \/ DeleteProjectRequest(r) \/ DeleteFeatureRequest(r)
    <2>1. r.op \in Unguarded
        BY <1>4 DEF CreateProjectRequest, DeleteProjectRequest, DeleteFeatureRequest, Unguarded
    <2> QED BY <1>1, <1>4, <2>1, CreateProjectApplied, DeleteProjectApplied, DeleteFeatureApplied DEF r
<1>5. CASE CreateFeatureRequest(r)
    BY <1>1, <1>5, CreateFeatureApplied DEF r
<1>6. CASE CreateTaskRequest(r) \/ UpdateTaskRequest(r, row) \/ DeleteTaskRequest(r)
    BY <1>1, <1>2, <1>6, CreateTaskApplied, UpdateTaskApplied, DeleteTaskApplied DEF r
<1>7. CASE \/ AddDependencyRequest(r) \/ RemoveDependencyRequest(r)
           \/ AttachPullRequestRequest(r) \/ DetachPullRequestRequest(r)
    BY <1>1, <1>7, AddDependencyApplied, RemoveDependencyApplied, AttachPullRequestApplied,
       DetachPullRequestApplied DEF r
<1>8. CASE \/ AddDocumentRequest(r) \/ UpdateDocumentRequest(r, row) \/ DeleteDocumentRequest(r)
           \/ UpsertImplementationPlanRequest(r) \/ DeleteImplementationPlanRequest(r)
    BY <1>1, <1>8, AddDocumentApplied, UpdateDocumentApplied, DeleteDocumentApplied,
       UpsertImplementationPlanApplied, DeleteImplementationPlanApplied DEF r
<1> QED BY <1>2, <1>3, <1>4, <1>5, <1>6, <1>7, <1>8 DEF Apply

------------------------------------------------------------------------------
\* The wall

\* What ArchiveWall says of a step that no flag overtook.
WallStands ==
    /\ \A f \in DOMAIN features \cap DOMAIN features' :
          ReadOnlyFeature(f) => FeatureContents(f)' = FeatureContents(f)
    /\ \A q \in DOMAIN projects \cap DOMAIN projects' :
          ReadOnlyProject(q) => ProjectContents(q)' = ProjectContents(q)

\* Nothing above a target that the guard let through is read-only.
LEMMA ClearAbove ==
    ASSUME StoreInv, NEW x, Clear(x)
    PROVE  /\ \A f \in FeaturesAbove(x) : ~ReadOnlyFeature(f)
           /\ \A q \in ProjectsAbove(x) : ~ReadOnlyProject(q)
<1>1. \A q \in ProjectsAbove(x) : ~ReadOnlyProject(q)
    BY DEF Clear, FrozenProjects, ReadOnlyProject
<1>2. \A f \in FeaturesAbove(x) : features[f].project \in ProjectsAbove(x) /\ ~features[f].archived
    BY DEF Clear, FrozenFeatures, FeaturesAbove, ProjectsAbove, StoreInv, ForeignKeys
<1> QED BY <1>1, <1>2 DEF ReadOnlyFeature

\* A feature that is as it was, in tables that are as they were.
LEMMA UntouchedFeature ==
    ASSUME NEW f, features'[f] = features[f], UNCHANGED <<tasks, dependencies, pullRequests, documents>>
    PROVE  FeatureContents(f)' = FeatureContents(f)
BY DEF FeatureContents, TasksOf, DocumentsOf, FeatureDependencies

\* The update of a project.
LEMMA UpdateProjectWall ==
    ASSUME StoreInv, Shaped, NEW s \in Running, WellFormed(s), s.pc = "commit", Guarded(s),
           UpdateProjectRequest(s.request, s.row)
    PROVE  WallStands
<1> DEFINE r == s.request
           q0 == r.target[2]
           new == MergedRow(r, s.row)
<1>1. /\ r \in Messages \cup Commands /\ r.op = "UpdateProject"
      /\ s.row \in [archived : BOOLEAN, body : ProjectBodies]
    BY DEF WellFormed, RowRead, RowShaped, UpdateProjectRequest
<1>2. /\ q0 \in DOMAIN projects /\ DOMAIN projects' = DOMAIN projects
      /\ projects'[q0] = new
      /\ \A q \in DOMAIN projects : q # q0 => projects'[q] = projects[q]
      /\ UNCHANGED <<features, tasks, dependencies, pullRequests, documents>>
    BY <1>1, UpdateProjectApplied
<1>3. ReadOnlyProject(q0) => new.body = projects[q0].body
    <2>1. CASE FlagOnly(r)
        <3>1. DOMAIN r.fields = {"archived"} /\ Names(r, ProjectColumns)
            BY <1>1, <2>1, Arguments DEF FlagOnly
        <3>2. new.body = s.row.body
            BY <1>1, <3>1, MergedProject
        <3> QED BY <1>1, <1>2, <2>1, <3>2 DEF Guarded, RowRead, Unchanged, ReadOnlyProject
    <2>2. CASE ~FlagOnly(r)
        <3>1. Clear(r.target) /\ r.target = Project(q0)
            BY <1>1, <2>2, Arguments, Targets DEF Guarded
        <3>2. q0 \in ProjectsAbove(r.target)
            BY <1>2, <3>1 DEF ProjectsAbove, Holder, Project
        <3> QED BY <3>1, <3>2, ClearAbove
    <2> QED BY <2>1, <2>2
<1> HIDE DEF q0, new
<1>4. ASSUME NEW f \in DOMAIN features PROVE FeatureContents(f)' = FeatureContents(f)
    BY <1>2, UntouchedFeature
<1>5. ASSUME NEW q \in DOMAIN projects, ReadOnlyProject(q) PROVE ProjectContents(q)' = ProjectContents(q)
    <2>1. projects'[q].body = projects[q].body
        BY <1>2, <1>3, <1>5
    <2> QED BY <1>2, <2>1 DEF ProjectContents, FeaturesOf, DocumentsOf
<1> QED BY <1>2, <1>4, <1>5 DEF WallStands

\* The update of a feature: what it writes to a read-only feature is what is
\* there, and it leaves a read-only project alone at both ends of a move.
LEMMA UpdateFeatureWall ==
    ASSUME StoreInv, Shaped, NEW s \in Running, WellFormed(s), s.pc = "commit", Guarded(s),
           UpdateFeatureRequest(s.request, s.row)
    PROVE  /\ WallStands
           /\ \A f \in DOMAIN features, q \in DOMAIN projects :
                 features'[f].project = q /\ projects[q].archived => features[f].project = q
<1> DEFINE r == s.request
           f0 == r.target[2]
           new == MergedRow(r, s.row)
<1>1. /\ r \in Messages \cup Commands /\ r.op = "UpdateFeature"
      /\ s.row \in [project : ProjectIDs, archived : BOOLEAN, body : FeatureBodies]
    BY DEF WellFormed, RowRead, RowShaped, UpdateFeatureRequest
<1>2. /\ f0 \in DOMAIN features /\ DOMAIN features' = DOMAIN features
      /\ features'[f0] = new
      /\ \A f \in DOMAIN features : f # f0 => features'[f] = features[f]
      /\ UNCHANGED <<projects, tasks, dependencies, pullRequests, documents>>
    BY <1>1, UpdateFeatureApplied
<1>3. Names(r, FeatureColumns) /\ r.target = Feature(f0)
    BY <1>1, Arguments, Targets
<1>4. ReadOnlyFeature(f0) => new.body = features[f0].body /\ new.project = features[f0].project
    <2>1. CASE FlagOnly(r)
        <3>1. new.body = s.row.body /\ new.project = s.row.project
            BY <1>1, <1>3, <2>1, MergedFeature DEF FlagOnly
        <3> QED BY <1>1, <1>2, <2>1, <3>1 DEF Guarded, RowRead, Unchanged
    <2>2. CASE ~FlagOnly(r)
        <3>1. Clear(r.target)
            BY <1>1, <2>2 DEF Guarded
        <3>2. f0 \in FeaturesAbove(r.target)
            BY <1>2, <1>3 DEF FeaturesAbove, Holder, Feature
        <3> QED BY <3>1, <3>2, ClearAbove
    <2> QED BY <2>1, <2>2
<1>5. ~OpenProject(new.project) => new.project = features[f0].project
    <2>1. CASE FlagOnly(r)
        <3>1. new.project = s.row.project
            BY <1>1, <1>3, <2>1, MergedFeature DEF FlagOnly
        <3> QED BY <1>1, <1>2, <2>1, <3>1 DEF Guarded, RowRead, Unchanged
    <2>2. CASE ~FlagOnly(r)
        BY <1>1, <2>2 DEF Guarded, Landing
    <2> QED BY <2>1, <2>2
<1> HIDE DEF f0, new
<1>6. ASSUME NEW f \in DOMAIN features, ReadOnlyFeature(f) PROVE FeatureContents(f)' = FeatureContents(f)
    <2>1. features'[f].body = features[f].body /\ features'[f].project = features[f].project
        BY <1>2, <1>4, <1>6
    <2> QED BY <1>2, <2>1 DEF FeatureContents, TasksOf, DocumentsOf, FeatureDependencies
<1>7. ASSUME NEW q \in DOMAIN projects, ReadOnlyProject(q), NEW f \in DOMAIN features
      PROVE  features'[f].project = q <=> features[f].project = q
    <2>1. CASE f # f0
        BY <1>2, <2>1
    <2>2. CASE f = f0 /\ features[f0].project = q
        BY <1>2, <1>4, <1>7, <2>2 DEF ReadOnlyFeature, ReadOnlyProject
    <2>3. CASE f = f0 /\ new.project = q
        BY <1>2, <1>5, <1>7, <2>3 DEF OpenProject, ReadOnlyProject
    <2> QED BY <1>2, <2>1, <2>2, <2>3
<1>8. ASSUME NEW q \in DOMAIN projects, ReadOnlyProject(q) PROVE ProjectContents(q)' = ProjectContents(q)
    <2>1. FeaturesOf(q)' = FeaturesOf(q)
        BY <1>2, <1>7, <1>8 DEF FeaturesOf
    <2> QED BY <1>2, <2>1 DEF ProjectContents, DocumentsOf
<1> QED BY <1>2, <1>6, <1>7, <1>8 DEF WallStands, ReadOnlyProject

\* An update is applied as what it is.
LEMMA UpdateOf ==
    ASSUME NEW r, NEW row, Apply(r, row)
    PROVE  /\ r.op = "UpdateProject" => UpdateProjectRequest(r, row)
           /\ r.op = "UpdateFeature" => UpdateFeatureRequest(r, row)
BY DEF Apply, CreateProjectRequest, UpdateProjectRequest, DeleteProjectRequest, CreateFeatureRequest,
   UpdateFeatureRequest, DeleteFeatureRequest, CreateTaskRequest, UpdateTaskRequest, DeleteTaskRequest,
   AddDependencyRequest, RemoveDependencyRequest, AttachPullRequestRequest, DetachPullRequestRequest,
   AddDocumentRequest, UpdateDocumentRequest, DeleteDocumentRequest, UpsertImplementationPlanRequest,
   DeleteImplementationPlanRequest

\* Any request that has passed its guard.
LEMMA WallStep ==
    ASSUME StoreInv, Shaped, NEW s \in Running, WellFormed(s), s.pc = "commit", Guarded(s),
           s.request.op \notin Unguarded, Apply(s.request, s.row)
    PROVE  WallStands
<1>1. CASE s.request.op \notin Updates
    <2>1. Confined(s.request.target)
        BY <1>1, AppliedInside
    <2>2. Clear(s.request.target)
        BY <1>1 DEF Updates, FlagOnly, Guarded
    <2>3. /\ \A f \in FeaturesAbove(s.request.target) : ~ReadOnlyFeature(f)
          /\ \A q \in ProjectsAbove(s.request.target) : ~ReadOnlyProject(q)
        BY <2>2, ClearAbove
    <2> QED BY <2>1, <2>3 DEF Confined, WallStands
<1>2. CASE s.request.op = "UpdateProject"
    <2>1. UpdateProjectRequest(s.request, s.row)
        BY <1>2, UpdateOf
    <2> QED BY <2>1, UpdateProjectWall
<1>3. CASE s.request.op = "UpdateFeature"
    <2>1. UpdateFeatureRequest(s.request, s.row)
        BY <1>3, UpdateOf
    <2> QED BY <2>1, UpdateFeatureWall
<1> QED BY <1>1, <1>2, <1>3 DEF Updates

------------------------------------------------------------------------------
\* What the other processes may rely on

\* A step that sets no flag, taken by a process that no flag overtook: nothing
\* becomes read-only by it, and what is read-only stays as it is.
Calm ==
    /\ Grows
    /\ \A f \in DOMAIN features \cap DOMAIN features' : features'[f].archived => features[f].archived
    /\ \A q \in DOMAIN projects \cap DOMAIN projects' : projects'[q].archived => projects[q].archived
    /\ \A f \in DOMAIN features \cap DOMAIN features', q \in DOMAIN projects' :
          features'[f].project = q /\ projects'[q].archived => features[f].project = q
    /\ \A f \in DOMAIN features \cap DOMAIN features' :
          ReadOnlyFeature(f) => /\ features'[f].body = features[f].body
                                /\ features'[f].project = features[f].project
    /\ \A q \in DOMAIN projects \cap DOMAIN projects' :
          projects[q].archived => projects'[q].body = projects[q].body

\* Within a feature or a project that stands, its own columns stand.
LEMMA WallKeepsColumns ==
    ASSUME WallStands
    PROVE  /\ \A f \in DOMAIN features \cap DOMAIN features' :
                 ReadOnlyFeature(f) => /\ features'[f].body = features[f].body
                                       /\ features'[f].project = features[f].project
           /\ \A q \in DOMAIN projects \cap DOMAIN projects' :
                 projects[q].archived => projects'[q].body = projects[q].body
<1>1. ASSUME NEW f, FeatureContents(f)' = FeatureContents(f)
      PROVE  features'[f].body = features[f].body /\ features'[f].project = features[f].project
    BY <1>1 DEF FeatureContents
<1>2. ASSUME NEW q, ProjectContents(q)' = ProjectContents(q)
      PROVE  projects'[q].body = projects[q].body
    BY <1>2 DEF ProjectContents
<1> QED BY <1>1, <1>2 DEF WallStands, ReadOnlyProject

\* The transaction of a request that kept to its guard is calm if it sets no flag.
LEMMA CalmCommit ==
    ASSUME StoreInv, Shaped, NEW s \in Running, WellFormed(s), s.pc = "commit",
           InFlight(s) => Guarded(s), Apply(s.request, s.row), ~FlagSet
    PROVE  Calm
<1>1. StoreInv' /\ Grows
    BY Applied
<1>2. /\ \A f \in DOMAIN features \cap DOMAIN features' : features'[f].archived => features[f].archived
      /\ \A q \in DOMAIN projects \cap DOMAIN projects' : projects'[q].archived => projects[q].archived
    BY DEF FlagSet
<1>3. CASE s.request.op \notin Updates
    <2>1. /\ \A f \in DOMAIN features \cap DOMAIN features' : features'[f] = features[f]
          /\ \A q \in DOMAIN projects \cap DOMAIN projects' : projects'[q] = projects[q]
        BY <1>3, AppliedInside
    <2> QED BY <1>1, <1>2, <2>1 DEF Calm
<1>4. CASE s.request.op \in Updates
    <2>1. Guarded(s) /\ s.request.op \notin Unguarded
        BY <1>4 DEF InFlight, Updates, Unguarded
    <2>2. WallStands
        BY <2>1, WallStep
    <2>3. \A f \in DOMAIN features \cap DOMAIN features', q \in DOMAIN projects' :
              features'[f].project = q /\ projects'[q].archived => features[f].project = q
        <3>1. CASE s.request.op = "UpdateProject"
            <4>1. s.request \in Messages \cup Commands /\ s.row \in [archived : BOOLEAN, body : ProjectBodies]
                BY <3>1 DEF WellFormed, RowRead, RowShaped
            <4>2. features' = features
                BY <3>1, <4>1, UpdateOf, UpdateProjectApplied
            <4> QED BY <4>2
        <3>2. CASE s.request.op = "UpdateFeature"
            <4>1. /\ s.request \in Messages \cup Commands
                  /\ s.row \in [project : ProjectIDs, archived : BOOLEAN, body : FeatureBodies]
                BY <3>2 DEF WellFormed, RowRead, RowShaped
            <4>2. projects' = projects
                BY <3>2, <4>1, UpdateOf, UpdateFeatureApplied
            <4> QED BY <2>1, <3>2, <4>2, UpdateOf, UpdateFeatureWall
        <3> QED BY <1>4, <3>1, <3>2 DEF Updates
    <2> QED BY <1>1, <1>2, <2>2, <2>3, WallKeepsColumns DEF Calm
<1> QED BY <1>3, <1>4

\* A step that only reads is calm.
LEMMA CalmRead ==
    ASSUME StoreInv, UNCHANGED storeVars PROVE Calm
<1>1. UNCHANGED <<sequences, projects, features, tasks, dependencies, pullRequests, documents>>
    BY DEF storeVars, tables
<1>2. Grows
    BY <1>1, GrowsByNothing
<1> QED BY <1>1, <1>2 DEF Calm

\* Above a target that has existed, nothing appears and nothing freezes.
LEMMA NothingFreezes ==
    ASSUME StoreInv, StoreInv', Calm, NEW x \in Target, Known(x)
    PROVE  /\ Known(x)'
           /\ Holder(x)' = Holder(x) \/ (x[1] = "document" /\ Holder(x)' = x)
           /\ FeaturesAbove(x)' \subseteq FeaturesAbove(x)
           /\ FrozenFeatures(x)' \subseteq FrozenFeatures(x)
           /\ FrozenProjects(x)' \subseteq FrozenProjects(x)
<1>1. /\ x[1] \in Entities /\ x[2] \in Int /\ x[2] < sequences[x[1]]
      /\ sequences[x[1]] \in Nat /\ sequences'[x[1]] \in Nat
      /\ sequences'[x[1]] >= sequences[x[1]]
    BY DEF Known, Calm, Grows, StoreInv, StoreTypeOK, Target, Parents, NoTarget, ProjectIDs, FeatureIDs, TaskIDs,
       DocumentIDs
<1>2. Known(x)'
    BY <1>1 DEF Known
<1>3. /\ x[1] = "feature" /\ x[2] \in DOMAIN features' => x[2] \in DOMAIN features
      /\ x[1] = "task" /\ x[2] \in DOMAIN tasks' => x[2] \in DOMAIN tasks
      /\ x[1] = "document" /\ x[2] \in DOMAIN documents' =>
            x[2] \in DOMAIN documents /\ documents'[x[2]].parent = documents[x[2]].parent
    BY <1>1 DEF Calm, Grows
<1>4. Holder(x)' = Holder(x) \/ (x[1] = "document" /\ Holder(x)' = x)
    BY <1>3 DEF Holder
<1>5. PICK h : h = Holder(x)
    OBVIOUS
<1>6. /\ \A f \in DOMAIN features' : h = Feature(f) => f \in DOMAIN features
      /\ \A t \in DOMAIN tasks' : h = Task(t) => t \in DOMAIN tasks
    <2>1. CASE h = x
        BY <1>3, <2>1 DEF Feature, Task
    <2>2. CASE x[1] = "document" /\ x[2] \in DOMAIN documents /\ h = documents[x[2]].parent
        <3>1. Exists(h)
            BY <2>2 DEF StoreInv, ForeignKeys
        <3> QED BY <3>1 DEF Exists, Feature, Task
    <2> QED BY <1>5, <2>1, <2>2 DEF Holder
<1>7. ASSUME NEW f \in FeaturesAbove(x)' PROVE f \in FeaturesAbove(x)
    <2>1. CASE x[1] = "document" /\ Holder(x)' = x
        BY <1>7, <2>1 DEF FeaturesAbove, Feature, Task
    <2>2. CASE Holder(x)' = h /\ h = Feature(f)
        BY <1>5, <1>6, <1>7, <2>2 DEF FeaturesAbove
    <2>3. ASSUME NEW t \in DOMAIN tasks', h = Task(t), tasks'[t].feature = f
          PROVE  f \in FeaturesAbove(x)
        <3>1. t \in DOMAIN tasks /\ tasks[t].feature = f
            BY <1>6, <2>3 DEF Calm, Grows
        <3> QED BY <1>5, <2>3, <3>1 DEF FeaturesAbove, StoreInv, ForeignKeys
    <2>4. Holder(x)' = h => h = Feature(f) \/ \E t \in DOMAIN tasks' : h = Task(t) /\ tasks'[t].feature = f
        BY <1>7 DEF FeaturesAbove
    <2> QED BY <1>4, <1>5, <2>1, <2>2, <2>3, <2>4
<1>8. FrozenFeatures(x)' \subseteq FrozenFeatures(x)
    <2>1. ASSUME NEW f \in FrozenFeatures(x)' PROVE f \in FrozenFeatures(x)
        <3>1. f \in FeaturesAbove(x) /\ f \in DOMAIN features /\ f \in DOMAIN features' /\ features'[f].archived
            BY <1>7, <2>1 DEF FrozenFeatures, FeaturesAbove
        <3> QED BY <3>1 DEF FrozenFeatures, Calm
    <2> QED BY <2>1
<1>9. FrozenProjects(x)' \subseteq FrozenProjects(x)
    <2>1. ASSUME NEW q \in FrozenProjects(x)' PROVE q \in FrozenProjects(x)
        <3>1. q \in DOMAIN projects' /\ projects'[q].archived
            BY <2>1 DEF FrozenProjects, ProjectsAbove
        <3>2. q \in DOMAIN projects /\ projects[q].archived
            BY <3>1 DEF Calm, Grows
        <3>3. Holder(x)' = Project(q) \/ \E f \in FeaturesAbove(x)' : features'[f].project = q
            BY <2>1 DEF FrozenProjects, ProjectsAbove
        <3>4. CASE Holder(x)' = Project(q)
            <4>1. Holder(x) = Project(q)
                BY <1>4, <3>4 DEF Project
            <4> QED BY <3>2, <4>1 DEF FrozenProjects, ProjectsAbove
        <3>5. ASSUME NEW f \in FeaturesAbove(x)', features'[f].project = q PROVE q \in FrozenProjects(x)
            <4>1. f \in FeaturesAbove(x) /\ f \in DOMAIN features /\ f \in DOMAIN features'
                BY <1>7, <3>5 DEF FeaturesAbove
            <4>2. features[f].project = q
                BY <3>1, <3>5, <4>1 DEF Calm
            <4> QED BY <3>2, <4>1, <4>2 DEF FrozenProjects, ProjectsAbove
        <3> QED BY <3>3, <3>4, <3>5
    <2> QED BY <2>1
<1> QED BY <1>2, <1>4, <1>7, <1>8, <1>9

\* At the target itself the guard has everything still ahead of it, at any time.
LEMMA AheadAtFirst ==
    ASSUME NEW s, s.request.target \in Target, s.container = s.request.target
    PROVE  Ahead(s) /\ Ahead(s)'
<1> DEFINE x == s.request.target
<1>1. (Holder(x) = x /\ Holder(x)' = x) \/ x[1] = "document"
    BY DEF Holder
<1>2. CASE x[1] = "document"
    BY <1>2 DEF Ahead
<1>3. CASE x[1] = "task"
    BY <1>1, <1>3 DEF Ahead
<1>4. CASE x[1] = "feature"
    BY <1>1, <1>4 DEF Ahead, FeaturesAbove, Feature, Task
<1>5. CASE x[1] = "project"
    BY <1>1, <1>5 DEF Ahead, FeaturesAbove, FrozenFeatures, ProjectsAbove, FrozenProjects, Feature, Task, Project
<1> QED BY <1>2, <1>3, <1>4, <1>5 DEF Ahead

\* No project freezes.
LEMMA ProjectsStayOpen ==
    ASSUME Calm, NEW q \in DOMAIN projects', projects'[q].archived
    PROVE  q \in DOMAIN projects /\ projects[q].archived
BY DEF Calm, Grows

\* What a guard has established is not undone by a calm step of another process.
LEMMA GuardedStays ==
    ASSUME StoreInv, StoreInv', Calm, NEW s \in Running, WellFormed(s), InFlight(s), Guarded(s)
    PROVE  Guarded(s)'
<1> DEFINE x == s.request.target
           i == x[2]
<1>1. x \in Target /\ s.request \in Messages \cup Commands
    BY Targets DEF WellFormed, InFlight, Target
<1>2. RowRead(s) => Known(x) /\ Known(x)'
    BY <1>1, NothingFreezes DEF Guarded
<1>3. ASSUME FlagOnly(s.request), RowRead(s) PROVE Unchanged(s)'
    <2>1. Unchanged(s)
        BY <1>3 DEF Guarded
    <2>2. ASSUME s.request.op = "UpdateProject", i \in DOMAIN projects', projects'[i].archived
          PROVE  s.row.body = projects'[i].body
        <3>1. i \in DOMAIN projects /\ projects[i].archived
            BY <2>2, ProjectsStayOpen
        <3>2. projects'[i].body = projects[i].body
            BY <2>2, <3>1 DEF Calm
        <3> QED BY <2>1, <2>2, <3>1, <3>2 DEF Unchanged
    <2>3. ASSUME s.request.op = "UpdateFeature", i \in DOMAIN features' PROVE i \in DOMAIN features
        <3>1. x = Feature(i) /\ i \in FeatureIDs
            BY <1>1, <2>3, Arguments, Targets
        <3>2. i < sequences["feature"] /\ sequences["feature"] \in Nat
            BY <1>2, <1>3, <3>1 DEF Known, Feature, StoreInv, StoreTypeOK, Entities
        <3> QED BY <2>3, <3>1, <3>2 DEF Calm, Grows, FeatureIDs
    <2>4. ASSUME s.request.op = "UpdateFeature", i \in DOMAIN features', ReadOnlyFeature(i)'
          PROVE  s.row.body = features'[i].body /\ s.row.project = features'[i].project
        <3>1. i \in DOMAIN features /\ features'[i].project \in DOMAIN projects'
            BY <2>3, <2>4 DEF StoreInv, ForeignKeys
        <3>2. ReadOnlyFeature(i)
            <4>1. CASE features'[i].archived
                BY <2>4, <3>1, <4>1 DEF Calm, ReadOnlyFeature
            <4>2. CASE projects'[features'[i].project].archived
                <5>1. features[i].project = features'[i].project
                    BY <2>4, <3>1, <4>2 DEF Calm
                <5> QED BY <3>1, <4>2, <5>1, ProjectsStayOpen DEF ReadOnlyFeature, ReadOnlyProject
            <4> QED BY <2>4, <4>1, <4>2 DEF ReadOnlyFeature, ReadOnlyProject
        <3> QED BY <2>1, <2>4, <3>1, <3>2 DEF Calm, Unchanged
    <2>5. ASSUME s.request.op = "UpdateFeature", i \in DOMAIN features', ~OpenProject(s.row.project)'
          PROVE  s.row.project = features'[i].project
        <3>1. ~OpenProject(s.row.project) /\ projects[s.row.project].archived /\ i \in DOMAIN features
            BY <2>3, <2>5, ProjectsStayOpen DEF OpenProject
        <3>2. s.row.project = features[i].project
            BY <2>1, <2>5, <3>1 DEF Unchanged
        <3>3. ReadOnlyFeature(i)
            BY <3>1, <3>2 DEF ReadOnlyFeature, ReadOnlyProject
        <3> QED BY <2>5, <3>1, <3>2, <3>3 DEF Calm
    <2> QED BY <2>2, <2>4, <2>5 DEF Unchanged
<1>4. ASSUME ~FlagOnly(s.request), s.pc = "guard" PROVE Ahead(s)'
    <2>1. CASE s.container = x
        BY <1>1, <2>1, AheadAtFirst
    <2>2. CASE s.container # x
        <3>1. Known(x) /\ Ahead(s)
            BY <1>2, <1>4, <2>2 DEF RowRead, Guarded
        <3>2. /\ Holder(x)' = Holder(x) \/ (x[1] = "document" /\ Holder(x)' = x)
              /\ FeaturesAbove(x)' \subseteq FeaturesAbove(x)
              /\ FrozenFeatures(x)' \subseteq FrozenFeatures(x)
              /\ FrozenProjects(x)' \subseteq FrozenProjects(x)
            BY <1>1, <3>1, NothingFreezes
        <3>3. x[1] = "project" => Holder(x) = x
            BY DEF Holder
        <3> QED BY <3>1, <3>2, <3>3 DEF Ahead
    <2> QED BY <2>1, <2>2
<1>5. ASSUME ~FlagOnly(s.request), s.pc # "guard" PROVE Clear(x)'
    <2>1. Known(x) /\ Clear(x)
        BY <1>2, <1>5 DEF RowRead, Running, InFlight, Guarded
    <2> QED BY <1>1, <2>1, NothingFreezes DEF Clear
<1>6. ASSUME ~FlagOnly(s.request) PROVE Landing(s)'
    <2>1. Landing(s)
        BY <1>6 DEF Guarded
    <2>2. \A q : OpenProject(q) => OpenProject(q)'
        BY ProjectsStayOpen DEF OpenProject
    <2>3. PICK q : q = MergedRow(s.request, s.row).project
        OBVIOUS
    <2> QED BY <2>1, <2>2, <2>3 DEF Landing
<1>7. FlagOnly(s.request) /\ RowRead(s) => s.pc = "commit"
    BY DEF Guarded
<1> QED BY <1>2, <1>3, <1>4, <1>5, <1>6, <1>7 DEF Guarded

------------------------------------------------------------------------------
\* The steps of a request

\* A process that moves on, with all that it has to know there.
Moved(p, s) ==
    /\ process' = [process EXCEPT ![p] = s]
    /\ s \in Running /\ WellFormed(s)
    /\ p \notin overtaken /\ InFlight(s) => Guarded(s)

\* A request begins with nothing established.
LEMMA StartStep ==
    ASSUME ServiceInv, NEW p \in Processes, NEW r \in Messages \cup Commands, Start(p, r)
    PROVE  (\E s : Moved(p, s)) /\ UNCHANGED storeVars
<1> DEFINE s == [pc |-> IF r.op \in Unguarded THEN "commit" ELSE "guard",
                 request |-> r, container |-> r.target, row |-> <<>>]
<1>1. process' = [process EXCEPT ![p] = s] /\ UNCHANGED storeVars
    BY DEF Start
<1>2. r.target \in Target
    BY Targets DEF Target
<1>3. /\ s.pc \in {"guard", "commit"}
      /\ s.pc = "guard" <=> r.op \notin Unguarded
      /\ s.request = r /\ s.container = r.target /\ s.row = <<>>
    OBVIOUS
<1>4. s \in Running
    BY <1>2 DEF Running, Target
<1> HIDE DEF s
<1>5. WellFormed(s)
    BY <1>2, <1>3 DEF WellFormed, RowRead, RowShaped, Unguarded
<1>6. Ahead(s)
    BY <1>2, <1>3, AheadAtFirst
<1>7. InFlight(s) => Guarded(s)
    BY <1>3, <1>6 DEF InFlight, Guarded, RowRead, Landing
<1> QED BY <1>1, <1>4, <1>5, <1>7 DEF Moved

\* Three fields of a record of four.
LEMMA ThreeFields ==
    ASSUME NEW o, DOMAIN o = {"pc", "request", "container", "row"}, NEW pc, NEW c, NEW k
    PROVE  [o EXCEPT !.pc = pc, !.container = c, !.row = k]
             = [pc |-> pc, request |-> o.request, container |-> c, row |-> k]
<1> DEFINE e == [o EXCEPT !.pc = pc, !.container = c, !.row = k]
<1>1. e = [f \in {"pc", "request", "container", "row"} |-> e[f]]
    OBVIOUS
<1>2. e["pc"] = pc /\ e["request"] = o.request /\ e["container"] = c /\ e["row"] = k
    OBVIOUS
<1> HIDE DEF e
<1>3. e = [pc |-> pc, request |-> o.request, container |-> c, row |-> k]
    BY <1>1, <1>2
<1> QED BY <1>3 DEF e

\* The state of a process after a query.
LEMMA Kept ==
    ASSUME process \in [Processes -> Running], NEW p \in Processes, NEW row, NEW pc, NEW c,
           Keep(p, row, pc, c), NEW o, o = process[p]
    PROVE  /\ UNCHANGED storeVars
           /\ \E s : /\ process' = [process EXCEPT ![p] = s]
                     /\ s = [pc |-> pc, request |-> o.request, container |-> c,
                             row |-> IF /\ o.request.op \in {"UpdateProject", "UpdateFeature", "UpdateTask",
                                                             "UpdateDocument"}
                                        /\ o.request.target = o.container THEN row ELSE o.row]
<1> DEFINE k == IF /\ o.request.op \in {"UpdateProject", "UpdateFeature", "UpdateTask", "UpdateDocument"}
                   /\ o.request.target = o.container THEN row ELSE o.row
<1>1. process' = [process EXCEPT ![p].pc = pc, ![p].container = c, ![p].row = k] /\ UNCHANGED storeVars
    BY DEF Keep
<1> HIDE DEF k
<1>2. process' = [process EXCEPT ![p] = [o EXCEPT !.pc = pc, !.container = c, !.row = k]]
    BY <1>1
<1>3. DOMAIN o = {"pc", "request", "container", "row"}
    BY DEF Running
<1>4. [o EXCEPT !.pc = pc, !.container = c, !.row = k]
        = [pc |-> pc, request |-> o.request, container |-> c, row |-> k]
    BY <1>3, ThreeFields
<1> QED BY <1>1, <1>2, <1>4 DEF k

\* What a process knows at its guard, by the container that it looks at.
LEMMA AtGuard ==
    ASSUME ServiceInv, NEW p \in Processes, NEW o, o = process[p], o.pc = "guard"
    PROVE  /\ o \in Running /\ o.request \in Messages \cup Commands /\ o.request.op \notin Unguarded
           /\ o.request.target \in Target
           /\ o.container \in Target
           /\ o.container # o.request.target => RowShaped(o)
           /\ p \notin overtaken => Guarded(o)
           /\ p \notin overtaken /\ o.container # o.request.target => Known(o.request.target)
           /\ p \notin overtaken /\ FlagOnly(o.request) => o.container = o.request.target
           /\ p \notin overtaken /\ ~FlagOnly(o.request) => Ahead(o) /\ Landing(o)
<1>1. o \in Running /\ WellFormed(o)
    BY DEF ServiceInv
<1>2. /\ o.request \in Messages \cup Commands /\ o.request.op \notin Unguarded /\ o.container \in Target
      /\ RowRead(o) => RowShaped(o)
    BY <1>1 DEF WellFormed
<1>3. o.request.target \in Target
    BY <1>2, Targets DEF Target
<1>4. p \notin overtaken => Guarded(o)
    BY <1>2 DEF ServiceInv, InFlight
<1> QED BY <1>1, <1>2, <1>3, <1>4 DEF RowRead, Guarded

\* The document is found: its parent is looked at next.
LEMMA GuardDocumentStep ==
    ASSUME ServiceInv, NEW p \in Processes, GuardDocument(p)
    PROVE  (\E s : Moved(p, s)) /\ UNCHANGED storeVars
<1>1. PICK o : o = process[p]
    OBVIOUS
<1> DEFINE d == o.container[2]
           r == o.request
           x == o.request.target
<1>2. PICK row, c : row = documents[d] /\ c = documents[d].parent
    OBVIOUS
<1>3. o.pc = "guard" /\ o.container[1] = "document" /\ d \in DOMAIN documents /\ Keep(p, row, "guard", c)
    BY <1>1, <1>2 DEF GuardDocument
<1>4. PICK s : /\ process' = [process EXCEPT ![p] = s]
               /\ s = [pc |-> "guard", request |-> r, container |-> c,
                       row |-> IF /\ r.op \in {"UpdateProject", "UpdateFeature", "UpdateTask", "UpdateDocument"}
                                  /\ x = o.container THEN row ELSE o.row]
    BY <1>1, <1>3, Kept DEF ServiceInv
<1>5. /\ o \in Running /\ r \in Messages \cup Commands /\ r.op \notin Unguarded /\ x \in Target
      /\ o.container \in Target
      /\ o.container # x => RowShaped(o)
      /\ p \notin overtaken => Guarded(o)
      /\ p \notin overtaken /\ o.container # x => Known(x)
      /\ p \notin overtaken /\ FlagOnly(r) => o.container = x
      /\ p \notin overtaken /\ ~FlagOnly(r) => Ahead(o) /\ Landing(o)
    BY <1>1, <1>3, AtGuard
<1>6. row \in DocumentRow /\ c \in Parents /\ o.container = Document(d)
    BY <1>2, <1>3, <1>5 DEF ServiceInv, StoreInv, StoreTypeOK, IsTable, DocumentRow, Target, Parents, NoTarget,
       Document
<1>7. s \in Running
    BY <1>4, <1>5, <1>6 DEF Running
<1>8. /\ s.pc = "guard" /\ s.request = r /\ s.container = c
      /\ o.container # x => s.row = o.row
    BY <1>4
<1>9. o.container = x => r.op \notin {"UpdateProject", "UpdateFeature", "UpdateTask"}
    BY <1>3, <1>5, Arguments
<1>10. WellFormed(s)
    BY <1>5, <1>6, <1>8, <1>9 DEF WellFormed, RowShaped, Target
<1>11. ASSUME p \notin overtaken PROVE Guarded(s)
    <2>1. ~FlagOnly(r)
        BY <1>5, <1>9, <1>11 DEF FlagOnly
    <2>2. o.container = x
        BY <1>3, <1>5, <1>11, <2>1 DEF Ahead
    <2>3. Holder(x) = c /\ x[1] = "document" /\ Known(x)
        BY <1>2, <1>3, <1>6, <2>2 DEF Holder, Document, Known, Entities, ServiceInv, StoreInv, SequencesAhead
    <2>4. Ahead(s)
        <3>1. c[1] # "document"
            BY <1>6 DEF Parents
        <3>2. c[1] = "feature" => FeaturesAbove(x) \subseteq {c[2]}
            BY <2>3 DEF FeaturesAbove, Feature, Task
        <3>3. c[1] = "project" => FrozenFeatures(x) = {} /\ FrozenProjects(x) \subseteq {c[2]}
            BY <2>3 DEF FeaturesAbove, FrozenFeatures, ProjectsAbove, FrozenProjects, Feature, Task, Project
        <3> QED BY <1>8, <2>3, <3>1, <3>2, <3>3 DEF Ahead
    <2>5. Landing(s)
        BY <1>5, <1>8, <1>9, <2>2 DEF Landing
    <2> QED BY <1>8, <2>1, <2>3, <2>4, <2>5 DEF Guarded
<1> QED BY <1>3, <1>4, <1>7, <1>10, <1>11 DEF Moved, Keep

\* The task is found: its feature is looked at next.
LEMMA GuardTaskStep ==
    ASSUME ServiceInv, NEW p \in Processes, GuardTask(p)
    PROVE  (\E s : Moved(p, s)) /\ UNCHANGED storeVars
<1>1. PICK o : o = process[p]
    OBVIOUS
<1> DEFINE t == o.container[2]
           r == o.request
           x == o.request.target
<1>2. PICK row, c : row = tasks[t] /\ c = <<"feature", tasks[t].feature>>
    OBVIOUS
<1>3. o.pc = "guard" /\ o.container[1] = "task" /\ t \in DOMAIN tasks /\ Keep(p, row, "guard", c)
    BY <1>1, <1>2 DEF GuardTask
<1>4. PICK s : /\ process' = [process EXCEPT ![p] = s]
               /\ s = [pc |-> "guard", request |-> r, container |-> c,
                       row |-> IF /\ r.op \in {"UpdateProject", "UpdateFeature", "UpdateTask", "UpdateDocument"}
                                  /\ x = o.container THEN row ELSE o.row]
    BY <1>1, <1>3, Kept DEF ServiceInv
<1>5. /\ o \in Running /\ r \in Messages \cup Commands /\ r.op \notin Unguarded /\ x \in Target
      /\ o.container \in Target
      /\ o.container # x => RowShaped(o)
      /\ p \notin overtaken => Guarded(o)
      /\ p \notin overtaken /\ o.container # x => Known(x)
      /\ p \notin overtaken /\ FlagOnly(r) => o.container = x
      /\ p \notin overtaken /\ ~FlagOnly(r) => Ahead(o) /\ Landing(o)
    BY <1>1, <1>3, AtGuard
<1>6. /\ row \in [feature : FeatureIDs, body : TaskBodies] /\ row \in TaskRow
      /\ c \in Parents /\ o.container = Task(t)
    BY <1>2, <1>3, <1>5 DEF ServiceInv, StoreInv, StoreTypeOK, IsTable, TaskRow, Target, Parents, NoTarget,
       Task, Shaped
<1>7. s \in Running
    BY <1>4, <1>5, <1>6 DEF Running
<1>8. /\ s.pc = "guard" /\ s.request = r /\ s.container = c
      /\ o.container # x => s.row = o.row
      /\ o.container = x /\ r.op = "UpdateTask" => s.row = row
    BY <1>4
<1>9. o.container = x => r.op \notin {"UpdateProject", "UpdateFeature"}
    BY <1>3, <1>5, Arguments
<1>10. WellFormed(s)
    BY <1>5, <1>6, <1>8, <1>9 DEF WellFormed, RowShaped, Target
<1>11. ASSUME p \notin overtaken PROVE Guarded(s)
    <2>1. ~FlagOnly(r)
        BY <1>5, <1>9, <1>11 DEF FlagOnly
    <2>2. Known(x)
        BY <1>3, <1>5, <1>6, <1>11 DEF Known, Task, Entities, ServiceInv, StoreInv, SequencesAhead
    <2>3. Holder(x) = Task(t) \/ (x[1] = "document" /\ Holder(x) = x)
        BY <1>3, <1>5, <1>6, <1>11, <2>1 DEF Ahead
    <2>4. Ahead(s)
        <3>1. c[1] = "feature" /\ c[2] = tasks[t].feature
            BY <1>2
        <3>2. FeaturesAbove(x) \subseteq {tasks[t].feature} /\ Holder(x)[1] # "project"
            BY <2>3 DEF FeaturesAbove, Feature, Task
        <3> QED BY <1>8, <3>1, <3>2 DEF Ahead
    <2>5. Landing(s)
        <3>1. r.op # "UpdateFeature"
            BY <1>3, <1>5, <1>9, <1>11, <2>1 DEF Landing, Project
        <3> QED BY <1>8, <3>1 DEF Landing
    <2> QED BY <1>8, <2>1, <2>2, <2>4, <2>5 DEF Guarded
<1> QED BY <1>3, <1>4, <1>7, <1>10, <1>11 DEF Moved, Keep

\* The feature is found and lets the request through: its project is looked at
\* next, unless the request is of the flag only.
LEMMA GuardFeatureStep ==
    ASSUME ServiceInv, NEW p \in Processes, GuardFeature(p)
    PROVE  (\E s : Moved(p, s)) /\ UNCHANGED storeVars
<1>1. PICK o : o = process[p]
    OBVIOUS
<1> DEFINE f == o.container[2]
           r == o.request
           x == o.request.target
<1>2. PICK row, c, pc : /\ row = features[f] /\ c = <<"project", features[f].project>>
                        /\ pc = IF FlagOnly(r) THEN "commit" ELSE "guard"
    OBVIOUS
<1>3. /\ o.pc = "guard" /\ o.container[1] = "feature" /\ f \in DOMAIN features
      /\ Admits(r, row) /\ Keep(p, row, pc, c)
    BY <1>1, <1>2 DEF GuardFeature
<1>4. PICK s : /\ process' = [process EXCEPT ![p] = s]
               /\ s = [pc |-> pc, request |-> r, container |-> c,
                       row |-> IF /\ r.op \in {"UpdateProject", "UpdateFeature", "UpdateTask", "UpdateDocument"}
                                  /\ x = o.container THEN row ELSE o.row]
    BY <1>1, <1>3, Kept DEF ServiceInv
<1>5. /\ o \in Running /\ r \in Messages \cup Commands /\ r.op \notin Unguarded /\ x \in Target
      /\ o.container \in Target
      /\ o.container # x => RowShaped(o)
      /\ p \notin overtaken => Guarded(o)
      /\ p \notin overtaken /\ o.container # x => Known(x)
      /\ p \notin overtaken /\ FlagOnly(r) => o.container = x
      /\ p \notin overtaken /\ ~FlagOnly(r) => Ahead(o) /\ Landing(o)
    BY <1>1, <1>3, AtGuard
<1>6. /\ row \in [project : ProjectIDs, archived : BOOLEAN, body : FeatureBodies] /\ row \in FeatureRow
      /\ c \in Parents /\ o.container = Feature(f)
    BY <1>2, <1>3, <1>5 DEF ServiceInv, StoreInv, StoreTypeOK, IsTable, FeatureRow, Target, Parents, NoTarget,
       Feature, Shaped
<1>7. s \in Running
    BY <1>2, <1>4, <1>5, <1>6 DEF Running
<1>8. /\ s.pc = pc /\ s.request = r /\ s.container = c
      /\ o.container # x => s.row = o.row
      /\ o.container = x /\ r.op = "UpdateFeature" => s.row = row
    BY <1>4
<1>9. o.container = x => r.op \notin {"UpdateProject", "UpdateTask"}
    BY <1>3, <1>5, Arguments
<1>10. WellFormed(s)
    BY <1>5, <1>6, <1>8, <1>9 DEF WellFormed, RowShaped, Target
<1>11. ASSUME p \notin overtaken PROVE Guarded(s)
    <2>1. Known(x)
        BY <1>3, <1>5, <1>6, <1>11 DEF Known, Feature, Entities, ServiceInv, StoreInv, SequencesAhead
    <2>2. ASSUME FlagOnly(r) PROVE s.pc = "commit" /\ Unchanged(s)
        <3>1. r.op = "UpdateFeature" /\ x = Feature(f)
            BY <1>5, <1>6, <1>9, <1>11, <2>2 DEF FlagOnly
        <3>2. s.row = features[f] /\ x[2] = f
            BY <1>2, <1>6, <1>8, <3>1 DEF Feature
        <3> QED BY <1>2, <1>8, <2>2, <3>1, <3>2 DEF Unchanged
    <2>3. ASSUME ~FlagOnly(r) PROVE s.pc = "guard" /\ Ahead(s) /\ Landing(s)
        <3>1. ~features[f].archived /\ s.pc = "guard"
            BY <1>2, <1>3, <1>8, <2>3 DEF Admits
        <3>2. c[1] = "project" /\ c[2] = features[f].project
            BY <1>2
        <3>3. FeaturesAbove(x) \subseteq {f} /\ Holder(x)[1] # "project"
            BY <1>3, <1>5, <1>6, <1>11, <2>3 DEF Ahead
        <3>4. FrozenFeatures(x) = {} /\ FrozenProjects(x) \subseteq {features[f].project}
            BY <3>1, <3>3 DEF FrozenFeatures, FrozenProjects, ProjectsAbove, Project
        <3>5. Ahead(s)
            BY <1>8, <3>2, <3>4 DEF Ahead
        <3>6. ASSUME r.op = "UpdateFeature" PROVE c = Project(s.row.project)
            <4>1. o.container = x
                BY <1>3, <1>5, <1>11, <2>3, <3>6 DEF Landing, Project
            <4> QED BY <1>2, <1>8, <3>6, <4>1 DEF Project
        <3> QED BY <1>8, <3>1, <3>5, <3>6 DEF Landing
    <2> QED BY <1>8, <2>1, <2>2, <2>3 DEF Guarded
<1> QED BY <1>3, <1>4, <1>7, <1>10, <1>11 DEF Moved, Keep

\* The project is found and lets the request through: nothing above is frozen.
LEMMA GuardProjectStep ==
    ASSUME ServiceInv, NEW p \in Processes, GuardProject(p)
    PROVE  (\E s : Moved(p, s)) /\ UNCHANGED storeVars
<1>1. PICK o : o = process[p]
    OBVIOUS
<1> DEFINE q == o.container[2]
           r == o.request
           x == o.request.target
<1>2. PICK row, c, pc : /\ row = projects[q]
                        /\ c = IF Moves(r) THEN <<"project", r.fields.project>> ELSE x
                        /\ pc = IF Moves(r) THEN "destination" ELSE IF NewPlan(r) THEN "plan" ELSE "commit"
    OBVIOUS
<1>3. /\ o.pc = "guard" /\ o.container[1] = "project" /\ q \in DOMAIN projects
      /\ Admits(r, row) /\ Keep(p, row, pc, c)
    BY <1>1, <1>2 DEF GuardProject
<1>4. PICK s : /\ process' = [process EXCEPT ![p] = s]
               /\ s = [pc |-> pc, request |-> r, container |-> c,
                       row |-> IF /\ r.op \in {"UpdateProject", "UpdateFeature", "UpdateTask", "UpdateDocument"}
                                  /\ x = o.container THEN row ELSE o.row]
    BY <1>1, <1>3, Kept DEF ServiceInv
<1>5. /\ o \in Running /\ r \in Messages \cup Commands /\ r.op \notin Unguarded /\ x \in Target
      /\ o.container \in Target
      /\ o.container # x => RowShaped(o)
      /\ p \notin overtaken => Guarded(o)
      /\ p \notin overtaken /\ o.container # x => Known(x)
      /\ p \notin overtaken /\ FlagOnly(r) => o.container = x
      /\ p \notin overtaken /\ ~FlagOnly(r) => Ahead(o) /\ Landing(o)
    BY <1>1, <1>3, AtGuard
<1>6. /\ row \in [archived : BOOLEAN, body : ProjectBodies] /\ row \in ProjectRow
      /\ o.container = Project(q)
    BY <1>2, <1>3, <1>5 DEF ServiceInv, StoreInv, StoreTypeOK, IsTable, ProjectRow, Target, Parents, NoTarget,
       Project, Shaped
<1>7. c \in Target
    <2>1. Moves(r) => r.fields["project"] \in ProjectIDs
        BY <1>5, Arguments DEF Moves, Names, FeatureColumns
    <2> QED BY <1>2, <1>5, <2>1 DEF Target, Parents
<1>8. s \in Running
    BY <1>2, <1>4, <1>5, <1>6, <1>7 DEF Running, Target
<1>9. /\ s.pc = pc /\ s.request = r /\ s.container = c
      /\ o.container # x => s.row = o.row
      /\ o.container = x /\ r.op = "UpdateProject" => s.row = row
    BY <1>4
<1>10. o.container = x => r.op \notin {"UpdateFeature", "UpdateTask"}
    BY <1>3, <1>5, Arguments
<1>11. WellFormed(s)
    BY <1>5, <1>6, <1>7, <1>9, <1>10 DEF WellFormed, RowShaped
<1>12. ASSUME p \notin overtaken PROVE Guarded(s)
    <2>1. Known(x)
        BY <1>3, <1>5, <1>6, <1>12 DEF Known, Project, Entities, ServiceInv, StoreInv, SequencesAhead
    <2>2. ASSUME FlagOnly(r) PROVE s.pc = "commit" /\ Unchanged(s)
        <3>1. r.op = "UpdateProject" /\ x = Project(q)
            BY <1>5, <1>6, <1>10, <1>12, <2>2 DEF FlagOnly
        <3>2. s.row = projects[q] /\ x[2] = q
            BY <1>2, <1>6, <1>9, <3>1 DEF Project
        <3>3. s.pc = "commit"
            BY <1>2, <1>9, <3>1 DEF Moves, NewPlan
        <3> QED BY <1>9, <3>1, <3>2, <3>3 DEF Unchanged
    <2>3. ASSUME ~FlagOnly(r) PROVE Clear(x) /\ Landing(s)
        <3>1. ~projects[q].archived
            BY <1>2, <1>3, <2>3 DEF Admits
        <3>2. FrozenFeatures(x) = {} /\ FrozenProjects(x) \subseteq {q}
            BY <1>3, <1>5, <1>12, <2>3 DEF Ahead
        <3>3. Clear(x)
            BY <3>1, <3>2 DEF Clear, FrozenProjects
        <3>4. ASSUME r.op = "UpdateFeature", ~Moves(r) PROVE OpenProject(MergedRow(r, s.row).project)
            <4>1. o.container # x
                BY <1>10, <3>4
            <4>2. o.container = Project(o.row.project) /\ s.row = o.row
                BY <1>3, <1>5, <1>9, <1>12, <2>3, <3>4, <4>1 DEF Landing
            <4>3. o.row.project = q
                BY <1>6, <4>2 DEF Project
            <4>4. s.row \in [project : ProjectIDs, archived : BOOLEAN, body : FeatureBodies]
                BY <1>5, <3>4, <4>1, <4>2 DEF RowShaped
            <4>5. MergedRow(r, s.row).project = s.row.project
                BY <1>5, <3>4, <4>4, Arguments, MergedFeature DEF Moves
            <4> QED BY <3>1, <4>2, <4>3, <4>5 DEF OpenProject
        <3>5. r.op = "UpdateFeature" => pc = IF Moves(r) THEN "destination" ELSE "commit"
            BY <1>2 DEF NewPlan
        <3>6. Landing(s)
            BY <1>2, <1>9, <3>4, <3>5 DEF Landing, Project
        <3> QED BY <3>3, <3>6
    <2>4. s.pc # "guard"
        BY <1>2, <1>9
    <2> QED BY <1>9, <2>1, <2>2, <2>3, <2>4 DEF Guarded
<1> QED BY <1>3, <1>4, <1>8, <1>11, <1>12 DEF Moved, Keep

\* The state of a process after a query that keeps no row.
LEMMA WentTo ==
    ASSUME process \in [Processes -> Running], NEW p \in Processes, NEW pc, NEW c, GoTo(p, pc, c),
           NEW o, o = process[p]
    PROVE  /\ UNCHANGED storeVars
           /\ \E s : /\ process' = [process EXCEPT ![p] = s]
                     /\ s = [pc |-> pc, request |-> o.request, container |-> c, row |-> o.row]
<1>1. process' = [process EXCEPT ![p].pc = pc, ![p].container = c] /\ UNCHANGED storeVars
    BY DEF GoTo
<1>2. process' = [process EXCEPT ![p] = [o EXCEPT !.pc = pc, !.container = c, !.row = o.row]]
    <2>1. process' = [process EXCEPT ![p] = [o EXCEPT !.pc = pc, !.container = c]]
        BY <1>1
    <2>2. [o EXCEPT !.pc = pc, !.container = c] = [o EXCEPT !.pc = pc, !.container = c, !.row = o.row]
        BY DEF Running
    <2> QED BY <2>1, <2>2
<1>3. DOMAIN o = {"pc", "request", "container", "row"}
    BY DEF Running
<1>4. [o EXCEPT !.pc = pc, !.container = c, !.row = o.row]
        = [pc |-> pc, request |-> o.request, container |-> c, row |-> o.row]
    BY <1>3, ThreeFields
<1> QED BY <1>1, <1>2, <1>4

\* The project that a feature moves to is open.
LEMMA GuardDestinationStep ==
    ASSUME ServiceInv, NEW p \in Processes, GuardDestination(p)
    PROVE  (\E s : Moved(p, s)) /\ UNCHANGED storeVars
<1>1. PICK o : o = process[p]
    OBVIOUS
<1> DEFINE q == o.container[2]
           r == o.request
<1>2. o.pc = "destination" /\ q \in DOMAIN projects /\ ~projects[q].archived /\ GoTo(p, "commit", o.container)
    BY <1>1 DEF GuardDestination
<1>3. PICK s : /\ process' = [process EXCEPT ![p] = s]
               /\ s = [pc |-> "commit", request |-> r, container |-> o.container, row |-> o.row]
    BY <1>1, <1>2, WentTo DEF ServiceInv
<1>4. o \in Running /\ WellFormed(o)
    BY <1>1 DEF ServiceInv
<1>5. /\ r \in Messages \cup Commands /\ o.container \in Target /\ RowShaped(o) /\ r.op \notin Unguarded
    BY <1>2, <1>4 DEF WellFormed, RowRead
<1>6. /\ s.pc = "commit" /\ s.request = r /\ s.container = o.container /\ s.row = o.row
    BY <1>3
<1>7. s \in Running
    BY <1>3, <1>4 DEF Running
<1>8. WellFormed(s)
    BY <1>5, <1>6 DEF WellFormed, RowShaped
<1>9. ASSUME p \notin overtaken PROVE Guarded(s)
    <2>1. Guarded(o)
        BY <1>1, <1>2, <1>5, <1>9 DEF ServiceInv, InFlight
    <2>2. Known(r.target) /\ ~FlagOnly(r) /\ Clear(r.target) /\ Landing(o)
        BY <1>2, <2>1 DEF Guarded, RowRead
    <2>3. ASSUME r.op = "UpdateFeature" PROVE OpenProject(MergedRow(r, s.row).project)
        <3>1. "project" \in DOMAIN r.fields /\ r.fields.project = q
            BY <1>2, <2>2, <2>3 DEF Landing, Moves, Project
        <3>2. s.row \in [project : ProjectIDs, archived : BOOLEAN, body : FeatureBodies]
            BY <1>5, <1>6, <2>3 DEF RowShaped
        <3>3. MergedRow(r, s.row).project = q
            BY <1>5, <2>3, <3>1, <3>2, Arguments, MergedFeature
        <3> QED BY <1>2, <3>3 DEF OpenProject
    <2> QED BY <1>6, <2>2, <2>3 DEF Guarded, Landing
<1> QED BY <1>2, <1>3, <1>7, <1>8, <1>9 DEF Moved, GoTo

\* The task has no plan yet; the guard has been passed before.
LEMMA CheckPlanStep ==
    ASSUME ServiceInv, NEW p \in Processes, CheckPlan(p)
    PROVE  (\E s : Moved(p, s)) /\ UNCHANGED storeVars
<1>1. PICK o : o = process[p]
    OBVIOUS
<1> DEFINE r == o.request
<1>2. o.pc = "plan" /\ GoTo(p, "commit", o.container)
    BY <1>1 DEF CheckPlan
<1>3. PICK s : /\ process' = [process EXCEPT ![p] = s]
               /\ s = [pc |-> "commit", request |-> r, container |-> o.container, row |-> o.row]
    BY <1>1, <1>2, WentTo DEF ServiceInv
<1>4. o \in Running /\ WellFormed(o)
    BY <1>1 DEF ServiceInv
<1>5. /\ r \in Messages \cup Commands /\ o.container \in Target /\ RowShaped(o) /\ r.op \notin Unguarded
    BY <1>2, <1>4 DEF WellFormed, RowRead
<1>6. /\ s.pc = "commit" /\ s.request = r /\ s.container = o.container /\ s.row = o.row
    BY <1>3
<1>7. s \in Running
    BY <1>3, <1>4 DEF Running
<1>8. WellFormed(s)
    BY <1>5, <1>6 DEF WellFormed, RowShaped
<1>9. ASSUME p \notin overtaken PROVE Guarded(s)
    <2>1. Guarded(o)
        BY <1>1, <1>2, <1>5, <1>9 DEF ServiceInv, InFlight
    <2>2. Known(r.target) /\ ~FlagOnly(r) /\ Clear(r.target) /\ r.op # "UpdateFeature"
        BY <1>2, <2>1 DEF Guarded, RowRead, Landing
    <2> QED BY <1>6, <2>2 DEF Guarded, Landing
<1> QED BY <1>2, <1>3, <1>7, <1>8, <1>9 DEF Moved, GoTo

\* A request that ends.
LEMMA IdleStep ==
    ASSUME ServiceInv, NEW p \in Processes, process' = [process EXCEPT ![p] = Idle]
    PROVE  \E s : Moved(p, s)
<1>1. Idle \in Running /\ Idle.pc = "idle"
    BY DEF Idle, Running
<1>2. WellFormed(Idle) /\ ~InFlight(Idle)
    BY <1>1 DEF WellFormed, InFlight
<1> QED BY <1>1, <1>2 DEF Moved

------------------------------------------------------------------------------
\* The invariant

\* What one step does, whichever process takes it.
LEMMA AnyStep ==
    ASSUME ServiceInv, NEW p \in Processes, Step(p)
    PROVE  /\ \E s : Moved(p, s)
           /\ StoreInv' /\ Shaped'
           /\ \/ Calm \/ FlagSet
              \/ p \in overtaken /\ process[p].pc = "commit" /\ process'[p].pc = "idle"
           /\ Commit(p) \/ UNCHANGED storeVars
<1>1. CASE Commit(p)
    <2>1. PICK s : s = process[p]
        OBVIOUS
    <2>2. s \in Running /\ WellFormed(s) /\ s.pc = "commit" /\ Apply(s.request, s.row)
        BY <1>1, <2>1 DEF Commit, ServiceInv
    <2>3. StoreInv' /\ Shaped'
        BY <2>2, Applied DEF ServiceInv
    <2>4. \E n : Moved(p, n)
        BY <1>1, IdleStep DEF Commit
    <2>5. process'[p].pc = "idle"
        BY <1>1 DEF Commit, Idle, ServiceInv
    <2>6. p \notin overtaken => (InFlight(s) => Guarded(s))
        BY <2>1 DEF ServiceInv
    <2>7. p \notin overtaken /\ ~FlagSet => Calm
        BY <2>2, <2>6, CalmCommit DEF ServiceInv
    <2> QED BY <1>1, <2>1, <2>2, <2>3, <2>4, <2>5, <2>7
<1>2. CASE ~Commit(p)
    <2>1. (\E s : Moved(p, s)) /\ UNCHANGED storeVars
        <3>1. CASE \E r \in Messages \cup Commands : Start(p, r)
            BY <3>1, StartStep
        <3>2. CASE GuardDocument(p) \/ GuardTask(p) \/ GuardFeature(p)
            BY <3>2, GuardDocumentStep, GuardTaskStep, GuardFeatureStep
        <3>3. CASE GuardProject(p) \/ GuardDestination(p) \/ CheckPlan(p)
            BY <3>3, GuardProjectStep, GuardDestinationStep, CheckPlanStep
        <3>4. CASE Fail(p)
            BY <3>4, IdleStep DEF Fail
        <3> QED BY <1>2, <3>1, <3>2, <3>3, <3>4 DEF Step
    <2>2. UNCHANGED <<sequences, projects, features, tasks, dependencies, pullRequests, documents>>
        BY <2>1 DEF storeVars, tables
    <2>3. StoreInv'
        BY <2>2 DEF ServiceInv, StoreInv, StoreTypeOK, SequencesAhead, ForeignKeys, Exists,
           DependenciesWithinOneFeature
    <2>4. Shaped'
        BY <2>2 DEF ServiceInv, Shaped
    <2>5. Calm
        BY <2>1, CalmRead DEF ServiceInv
    <2> QED BY <2>1, <2>3, <2>4, <2>5
<1> QED BY <1>1, <1>2

\* The invariant holds where nothing is under way.
LEMMA ServiceInitInv == StoreInv /\ Shaped /\ ServiceIdle => ServiceInv
<1> SUFFICES ASSUME StoreInv, Shaped, ServiceIdle PROVE ServiceInv
    OBVIOUS
<1>1. Idle \in Running /\ Idle.pc = "idle"
    BY DEF Idle, Running
<1>2. WellFormed(Idle) /\ ~InFlight(Idle)
    BY <1>1 DEF WellFormed, InFlight
<1>3. process = [p \in Processes |-> Idle] /\ overtaken = {}
    BY DEF ServiceIdle
<1> HIDE DEF Idle
<1>4. process \in [Processes -> Running] /\ \A p \in Processes : process[p] = Idle
    BY <1>1, <1>3
<1>5. \A p \in Processes : WellFormed(process[p]) /\ ~InFlight(process[p])
    BY <1>2, <1>4
<1> QED BY <1>3, <1>4, <1>5 DEF ServiceInv

\* A step that is not calm overtakes every request in flight; a calm one leaves
\* what each of the others has established.
LEMMA ServiceStepInv == ServiceInv /\ [ServiceNext]_serviceVars => ServiceInv'
<1> SUFFICES ASSUME ServiceInv, [ServiceNext]_serviceVars PROVE ServiceInv'
    OBVIOUS
<1>1. CASE UNCHANGED serviceVars
    <2>1. UNCHANGED storeVars /\ UNCHANGED <<process, overtaken>>
        BY <1>1 DEF serviceVars
    <2>2. UNCHANGED <<sequences, projects, features, tasks, dependencies, pullRequests, documents>>
        BY <2>1 DEF storeVars, tables
    <2>3. StoreInv'
        BY <2>2 DEF ServiceInv, StoreInv, StoreTypeOK, SequencesAhead, ForeignKeys, Exists,
           DependenciesWithinOneFeature
    <2>4. Shaped'
        BY <2>2 DEF ServiceInv, Shaped
    <2>5. Calm
        BY <2>1, CalmRead DEF ServiceInv
    <2>6. ASSUME NEW q \in Processes
          PROVE  /\ process'[q] \in Running /\ WellFormed(process'[q])
                 /\ q \notin overtaken' /\ InFlight(process'[q]) => Guarded(process[q])'
        <3>1. PICK s : s = process[q]
            OBVIOUS
        <3>2. s = process'[q] /\ s \in Running /\ WellFormed(s)
            BY <2>1, <3>1 DEF ServiceInv
        <3>3. q \notin overtaken /\ InFlight(s) => Guarded(s)
            BY <3>1 DEF ServiceInv
        <3>4. q \notin overtaken /\ InFlight(s) => Guarded(s)'
            BY <2>3, <2>5, <3>2, <3>3, GuardedStays DEF ServiceInv
        <3> QED BY <2>1, <3>2, <3>4
    <2> QED BY <2>1, <2>3, <2>4, <2>6 DEF ServiceInv
<1>2. CASE ServiceNext
    <2>1. PICK p \in Processes : Step(p)
        BY <1>2 DEF ServiceNext
    <2>2. PICK s : Moved(p, s)
        BY <2>1, AnyStep
    <2>3. /\ StoreInv' /\ Shaped'
          /\ \/ Calm \/ FlagSet
             \/ p \in overtaken /\ process[p].pc = "commit" /\ process'[p].pc = "idle"
        BY <2>1, AnyStep
    <2>4. /\ overtaken' \subseteq Processes
          /\ Calm \/ \A q \in Processes : process'[q].pc # "idle" => q \in overtaken'
          /\ \A q \in overtaken : process'[q].pc # "idle" => q \in overtaken'
        BY <1>2, <2>3 DEF ServiceNext, Observe, ServiceInv
    <2>5. /\ process' \in [Processes -> Running] /\ process'[p] = s
          /\ \A q \in Processes \ {p} : process'[q] = process[q]
        BY <2>2 DEF Moved, ServiceInv
    <2>6. ASSUME NEW q \in Processes
          PROVE  /\ WellFormed(process'[q])
                 /\ q \notin overtaken' /\ InFlight(process'[q]) => Guarded(process[q])'
        <3>1. PICK n : n = process'[q]
            OBVIOUS
        <3>2. n \in Running /\ WellFormed(n) /\ (q \notin overtaken /\ InFlight(n) => Guarded(n))
            <4>1. CASE q = p
                BY <2>2, <2>5, <3>1, <4>1 DEF Moved
            <4>2. CASE q # p
                BY <2>5, <3>1, <4>2 DEF ServiceInv
            <4> QED BY <4>1, <4>2
        <3>3. q \notin overtaken' /\ InFlight(n) => Calm /\ Guarded(n)
            BY <2>4, <3>1, <3>2 DEF InFlight
        <3>4. q \notin overtaken' /\ InFlight(n) => Guarded(n)'
            BY <2>3, <3>2, <3>3, GuardedStays DEF ServiceInv
        <3> QED BY <3>1, <3>2, <3>4
    <2> QED BY <2>3, <2>4, <2>5, <2>6 DEF ServiceInv
<1> QED BY <1>1, <1>2

------------------------------------------------------------------------------
\* The theorems.  They are about every store that is in order at first.

\* The empty one is.
LEMMA EmptyStoreInOrder == StoreInit => StoreInv /\ Shaped
BY StoreInitInv DEF StoreInit, Shaped

\* The inductive invariant of the service: the store is in order, and every
\* request in flight knows what its guard has found, unless a flag overtook it.
THEOREM ServiceInvariant ==
    StoreInv /\ Shaped /\ ServiceIdle /\ [][ServiceNext]_serviceVars => []ServiceInv
BY ServiceInitInv, ServiceStepInv, PTL

\* The process that changes the store is the one that takes the step, and what
\* it applies is its own request.
LEMMA CommittingStep ==
    ASSUME ServiceInv, ServiceNext, NEW p \in Processes, Committing(p)
    PROVE  \E s \in Running :
              /\ s = process[p] /\ WellFormed(s) /\ s.pc = "commit"
              /\ Apply(s.request, s.row)
              /\ p \notin overtaken /\ InFlight(s) => Guarded(s)
<1>1. PICK n \in Processes : Step(n)
    BY DEF ServiceNext
<1>2. PICK m : Moved(n, m)
    BY <1>1, AnyStep
<1>3. p = n
    BY <1>2 DEF Moved, ServiceInv, Committing
<1>4. Commit(p)
    BY <1>1, <1>3, AnyStep DEF Committing
<1>5. PICK s : s = process[p]
    OBVIOUS
<1> QED BY <1>4, <1>5 DEF Commit, ServiceInv

\* Requests keep the store in order whatever is in flight: the foreign keys
\* hold and the graph of the dependencies has no cycle.
THEOREM RequestsKeepTheStore ==
    StoreInv /\ Shaped /\ ServiceIdle /\ [][ServiceNext]_serviceVars => []StoreInv
<1>1. ServiceInv => StoreInv
    BY DEF ServiceInv
<1> QED BY <1>1, ServiceInvariant, PTL

\* The archive wall, for every request that no flag overtook: what is read-only
\* keeps its contents.
THEOREM ArchiveWallStands ==
    StoreInv /\ Shaped /\ ServiceIdle /\ [][ServiceNext]_serviceVars => ArchiveWall
<1> DEFINE Wall == \A p \in Processes :
                      Committing(p) /\ process[p].request.op \notin Unguarded /\ p \notin overtaken
                      => WallStands
<1>1. ServiceInv /\ [ServiceNext]_serviceVars => [Wall]_serviceVars
    <2> SUFFICES ASSUME ServiceInv, ServiceNext, NEW p \in Processes, Committing(p),
                        process[p].request.op \notin Unguarded, p \notin overtaken
                 PROVE  WallStands
        BY DEF Wall
    <2>1. PICK s \in Running :
              /\ s = process[p] /\ WellFormed(s) /\ s.pc = "commit"
              /\ Apply(s.request, s.row)
              /\ p \notin overtaken /\ InFlight(s) => Guarded(s)
        BY CommittingStep
    <2>2. Guarded(s) /\ s.request.op \notin Unguarded
        BY <2>1 DEF InFlight
    <2> QED BY <2>1, <2>2, WallStep DEF ServiceInv
<1>2. [Wall]_serviceVars =>
        [\A p \in Processes :
            Committing(p) /\ process[p].request.op \notin Unguarded /\ p \notin overtaken
            => /\ \A f \in DOMAIN features \cap DOMAIN features' :
                    ReadOnlyFeature(f) => FeatureContents(f)' = FeatureContents(f)
               /\ \A q \in DOMAIN projects \cap DOMAIN projects' :
                    ReadOnlyProject(q) => ProjectContents(q)' = ProjectContents(q)]_serviceVars
    BY DEF Wall, WallStands
<1> QED BY <1>1, <1>2, ServiceInvariant, PTL DEF ArchiveWall

\* The columns of a document are independent: a transaction changes none that
\* its request does not name, however long ago it read the row.
THEOREM ColumnsIndependent ==
    StoreInv /\ Shaped /\ ServiceIdle /\ [][ServiceNext]_serviceVars => DocumentColumnsIndependent
<1>1. ServiceInv /\ [ServiceNext]_serviceVars =>
        [\A p \in Processes, d \in DOMAIN documents \cap DOMAIN documents' :
            Committing(p) => \A c \in {"title", "source", "plan"} \ Writes(process[p].request, d) :
                                documents'[d][c] = documents[d][c]]_serviceVars
    <2> SUFFICES ASSUME ServiceInv, ServiceNext, NEW p \in Processes, Committing(p),
                        NEW d \in DOMAIN documents \cap DOMAIN documents',
                        NEW c \in {"title", "source", "plan"} \ Writes(process[p].request, d)
                 PROVE  documents'[d][c] = documents[d][c]
        OBVIOUS
    <2>1. PICK s \in Running : /\ s = process[p] /\ WellFormed(s) /\ s.pc = "commit"
                               /\ Apply(s.request, s.row)
        BY CommittingStep
    <2>2. ColumnsKept(s.request)
        BY <2>1, Applied DEF ServiceInv
    <2> QED BY <2>1, <2>2 DEF ColumnsKept
<1> QED BY <1>1, ServiceInvariant, PTL DEF DocumentColumnsIndependent

==============================================================================
