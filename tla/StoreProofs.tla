----------------------------- MODULE StoreProofs ------------------------------
(***************************************************************************)
(* Theorems about Store and StoreHistory, for every number of projects,    *)
(* features, tasks and documents: what Validate requires holds, and a      *)
(* public ID is never handed out again.                                    *)
(***************************************************************************)
EXTENDS StoreHistory, TLAPS

\* Every ID in a table was handed out by its sequence.  Without it a creation
\* could overwrite a row, and move a task with dependencies to a new feature.
SequencesAhead ==
    /\ \A p \in DOMAIN projects : p < sequences["project"]
    /\ \A f \in DOMAIN features : f < sequences["feature"]
    /\ \A t \in DOMAIN tasks : t < sequences["task"]
    /\ \A d \in DOMAIN documents : d < sequences["document"]

\* The inductive invariant.
StoreInv ==
    /\ StoreTypeOK
    /\ SequencesAhead
    /\ ForeignKeys
    /\ DependenciesWithinOneFeature
    /\ Acyclic(DOMAIN tasks, dependencies)

------------------------------------------------------------------------------
\* Tables

\* Erasing rows of a table that is keyed by IDs leaves such a table.
LEMMA EraseTable ==
    ASSUME NEW T, NEW ids, NEW R, NEW S, IsTable(T, ids, R)
    PROVE  /\ IsTable(Erase(T, S), ids, R)
           /\ DOMAIN Erase(T, S) = DOMAIN T \ S
           /\ \A i \in DOMAIN T \ S : Erase(T, S)[i] = T[i]
BY DEF IsTable, Erase, Restrict

------------------------------------------------------------------------------
\* Acyclic graphs

\* Removing tasks and dependencies closes no cycle.
LEMMA AcyclicSubgraph ==
    ASSUME NEW N, NEW E, NEW M \in SUBSET N, NEW F \in SUBSET E, Acyclic(N, E)
    PROVE  Acyclic(M, F)
BY DEF Acyclic

\* A new task has no dependency yet.
LEMMA AcyclicNewTask ==
    ASSUME NEW N, NEW E, NEW n, n \notin N, Acyclic(N, E),
           \A e \in E : e[1] \in N /\ e[2] \in N
    PROVE  Acyclic(N \cup {n}, E)
<1> SUFFICES ASSUME NEW S \in SUBSET (N \cup {n}), S # {}
             PROVE  \E t \in S : \A u \in S : <<u, t>> \notin E
    BY DEF Acyclic
<1>1. CASE S \cap N = {}
    <2>1. n \in S /\ \A u \in S : <<u, n>> \notin E
        BY <1>1
    <2> QED BY <2>1
<1>2. CASE S \cap N # {}
    <2>1. PICK t \in S \cap N : \A u \in S \cap N : <<u, t>> \notin E
        BY <1>2 DEF Acyclic
    <2>2. <<n, t>> \notin E
        OBVIOUS
    <2> QED BY <2>1, <2>2
<1> QED BY <1>1, <1>2

\* If no path leads from blocked to blocker, blocker -> blocked closes no cycle:
\* a closed set that holds blocked and not blocker separates the two.
LEMMA AcyclicNewDependency ==
    ASSUME NEW N, NEW E, NEW C, NEW blocker, NEW blocked, Acyclic(N, E),
           Closed(C, E), blocked \in C, blocker \notin C
    PROVE  Acyclic(N, E \cup {<<blocker, blocked>>})
<1> SUFFICES ASSUME NEW S \in SUBSET N, S # {}
             PROVE  \E t \in S : \A u \in S : <<u, t>> \notin E \cup {<<blocker, blocked>>}
    BY DEF Acyclic
<1>1. CASE S \subseteq C
    <2>1. PICK t \in S : \A u \in S : <<u, t>> \notin E
        BY DEF Acyclic
    <2>2. \A u \in S : u # blocker
        BY <1>1
    <2> QED BY <2>1, <2>2
<1>2. CASE S \ C # {}
    <2>1. PICK t \in S \ C : \A u \in S \ C : <<u, t>> \notin E
        BY <1>2 DEF Acyclic
    <2>2. \A u \in S \cap C : <<u, t>> \notin E
        BY DEF Closed
    <2>3. t # blocked
        OBVIOUS
    <2> QED BY <2>1, <2>2, <2>3
<1> QED BY <1>1, <1>2

------------------------------------------------------------------------------
\* One lemma per transaction

\* An allocated ID is new, and below the sequence from then on.
LEMMA AllocateStep ==
    ASSUME StoreTypeOK, SequencesAhead, NEW e \in Entities, Allocate(e)
    PROVE  /\ sequences' \in [Entities -> Nat \ {0}]
           /\ NextPublicID(e) \in 1..Bound[e]
           /\ sequences'[e] = NextPublicID(e) + 1
           /\ \A other \in Entities \ {e} : sequences'[other] = sequences[other]
BY StoreAssumption DEF StoreTypeOK, Allocate, NextPublicID, Bound, Entities

\* A new project gets an ID above all others.
LEMMA CreateProjectStep ==
    ASSUME StoreInv, NEW body \in Bodies, CreateProject(body)
    PROVE  StoreInv'
<1> DEFINE id == NextPublicID("project")
<1>1. id \in ProjectIDs
    BY AllocateStep DEF StoreInv, CreateProject, Bound, Entities, ProjectIDs
<1>2. /\ IsTable(projects', ProjectIDs, ProjectRow)
      /\ DOMAIN projects' = DOMAIN projects \cup {id}
    BY <1>1 DEF StoreInv, StoreTypeOK, CreateProject, Put, IsTable, ProjectRow
<1> HIDE DEF id
<1>3. StoreTypeOK'
    BY <1>2, AllocateStep DEF StoreInv, StoreTypeOK, CreateProject, Entities
<1>4. SequencesAhead'
    <2>1. /\ sequences'["project"] = id + 1 /\ id = sequences["project"]
          /\ sequences'["feature"] = sequences["feature"]
          /\ sequences'["task"] = sequences["task"]
          /\ sequences'["document"] = sequences["document"]
        BY AllocateStep DEF StoreInv, CreateProject, Entities, id, NextPublicID
    <2>2. sequences["project"] \in Nat
        BY DEF StoreInv, StoreTypeOK, Entities
    <2>3. \A i \in DOMAIN projects' : i < id + 1
        BY <1>2, <2>1, <2>2 DEF StoreInv, StoreTypeOK, SequencesAhead, IsTable, ProjectIDs, FeatureIDs,
           TaskIDs, DocumentIDs
    <2> QED BY <2>1, <2>3 DEF StoreInv, SequencesAhead, CreateProject
<1>5. ForeignKeys'
    BY <1>2 DEF StoreInv, CreateProject, ForeignKeys, Exists
<1> QED BY <1>3, <1>4, <1>5 DEF StoreInv, CreateProject, DependenciesWithinOneFeature

\* An edit of a project touches no reference.
LEMMA UpdateProjectStep ==
    ASSUME StoreInv, NEW p \in ProjectIDs, NEW row \in ProjectRow, UpdateProject(p, row)
    PROVE  StoreInv'
<1>1. /\ IsTable(projects', ProjectIDs, ProjectRow)
      /\ DOMAIN projects' = DOMAIN projects
    BY DEF StoreInv, StoreTypeOK, UpdateProject, Put, IsTable
<1>2. StoreTypeOK' /\ SequencesAhead'
    BY <1>1 DEF StoreInv, StoreTypeOK, SequencesAhead, UpdateProject
<1>3. ForeignKeys'
    BY <1>1 DEF StoreInv, UpdateProject, ForeignKeys, Exists
<1> QED BY <1>2, <1>3 DEF StoreInv, UpdateProject, DependenciesWithinOneFeature

\* A new feature refers to a project that exists.
LEMMA CreateFeatureStep ==
    ASSUME StoreInv, NEW p \in ProjectIDs, NEW body \in Bodies, CreateFeature(p, body)
    PROVE  StoreInv'
<1> DEFINE id == NextPublicID("feature")
<1>1. id \in FeatureIDs
    BY AllocateStep DEF StoreInv, CreateFeature, Bound, Entities, FeatureIDs
<1>2. /\ IsTable(features', FeatureIDs, FeatureRow)
      /\ DOMAIN features' = DOMAIN features \cup {id}
      /\ features'[id].project = p
      /\ \A f \in DOMAIN features : f # id => features'[f] = features[f]
    BY <1>1 DEF StoreInv, StoreTypeOK, CreateFeature, Put, IsTable, FeatureRow
<1> HIDE DEF id
<1>3. StoreTypeOK'
    BY <1>2, AllocateStep DEF StoreInv, StoreTypeOK, CreateFeature, Entities
<1>4. SequencesAhead'
    <2>1. /\ sequences'["feature"] = id + 1 /\ id = sequences["feature"]
          /\ sequences'["project"] = sequences["project"]
          /\ sequences'["task"] = sequences["task"]
          /\ sequences'["document"] = sequences["document"]
        BY AllocateStep DEF StoreInv, CreateFeature, Entities, id, NextPublicID
    <2>2. sequences["feature"] \in Nat
        BY DEF StoreInv, StoreTypeOK, Entities
    <2>3. \A i \in DOMAIN features' : i < id + 1
        BY <1>2, <2>1, <2>2 DEF StoreInv, StoreTypeOK, SequencesAhead, IsTable, ProjectIDs, FeatureIDs,
           TaskIDs, DocumentIDs
    <2> QED BY <2>1, <2>3 DEF StoreInv, SequencesAhead, CreateFeature
<1>5. ForeignKeys'
    BY <1>2 DEF StoreInv, CreateFeature, ForeignKeys, Exists
<1> QED BY <1>3, <1>4, <1>5 DEF StoreInv, CreateFeature, DependenciesWithinOneFeature

\* An edit of a feature keeps its project reference valid.
LEMMA UpdateFeatureStep ==
    ASSUME StoreInv, NEW f \in FeatureIDs, NEW row \in FeatureRow, UpdateFeature(f, row)
    PROVE  StoreInv'
<1>1. /\ IsTable(features', FeatureIDs, FeatureRow)
      /\ DOMAIN features' = DOMAIN features
      /\ features'[f] = row
      /\ \A g \in DOMAIN features : g # f => features'[g] = features[g]
    BY DEF StoreInv, StoreTypeOK, UpdateFeature, Put, IsTable
<1>2. StoreTypeOK' /\ SequencesAhead'
    BY <1>1 DEF StoreInv, StoreTypeOK, SequencesAhead, UpdateFeature
<1>3. ForeignKeys'
    BY <1>1 DEF StoreInv, UpdateFeature, ForeignKeys, Exists
<1> QED BY <1>2, <1>3 DEF StoreInv, UpdateFeature, DependenciesWithinOneFeature

\* A new task refers to a feature that exists.
LEMMA CreateTaskStep ==
    ASSUME StoreInv, NEW f \in FeatureIDs, NEW body \in Bodies, CreateTask(f, body)
    PROVE  StoreInv'
<1> DEFINE id == NextPublicID("task")
<1>1. id \in TaskIDs
    BY AllocateStep DEF StoreInv, CreateTask, Bound, Entities, TaskIDs
<1>2. id \notin DOMAIN tasks
    BY <1>1 DEF StoreInv, StoreTypeOK, SequencesAhead, NextPublicID, TaskIDs, IsTable
<1>3. /\ IsTable(tasks', TaskIDs, TaskRow)
      /\ DOMAIN tasks' = DOMAIN tasks \cup {id}
      /\ tasks'[id].feature = f
      /\ \A t \in DOMAIN tasks : tasks'[t] = tasks[t]
    BY <1>1, <1>2 DEF StoreInv, StoreTypeOK, CreateTask, Put, IsTable, TaskRow
<1> HIDE DEF id
<1>4. StoreTypeOK'
    BY <1>3, AllocateStep DEF StoreInv, StoreTypeOK, CreateTask, Entities
<1>5. SequencesAhead'
    <2>1. /\ sequences'["task"] = id + 1 /\ id = sequences["task"]
          /\ sequences'["project"] = sequences["project"]
          /\ sequences'["feature"] = sequences["feature"]
          /\ sequences'["document"] = sequences["document"]
        BY AllocateStep DEF StoreInv, CreateTask, Entities, id, NextPublicID
    <2>2. sequences["task"] \in Nat
        BY DEF StoreInv, StoreTypeOK, Entities
    <2>3. \A i \in DOMAIN tasks' : i < id + 1
        BY <1>3, <2>1, <2>2 DEF StoreInv, StoreTypeOK, SequencesAhead, IsTable, ProjectIDs, FeatureIDs,
           TaskIDs, DocumentIDs
    <2> QED BY <2>1, <2>3 DEF StoreInv, SequencesAhead, CreateTask
<1>6. ForeignKeys'
    BY <1>3 DEF StoreInv, CreateTask, ForeignKeys, Exists
<1>7. DependenciesWithinOneFeature'
    BY <1>3 DEF StoreInv, CreateTask, DependenciesWithinOneFeature, ForeignKeys
<1>8. Acyclic(DOMAIN tasks', dependencies')
    <2>1. \A e \in dependencies : e[1] \in DOMAIN tasks /\ e[2] \in DOMAIN tasks
        BY DEF StoreInv, ForeignKeys
    <2>2. Acyclic(DOMAIN tasks \cup {id}, dependencies)
        BY <1>2, <2>1, AcyclicNewTask DEF StoreInv
    <2> QED BY <1>3, <2>2 DEF CreateTask
<1> QED BY <1>4, <1>5, <1>6, <1>7, <1>8 DEF StoreInv

\* An edit of a task keeps its feature, and so its dependencies inside it.
LEMMA UpdateTaskStep ==
    ASSUME StoreInv, NEW t \in TaskIDs, NEW body \in Bodies, UpdateTask(t, body)
    PROVE  StoreInv'
<1>1. /\ IsTable(tasks', TaskIDs, TaskRow)
      /\ DOMAIN tasks' = DOMAIN tasks
      /\ \A u \in DOMAIN tasks : tasks'[u].feature = tasks[u].feature
    BY DEF StoreInv, StoreTypeOK, UpdateTask, Put, IsTable, TaskRow
<1>2. StoreTypeOK' /\ SequencesAhead'
    BY <1>1 DEF StoreInv, StoreTypeOK, SequencesAhead, UpdateTask
<1>3. ForeignKeys'
    BY <1>1 DEF StoreInv, UpdateTask, ForeignKeys, Exists
<1> QED BY <1>1, <1>2, <1>3 DEF StoreInv, UpdateTask, DependenciesWithinOneFeature, ForeignKeys

------------------------------------------------------------------------------
\* Deletion

\* The cascade finds nothing that restricts it: a dependency stays within one
\* feature, so its blocker goes whenever its blocked task does.
LEMMA NotRestricted ==
    ASSUME DependenciesWithinOneFeature, NEW fs
    PROVE  ~Restricted(fs)
BY DEF DependenciesWithinOneFeature, Restricted

\* What deleteFeatureContents leaves behind refers to nothing that it removed.
LEMMA DeleteFeatureContentsStep ==
    ASSUME StoreInv, NEW fs, NEW extra, DeleteFeatureContents(fs, extra)
    PROVE  /\ IsTable(tasks', TaskIDs, TaskRow)
           /\ IsTable(documents', DocumentIDs, DocumentRow)
           /\ IsTable(pullRequests', TaskIDs, PullRequests)
           /\ dependencies' \subseteq dependencies
           /\ DOMAIN tasks' = DOMAIN tasks \ TasksOf(fs)
           /\ DOMAIN documents' \subseteq DOMAIN documents
           /\ \A t \in DOMAIN tasks' : tasks'[t] = tasks[t] /\ tasks[t].feature \notin fs
           /\ \A e \in dependencies' : {e[1], e[2]} \subseteq DOMAIN tasks'
           /\ DOMAIN pullRequests' \subseteq DOMAIN tasks'
           /\ \A d \in DOMAIN documents' :
                 /\ documents'[d] = documents[d]
                 /\ documents[d].parent \notin extra
                 /\ documents[d].parent \notin {"feature"} \X fs
                 /\ documents[d].parent \notin {"task"} \X TasksOf(fs)
<1> DEFINE gone == TasksOf(fs)
           owned == DocumentsOf(extra \cup ({"feature"} \X fs) \cup ({"task"} \X gone))
<1>1. /\ IsTable(Erase(tasks, gone), TaskIDs, TaskRow)
      /\ DOMAIN Erase(tasks, gone) = DOMAIN tasks \ gone
      /\ \A t \in DOMAIN tasks \ gone : Erase(tasks, gone)[t] = tasks[t]
    BY DEF StoreInv, StoreTypeOK, IsTable, Erase, Restrict
<1>2. /\ IsTable(Erase(documents, owned), DocumentIDs, DocumentRow)
      /\ DOMAIN Erase(documents, owned) = DOMAIN documents \ owned
      /\ \A d \in DOMAIN documents \ owned : Erase(documents, owned)[d] = documents[d]
    BY DEF StoreInv, StoreTypeOK, IsTable, Erase, Restrict
<1>3. /\ IsTable(Erase(pullRequests, gone), TaskIDs, PullRequests)
      /\ DOMAIN Erase(pullRequests, gone) = DOMAIN pullRequests \ gone
    BY DEF StoreInv, StoreTypeOK, IsTable, Erase, Restrict
<1>4. /\ tasks' = Erase(tasks, gone)
      /\ documents' = Erase(documents, owned)
      /\ pullRequests' = Erase(pullRequests, gone)
      /\ dependencies' = {e \in dependencies : e[1] \notin gone}
    BY DEF DeleteFeatureContents
<1>5. \A d \in DOMAIN documents \ owned :
          documents[d].parent \notin extra \cup ({"feature"} \X fs) \cup ({"task"} \X gone)
    BY DEF DocumentsOf
<1>6. \A t \in DOMAIN tasks \ gone : tasks[t].feature \notin fs
    BY DEF TasksOf
<1>7. \A e \in dependencies' : {e[1], e[2]} \subseteq DOMAIN tasks \ gone
    BY <1>4 DEF StoreInv, ForeignKeys, DependenciesWithinOneFeature, TasksOf
<1>8. DOMAIN pullRequests \ gone \subseteq DOMAIN tasks \ gone
    BY DEF StoreInv, ForeignKeys
<1> HIDE DEF gone, owned
<1>9. /\ DOMAIN tasks' = DOMAIN tasks \ gone
      /\ DOMAIN documents' = DOMAIN documents \ owned
      /\ DOMAIN pullRequests' = DOMAIN pullRequests \ gone
    BY <1>1, <1>2, <1>3, <1>4
<1>10. \A d \in DOMAIN documents' :
          /\ documents'[d] = documents[d]
          /\ documents[d].parent \notin extra
          /\ documents[d].parent \notin {"feature"} \X fs
          /\ documents[d].parent \notin {"task"} \X gone
    BY <1>2, <1>4, <1>5, <1>9
<1>11. \A t \in DOMAIN tasks' : tasks'[t] = tasks[t] /\ tasks[t].feature \notin fs
    BY <1>1, <1>4, <1>6, <1>9
<1> QED BY <1>1, <1>2, <1>3, <1>4, <1>7, <1>8, <1>9, <1>10, <1>11 DEF gone

\* With a feature go its tasks, their dependencies and everything attached to them.
LEMMA DeleteFeatureStep ==
    ASSUME StoreInv, NEW f \in FeatureIDs, NEW cascade \in BOOLEAN, DeleteFeature(f, cascade)
    PROVE  StoreInv'
<1>1. DeleteFeatureContents({f}, {})
    BY DEF DeleteFeature
<1>2. /\ IsTable(Erase(features, {f}), FeatureIDs, FeatureRow)
      /\ DOMAIN Erase(features, {f}) = DOMAIN features \ {f}
      /\ \A g \in DOMAIN features \ {f} : Erase(features, {f})[g] = features[g]
    BY DEF StoreInv, StoreTypeOK, IsTable, Erase, Restrict
<1>3. features' = Erase(features, {f})
    BY DEF DeleteFeature
<1>4. StoreTypeOK'
    BY <1>1, <1>2, <1>3, DeleteFeatureContentsStep DEF StoreInv, StoreTypeOK, DeleteFeature
<1>5. SequencesAhead'
    BY <1>1, <1>2, <1>3, DeleteFeatureContentsStep DEF StoreInv, SequencesAhead, DeleteFeature
<1>6. ForeignKeys'
    <2>1. \A g \in DOMAIN features' : features'[g].project \in DOMAIN projects'
        BY <1>2, <1>3 DEF StoreInv, ForeignKeys, DeleteFeature
    <2>2. \A t \in DOMAIN tasks' : tasks'[t].feature \in DOMAIN features'
        BY <1>1, <1>2, <1>3, DeleteFeatureContentsStep, ZenonT(60) DEF StoreInv, ForeignKeys
    <2>3. \A d \in DOMAIN documents' : Exists(documents[d].parent)'
        <3> SUFFICES ASSUME NEW d \in DOMAIN documents' PROVE Exists(documents[d].parent)'
            OBVIOUS
        <3>1. /\ documents'[d] = documents[d] /\ d \in DOMAIN documents
              /\ documents[d].parent \notin {"feature"} \X {f}
              /\ documents[d].parent \notin {"task"} \X TasksOf({f})
              /\ DOMAIN tasks' = DOMAIN tasks \ TasksOf({f})
            BY <1>1, DeleteFeatureContentsStep
        <3>2. PICK parent \in Parents : parent = documents[d].parent /\ Exists(parent)
            BY <3>1 DEF StoreInv, StoreTypeOK, IsTable, DocumentRow, ForeignKeys
        <3>3. parent \notin {"feature"} \X {f} /\ parent \notin {"task"} \X TasksOf({f})
            BY <3>1, <3>2
        <3>4. Exists(parent)'
            <4>1. CASE parent[1] = "project"
                BY <3>2, <4>1 DEF Exists, DeleteFeature
            <4>2. CASE parent[1] = "feature"
                BY <1>2, <1>3, <3>2, <3>3, <4>2 DEF Exists, Parents
            <4>3. CASE parent[1] = "task"
                BY <3>1, <3>2, <3>3, <4>3 DEF Exists, Parents
            <4> QED BY <3>2, <4>1, <4>2, <4>3 DEF Exists
        <3> QED BY <3>1, <3>2, <3>4
    <2> QED BY <1>1, <2>1, <2>2, <2>3, DeleteFeatureContentsStep DEF ForeignKeys
<1>7. DependenciesWithinOneFeature'
    <2>1. /\ dependencies' \subseteq dependencies
          /\ \A t \in DOMAIN tasks' : tasks'[t] = tasks[t]
          /\ \A e \in dependencies' : {e[1], e[2]} \subseteq DOMAIN tasks'
        BY <1>1, DeleteFeatureContentsStep
    <2> QED BY <2>1 DEF StoreInv, DependenciesWithinOneFeature
<1>8. Acyclic(DOMAIN tasks', dependencies')
    <2>1. dependencies' \subseteq dependencies /\ DOMAIN tasks' \subseteq DOMAIN tasks
        BY <1>1, DeleteFeatureContentsStep
    <2> QED BY <2>1, AcyclicSubgraph DEF StoreInv
<1> QED BY <1>4, <1>5, <1>6, <1>7, <1>8 DEF StoreInv

\* With a project go its features and all that depends on them.
LEMMA DeleteProjectStep ==
    ASSUME StoreInv, NEW p \in ProjectIDs, NEW cascade \in BOOLEAN, DeleteProject(p, cascade)
    PROVE  StoreInv'
<1> DEFINE held == FeaturesOf(p)
           extra == {<<"project", p>>}
<1>1. DeleteFeatureContents(held, extra) /\ sequences' = sequences
    BY DEF DeleteProject
<1>2. /\ IsTable(Erase(features, held), FeatureIDs, FeatureRow)
      /\ DOMAIN Erase(features, held) = DOMAIN features \ held
      /\ \A g \in DOMAIN features \ held : Erase(features, held)[g] = features[g]
    BY DEF StoreInv, StoreTypeOK, IsTable, Erase, Restrict
<1>3. /\ IsTable(Erase(projects, {p}), ProjectIDs, ProjectRow)
      /\ DOMAIN Erase(projects, {p}) = DOMAIN projects \ {p}
    BY DEF StoreInv, StoreTypeOK, IsTable, Erase, Restrict
<1>4. features' = Erase(features, held) /\ projects' = Erase(projects, {p})
    BY DEF DeleteProject
<1>5. \A g \in DOMAIN features \ held : features[g].project # p
    BY DEF FeaturesOf
<1> HIDE DEF held, extra
<1>6. StoreTypeOK'
    BY <1>1, <1>2, <1>3, <1>4, DeleteFeatureContentsStep DEF StoreInv, StoreTypeOK
<1>7. SequencesAhead'
    BY <1>1, <1>2, <1>3, <1>4, DeleteFeatureContentsStep DEF StoreInv, SequencesAhead
<1>8. ForeignKeys'
    <2>1. \A g \in DOMAIN features' : features'[g].project \in DOMAIN projects'
        BY <1>2, <1>3, <1>4, <1>5 DEF StoreInv, ForeignKeys
    <2>2. \A t \in DOMAIN tasks' : tasks'[t].feature \in DOMAIN features'
        BY <1>1, <1>2, <1>4, DeleteFeatureContentsStep DEF StoreInv, ForeignKeys
    <2>3. \A d \in DOMAIN documents' : Exists(documents[d].parent)'
        <3> SUFFICES ASSUME NEW d \in DOMAIN documents' PROVE Exists(documents[d].parent)'
            OBVIOUS
        <3>1. /\ documents'[d] = documents[d] /\ d \in DOMAIN documents
              /\ documents[d].parent \notin extra
              /\ documents[d].parent \notin {"feature"} \X held
              /\ documents[d].parent \notin {"task"} \X TasksOf(held)
              /\ DOMAIN tasks' = DOMAIN tasks \ TasksOf(held)
            BY <1>1, DeleteFeatureContentsStep
        <3>2. PICK parent \in Parents : parent = documents[d].parent /\ Exists(parent)
            BY <3>1 DEF StoreInv, StoreTypeOK, IsTable, DocumentRow, ForeignKeys
        <3>3. /\ parent \notin {<<"project", p>>}
              /\ parent \notin {"feature"} \X held
              /\ parent \notin {"task"} \X TasksOf(held)
            BY <3>1, <3>2 DEF extra
        <3>4. Exists(parent)'
            <4>1. CASE parent[1] = "project"
                BY <1>3, <1>4, <3>2, <3>3, <4>1 DEF Exists, Parents
            <4>2. CASE parent[1] = "feature"
                BY <1>2, <1>4, <3>2, <3>3, <4>2 DEF Exists, Parents
            <4>3. CASE parent[1] = "task"
                BY <3>1, <3>2, <3>3, <4>3 DEF Exists, Parents
            <4> QED BY <3>2, <4>1, <4>2, <4>3 DEF Exists
        <3> QED BY <3>1, <3>2, <3>4
    <2> QED BY <1>1, <2>1, <2>2, <2>3, DeleteFeatureContentsStep DEF ForeignKeys
<1>9. DependenciesWithinOneFeature'
    <2>1. /\ dependencies' \subseteq dependencies
          /\ \A t \in DOMAIN tasks' : tasks'[t] = tasks[t]
          /\ \A e \in dependencies' : {e[1], e[2]} \subseteq DOMAIN tasks'
        BY <1>1, DeleteFeatureContentsStep
    <2> QED BY <2>1 DEF StoreInv, DependenciesWithinOneFeature
<1>10. Acyclic(DOMAIN tasks', dependencies')
    <2>1. dependencies' \subseteq dependencies /\ DOMAIN tasks' \subseteq DOMAIN tasks
        BY <1>1, DeleteFeatureContentsStep
    <2> QED BY <2>1, AcyclicSubgraph DEF StoreInv
<1> QED BY <1>6, <1>7, <1>8, <1>9, <1>10 DEF StoreInv

\* With a task go its dependencies, on either side, and what is attached to it.
LEMMA DeleteTaskStep ==
    ASSUME StoreInv, NEW t \in TaskIDs, NEW cascade \in BOOLEAN, DeleteTask(t, cascade)
    PROVE  StoreInv'
<1> DEFINE owned == DocumentsOf({<<"task", t>>})
<1>1. /\ tasks' = Erase(tasks, {t}) /\ documents' = Erase(documents, owned)
      /\ pullRequests' = Erase(pullRequests, {t})
      /\ dependencies' = dependencies \ {e \in dependencies : t \in {e[1], e[2]}}
      /\ UNCHANGED <<sequences, projects, features>>
    BY DEF DeleteTask
<1>2. /\ IsTable(tasks', TaskIDs, TaskRow) /\ DOMAIN tasks' = DOMAIN tasks \ {t}
      /\ \A u \in DOMAIN tasks' : tasks'[u] = tasks[u]
    BY <1>1 DEF StoreInv, StoreTypeOK, IsTable, Erase, Restrict
<1>3. /\ IsTable(documents', DocumentIDs, DocumentRow)
      /\ DOMAIN documents' = DOMAIN documents \ owned
      /\ \A d \in DOMAIN documents' : documents'[d] = documents[d]
    BY <1>1 DEF StoreInv, StoreTypeOK, IsTable, Erase, Restrict
<1>4. /\ IsTable(pullRequests', TaskIDs, PullRequests)
      /\ DOMAIN pullRequests' = DOMAIN pullRequests \ {t}
    BY <1>1 DEF StoreInv, StoreTypeOK, IsTable, Erase, Restrict
<1>5. \A d \in DOMAIN documents \ owned : documents[d].parent # <<"task", t>>
    BY DEF DocumentsOf
<1> HIDE DEF owned
<1>6. \A e \in dependencies' : e \in dependencies /\ e[1] # t /\ e[2] # t
    BY <1>1
<1>7. StoreTypeOK' /\ SequencesAhead'
    BY <1>1, <1>2, <1>3, <1>4, <1>6 DEF StoreInv, StoreTypeOK, SequencesAhead
<1>8. ForeignKeys'
    <2>1. \A d \in DOMAIN documents' : Exists(documents[d].parent)'
        <3> SUFFICES ASSUME NEW d \in DOMAIN documents' PROVE Exists(documents[d].parent)'
            OBVIOUS
        <3>1. PICK parent \in Parents : /\ parent = documents[d].parent /\ Exists(parent)
                                        /\ parent # <<"task", t>>
            BY <1>3, <1>5 DEF StoreInv, StoreTypeOK, IsTable, DocumentRow, ForeignKeys
        <3>2. Exists(parent)'
            BY <1>1, <1>2, <3>1 DEF Exists, Parents
        <3> QED BY <1>3, <3>1, <3>2
    <2> QED BY <1>1, <1>2, <1>4, <1>6, <2>1 DEF StoreInv, ForeignKeys
<1>9. DependenciesWithinOneFeature'
    BY <1>2, <1>6 DEF StoreInv, DependenciesWithinOneFeature, ForeignKeys
<1>10. Acyclic(DOMAIN tasks', dependencies')
    <2>1. dependencies' \subseteq dependencies /\ DOMAIN tasks' \subseteq DOMAIN tasks
        BY <1>2, <1>6
    <2> QED BY <2>1, AcyclicSubgraph DEF StoreInv
<1> QED BY <1>7, <1>8, <1>9, <1>10 DEF StoreInv

------------------------------------------------------------------------------
\* Dependencies

\* CyclePath looks at the dependencies of one feature only.  A set of its tasks
\* that they cannot leave is left by no dependency at all, because none leaves
\* the feature; so the set separates blocked from blocker in the whole graph.
LEMMA AddDependencyStep ==
    ASSUME StoreInv, NEW blocker \in TaskIDs, NEW blocked \in TaskIDs,
           AddDependency(blocker, blocked)
    PROVE  StoreInv'
<1> DEFINE f == tasks[blocker].feature
<1>1. /\ blocker \in DOMAIN tasks /\ blocked \in DOMAIN tasks
      /\ tasks[blocked].feature = f
      /\ ~ClosesCycle(FeatureDependencies(f), blocker, blocked)
      /\ dependencies' = dependencies \cup {<<blocker, blocked>>}
      /\ UNCHANGED <<sequences, projects, features, tasks, pullRequests, documents>>
    BY DEF AddDependency, WithinOneFeature
<1>2. PICK C \in SUBSET (Ends(FeatureDependencies(f)) \cup {blocked}) :
          blocked \in C /\ Closed(C, FeatureDependencies(f)) /\ blocker \notin C
    BY <1>1 DEF ClosesCycle, Reaches
<1>3. Closed(C, dependencies)
    <2>1. \A t \in C : tasks[t].feature = f
        BY <1>1, <1>2 DEF StoreInv, DependenciesWithinOneFeature, Ends, FeatureDependencies
    <2> QED BY <1>2, <2>1 DEF Closed, FeatureDependencies
<1>4. Acyclic(DOMAIN tasks, dependencies \cup {<<blocker, blocked>>})
    BY <1>2, <1>3, AcyclicNewDependency DEF StoreInv
<1>5. StoreTypeOK' /\ SequencesAhead'
    BY <1>1 DEF StoreInv, StoreTypeOK, SequencesAhead
<1>6. ForeignKeys'
    BY <1>1 DEF StoreInv, ForeignKeys, Exists
<1>7. DependenciesWithinOneFeature'
    BY <1>1 DEF StoreInv, DependenciesWithinOneFeature
<1> QED BY <1>1, <1>4, <1>5, <1>6, <1>7 DEF StoreInv

\* A graph without one of its edges is still acyclic.
LEMMA RemoveDependencyStep ==
    ASSUME StoreInv, NEW blocker \in TaskIDs, NEW blocked \in TaskIDs,
           RemoveDependency(blocker, blocked)
    PROVE  StoreInv'
<1>1. /\ dependencies' = dependencies \ {<<blocker, blocked>>}
      /\ UNCHANGED <<sequences, projects, features, tasks, pullRequests, documents>>
    BY DEF RemoveDependency
<1>2. StoreTypeOK' /\ SequencesAhead' /\ DependenciesWithinOneFeature'
    BY <1>1 DEF StoreInv, StoreTypeOK, SequencesAhead, DependenciesWithinOneFeature
<1>3. ForeignKeys'
    BY <1>1 DEF StoreInv, ForeignKeys, Exists
<1>4. Acyclic(DOMAIN tasks, dependencies \ {<<blocker, blocked>>})
    BY AcyclicSubgraph DEF StoreInv
<1> QED BY <1>1, <1>2, <1>3, <1>4 DEF StoreInv

------------------------------------------------------------------------------
\* Pull requests and documents

\* A step that leaves the other tables alone keeps the invariant when its pull
\* requests belong to tasks and its documents to parents that exist.
LEMMA LeavesStep ==
    ASSUME StoreInv, UNCHANGED <<projects, features, tasks, dependencies>>,
           sequences' \in [Entities -> Nat \ {0}],
           \A e \in {"project", "feature", "task"} : sequences'[e] = sequences[e],
           IsTable(pullRequests', TaskIDs, PullRequests),
           DOMAIN pullRequests' \subseteq DOMAIN tasks,
           IsTable(documents', DocumentIDs, DocumentRow),
           \A d \in DOMAIN documents' : /\ d < sequences'["document"]
                                        /\ Exists(documents'[d].parent)
    PROVE  StoreInv'
<1>1. StoreTypeOK' /\ SequencesAhead' /\ DependenciesWithinOneFeature'
    BY DEF StoreInv, StoreTypeOK, SequencesAhead, DependenciesWithinOneFeature
<1>2. ForeignKeys'
    BY DEF StoreInv, ForeignKeys, Exists
<1> QED BY <1>1, <1>2 DEF StoreInv

\* A pull request is attached to a task that exists.
LEMMA UpsertPullRequestStep ==
    ASSUME StoreInv, NEW t \in TaskIDs, NEW pr \in PullRequests, UpsertPullRequest(t, pr)
    PROVE  StoreInv'
<1>1. /\ IsTable(pullRequests', TaskIDs, PullRequests)
      /\ DOMAIN pullRequests' \subseteq DOMAIN tasks
    BY DEF StoreInv, StoreTypeOK, ForeignKeys, UpsertPullRequest, Put, IsTable
<1> QED BY <1>1, LeavesStep
        DEF StoreInv, StoreTypeOK, SequencesAhead, ForeignKeys, UpsertPullRequest

\* Nothing refers to a pull request.
LEMMA DeletePullRequestStep ==
    ASSUME StoreInv, NEW t \in TaskIDs, DeletePullRequest(t)
    PROVE  StoreInv'
<1>1. /\ IsTable(pullRequests', TaskIDs, PullRequests)
      /\ DOMAIN pullRequests' \subseteq DOMAIN tasks
    BY DEF StoreInv, StoreTypeOK, ForeignKeys, DeletePullRequest, IsTable, Erase, Restrict
<1> QED BY <1>1, LeavesStep
        DEF StoreInv, StoreTypeOK, SequencesAhead, ForeignKeys, DeletePullRequest

\* A new document belongs to a row that exists.
LEMMA CreateDocumentStep ==
    ASSUME StoreInv, NEW parent \in Parents, NEW title \in Bodies, NEW source \in Bodies,
           NEW plan \in BOOLEAN, CreateDocument(parent, title, source, plan)
    PROVE  StoreInv'
<1> DEFINE id == NextPublicID("document")
<1>1. /\ sequences' \in [Entities -> Nat \ {0}] /\ id \in DocumentIDs
      /\ sequences'["document"] = id + 1 /\ id = sequences["document"]
      /\ \A e \in {"project", "feature", "task"} : sequences'[e] = sequences[e]
    BY AllocateStep DEF StoreInv, CreateDocument, Bound, Entities, DocumentIDs, NextPublicID
<1>2. /\ IsTable(documents', DocumentIDs, DocumentRow)
      /\ DOMAIN documents' = DOMAIN documents \cup {id}
      /\ documents'[id].parent = parent
      /\ \A d \in DOMAIN documents : d # id => documents'[d] = documents[d]
    BY <1>1 DEF StoreInv, StoreTypeOK, CreateDocument, Put, IsTable, DocumentRow
<1> HIDE DEF id
<1>3. \A d \in DOMAIN documents' : d < sequences'["document"]
    BY <1>1, <1>2 DEF StoreInv, StoreTypeOK, SequencesAhead, IsTable, DocumentIDs
<1>4. \A d \in DOMAIN documents' : Exists(documents'[d].parent)
    BY <1>2 DEF StoreInv, ForeignKeys, CreateDocument
<1>5. /\ IsTable(pullRequests', TaskIDs, PullRequests)
      /\ DOMAIN pullRequests' \subseteq DOMAIN tasks
    BY DEF StoreInv, StoreTypeOK, ForeignKeys, CreateDocument
<1> QED BY <1>1, <1>2, <1>3, <1>4, <1>5, LeavesStep DEF CreateDocument

\* What an edit may write is of the columns' types, and never the owner.
LEMMA FieldsTyped ==
    ASSUME NEW fields \in DocumentFields
    PROVE  /\ DOMAIN fields \subseteq {"title", "source", "plan"}
           /\ "title" \in DOMAIN fields => fields["title"] \in Bodies
           /\ "source" \in DOMAIN fields => fields["source"] \in Bodies
           /\ "plan" \in DOMAIN fields => fields["plan"] \in BOOLEAN
<1>1. PICK columns \in SUBSET {"title", "source", "plan"}, row \in [title : Bodies, source : Bodies, plan : BOOLEAN] :
          fields = [c \in columns |-> row[c]]
    BY DEF DocumentFields
<1>2. row["title"] \in Bodies /\ row["source"] \in Bodies /\ row["plan"] \in BOOLEAN
    OBVIOUS
<1>3. DOMAIN fields = columns /\ \A c \in columns : fields[c] = row[c]
    BY <1>1
<1> QED BY <1>2, <1>3

\* An edit of a document keeps its owner.
LEMMA UpdateDocumentStep ==
    ASSUME StoreInv, NEW d \in DocumentIDs, NEW fields,
           "title" \in DOMAIN fields => fields["title"] \in Bodies,
           "source" \in DOMAIN fields => fields["source"] \in Bodies,
           "plan" \in DOMAIN fields => fields["plan"] \in BOOLEAN,
           UpdateDocument(d, fields)
    PROVE  StoreInv'
<1>1. PICK row \in DocumentRow : /\ documents' = Put(documents, d, row)
                                 /\ row.parent = documents[d].parent
    <2> DEFINE Column(c) == IF c \in DOMAIN fields THEN fields[c] ELSE documents[d][c]
               row == [parent |-> documents[d].parent, title |-> Column("title"),
                       source |-> Column("source"), plan |-> Column("plan")]
    <2>1. documents[d] \in DocumentRow
        BY DEF StoreInv, StoreTypeOK, IsTable, UpdateDocument
    <2>2. /\ documents[d].parent \in Parents
          /\ documents[d]["title"] \in Bodies /\ documents[d]["source"] \in Bodies
          /\ documents[d]["plan"] \in BOOLEAN
        BY <2>1 DEF DocumentRow
    <2>3. /\ Column("title") \in Bodies /\ Column("source") \in Bodies
          /\ Column("plan") \in BOOLEAN
        BY <2>2
    <2>4. documents' = Put(documents, d, row)
        BY DEF UpdateDocument
    <2> HIDE DEF Column
    <2> QED BY <2>2, <2>3, <2>4 DEF DocumentRow
<1>2. /\ IsTable(documents', DocumentIDs, DocumentRow)
      /\ DOMAIN documents' = DOMAIN documents
      /\ \A i \in DOMAIN documents : documents'[i].parent = documents[i].parent
    BY <1>1 DEF StoreInv, StoreTypeOK, UpdateDocument, Put, IsTable
<1>3. UNCHANGED <<sequences, projects, features, tasks, dependencies, pullRequests>>
    BY DEF UpdateDocument
<1>4. \A i \in DOMAIN documents' : i < sequences["document"] /\ Exists(documents'[i].parent)
    BY <1>2 DEF StoreInv, SequencesAhead, ForeignKeys
<1> QED BY <1>2, <1>3, <1>4, LeavesStep DEF StoreInv, StoreTypeOK, ForeignKeys

\* Removing documents is always allowed.
LEMMA EraseDocumentsStep ==
    ASSUME StoreInv, NEW S, documents' = Erase(documents, S),
           UNCHANGED <<sequences, projects, features, tasks, dependencies, pullRequests>>
    PROVE  StoreInv'
<1>1. /\ IsTable(documents', DocumentIDs, DocumentRow)
      /\ DOMAIN documents' \subseteq DOMAIN documents
      /\ \A d \in DOMAIN documents' : documents'[d] = documents[d]
    BY DEF StoreInv, StoreTypeOK, IsTable, Erase, Restrict
<1>2. \A d \in DOMAIN documents' : d < sequences["document"] /\ Exists(documents'[d].parent)
    BY <1>1 DEF StoreInv, SequencesAhead, ForeignKeys
<1> QED BY <1>1, <1>2, LeavesStep DEF StoreInv, StoreTypeOK, ForeignKeys

\* A plan is the document of a task that exists, created or edited.
LEMMA UpsertImplementationPlanStep ==
    ASSUME StoreInv, NEW t \in TaskIDs, NEW title \in Bodies, NEW source \in Bodies,
           UpsertImplementationPlan(t, title, source)
    PROVE  StoreInv'
<1>1. CASE \E d \in PlansOf(t) : UpdateDocument(d, [source |-> source])
    <2>1. PICK d \in DocumentIDs : UpdateDocument(d, [source |-> source])
        BY <1>1 DEF PlansOf, DocumentsOf, StoreInv, StoreTypeOK, IsTable
    <2> QED BY <2>1, UpdateDocumentStep
<1>2. CASE CreateDocument(<<"task", t>>, title, source, TRUE)
    <2>1. <<"task", t>> \in Parents
        BY DEF Parents
    <2> QED BY <1>2, <2>1, CreateDocumentStep
<1> QED BY <1>1, <1>2 DEF UpsertImplementationPlan

------------------------------------------------------------------------------
\* The invariant

\* The empty database satisfies the invariant.
LEMMA StoreInitInv == StoreInit => StoreInv
BY DEF StoreInit, StoreInv, StoreTypeOK, SequencesAhead, ForeignKeys, IsTable, Entities,
   DependenciesWithinOneFeature, Acyclic

\* Every transaction preserves the inductive invariant, for every value of the
\* constants: any number of rows, any bodies, any pull requests.
LEMMA StoreNextInv == StoreInv /\ [StoreNext]_storeVars => StoreInv'
<1> SUFFICES ASSUME StoreInv, [StoreNext]_storeVars
             PROVE  StoreInv'
    OBVIOUS
<1>1. CASE UNCHANGED storeVars
    BY <1>1 DEF storeVars, tables, StoreInv, StoreTypeOK, SequencesAhead, ForeignKeys, Exists,
       DependenciesWithinOneFeature
<1>2. CASE \E body \in Bodies : CreateProject(body)
    BY <1>2, CreateProjectStep
<1>3. CASE \E p \in ProjectIDs : \/ \E row \in ProjectRow : UpdateProject(p, row)
                                 \/ \E body \in Bodies : CreateFeature(p, body)
                                 \/ \E cascade \in BOOLEAN : DeleteProject(p, cascade)
    BY <1>3, UpdateProjectStep, CreateFeatureStep, DeleteProjectStep
<1>4. CASE \E f \in FeatureIDs : \/ \E row \in FeatureRow : UpdateFeature(f, row)
                                 \/ \E body \in Bodies : CreateTask(f, body)
                                 \/ \E cascade \in BOOLEAN : DeleteFeature(f, cascade)
    BY <1>4, UpdateFeatureStep, CreateTaskStep, DeleteFeatureStep
<1>5. ASSUME NEW t \in TaskIDs,
             \/ \E body \in Bodies : UpdateTask(t, body)
             \/ \E cascade \in BOOLEAN : DeleteTask(t, cascade)
             \/ \E u \in TaskIDs : AddDependency(t, u) \/ RemoveDependency(t, u)
             \/ \E pr \in PullRequests : UpsertPullRequest(t, pr)
             \/ DeletePullRequest(t)
             \/ \E b, c \in Bodies : UpsertImplementationPlan(t, b, c)
      PROVE  StoreInv'
    BY <1>5, UpdateTaskStep, DeleteTaskStep, AddDependencyStep, RemoveDependencyStep,
       UpsertPullRequestStep, DeletePullRequestStep, UpsertImplementationPlanStep
<1>6. ASSUME NEW t \in TaskIDs, DeleteImplementationPlan(t)
      PROVE  StoreInv'
    BY <1>6, EraseDocumentsStep DEF DeleteImplementationPlan
<1>7. CASE \E parent \in Parents, b, c \in Bodies, plan \in BOOLEAN :
              CreateDocument(parent, b, c, plan)
    BY <1>7, CreateDocumentStep
<1>8. ASSUME NEW d \in DocumentIDs, NEW fields \in DocumentFields, UpdateDocument(d, fields)
      PROVE  StoreInv'
    <2>1. /\ "title" \in DOMAIN fields => fields["title"] \in Bodies
          /\ "source" \in DOMAIN fields => fields["source"] \in Bodies
          /\ "plan" \in DOMAIN fields => fields["plan"] \in BOOLEAN
        BY FieldsTyped
    <2> QED BY <1>8, <2>1, UpdateDocumentStep
<1>9. ASSUME NEW d \in DocumentIDs, DeleteDocument(d)
      PROVE  StoreInv'
    BY <1>9, EraseDocumentsStep DEF DeleteDocument
<1> QED BY <1>1, <1>2, <1>3, <1>4, <1>5, <1>6, <1>7, <1>8, <1>9 DEF StoreNext

\* So it holds in every state of the store.
THEOREM StoreInvariant == StoreSpec => []StoreInv
BY StoreInitInv, StoreNextInv, PTL DEF StoreSpec

\* Type correctness of the tables.
THEOREM StoreTypes == StoreSpec => []StoreTypeOK
BY StoreInvariant, PTL DEF StoreInv

\* What `nnx debug' validates holds after every sequence of transactions: the
\* foreign keys and, across all features, a graph that can be ordered.
THEOREM AlwaysValid == StoreSpec => []ValidateClean
<1>1. StoreInv => ValidateClean
    BY DEF StoreInv, ValidateClean
<1> QED BY <1>1, StoreInvariant, PTL

\* A dependency never leaves its feature, whatever moves or is deleted.
THEOREM DependenciesStay == StoreSpec => []DependenciesWithinOneFeature
BY StoreInvariant, PTL DEF StoreInv

\* deleteFeatureContents never runs into a RESTRICT, although it looks for
\* dependencies at their blocker only.
THEOREM CascadeSucceeds == StoreSpec => []CascadeNeverRestricted
<1>1. StoreInv => CascadeNeverRestricted
    BY NotRestricted DEF StoreInv, CascadeNeverRestricted
<1> QED BY <1>1, StoreInvariant, PTL

------------------------------------------------------------------------------
\* Public IDs over time

Kinds == {"project", "feature", "task"}

\* Every ID ever issued is below its sequence, whatever has been deleted since.
IssuedBelow ==
    /\ issued \in [Kinds -> SUBSET Nat]
    /\ \A e \in Kinds : \A i \in issued[e] : i < sequences[e]

HistoryInv == StoreInv /\ IssuedBelow

------------------------------------------------------------------------------
\* What a transaction does to one kind of row: the counter never goes back, and
\* a row that appears has the ID that the counter stood at.
Counts(e) == /\ sequences'[e] >= sequences[e]
             /\ Issued'[e] \subseteq Issued[e] \cup {sequences[e]}

\* A transaction that leaves the counters alone adds no row.
LEMMA NoNewRows ==
    ASSUME StoreInv, sequences' = sequences,
           DOMAIN projects' \subseteq DOMAIN projects, DOMAIN features' \subseteq DOMAIN features,
           DOMAIN tasks' \subseteq DOMAIN tasks
    PROVE  \A e \in Kinds : Counts(e)
<1>1. \A e \in Kinds : sequences[e] \in Nat
    BY DEF StoreInv, StoreTypeOK, Entities, Kinds
<1>2. \A e \in Kinds : Issued'[e] \subseteq Issued[e]
    BY DEF Issued, Kinds
<1> QED BY <1>1, <1>2 DEF Counts

\* A transaction that allocates an ID adds at most the row with that ID.
LEMMA OneNewRow ==
    ASSUME StoreInv, NEW k \in Entities, Allocate(k),
           \A e \in Kinds : Issued'[e] \subseteq Issued[e] \cup (IF e = k THEN {NextPublicID(k)} ELSE {})
    PROVE  \A e \in Kinds : Counts(e)
<1>1. \A e \in Kinds : e \in Entities /\ sequences[e] \in Nat
    BY DEF StoreInv, StoreTypeOK, Entities, Kinds
<1>2. /\ sequences'[k] = sequences[k] + 1
      /\ \A e \in Entities \ {k} : sequences'[e] = sequences[e]
    BY AllocateStep DEF StoreInv, NextPublicID
<1> QED BY <1>1, <1>2 DEF Counts, NextPublicID

\* Erasing rows leaves a smaller table.
LEMMA SmallerTable ==
    ASSUME NEW T, NEW S PROVE DOMAIN Erase(T, S) \subseteq DOMAIN T
BY DEF Erase, Restrict

\* Writing a row that exists leaves the IDs as they are.
LEMMA SameTable ==
    ASSUME NEW T, NEW i \in DOMAIN T, NEW row PROVE DOMAIN Put(T, i, row) = DOMAIN T
BY DEF Put

\* Only CreateProject adds a project, with the ID that its sequence stood at.
LEMMA ProjectTransactions ==
    ASSUME StoreInv, NEW p \in ProjectIDs,
           \/ \E body \in Bodies : CreateProject(body)
           \/ \E row \in ProjectRow : UpdateProject(p, row)
           \/ \E cascade \in BOOLEAN : DeleteProject(p, cascade)
    PROVE  \A e \in Kinds : Counts(e)
<1>1. CASE \E body \in Bodies : CreateProject(body)
    <2>1. PICK body \in Bodies : CreateProject(body)
        BY <1>1
    <2>2. \A e \in Kinds : Issued'[e] \subseteq Issued[e] \cup (IF e = "project" THEN {NextPublicID("project")} ELSE {})
        BY <2>1 DEF CreateProject, Put, Issued, Kinds
    <2> QED BY <2>1, <2>2, OneNewRow DEF CreateProject, Entities
<1>2. CASE \E row \in ProjectRow : UpdateProject(p, row)
    BY <1>2, SameTable, NoNewRows DEF UpdateProject
<1>3. CASE \E cascade \in BOOLEAN : DeleteProject(p, cascade)
    BY <1>3, SmallerTable, NoNewRows DEF DeleteProject, DeleteFeatureContents
<1> QED BY <1>1, <1>2, <1>3

\* Only CreateFeature adds a feature, with the ID that its sequence stood at.
LEMMA FeatureTransactions ==
    ASSUME StoreInv, NEW p \in ProjectIDs, NEW f \in FeatureIDs,
           \/ \E body \in Bodies : CreateFeature(p, body)
           \/ \E row \in FeatureRow : UpdateFeature(f, row)
           \/ \E cascade \in BOOLEAN : DeleteFeature(f, cascade)
    PROVE  \A e \in Kinds : Counts(e)
<1>1. CASE \E body \in Bodies : CreateFeature(p, body)
    <2>1. PICK body \in Bodies : CreateFeature(p, body)
        BY <1>1
    <2>2. \A e \in Kinds : Issued'[e] \subseteq Issued[e] \cup (IF e = "feature" THEN {NextPublicID("feature")} ELSE {})
        BY <2>1 DEF CreateFeature, Put, Issued, Kinds
    <2> QED BY <2>1, <2>2, OneNewRow DEF CreateFeature, Entities
<1>2. CASE \E row \in FeatureRow : UpdateFeature(f, row)
    BY <1>2, SameTable, NoNewRows DEF UpdateFeature
<1>3. CASE \E cascade \in BOOLEAN : DeleteFeature(f, cascade)
    BY <1>3, SmallerTable, NoNewRows DEF DeleteFeature, DeleteFeatureContents
<1> QED BY <1>1, <1>2, <1>3

\* Only CreateTask adds a task.
LEMMA TaskTransactions ==
    ASSUME StoreInv, NEW f \in FeatureIDs, NEW t \in TaskIDs,
           \/ \E body \in Bodies : CreateTask(f, body)
           \/ \E body \in Bodies : UpdateTask(t, body)
           \/ \E cascade \in BOOLEAN : DeleteTask(t, cascade)
    PROVE  \A e \in Kinds : Counts(e)
<1>1. CASE \E body \in Bodies : CreateTask(f, body)
    <2>1. PICK body \in Bodies : CreateTask(f, body)
        BY <1>1
    <2>2. \A e \in Kinds : Issued'[e] \subseteq Issued[e] \cup (IF e = "task" THEN {NextPublicID("task")} ELSE {})
        BY <2>1 DEF CreateTask, Put, Issued, Kinds
    <2> QED BY <2>1, <2>2, OneNewRow DEF CreateTask, Entities
<1>2. CASE \E body \in Bodies : UpdateTask(t, body)
    BY <1>2, SameTable, NoNewRows DEF UpdateTask
<1>3. CASE \E cascade \in BOOLEAN : DeleteTask(t, cascade)
    BY <1>3, SmallerTable, NoNewRows DEF DeleteTask
<1> QED BY <1>1, <1>2, <1>3

\* What is attached to tasks has no public ID.
LEMMA AttachmentTransactions ==
    ASSUME StoreInv, NEW t \in TaskIDs, NEW u \in TaskIDs,
           \/ AddDependency(t, u) \/ RemoveDependency(t, u)
           \/ \E pr \in PullRequests : UpsertPullRequest(t, pr)
           \/ DeletePullRequest(t) \/ DeleteImplementationPlan(t)
    PROVE  \A e \in Kinds : Counts(e)
BY NoNewRows DEF AddDependency, RemoveDependency, UpsertPullRequest, DeletePullRequest, DeleteImplementationPlan

\* A document takes its ID from a sequence of its own.
LEMMA CreateDocumentCounts ==
    ASSUME StoreInv, NEW parent, NEW b, NEW c, NEW plan, CreateDocument(parent, b, c, plan)
    PROVE  \A e \in Kinds : Counts(e)
<1>1. \A e \in Kinds : e # "document" /\ Issued'[e] = Issued[e]
    BY DEF CreateDocument, Issued, Kinds
<1> QED BY <1>1, OneNewRow DEF CreateDocument, Entities

\* An edit of a document takes none.
LEMMA UpdateDocumentCounts ==
    ASSUME StoreInv, NEW d, NEW fields, UpdateDocument(d, fields)
    PROVE  \A e \in Kinds : Counts(e)
BY NoNewRows DEF UpdateDocument

\* Every transaction counts, for every kind of row.
LEMMA TransactionsCount == StoreInv /\ [StoreNext]_storeVars => \A e \in Kinds : Counts(e)
<1> SUFFICES ASSUME StoreInv, [StoreNext]_storeVars PROVE \A e \in Kinds : Counts(e)
    OBVIOUS
<1>1. CASE UNCHANGED storeVars
    BY <1>1, NoNewRows DEF storeVars, tables
<1>2. CASE \E body \in Bodies : CreateProject(body)
    <2>1. 1 \in ProjectIDs
        <3>1. PICK body \in Bodies : CreateProject(body)
            BY <1>2
        <3>2. NextPublicID("project") \in 1..MaxProjects
            BY <3>1, AllocateStep DEF StoreInv, CreateProject, Bound, Entities
        <3> QED BY <3>2, StoreAssumption DEF ProjectIDs
    <2> QED BY <1>2, <2>1, ProjectTransactions
<1>3. ASSUME NEW p \in ProjectIDs,
             \/ \E row \in ProjectRow : UpdateProject(p, row)
             \/ \E cascade \in BOOLEAN : DeleteProject(p, cascade)
      PROVE  \A e \in Kinds : Counts(e)
    BY <1>3, ProjectTransactions
<1>4. ASSUME NEW p \in ProjectIDs, NEW body \in Bodies, CreateFeature(p, body)
      PROVE  \A e \in Kinds : Counts(e)
    <2>1. NextPublicID("feature") \in FeatureIDs
        BY <1>4, AllocateStep DEF StoreInv, CreateFeature, Bound, Entities, FeatureIDs
    <2> QED BY <1>4, <2>1, FeatureTransactions
<1>5. ASSUME NEW f \in FeatureIDs,
             \/ \E row \in FeatureRow : UpdateFeature(f, row)
             \/ \E cascade \in BOOLEAN : DeleteFeature(f, cascade)
      PROVE  \A e \in Kinds : Counts(e)
    <2>1. PICK p : p \in ProjectIDs
        BY <1>5 DEF StoreInv, StoreTypeOK, IsTable, FeatureRow, UpdateFeature, DeleteFeature
    <2> QED BY <1>5, <2>1, FeatureTransactions
<1>6. ASSUME NEW f \in FeatureIDs, NEW body \in Bodies, CreateTask(f, body)
      PROVE  \A e \in Kinds : Counts(e)
    <2>1. NextPublicID("task") \in TaskIDs
        BY <1>6, AllocateStep DEF StoreInv, CreateTask, Bound, Entities, TaskIDs
    <2> QED BY <1>6, <2>1, TaskTransactions
<1>7. ASSUME NEW t \in TaskIDs,
             \/ \E body \in Bodies : UpdateTask(t, body)
             \/ \E cascade \in BOOLEAN : DeleteTask(t, cascade)
      PROVE  \A e \in Kinds : Counts(e)
    <2>1. PICK f : f \in FeatureIDs
        BY <1>7 DEF StoreInv, StoreTypeOK, IsTable, TaskRow, UpdateTask, DeleteTask
    <2> QED BY <1>7, <2>1, TaskTransactions
<1>8. ASSUME NEW t \in TaskIDs,
             \/ \E u \in TaskIDs : AddDependency(t, u) \/ RemoveDependency(t, u)
             \/ \E pr \in PullRequests : UpsertPullRequest(t, pr)
             \/ DeletePullRequest(t) \/ DeleteImplementationPlan(t)
      PROVE  \A e \in Kinds : Counts(e)
    BY <1>8, AttachmentTransactions
<1>9. ASSUME NEW t \in TaskIDs, NEW b \in Bodies, NEW c \in Bodies, UpsertImplementationPlan(t, b, c)
      PROVE  \A e \in Kinds : Counts(e)
    BY <1>9, CreateDocumentCounts, UpdateDocumentCounts DEF UpsertImplementationPlan
<1>10. CASE \E parent \in Parents, b, c \in Bodies, plan \in BOOLEAN : CreateDocument(parent, b, c, plan)
    BY <1>10, CreateDocumentCounts
<1>11. CASE \E d \in DocumentIDs :
               \E fields \in DocumentFields : UpdateDocument(d, fields)
    BY <1>11, UpdateDocumentCounts
<1>12. ASSUME NEW d \in DocumentIDs, DeleteDocument(d) PROVE \A e \in Kinds : Counts(e)
    BY <1>12, NoNewRows DEF DeleteDocument
<1> QED BY <1>1, <1>2, <1>3, <1>4, <1>5, <1>6, <1>7, <1>8, <1>9, <1>10, <1>11, <1>12 DEF StoreNext

------------------------------------------------------------------------------
\* Before anything was created nothing has been issued.
LEMMA HistoryInitInv == HInit => HistoryInv
<1> SUFFICES ASSUME HInit PROVE HistoryInv
    OBVIOUS
<1>1. StoreInv
    BY StoreInitInv DEF HInit
<1>2. IssuedBelow
    BY DEF HInit, IssuedBelow, Kinds
<1> QED BY <1>1, <1>2 DEF HistoryInv

\* IDs that are in use are below their sequence, so those ever issued stay so.
LEMMA HistoryNextInv == HistoryInv /\ [HNext]_historyVars => HistoryInv'
<1> SUFFICES ASSUME HistoryInv, [HNext]_historyVars PROVE HistoryInv'
    OBVIOUS
<1>1. [StoreNext]_storeVars
    BY DEF HNext, historyVars
<1>2. StoreInv'
    BY <1>1, StoreNextInv DEF HistoryInv
<1>3. IssuedBelow'
    <2>1. \A e \in Kinds : sequences[e] \in Nat /\ sequences'[e] \in Nat /\ sequences'[e] >= sequences[e]
        BY <1>1, <1>2, TransactionsCount DEF HistoryInv, StoreInv, StoreTypeOK, Counts, Entities, Kinds
    <2>2. \A e \in Kinds : Issued'[e] \in SUBSET Nat /\ \A i \in Issued'[e] : i < sequences'[e]
        BY <1>2 DEF StoreInv, SequencesAhead, StoreTypeOK, IsTable, ProjectIDs, FeatureIDs, TaskIDs, Issued, Kinds
    <2>3. issued \in [Kinds -> SUBSET Nat] /\ \A e \in Kinds : \A i \in issued[e] : i < sequences[e]
        BY DEF HistoryInv, IssuedBelow
    <2>4. CASE issued' = [e \in DOMAIN issued |-> issued[e] \cup Issued'[e]]
        <3>1. DOMAIN issued = Kinds
            BY <2>3
        <3>2. issued' \in [Kinds -> SUBSET Nat]
            BY <2>2, <2>3, <2>4, <3>1
        <3>3. ASSUME NEW e \in Kinds, NEW i \in issued'[e] PROVE i < sequences'[e]
            <4>1. i \in issued[e] \/ i \in Issued'[e]
                BY <2>4, <3>1, <3>3
            <4>2. i \in Nat
                BY <3>2, <3>3
            <4> QED BY <2>1, <2>2, <2>3, <4>1, <4>2
        <3> QED BY <3>2, <3>3 DEF IssuedBelow
    <2>5. CASE UNCHANGED historyVars
        BY <2>3, <2>5 DEF IssuedBelow, historyVars, storeVars
    <2> QED BY <2>4, <2>5 DEF HNext
<1> QED BY <1>2, <1>3 DEF HistoryInv

\* A row that appears has the ID that its sequence stood at, and every ID issued
\* before is below that.
LEMMA NewIDIsFresh ==
    HistoryInv /\ [HNext]_historyVars
        => [\A e \in DOMAIN issued : (Issued'[e] \ Issued[e]) \cap issued[e] = {}]_historyVars
<1> SUFFICES ASSUME HistoryInv, [HNext]_historyVars, NEW e \in DOMAIN issued
             PROVE  (Issued'[e] \ Issued[e]) \cap issued[e] = {}
    OBVIOUS
<1>1. e \in Kinds
    BY DEF HistoryInv, IssuedBelow
<1>2. Issued'[e] \subseteq Issued[e] \cup {sequences[e]}
    BY <1>1, TransactionsCount DEF HistoryInv, HNext, historyVars, Counts
<1>3. sequences[e] \in Nat /\ \A i \in issued[e] : i < sequences[e]
    BY <1>1 DEF HistoryInv, IssuedBelow, StoreInv, StoreTypeOK, Entities, Kinds
<1>4. sequences[e] \notin issued[e]
    BY <1>3
<1> QED BY <1>2, <1>4

\* A public ID names one row for good, however many rows were created, deleted
\* and deleted by cascade.
THEOREM IdsStayUnique == HSpec => IdsNeverReused
<1>1. HSpec => []HistoryInv
    BY HistoryInitInv, HistoryNextInv, PTL DEF HSpec
<1> QED BY <1>1, NewIDIsFresh, PTL DEF HSpec, IdsNeverReused

===============================================================================
