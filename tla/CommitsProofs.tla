----------------------------- MODULE CommitsProofs -----------------------------
(***************************************************************************)
(* Theorems about what is committed and how the tabs hear of it.           *)
(*                                                                         *)
(* Of Transactions, for any number of connections and any operations: they *)
(* implement StoreHistory, so that every operation is one step of the      *)
(* store, and no statement of a cascade is ever refused.  The invariant    *)
(* says of each transaction under way how far it has come, in terms of the *)
(* tables that it began with: nobody else commits before it does, so they  *)
(* are the tables at its commit.  For an operation of a single statement   *)
(* it says nothing of what was looked up: what its statement and the       *)
(* schema require at that moment is enough.                                *)
(*                                                                         *)
(* Of Revision, for any number of tabs, changes and failures: channels of  *)
(* capacity one lose nothing.                                              *)
(***************************************************************************)
EXTENDS Transactions, Revision, StoreProofs, SequenceTheorems, FiniteSetTheorems, TLAPS

------------------------------------------------------------------------------
\* What a transaction has done so far, in terms of the tables that it began with.

\* The dependencies that are left without those of the tasks of ds, and the parents of the documents
\* under `extra' and in the features is.
Unlinked(ds) == {e \in dependencies : e[1] \notin TasksOf(ds)}
Emptied(extra, is) == extra \cup ({"feature"} \X is) \cup ({"task"} \X TasksOf(is))

\* Of a cascade over features: the dependencies of the features ds are gone, the pull
\* requests of rs, the documents of is and those under `extra', the tasks of ts, the
\* features fs themselves.
Gone(extra, ds, rs, is, ts, fs) ==
    [sequences |-> sequences, projects |-> projects,
     features |-> Erase(features, fs),
     tasks |-> Erase(tasks, TasksOf(ts)),
     dependencies |-> Unlinked(ds),
     pullRequests |-> Erase(pullRequests, TasksOf(rs)),
     documents |-> Erase(documents, DocumentsOf(Emptied(extra, is)))]

\* All of the features fs.
AllGone(extra, fs) == Gone(extra, fs, fs, fs, fs, fs)

\* The statements left, of those for one feature.
Coming(s, do, id) == s # <<>> /\ Head(s) = Delete(do, id)
Left1(s, f, more) == Coming(s, "DeleteFeature", f) /\ Tail(s) = more
Left2(s, f, more) == Coming(s, "DeleteTasksForFeature", f) /\ Left1(Tail(s), f, more)
Left3(s, f, more) == Coming(s, "DeleteDocumentsForFeature", f) /\ Left2(Tail(s), f, more)
Left4(s, f, more) == Coming(s, "DeletePullRequestsForFeature", f) /\ Left3(Tail(s), f, more)
Left5(s, f, more) == Coming(s, "DeleteDependenciesForFeature", f) /\ Left4(Tail(s), f, more)

\* The feature f is being deleted, after the features fs.
FeatureGoing(s, d, f, extra, fs, more) ==
    LET gs == fs \cup {f}
    IN  \/ Left5(s, f, more) /\ d = Gone(extra, fs, fs, fs, fs, fs)
        \/ Left4(s, f, more) /\ d = Gone(extra, gs, fs, fs, fs, fs)
        \/ Left3(s, f, more) /\ d = Gone(extra, gs, gs, fs, fs, fs)
        \/ Left2(s, f, more) /\ d = Gone(extra, gs, gs, gs, fs, fs)
        \/ Left1(s, f, more) /\ d = Gone(extra, gs, gs, gs, gs, fs)

\* Its next statement is accepted and takes the cascade one step on.
FeatureGoesOn(s, d, f, extra, fs, more) ==
    \E e : /\ Outcomes(Head(s), d) = {e}
           /\ \/ FeatureGoing(Tail(s), e, f, extra, fs, more)
              \/ Tail(s) = more /\ e = AllGone(extra, fs \cup {f})

\* Of a cascade over one task, for which each of the sets is empty or holds it: the
\* dependencies of es are gone, the pull requests of rs, the documents of is, the tasks ts.
TaskGone(es, rs, is, ts) ==
    [sequences |-> sequences, projects |-> projects, features |-> features,
     tasks |-> Erase(tasks, ts),
     dependencies |-> {e \in dependencies : e[1] \notin es /\ e[2] \notin es},
     pullRequests |-> Erase(pullRequests, rs),
     documents |-> Erase(documents, DocumentsOf({"task"} \X is))]

\* Of a creation: the counter moved on, then the row inserted.
Creating(o, entity, s, d) ==
    \/ s = Creates(o, entity) /\ d = Committed
    \/ \E e \in IncrementIDSequence(Committed, entity) :
          (s = <<o>> /\ d = e) \/ (s = <<>> /\ d \in Written(o, e))

\* The project's features, those of fs gone.
ProjectGoing(o, s, d) ==
    LET p == o.id
        held == FeaturesOf(p)
        own == {<<"project", p>>}
        last == Delete("DeleteProject", p)
    IN  \/ s = <<Delete("DeleteDocumentsForProject", p), EachFeature(held), last>> /\ d = Committed
        \/ \E fs \in SUBSET held : s = <<EachFeature(held \ fs), last>> /\ d = AllGone(own, fs)
        \/ \E fs \in SUBSET held : \E f \in held \ fs :
              FeatureGoing(s, d, f, own, fs, <<EachFeature(held \ (fs \cup {f})), last>>)
        \/ s = <<last>> /\ d = AllGone(own, held)
        \/ s = <<>> /\ d = EraseProject(AllGone(own, held), p)

\* The feature, with or without cascade.
FeatureDeleted(o, s, d) ==
    \/ FeatureGoing(s, d, o.id, {}, {}, <<>>)
    \/ s = <<>> /\ d = AllGone({}, {o.id})

\* The task, in the order of DeleteTask.
TaskGoing(o, s, d) ==
    LET t == o.id
        last == Delete("DeleteTask", t)
    IN  \/ /\ s = <<Delete("DeleteDependenciesForTask", t), Delete("DeletePullRequest", t),
                   Delete("DeleteDocumentsForTask", t), last>>
           /\ d = TaskGone({}, {}, {}, {})
        \/ /\ s = <<Delete("DeletePullRequest", t), Delete("DeleteDocumentsForTask", t), last>>
           /\ d = TaskGone({t}, {}, {}, {})
        \/ s = <<Delete("DeleteDocumentsForTask", t), last>> /\ d = TaskGone({t}, {t}, {}, {})
        \/ s = <<last>> /\ d = TaskGone({t}, {t}, {t}, {})
        \/ s = <<>> /\ d = TaskGone({t}, {t}, {t}, {t})

\* Without cascade a deletion starts at its last statement: nothing refers to the row.
Progress(o, s, d) ==
    /\ o.do = "CreateProject" => Creating(o, "project", s, d)
    /\ o.do = "CreateFeature" => Creating(o, "feature", s, d)
    /\ o.do = "CreateTask" => Creating(o, "task", s, d)
    /\ o.do \in {"AddDependency", "RemoveDependency"} =>
          (s = <<o>> /\ d = Committed) \/ (s = <<>> /\ d \in Written(o, Committed))
    /\ o.do = "DeleteProject" => ProjectGoing(o, s, d)
    /\ o.do = "DeleteFeature" => FeatureDeleted(o, s, d)
    /\ o.do = "DeleteTask" => TaskGoing(o, s, d)

\* What an operation under way is, was allowed to begin with, and has done.
InHand(now) ==
    /\ now.operation \in Operations
    /\ IF Transactional(now.operation)
       THEN /\ UniqueIndexes(now.db) /\ Finds(now.operation, Committed)
            /\ Progress(now.operation, now.script, now.db)
       ELSE now.db = <<>> /\ now.script = <<now.operation>>

\* The inductive invariant.
CommitsInv ==
    /\ StoreInv /\ UniqueIndexes(Committed)
    /\ DOMAIN connection = Connections
    /\ \A c \in Connections : /\ DOMAIN connection[c] = {"operation", "script", "db"}
                              /\ Running(c) => InHand(connection[c])
    /\ \A b, c \in Connections : InTransaction(b) /\ InTransaction(c) => b = c

------------------------------------------------------------------------------
\* Tables

\* Two deletions from a table are one.
LEMMA EraseTwice == ASSUME NEW T, NEW A, NEW B PROVE Erase(Erase(T, A), B) = Erase(T, A \cup B)
BY DEF Erase, Restrict

\* What a deletion leaves of a table.
LEMMA ErasedRows == ASSUME NEW T, NEW A PROVE /\ DOMAIN Erase(T, A) = DOMAIN T \ A
                                              /\ \A i \in DOMAIN T \ A : Erase(T, A)[i] = T[i]
BY DEF Erase, Restrict

\* A deletion that finds no row.
LEMMA EraseNothing == ASSUME NEW T, NEW ids, NEW row, IsTable(T, ids, row), NEW A, A \cap DOMAIN T = {}
                      PROVE Erase(T, A) = T
BY DEF IsTable, Erase, Restrict

\* A cascade over a feature begins with the tables as they are.
LEMMA NoneGone == ASSUME StoreInv PROVE AllGone({}, {}) = Committed
<1>1. TasksOf({}) = {} /\ DocumentsOf({} \cup ({"feature"} \X {}) \cup ({"task"} \X {})) = {}
    BY DEF TasksOf, DocumentsOf
<1>2. Erase(features, {}) = features /\ Erase(tasks, {}) = tasks /\ Erase(pullRequests, {}) = pullRequests
      /\ Erase(documents, {}) = documents
    BY EraseNothing DEF StoreInv, StoreTypeOK
<1> QED BY <1>1, <1>2 DEF AllGone, Gone, Unlinked, Emptied, Committed

------------------------------------------------------------------------------
\* The statements of a cascade

\* The rows that a statement for the feature f finds, while the feature has its tasks.
LEMMA FindsTasks ==
    ASSUME NEW extra, NEW ds, NEW rs, NEW is, NEW ts, NEW fs, NEW f, f \notin ts
    PROVE  ListTasksByFeature(Gone(extra, ds, rs, is, ts, fs), f) = TasksOf({f})
<1> DEFINE d == Gone(extra, ds, rs, is, ts, fs)
<1>1. d.tasks = Erase(tasks, TasksOf(ts))
    BY DEF Gone, Unlinked, Emptied
<1>2. /\ DOMAIN d.tasks = DOMAIN tasks \ TasksOf(ts)
      /\ \A t \in DOMAIN tasks \ TasksOf(ts) : d.tasks[t] = tasks[t]
    <2>1. /\ DOMAIN Erase(tasks, TasksOf(ts)) = DOMAIN tasks \ TasksOf(ts)
          /\ \A t \in DOMAIN tasks \ TasksOf(ts) : Erase(tasks, TasksOf(ts))[t] = tasks[t]
        BY ErasedRows
    <2> QED BY <1>1, <2>1, Zenon
<1> HIDE DEF d
<1> QED BY <1>2 DEF ListTasksByFeature, TasksOf, d

\* The tasks of one feature more.
LEMMA TasksOfMore == \A fs, f : TasksOf(fs \cup {f}) = TasksOf(fs) \cup TasksOf({f})
BY DEF TasksOf

\* DeleteDependenciesForFeature takes the cascade to the feature's dependencies.
LEMMA DependenciesGo ==
    ASSUME NEW extra, NEW ds, NEW rs, NEW is, NEW ts, NEW fs, NEW f, f \notin ts
    PROVE  DeleteDependenciesForFeature(Gone(extra, ds, rs, is, ts, fs), f)
             = Gone(extra, ds \cup {f}, rs, is, ts, fs)
<1> DEFINE d == Gone(extra, ds, rs, is, ts, fs)
<1>1. ListTasksByFeature(d, f) = TasksOf({f})
    BY FindsTasks
<1>2. DeleteDependenciesForFeature(d, f) = [d EXCEPT !.dependencies = {e \in @ : e[1] \notin TasksOf({f})}]
    BY <1>1 DEF DeleteDependenciesForFeature
<1>3. {e \in {e \in dependencies : e[1] \notin TasksOf(ds)} : e[1] \notin TasksOf({f})}
        = {e \in dependencies : e[1] \notin TasksOf(ds \cup {f})}
    BY TasksOfMore
<1> QED BY <1>2, <1>3 DEF Gone, Unlinked, Emptied

\* DeletePullRequestsForFeature takes it to the pull requests of its tasks.
LEMMA PullRequestsGo ==
    ASSUME NEW extra, NEW ds, NEW rs, NEW is, NEW ts, NEW fs, NEW f, f \notin ts
    PROVE  DeletePullRequestsForFeature(Gone(extra, ds, rs, is, ts, fs), f)
             = Gone(extra, ds, rs \cup {f}, is, ts, fs)
<1> DEFINE d == Gone(extra, ds, rs, is, ts, fs)
<1>1. ListTasksByFeature(d, f) = TasksOf({f})
    BY FindsTasks
<1>2. DeletePullRequestsForFeature(d, f) = [d EXCEPT !.pullRequests = Erase(@, TasksOf({f}))]
    BY <1>1 DEF DeletePullRequestsForFeature
<1>3. Erase(Erase(pullRequests, TasksOf(rs)), TasksOf({f})) = Erase(pullRequests, TasksOf(rs \cup {f}))
    <2>1. Erase(Erase(pullRequests, TasksOf(rs)), TasksOf({f})) = Erase(pullRequests, TasksOf(rs) \cup TasksOf({f}))
        BY EraseTwice
    <2>2. TasksOf(rs \cup {f}) = TasksOf(rs) \cup TasksOf({f})
        BY TasksOfMore
    <2> QED BY <2>1, <2>2, Zenon
<1> QED BY <1>2, <1>3 DEF Gone, Unlinked, Emptied

\* DeleteTasksForFeature takes it to the tasks.
LEMMA TasksGo ==
    ASSUME NEW extra, NEW ds, NEW rs, NEW is, NEW ts, NEW fs, NEW f, f \notin ts
    PROVE  DeleteTasksForFeature(Gone(extra, ds, rs, is, ts, fs), f)
             = Gone(extra, ds, rs, is, ts \cup {f}, fs)
<1> DEFINE d == Gone(extra, ds, rs, is, ts, fs)
<1>1. ListTasksByFeature(d, f) = TasksOf({f})
    BY FindsTasks
<1>2. DeleteTasksForFeature(d, f) = [d EXCEPT !.tasks = Erase(@, TasksOf({f}))]
    BY <1>1 DEF DeleteTasksForFeature
<1>3. Erase(Erase(tasks, TasksOf(ts)), TasksOf({f})) = Erase(tasks, TasksOf(ts \cup {f}))
    <2>1. Erase(Erase(tasks, TasksOf(ts)), TasksOf({f})) = Erase(tasks, TasksOf(ts) \cup TasksOf({f}))
        BY EraseTwice
    <2>2. TasksOf(ts \cup {f}) = TasksOf(ts) \cup TasksOf({f})
        BY TasksOfMore
    <2> QED BY <2>1, <2>2, Zenon
<1>4. [d EXCEPT !.tasks = Erase(@, TasksOf({f}))]
        = [d EXCEPT !.tasks = Erase(Erase(tasks, TasksOf(ts)), TasksOf({f}))]
    <2>1. d.tasks = Erase(tasks, TasksOf(ts))
        BY DEF Gone
    <2> HIDE DEF d
    <2> QED BY <2>1, Zenon
<1>5. [d EXCEPT !.tasks = Erase(tasks, TasksOf(ts \cup {f}))] = Gone(extra, ds, rs, is, ts \cup {f}, fs)
    BY DEF Gone
<1> HIDE DEF d
<1>6. DeleteTasksForFeature(d, f) = Gone(extra, ds, rs, is, ts \cup {f}, fs)
    BY <1>2, <1>3, <1>4, <1>5, Zenon
<1> QED BY <1>6 DEF d

\* DeleteFeature ends it.
LEMMA FeatureGoesLast ==
    ASSUME NEW extra, NEW ds, NEW rs, NEW is, NEW ts, NEW fs, NEW f
    PROVE  EraseFeature(Gone(extra, ds, rs, is, ts, fs), f) = Gone(extra, ds, rs, is, ts, fs \cup {f})
<1>1. Erase(Erase(features, fs), {f}) = Erase(features, fs \cup {f})
    BY EraseTwice
<1>2. EraseFeature(Gone(extra, ds, rs, is, ts, fs), f)
        = [Gone(extra, ds, rs, is, ts, fs) EXCEPT !.features = Erase(Erase(features, fs), {f})]
    BY DEF EraseFeature, Gone
<1>3. [Gone(extra, ds, rs, is, ts, fs) EXCEPT !.features = Erase(features, fs \cup {f})]
        = Gone(extra, ds, rs, is, ts, fs \cup {f})
    BY DEF Gone
<1> QED BY <1>1, <1>2, <1>3, Zenon

\* Documents that are gone are those under the parents that are gone.
LEMMA DocumentsErased ==
    ASSUME NEW d, NEW gone, NEW more, d.documents = Erase(documents, DocumentsOf(gone))
    PROVE  Erase(d.documents, DocumentsUnder(d, more)) = Erase(documents, DocumentsOf(gone \cup more))
<1>1. /\ DOMAIN d.documents = DOMAIN documents \ DocumentsOf(gone)
      /\ \A i \in DOMAIN documents \ DocumentsOf(gone) : d.documents[i] = documents[i]
    <2>1. /\ DOMAIN Erase(documents, DocumentsOf(gone)) = DOMAIN documents \ DocumentsOf(gone)
          /\ \A i \in DOMAIN documents \ DocumentsOf(gone) :
                Erase(documents, DocumentsOf(gone))[i] = documents[i]
        BY ErasedRows
    <2> QED BY <2>1, Zenon
<1>2. DocumentsUnder(d, more) = DocumentsOf(more) \ DocumentsOf(gone)
    BY <1>1 DEF DocumentsUnder, DocumentsOf
<1>3. DocumentsOf(gone) \cup (DocumentsOf(more) \ DocumentsOf(gone)) = DocumentsOf(gone \cup more)
    BY DEF DocumentsOf
<1>4. Erase(Erase(documents, DocumentsOf(gone)), DocumentsOf(more) \ DocumentsOf(gone))
        = Erase(documents, DocumentsOf(gone) \cup (DocumentsOf(more) \ DocumentsOf(gone)))
    BY EraseTwice
<1> QED BY <1>2, <1>3, <1>4, Zenon

\* DeleteDocumentsForFeature takes it to the documents of the feature and of its tasks.
LEMMA DocumentsGo ==
    ASSUME NEW extra, NEW ds, NEW rs, NEW is, NEW ts, NEW fs, NEW f, f \notin ts
    PROVE  DeleteDocumentsForFeature(Gone(extra, ds, rs, is, ts, fs), f)
             = Gone(extra, ds, rs, is \cup {f}, ts, fs)
<1> DEFINE d == Gone(extra, ds, rs, is, ts, fs)
           gone == Emptied(extra, is)
           more == {<<"feature", f>>} \cup ({"task"} \X TasksOf({f}))
           js == is \cup {f}
<1>1. DeleteDocumentsForFeature(d, f) = [d EXCEPT !.documents = Erase(@, DocumentsUnder(d, more))]
    BY FindsTasks DEF DeleteDocumentsForFeature
<1>2. d.documents = Erase(documents, DocumentsOf(gone))
    BY DEF Gone
<1>3. gone \cup more = Emptied(extra, js)
    <2>1. TasksOf(js) = TasksOf(is) \cup TasksOf({f})
        BY TasksOfMore
    <2> QED BY <2>1 DEF Emptied
<1>4. Erase(d.documents, DocumentsUnder(d, more)) = Erase(documents, DocumentsOf(Emptied(extra, js)))
    <2> HIDE DEF d, gone, more, js
    <2> QED BY <1>2, <1>3, DocumentsErased
<1> HIDE DEF js
<1>5. [d EXCEPT !.documents = Erase(documents, DocumentsOf(Emptied(extra, js)))] = Gone(extra, ds, rs, js, ts, fs)
    BY DEF Gone
<1>6. DeleteDocumentsForFeature(d, f) = [d EXCEPT !.documents = Erase(documents, DocumentsOf(Emptied(extra, js)))]
    BY <1>1, <1>4, Zenon
<1> QED BY <1>5, <1>6, Zenon DEF js

------------------------------------------------------------------------------
\* What each statement does, and what the schema makes of it.

\* A statement that deletes has one outcome, whatever rows there are,
LEMMA Deletes ==
    ASSUME NEW s, NEW d,
           s.do \in {"DeleteDependenciesForFeature", "DeletePullRequestsForFeature", "DeleteDocumentsForFeature",
                     "DeleteTasksForFeature", "DeleteFeature", "DeleteDocumentsForProject", "DeleteProject",
                     "DeleteDependenciesForTask", "DeletePullRequest", "DeleteDocumentsForTask", "DeleteTask",
                     "DeleteDocument", "DeleteImplementationPlanDocument"}
    PROVE  Written(s, d) = {Deleted(s, d)}
BY DEF Written

\* which is the one of its query.
LEMMA DeletesOne ==
    ASSUME NEW s, NEW d
    PROVE  /\ s.do = "DeleteDependenciesForFeature" => Deleted(s, d) = DeleteDependenciesForFeature(d, s.id)
           /\ s.do = "DeletePullRequestsForFeature" => Deleted(s, d) = DeletePullRequestsForFeature(d, s.id)
           /\ s.do = "DeleteDocumentsForFeature" => Deleted(s, d) = DeleteDocumentsForFeature(d, s.id)
           /\ s.do = "DeleteTasksForFeature" => Deleted(s, d) = DeleteTasksForFeature(d, s.id)
           /\ s.do = "DeleteFeature" => Deleted(s, d) = EraseFeature(d, s.id)
           /\ s.do = "DeleteDocumentsForProject" => Deleted(s, d) = DeleteDocumentsForProject(d, s.id)
           /\ s.do = "DeleteProject" => Deleted(s, d) = EraseProject(d, s.id)
           /\ s.do = "DeleteDependenciesForTask" => Deleted(s, d) = DeleteDependenciesForTask(d, s.id)
           /\ s.do = "DeletePullRequest" => Deleted(s, d) = ErasePullRequest(d, s.id)
           /\ s.do = "DeleteDocumentsForTask" => Deleted(s, d) = DeleteDocumentsForTask(d, s.id)
           /\ s.do = "DeleteTask" => Deleted(s, d) = EraseTask(d, s.id)
           /\ s.do = "DeleteDocument" => Deleted(s, d) = EraseDocument(d, s.id)
           /\ s.do = "DeleteImplementationPlanDocument" => Deleted(s, d) = EraseImplementationPlan(d, s.id)
<1>1. s.do = "DeleteDependenciesForFeature" => Deleted(s, d) = DeleteDependenciesForFeature(d, s.id)
    BY DEF Deleted
<1>2. s.do = "DeletePullRequestsForFeature" => Deleted(s, d) = DeletePullRequestsForFeature(d, s.id)
    BY DEF Deleted
<1>3. s.do = "DeleteDocumentsForFeature" => Deleted(s, d) = DeleteDocumentsForFeature(d, s.id)
    BY DEF Deleted
<1>4. s.do = "DeleteTasksForFeature" => Deleted(s, d) = DeleteTasksForFeature(d, s.id)
    BY DEF Deleted
<1>5. s.do = "DeleteFeature" => Deleted(s, d) = EraseFeature(d, s.id)
    BY DEF Deleted
<1>6. s.do = "DeleteDocumentsForProject" => Deleted(s, d) = DeleteDocumentsForProject(d, s.id)
    BY DEF Deleted
<1>7. s.do = "DeleteProject" => Deleted(s, d) = EraseProject(d, s.id)
    BY DEF Deleted
<1>8. s.do = "DeleteDependenciesForTask" => Deleted(s, d) = DeleteDependenciesForTask(d, s.id)
    BY DEF Deleted
<1>9. s.do = "DeletePullRequest" => Deleted(s, d) = ErasePullRequest(d, s.id)
    BY DEF Deleted
<1>10. s.do = "DeleteDocumentsForTask" => Deleted(s, d) = DeleteDocumentsForTask(d, s.id)
    BY DEF Deleted
<1>11. s.do = "DeleteTask" => Deleted(s, d) = EraseTask(d, s.id)
    BY DEF Deleted
<1>12. s.do = "DeleteDocument" => Deleted(s, d) = EraseDocument(d, s.id)
    BY DEF Deleted
<1>13. s.do = "DeleteImplementationPlanDocument" => Deleted(s, d) = EraseImplementationPlan(d, s.id)
    BY DEF Deleted
<1> QED BY <1>1, <1>2, <1>3, <1>4, <1>5, <1>6, <1>7, <1>8, <1>9, <1>10, <1>11, <1>12, <1>13

\* The schema refuses nothing else.
LEMMA Accepted ==
    ASSUME NEW s, NEW d, NEW e, Written(s, d) = {e}, References(e), UniqueIndexes(e)
    PROVE  Outcomes(s, d) = {e}
BY DEF Outcomes

\* A table with fewer rows keeps the unique indexes.
LEMMA StillUnique ==
    ASSUME UniqueIndexes(Committed), NEW e, NEW A, NEW B,
           e.pullRequests = Erase(pullRequests, A), e.documents = Erase(documents, B)
    PROVE  UniqueIndexes(e)
<1>1. /\ DOMAIN e.pullRequests = DOMAIN pullRequests \ A
      /\ \A t \in DOMAIN pullRequests \ A : e.pullRequests[t] = pullRequests[t]
    <2>1. /\ DOMAIN Erase(pullRequests, A) = DOMAIN pullRequests \ A
          /\ \A t \in DOMAIN pullRequests \ A : Erase(pullRequests, A)[t] = pullRequests[t]
        BY ErasedRows
    <2> QED BY <2>1
<1>2. /\ DOMAIN e.documents = DOMAIN documents \ B
      /\ \A i \in DOMAIN documents \ B : e.documents[i] = documents[i]
    <2>1. /\ DOMAIN Erase(documents, B) = DOMAIN documents \ B
          /\ \A t \in DOMAIN documents \ B : Erase(documents, B)[t] = documents[t]
        BY ErasedRows
    <2> QED BY <2>1
<1>3. Committed.pullRequests = pullRequests /\ Committed.documents = documents
    BY DEF Committed
<1>4. IsInjective(e.pullRequests)
    BY <1>1, <1>3 DEF UniqueIndexes, IsInjective
<1>5. ASSUME NEW i \in DOMAIN e.documents, e.documents[i].plan
      PROVE  e.documents[i].parent[1] = "task" /\ PlanDocuments(e, e.documents[i].parent[2]) = {i}
    <2>1. i \in DOMAIN documents /\ e.documents[i] = documents[i]
        BY <1>2
    <2>2. documents[i].parent[1] = "task" /\ PlanDocuments(Committed, documents[i].parent[2]) = {i}
        BY <1>3, <1>5, <2>1 DEF UniqueIndexes
    <2> DEFINE t == documents[i].parent[2]
    <2>3. PlanDocuments(Committed, t) = {j \in DOMAIN documents : documents[j].parent \in {<<"task", t>>} /\ documents[j].plan}
        BY <1>3 DEF PlanDocuments, DocumentsUnder
    <2>4. PlanDocuments(e, t) = {j \in DOMAIN documents \ B : documents[j].parent \in {<<"task", t>>} /\ documents[j].plan}
        BY <1>2 DEF PlanDocuments, DocumentsUnder
    <2> HIDE DEF t
    <2>5. PlanDocuments(Committed, t) = {i}
        BY <2>2 DEF t
    <2>6. PlanDocuments(e, t) = {i}
        BY <2>3, <2>4, <2>5, <1>2
    <2> QED BY <2>1, <2>2, <2>6 DEF t
<1> QED BY <1>4, <1>5 DEF UniqueIndexes

\* The tables that everybody sees.
LEMMA CommittedFields ==
    /\ Committed.sequences = sequences /\ Committed.projects = projects /\ Committed.features = features
    /\ Committed.tasks = tasks /\ Committed.dependencies = dependencies
    /\ Committed.pullRequests = pullRequests /\ Committed.documents = documents
BY DEF Committed

\* What a cascade over features has left.
LEMMA GoneFields ==
    ASSUME NEW extra, NEW ds, NEW rs, NEW is, NEW ts, NEW fs, NEW d, d = Gone(extra, ds, rs, is, ts, fs)
    PROVE  /\ d.projects = projects
           /\ DOMAIN d.features = DOMAIN features \ fs
           /\ \A f \in DOMAIN features \ fs : d.features[f] = features[f]
           /\ DOMAIN d.tasks = DOMAIN tasks \ TasksOf(ts)
           /\ \A t \in DOMAIN tasks \ TasksOf(ts) : d.tasks[t] = tasks[t]
           /\ d.dependencies = {e \in dependencies : e[1] \notin TasksOf(ds)}
           /\ DOMAIN d.pullRequests = DOMAIN pullRequests \ TasksOf(rs)
           /\ DOMAIN d.documents \subseteq DOMAIN documents
           /\ \A i \in DOMAIN d.documents : /\ d.documents[i] = documents[i]
                                           /\ documents[i].parent \notin extra
                                           /\ documents[i].parent \notin {"feature"} \X is
                                           /\ documents[i].parent \notin {"task"} \X TasksOf(is)
<1> DEFINE parents == extra \cup ({"feature"} \X is) \cup ({"task"} \X TasksOf(is))
<1>1. /\ d.projects = projects /\ d.features = Erase(features, fs) /\ d.tasks = Erase(tasks, TasksOf(ts))
      /\ d.dependencies = {e \in dependencies : e[1] \notin TasksOf(ds)}
      /\ d.pullRequests = Erase(pullRequests, TasksOf(rs))
      /\ d.documents = Erase(documents, DocumentsOf(parents))
    BY DEF Gone, Unlinked, Emptied
<1>2. /\ DOMAIN Erase(features, fs) = DOMAIN features \ fs
      /\ \A f \in DOMAIN features \ fs : Erase(features, fs)[f] = features[f]
    BY ErasedRows
<1>3. /\ DOMAIN Erase(tasks, TasksOf(ts)) = DOMAIN tasks \ TasksOf(ts)
      /\ \A t \in DOMAIN tasks \ TasksOf(ts) : Erase(tasks, TasksOf(ts))[t] = tasks[t]
    BY ErasedRows
<1>4. DOMAIN Erase(pullRequests, TasksOf(rs)) = DOMAIN pullRequests \ TasksOf(rs)
    BY ErasedRows
<1> HIDE DEF parents
<1>5. /\ DOMAIN Erase(documents, DocumentsOf(parents)) = DOMAIN documents \ DocumentsOf(parents)
      /\ \A i \in DOMAIN documents \ DocumentsOf(parents) : Erase(documents, DocumentsOf(parents))[i] = documents[i]
    BY ErasedRows
<1>6. \A i \in DOMAIN documents \ DocumentsOf(parents) : documents[i].parent \notin parents
    BY DEF DocumentsOf
<1>7. \A i \in DOMAIN d.documents : i \in DOMAIN documents \ DocumentsOf(parents) /\ d.documents[i] = documents[i]
    BY <1>1, <1>5
<1> QED BY <1>1, <1>2, <1>3, <1>4, <1>6, <1>7 DEF parents

\* A cascade that has come no further with the tasks than with what refers to them, and no
\* further with the features than with the tasks, leaves no row that refers to one it has
\* deleted: a dependency is found by its blocker, whose feature is that of the blocked task.
LEMMA CascadeAccepted ==
    ASSUME StoreInv, UniqueIndexes(Committed), NEW extra, NEW ds, NEW rs, NEW is,
           NEW ts \in SUBSET ds, ts \subseteq rs, ts \subseteq is, NEW fs \in SUBSET ts
    PROVE  References(Gone(extra, ds, rs, is, ts, fs)) /\ UniqueIndexes(Gone(extra, ds, rs, is, ts, fs))
<1> DEFINE d == Gone(extra, ds, rs, is, ts, fs)
<1>1. UniqueIndexes(d)
    <2>1. d.pullRequests = Erase(pullRequests, TasksOf(rs))
          /\ d.documents = Erase(documents, DocumentsOf(extra \cup ({"feature"} \X is) \cup ({"task"} \X TasksOf(is))))
        BY DEF Gone, Unlinked, Emptied
    <2> HIDE DEF d
    <2> QED BY <2>1, StillUnique
<1> HIDE DEF d
<1>2. /\ d.projects = projects
      /\ DOMAIN d.features = DOMAIN features \ fs
      /\ \A f \in DOMAIN features \ fs : d.features[f] = features[f]
      /\ DOMAIN d.tasks = DOMAIN tasks \ TasksOf(ts)
      /\ \A t \in DOMAIN tasks \ TasksOf(ts) : d.tasks[t] = tasks[t]
      /\ d.dependencies = {e \in dependencies : e[1] \notin TasksOf(ds)}
      /\ DOMAIN d.pullRequests = DOMAIN pullRequests \ TasksOf(rs)
      /\ DOMAIN d.documents \subseteq DOMAIN documents
      /\ \A i \in DOMAIN d.documents : /\ d.documents[i] = documents[i]
                                       /\ documents[i].parent \notin extra
                                       /\ documents[i].parent \notin {"feature"} \X is
                                       /\ documents[i].parent \notin {"task"} \X TasksOf(is)
    BY GoneFields DEF d
<1>3. \A f \in DOMAIN d.features : GetProjectByPublicID(d, d.features[f].project)
    BY <1>2 DEF StoreInv, ForeignKeys, GetProjectByPublicID
<1>4. \A t \in DOMAIN d.tasks : GetFeatureByPublicID(d, d.tasks[t].feature)
    BY <1>2 DEF StoreInv, ForeignKeys, GetFeatureByPublicID, TasksOf
<1>5. TasksOf(ts) \subseteq TasksOf(ds) /\ TasksOf(ts) \subseteq TasksOf(rs) /\ TasksOf(ts) \subseteq TasksOf(is)
    BY DEF TasksOf
<1>6. ASSUME NEW e \in d.dependencies PROVE GetTaskByPublicID(d, e[1]) /\ GetTaskByPublicID(d, e[2])
    <2>1. e \in dependencies /\ e[1] \in DOMAIN tasks \ TasksOf(ds) /\ e[2] \in DOMAIN tasks
        BY <1>2 DEF StoreInv, ForeignKeys
    <2>2. tasks[e[1]].feature = tasks[e[2]].feature
        BY <2>1 DEF StoreInv, DependenciesWithinOneFeature
    <2>3. e[2] \notin TasksOf(ds)
        BY <2>1, <2>2 DEF TasksOf
    <2> QED BY <1>2, <1>5, <2>1, <2>3 DEF GetTaskByPublicID
<1>7. \A t \in DOMAIN d.pullRequests : GetTaskByPublicID(d, t)
    BY <1>2, <1>5 DEF StoreInv, ForeignKeys, GetTaskByPublicID
<1>8. ASSUME NEW i \in DOMAIN d.documents PROVE GetParent(d, d.documents[i].parent)
    <2> DEFINE parent == documents[i].parent
    <2>1. /\ d.documents[i].parent = parent /\ Exists(parent)
          /\ parent \in Parents
          /\ parent \notin {"feature"} \X is /\ parent \notin {"task"} \X TasksOf(is)
        BY <1>2 DEF StoreInv, ForeignKeys, StoreTypeOK, IsTable, DocumentRow
    <2> HIDE DEF parent
    <2>2. parent = <<parent[1], parent[2]>> /\ parent[1] \in {"project", "feature", "task"}
        BY <2>1 DEF Parents
    <2>3. CASE parent[1] = "project"
        BY <1>2, <2>1, <2>3 DEF GetParent, GetProjectByPublicID, Exists
    <2>4. CASE parent[1] = "feature"
        <3>1. parent[2] \notin is /\ parent[2] \in DOMAIN features
            BY <2>1, <2>2, <2>4 DEF Exists
        <3> QED BY <1>2, <2>1, <3>1, <2>4 DEF GetParent, GetFeatureByPublicID
    <2>5. CASE parent[1] = "task"
        <3>1. parent[2] \notin TasksOf(is) /\ parent[2] \in DOMAIN tasks
            BY <2>1, <2>2, <2>5 DEF Exists
        <3> QED BY <1>2, <1>5, <2>1, <3>1, <2>5 DEF GetParent, GetTaskByPublicID
    <2> QED BY <2>2, <2>3, <2>4, <2>5
<1>9. References(d)
    BY <1>3, <1>4, <1>6, <1>7, <1>8 DEF References
<1> QED BY <1>1, <1>9 DEF d

------------------------------------------------------------------------------
\* A statement of a cascade is accepted and takes it one step on.

\* The next statement of a cascade over a feature is accepted and takes it one step on.
LEMMA FeatureStatement ==
    ASSUME StoreInv, UniqueIndexes(Committed), NEW s, NEW d, NEW f, NEW extra, NEW fs, NEW more,
           f \notin fs, FeatureGoing(s, d, f, extra, fs, more)
    PROVE  s # <<>> /\ ~Loops(s) /\ FeatureGoesOn(s, d, f, extra, fs, more)
<1> SUFFICES /\ s # <<>> /\ ~Loops(s)
             /\ \E e : /\ Outcomes(Head(s), d) = {e}
                      /\ \/ FeatureGoing(Tail(s), e, f, extra, fs, more)
                         \/ Tail(s) = more /\ e = AllGone(extra, fs \cup {f})
    BY DEF FeatureGoesOn
<1> DEFINE gs == fs \cup {f}
<1>a. fs \subseteq gs /\ fs \subseteq fs /\ gs \subseteq gs
    OBVIOUS
<1>0. ASSUME NEW do, NEW e, Coming(s, do, f), Deleted(Head(s), d) = e, References(e), UniqueIndexes(e),
             do \in {"DeleteDependenciesForFeature", "DeletePullRequestsForFeature", "DeleteDocumentsForFeature",
                     "DeleteTasksForFeature", "DeleteFeature"}
      PROVE  s # <<>> /\ ~Loops(s) /\ Outcomes(Head(s), d) = {e}
  <2>1. s # <<>> /\ Head(s).do = do
    BY <1>0 DEF Coming, Delete
  <2>2. Written(Head(s), d) = {e}
    BY <1>0, <2>1, Deletes
  <2>3. Outcomes(Head(s), d) = {e}
    BY <1>0, <2>2, Accepted
  <2> QED BY <1>0, <2>1, <2>3 DEF Loops
<1>1. CASE Left5(s, f, more) /\ d = Gone(extra, fs, fs, fs, fs, fs)
  <2> DEFINE e == Gone(extra, gs, fs, fs, fs, fs)
  <2>1. References(e) /\ UniqueIndexes(e)
    BY CascadeAccepted
  <2>2. Coming(s, "DeleteDependenciesForFeature", f) /\ Left4(Tail(s), f, more)
    BY <1>1 DEF Left5
  <2>3. Deleted(Head(s), d) = e
    BY <1>1, <2>2, DeletesOne, DependenciesGo DEF Coming, Delete
  <2>4. FeatureGoing(Tail(s), e, f, extra, fs, more)
    BY <2>2 DEF FeatureGoing
  <2> HIDE DEF e
  <2> QED BY <1>0, <2>1, <2>2, <2>3, <2>4
<1>2. CASE Left4(s, f, more) /\ d = Gone(extra, gs, fs, fs, fs, fs)
  <2> DEFINE e == Gone(extra, gs, gs, fs, fs, fs)
  <2>1. References(e) /\ UniqueIndexes(e)
    BY CascadeAccepted
  <2>2. Coming(s, "DeletePullRequestsForFeature", f) /\ Left3(Tail(s), f, more)
    BY <1>2 DEF Left4
  <2>3. Deleted(Head(s), d) = e
    BY <1>2, <2>2, DeletesOne, PullRequestsGo DEF Coming, Delete
  <2>4. FeatureGoing(Tail(s), e, f, extra, fs, more)
    BY <2>2 DEF FeatureGoing
  <2> HIDE DEF e
  <2> QED BY <1>0, <2>1, <2>2, <2>3, <2>4
<1>3. CASE Left3(s, f, more) /\ d = Gone(extra, gs, gs, fs, fs, fs)
  <2> DEFINE e == Gone(extra, gs, gs, gs, fs, fs)
  <2>1. References(e) /\ UniqueIndexes(e)
    BY CascadeAccepted
  <2>2. Coming(s, "DeleteDocumentsForFeature", f) /\ Left2(Tail(s), f, more)
    BY <1>3 DEF Left3
  <2>3. Deleted(Head(s), d) = e
    BY <1>3, <2>2, DeletesOne, DocumentsGo DEF Coming, Delete
  <2>4. FeatureGoing(Tail(s), e, f, extra, fs, more)
    BY <2>2 DEF FeatureGoing
  <2> HIDE DEF e
  <2> QED BY <1>0, <2>1, <2>2, <2>3, <2>4
<1>4. CASE Left2(s, f, more) /\ d = Gone(extra, gs, gs, gs, fs, fs)
  <2> DEFINE e == Gone(extra, gs, gs, gs, gs, fs)
  <2>1. References(e) /\ UniqueIndexes(e)
    BY CascadeAccepted
  <2>2. Coming(s, "DeleteTasksForFeature", f) /\ Left1(Tail(s), f, more)
    BY <1>4 DEF Left2
  <2>3. Deleted(Head(s), d) = e
    BY <1>4, <2>2, DeletesOne, TasksGo DEF Coming, Delete
  <2>4. FeatureGoing(Tail(s), e, f, extra, fs, more)
    BY <2>2 DEF FeatureGoing
  <2> HIDE DEF e
  <2> QED BY <1>0, <2>1, <2>2, <2>3, <2>4
<1>5. CASE Left1(s, f, more) /\ d = Gone(extra, gs, gs, gs, gs, fs)
  <2> DEFINE e == Gone(extra, gs, gs, gs, gs, gs)
  <2>1. References(e) /\ UniqueIndexes(e)
    BY CascadeAccepted
  <2>2. Coming(s, "DeleteFeature", f) /\ Tail(s) = more
    BY <1>5 DEF Left1
  <2>3. Deleted(Head(s), d) = e
    BY <1>5, <2>2, DeletesOne, FeatureGoesLast DEF Coming, Delete
  <2>4. e = AllGone(extra, gs)
    BY DEF AllGone
  <2> HIDE DEF e
  <2> QED BY <1>0, <2>1, <2>2, <2>3, <2>4
<1> QED BY <1>1, <1>2, <1>3, <1>4, <1>5 DEF FeatureGoing

\* Scripts, statement by statement.
LEMMA SequenceFacts ==
    /\ \A a : <<a>> # <<>> /\ Head(<<a>>) = a /\ Tail(<<a>>) = <<>>
    /\ \A a, b : <<a, b>> # <<>> /\ Head(<<a, b>>) = a /\ Tail(<<a, b>>) = <<b>>
    /\ \A a, b, c : <<a, b, c>> # <<>> /\ Head(<<a, b, c>>) = a /\ Tail(<<a, b, c>>) = <<b, c>>
    /\ \A a, b, c, d : <<a, b, c, d>> # <<>> /\ Head(<<a, b, c, d>>) = a /\ Tail(<<a, b, c, d>>) = <<b, c, d>>
OBVIOUS

\* The same for a statement of the other cascades.
LEMMA OneStatement ==
    ASSUME UniqueIndexes(Committed), NEW s, NEW d, NEW do, NEW id, NEW e, s # <<>>, Head(s) = Delete(do, id),
           do \in {"DeleteDocumentsForProject", "DeleteProject", "DeleteDependenciesForTask", "DeletePullRequest",
                   "DeleteDocumentsForTask", "DeleteTask"},
           Deleted(Delete(do, id), d) = e, References(e), UniqueIndexes(e)
    PROVE  ~Loops(s) /\ Outcomes(Head(s), d) = {e}
<1>1. Head(s).do = do
    BY DEF Delete
<1>2. Written(Head(s), d) = {e}
    BY <1>1, Deletes
<1>3. Outcomes(Head(s), d) = {e}
    BY <1>2, Accepted
<1> QED BY <1>1, <1>3 DEF Loops

\* DeleteDocumentsForProject begins a cascade over a project.
LEMMA ProjectsDocumentsGo ==
    ASSUME StoreInv, NEW p
    PROVE  DeleteDocumentsForProject(Committed, p) = AllGone({<<"project", p>>}, {})
<1> DEFINE own == {<<"project", p>>}
<1>1. TasksOf({}) = {} /\ own \cup ({"feature"} \X {}) \cup ({"task"} \X {}) = own
    BY DEF TasksOf
<1>2. Erase(features, {}) = features /\ Erase(tasks, {}) = tasks /\ Erase(pullRequests, {}) = pullRequests
    BY EraseNothing DEF StoreInv, StoreTypeOK
<1>3. {e \in dependencies : e[1] \notin {}} = dependencies
    OBVIOUS
<1>4. DocumentsUnder(Committed, own) = DocumentsOf(own)
    BY CommittedFields DEF DocumentsUnder, DocumentsOf
<1>5. AllGone(own, {}) = [sequences |-> sequences, projects |-> projects, features |-> features, tasks |-> tasks,
                          dependencies |-> dependencies, pullRequests |-> pullRequests,
                          documents |-> Erase(documents, DocumentsOf(own))]
    BY <1>1, <1>2, <1>3 DEF AllGone, Gone, Unlinked, Emptied
<1>6. DeleteDocumentsForProject(Committed, p) = [Committed EXCEPT !.documents = Erase(documents, DocumentsOf(own))]
    BY <1>4 DEF DeleteDocumentsForProject, Committed
<1> HIDE DEF own
<1> QED BY <1>5, <1>6 DEF Committed, own

\* At its end nothing refers to the project.
LEMMA ProjectAccepted ==
    ASSUME StoreInv, UniqueIndexes(Committed), NEW p
    PROVE  /\ References(EraseProject(AllGone({<<"project", p>>}, FeaturesOf(p)), p))
           /\ UniqueIndexes(EraseProject(AllGone({<<"project", p>>}, FeaturesOf(p)), p))
<1> DEFINE own == {<<"project", p>>}
           held == FeaturesOf(p)
           d == AllGone(own, held)
           e == EraseProject(d, p)
<1>1. References(d) /\ UniqueIndexes(d)
    BY CascadeAccepted DEF AllGone
<1>2. /\ e.projects = Erase(projects, {p}) /\ e.features = d.features /\ e.tasks = d.tasks
      /\ e.dependencies = d.dependencies /\ e.pullRequests = d.pullRequests /\ e.documents = d.documents
    BY DEF EraseProject, AllGone, Gone, Unlinked, Emptied
<1>3. DOMAIN e.projects = DOMAIN projects \ {p}
    BY <1>2, ErasedRows
<1>4. /\ d.projects = projects
      /\ DOMAIN d.features = DOMAIN features \ held
      /\ \A f \in DOMAIN features \ held : d.features[f] = features[f]
      /\ \A i \in DOMAIN d.documents : d.documents[i] = documents[i] /\ documents[i].parent \notin own
      /\ DOMAIN d.documents \subseteq DOMAIN documents
    BY GoneFields DEF AllGone
<1> HIDE DEF d, e
<1>5. \A f \in DOMAIN e.features : GetProjectByPublicID(e, e.features[f].project)
    BY <1>1, <1>2, <1>3, <1>4 DEF References, GetProjectByPublicID, FeaturesOf
<1>6. \A t \in DOMAIN e.tasks : GetFeatureByPublicID(e, e.tasks[t].feature)
    BY <1>1, <1>2 DEF References, GetFeatureByPublicID
<1>7. \A x \in e.dependencies : GetTaskByPublicID(e, x[1]) /\ GetTaskByPublicID(e, x[2])
    BY <1>1, <1>2 DEF References, GetTaskByPublicID
<1>8. \A t \in DOMAIN e.pullRequests : GetTaskByPublicID(e, t)
    BY <1>1, <1>2 DEF References, GetTaskByPublicID
<1>9. ASSUME NEW i \in DOMAIN e.documents PROVE GetParent(e, e.documents[i].parent)
    <2> DEFINE parent == documents[i].parent
    <2>1. /\ e.documents[i].parent = parent /\ d.documents[i].parent = parent /\ i \in DOMAIN d.documents
          /\ parent \in Parents /\ parent # <<"project", p>>
        BY <1>2, <1>4 DEF StoreInv, StoreTypeOK, IsTable, DocumentRow
    <2>2. GetParent(d, parent)
        BY <1>1, <2>1 DEF References
    <2> HIDE DEF parent
    <2>3. parent = <<parent[1], parent[2]>> /\ parent[1] \in {"project", "feature", "task"}
        BY <2>1 DEF Parents
    <2>4. CASE parent[1] = "project"
        <3>1. parent[2] # p
            BY <2>1, <2>3, <2>4
        <3> QED BY <1>3, <1>4, <2>1, <2>2, <2>4, <3>1 DEF GetParent, GetProjectByPublicID
    <2>5. CASE parent[1] = "feature"
        BY <1>2, <2>1, <2>2, <2>5 DEF GetParent, GetFeatureByPublicID
    <2>6. CASE parent[1] = "task"
        BY <1>2, <2>1, <2>2, <2>6 DEF GetParent, GetTaskByPublicID
    <2> QED BY <2>3, <2>4, <2>5, <2>6
<1>10. UniqueIndexes(e)
    BY <1>1, <1>2 DEF UniqueIndexes, PlanDocuments, DocumentsUnder
<1> QED BY <1>5, <1>6, <1>7, <1>8, <1>9, <1>10 DEF References, e, d

\* A statement of the cascade over a project, outside of its loop.
LEMMA ProjectStatement ==
    ASSUME StoreInv, UniqueIndexes(Committed), NEW o, NEW s, NEW d, ProjectGoing(o, s, d), s # <<>>, ~Loops(s)
    PROVE  \E e : Outcomes(Head(s), d) = {e} /\ ProjectGoing(o, Tail(s), e)
<1> DEFINE p == o.id
           held == FeaturesOf(p)
           own == {<<"project", p>>}
           last == Delete("DeleteProject", p)
<1>0. ASSUME NEW do, NEW e, Head(s) = Delete(do, p), Deleted(Delete(do, p), d) = e, ProjectGoing(o, Tail(s), e),
             References(e), UniqueIndexes(e), do \in {"DeleteDocumentsForProject", "DeleteProject"}
      PROVE  \E x : Outcomes(Head(s), d) = {x} /\ ProjectGoing(o, Tail(s), x)
  <2>1. do \in {"DeleteDocumentsForProject", "DeleteProject", "DeleteDependenciesForTask", "DeletePullRequest",
               "DeleteDocumentsForTask", "DeleteTask"}
    BY <1>0
  <2>2. Outcomes(Head(s), d) = {e}
    BY <1>0, <2>1, OneStatement
  <2> QED BY <1>0, <2>2
<1>1. CASE s = <<Delete("DeleteDocumentsForProject", p), EachFeature(held), last>> /\ d = Committed
  <2> DEFINE e == AllGone(own, {})
  <2>1. References(e) /\ UniqueIndexes(e)
    BY CascadeAccepted DEF AllGone
  <2>2. Deleted(Delete("DeleteDocumentsForProject", p), d) = e
    BY <1>1, DeletesOne, ProjectsDocumentsGo DEF Delete
  <2>3. Head(s) = Delete("DeleteDocumentsForProject", p) /\ Tail(s) = <<EachFeature(held), last>>
    BY <1>1, SequenceFacts
  <2>5. held \ {} = held /\ {} \in SUBSET held
    OBVIOUS
  <2>6. ProjectGoing(o, Tail(s), e)
    <3> HIDE DEF e
    <3>1. Tail(s) = <<EachFeature(held \ {}), last>>
        BY <2>3, <2>5, Zenon
    <3> QED BY <3>1, <2>5 DEF ProjectGoing, e
  <2> HIDE DEF e
  <2> QED BY <1>0, <2>1, <2>2, <2>3, <2>6
<1>2. CASE \E fs \in SUBSET held : s = <<EachFeature(held \ fs), last>> /\ d = AllGone(own, fs)
  <2>1. Loops(s)
    BY <1>2, SequenceFacts DEF Loops, EachFeature
  <2> QED BY <2>1
<1>3. CASE \E fs \in SUBSET held : \E f \in held \ fs :
              FeatureGoing(s, d, f, own, fs, <<EachFeature(held \ (fs \cup {f})), last>>)
  <2>0. PICK fs \in SUBSET held : \E f \in held \ fs :
              FeatureGoing(s, d, f, own, fs, <<EachFeature(held \ (fs \cup {f})), last>>)
    BY <1>3
  <2>1. PICK f \in held \ fs : FeatureGoing(s, d, f, own, fs, <<EachFeature(held \ (fs \cup {f})), last>>)
    BY <2>0
  <2> DEFINE more == <<EachFeature(held \ (fs \cup {f})), last>>
  <2>2. PICK e : /\ Outcomes(Head(s), d) = {e}
                 /\ \/ FeatureGoing(Tail(s), e, f, own, fs, more)
                    \/ Tail(s) = more /\ e = AllGone(own, fs \cup {f})
    <3>1. FeatureGoesOn(s, d, f, own, fs, more)
        BY <2>1, FeatureStatement
    <3> QED BY <3>1 DEF FeatureGoesOn
  <2>3. fs \cup {f} \in SUBSET held
    BY <2>1
  <2>4. ProjectGoing(o, Tail(s), e)
    BY <2>1, <2>2, <2>3 DEF ProjectGoing
  <2> QED BY <2>2, <2>4
<1>4. CASE s = <<last>> /\ d = AllGone(own, held)
  <2> DEFINE e == EraseProject(d, p)
  <2>1. References(e) /\ UniqueIndexes(e)
    BY <1>4, ProjectAccepted
  <2>2. Deleted(last, d) = e
    BY DeletesOne DEF Delete
  <2>3. Head(s) = last /\ Tail(s) = <<>>
    BY <1>4, SequenceFacts
  <2>5. ProjectGoing(o, Tail(s), e)
    BY <1>4, <2>3 DEF ProjectGoing
  <2> HIDE DEF e
  <2> QED BY <1>0, <2>1, <2>2, <2>3, <2>5
<1> QED BY <1>1, <1>2, <1>3, <1>4 DEF ProjectGoing

------------------------------------------------------------------------------
\* The cascade over a task

\* What a cascade over a task has left.
LEMMA TaskGoneFields ==
    ASSUME NEW es, NEW rs, NEW is, NEW ts, NEW d, d = TaskGone(es, rs, is, ts)
    PROVE  /\ d.projects = projects /\ d.features = features
           /\ DOMAIN d.tasks = DOMAIN tasks \ ts
           /\ \A t \in DOMAIN tasks \ ts : d.tasks[t] = tasks[t]
           /\ d.dependencies = {e \in dependencies : e[1] \notin es /\ e[2] \notin es}
           /\ DOMAIN d.pullRequests = DOMAIN pullRequests \ rs
           /\ DOMAIN d.documents \subseteq DOMAIN documents
           /\ \A i \in DOMAIN d.documents : /\ d.documents[i] = documents[i]
                                           /\ documents[i].parent \notin {"task"} \X is
<1> DEFINE parents == {"task"} \X is
<1>1. /\ d.projects = projects /\ d.features = features /\ d.tasks = Erase(tasks, ts)
      /\ d.dependencies = {e \in dependencies : e[1] \notin es /\ e[2] \notin es}
      /\ d.pullRequests = Erase(pullRequests, rs)
      /\ d.documents = Erase(documents, DocumentsOf(parents))
    BY DEF TaskGone
<1>2. /\ DOMAIN Erase(tasks, ts) = DOMAIN tasks \ ts
      /\ \A t \in DOMAIN tasks \ ts : Erase(tasks, ts)[t] = tasks[t]
    BY ErasedRows
<1>3. DOMAIN Erase(pullRequests, rs) = DOMAIN pullRequests \ rs
    BY ErasedRows
<1> HIDE DEF parents
<1>4. /\ DOMAIN Erase(documents, DocumentsOf(parents)) = DOMAIN documents \ DocumentsOf(parents)
      /\ \A i \in DOMAIN documents \ DocumentsOf(parents) : Erase(documents, DocumentsOf(parents))[i] = documents[i]
    BY ErasedRows
<1>5. \A i \in DOMAIN documents \ DocumentsOf(parents) : documents[i].parent \notin parents
    BY DEF DocumentsOf
<1>6. \A i \in DOMAIN d.documents : i \in DOMAIN documents \ DocumentsOf(parents) /\ d.documents[i] = documents[i]
    BY <1>1, <1>4
<1> QED BY <1>1, <1>2, <1>3, <1>5, <1>6 DEF parents

\* The task goes after all that refers to it.
LEMMA TaskAccepted ==
    ASSUME StoreInv, UniqueIndexes(Committed), NEW es, NEW rs, NEW is, NEW ts,
           ts \subseteq es, ts \subseteq rs, ts \subseteq is
    PROVE  References(TaskGone(es, rs, is, ts)) /\ UniqueIndexes(TaskGone(es, rs, is, ts))
<1> DEFINE d == TaskGone(es, rs, is, ts)
<1>1. UniqueIndexes(d)
    <2>1. d.pullRequests = Erase(pullRequests, rs) /\ d.documents = Erase(documents, DocumentsOf({"task"} \X is))
        BY DEF TaskGone
    <2> HIDE DEF d
    <2> QED BY <2>1, StillUnique
<1> HIDE DEF d
<1>2. /\ d.projects = projects /\ d.features = features
      /\ DOMAIN d.tasks = DOMAIN tasks \ ts
      /\ \A t \in DOMAIN tasks \ ts : d.tasks[t] = tasks[t]
      /\ d.dependencies = {e \in dependencies : e[1] \notin es /\ e[2] \notin es}
      /\ DOMAIN d.pullRequests = DOMAIN pullRequests \ rs
      /\ DOMAIN d.documents \subseteq DOMAIN documents
      /\ \A i \in DOMAIN d.documents : /\ d.documents[i] = documents[i]
                                       /\ documents[i].parent \notin {"task"} \X is
    BY TaskGoneFields DEF d
<1>3. \A f \in DOMAIN d.features : GetProjectByPublicID(d, d.features[f].project)
    BY <1>2 DEF StoreInv, ForeignKeys, GetProjectByPublicID
<1>4. \A t \in DOMAIN d.tasks : GetFeatureByPublicID(d, d.tasks[t].feature)
    BY <1>2 DEF StoreInv, ForeignKeys, GetFeatureByPublicID
<1>5. \A e \in d.dependencies : GetTaskByPublicID(d, e[1]) /\ GetTaskByPublicID(d, e[2])
    BY <1>2 DEF StoreInv, ForeignKeys, GetTaskByPublicID
<1>6. \A t \in DOMAIN d.pullRequests : GetTaskByPublicID(d, t)
    BY <1>2 DEF StoreInv, ForeignKeys, GetTaskByPublicID
<1>7. ASSUME NEW i \in DOMAIN d.documents PROVE GetParent(d, d.documents[i].parent)
    <2> DEFINE parent == documents[i].parent
    <2>1. /\ d.documents[i].parent = parent /\ Exists(parent)
          /\ parent \in Parents /\ parent \notin {"task"} \X is
        BY <1>2 DEF StoreInv, ForeignKeys, StoreTypeOK, IsTable, DocumentRow
    <2> HIDE DEF parent
    <2>2. parent = <<parent[1], parent[2]>> /\ parent[1] \in {"project", "feature", "task"}
        BY <2>1 DEF Parents
    <2>3. CASE parent[1] = "project"
        BY <1>2, <2>1, <2>3 DEF GetParent, GetProjectByPublicID, Exists
    <2>4. CASE parent[1] = "feature"
        BY <1>2, <2>1, <2>4 DEF GetParent, GetFeatureByPublicID, Exists
    <2>5. CASE parent[1] = "task"
        <3>1. parent[2] \notin is /\ parent[2] \in DOMAIN tasks
            BY <2>1, <2>2, <2>5 DEF Exists
        <3> QED BY <1>2, <2>1, <3>1, <2>5 DEF GetParent, GetTaskByPublicID
    <2> QED BY <2>2, <2>3, <2>4, <2>5
<1> QED BY <1>1, <1>3, <1>4, <1>5, <1>6, <1>7 DEF References, d

\* What each of its statements does.
LEMMA TaskStatements ==
    ASSUME StoreInv, NEW t
    PROVE  /\ DeleteDependenciesForTask(TaskGone({}, {}, {}, {}), t) = TaskGone({t}, {}, {}, {})
           /\ ErasePullRequest(TaskGone({t}, {}, {}, {}), t) = TaskGone({t}, {t}, {}, {})
           /\ DeleteDocumentsForTask(TaskGone({t}, {t}, {}, {}), t) = TaskGone({t}, {t}, {t}, {})
           /\ EraseTask(TaskGone({t}, {t}, {t}, {}), t) = TaskGone({t}, {t}, {t}, {t})
<1>1. {e \in {e \in dependencies : e[1] \notin {} /\ e[2] \notin {}} : t \notin {e[1], e[2]}}
        = {e \in dependencies : e[1] \notin {t} /\ e[2] \notin {t}}
    OBVIOUS
<1>2. \A T : Erase(Erase(T, {}), {t}) = Erase(T, {t})
    BY DEF Erase, Restrict
<1>3. DeleteDependenciesForTask(TaskGone({}, {}, {}, {}), t) = TaskGone({t}, {}, {}, {})
    <2>1. DeleteDependenciesForTask(TaskGone({}, {}, {}, {}), t)
            = [TaskGone({}, {}, {}, {}) EXCEPT !.dependencies =
                  {e \in {e \in dependencies : e[1] \notin {} /\ e[2] \notin {}} : t \notin {e[1], e[2]}}]
        BY DEF DeleteDependenciesForTask, TaskGone
    <2> QED BY <1>1, <2>1 DEF TaskGone
<1>4. ErasePullRequest(TaskGone({t}, {}, {}, {}), t) = TaskGone({t}, {t}, {}, {})
    <2>1. ErasePullRequest(TaskGone({t}, {}, {}, {}), t)
            = [TaskGone({t}, {}, {}, {}) EXCEPT !.pullRequests = Erase(Erase(pullRequests, {}), {t})]
        BY DEF ErasePullRequest, TaskGone
    <2>2. Erase(Erase(pullRequests, {}), {t}) = Erase(pullRequests, {t})
        BY <1>2
    <2> QED BY <2>1, <2>2 DEF TaskGone
<1>5. DeleteDocumentsForTask(TaskGone({t}, {t}, {}, {}), t) = TaskGone({t}, {t}, {t}, {})
  <2> DEFINE d == TaskGone({t}, {t}, {}, {})
             none == {"task"} \X {}
             page == {<<"task", t>>}
  <2>1. d.documents = Erase(documents, DocumentsOf(none))
    BY DEF TaskGone
  <2>2. Erase(d.documents, DocumentsUnder(d, page)) = Erase(documents, DocumentsOf(none \cup page))
    <3> HIDE DEF d, none, page
    <3> QED BY <2>1, DocumentsErased
  <2>3. none \cup page = {"task"} \X {t}
    OBVIOUS
  <2>4. Erase(d.documents, DocumentsUnder(d, page)) = Erase(documents, DocumentsOf({"task"} \X {t}))
    <3> HIDE DEF d, none, page
    <3> QED BY <2>2, <2>3, Zenon
  <2>5. DeleteDocumentsForTask(d, t) = [d EXCEPT !.documents = Erase(d.documents, DocumentsUnder(d, page))]
    BY DEF DeleteDocumentsForTask, TaskGone
  <2>6. DeleteDocumentsForTask(d, t) = [d EXCEPT !.documents = Erase(documents, DocumentsOf({"task"} \X {t}))]
    <3> HIDE DEF d, none, page
    <3> QED BY <2>4, <2>5, Zenon
  <2> QED BY <2>6 DEF TaskGone
<1>6. EraseTask(TaskGone({t}, {t}, {t}, {}), t) = TaskGone({t}, {t}, {t}, {t})
    <2>1. EraseTask(TaskGone({t}, {t}, {t}, {}), t)
            = [TaskGone({t}, {t}, {t}, {}) EXCEPT !.tasks = Erase(Erase(tasks, {}), {t})]
        BY DEF EraseTask, TaskGone
    <2>2. Erase(Erase(tasks, {}), {t}) = Erase(tasks, {t})
        BY <1>2
    <2> QED BY <2>1, <2>2 DEF TaskGone
<1> QED BY <1>3, <1>4, <1>5, <1>6

\* A statement of the cascade over a task is accepted and takes it one step on.
LEMMA TaskStatement ==
    ASSUME StoreInv, UniqueIndexes(Committed), NEW o, NEW s, NEW d, TaskGoing(o, s, d), s # <<>>
    PROVE  \E e : Outcomes(Head(s), d) = {e} /\ TaskGoing(o, Tail(s), e)
<1> DEFINE t == o.id
           last == Delete("DeleteTask", t)
<1>0. ASSUME NEW do, NEW e, Head(s) = Delete(do, t), Deleted(Delete(do, t), d) = e, TaskGoing(o, Tail(s), e),
             References(e), UniqueIndexes(e),
             do \in {"DeleteDependenciesForTask", "DeletePullRequest", "DeleteDocumentsForTask", "DeleteTask"}
      PROVE  \E x : Outcomes(Head(s), d) = {x} /\ TaskGoing(o, Tail(s), x)
    BY <1>0, OneStatement
<1>1. CASE /\ s = <<Delete("DeleteDependenciesForTask", t), Delete("DeletePullRequest", t),
                   Delete("DeleteDocumentsForTask", t), last>>
           /\ d = TaskGone({}, {}, {}, {})
  <2> DEFINE e == TaskGone({t}, {}, {}, {})
  <2>1. References(e) /\ UniqueIndexes(e)
    BY TaskAccepted
  <2>2. Deleted(Delete("DeleteDependenciesForTask", t), d) = e
    BY <1>1, DeletesOne, TaskStatements DEF Delete
  <2>3. /\ Head(s) = Delete("DeleteDependenciesForTask", t)
        /\ Tail(s) = <<Delete("DeletePullRequest", t), Delete("DeleteDocumentsForTask", t), last>>
    BY <1>1, SequenceFacts
  <2>4. TaskGoing(o, Tail(s), e)
    BY <2>3 DEF TaskGoing
  <2> HIDE DEF e
  <2> QED BY <1>0, <2>1, <2>2, <2>3, <2>4
<1>2. CASE /\ s = <<Delete("DeletePullRequest", t), Delete("DeleteDocumentsForTask", t), last>>
           /\ d = TaskGone({t}, {}, {}, {})
  <2> DEFINE e == TaskGone({t}, {t}, {}, {})
  <2>1. References(e) /\ UniqueIndexes(e)
    BY TaskAccepted
  <2>2. Deleted(Delete("DeletePullRequest", t), d) = e
    BY <1>2, DeletesOne, TaskStatements DEF Delete
  <2>3. Head(s) = Delete("DeletePullRequest", t) /\ Tail(s) = <<Delete("DeleteDocumentsForTask", t), last>>
    BY <1>2, SequenceFacts
  <2>4. TaskGoing(o, Tail(s), e)
    BY <2>3 DEF TaskGoing
  <2> HIDE DEF e
  <2> QED BY <1>0, <2>1, <2>2, <2>3, <2>4
<1>3. CASE s = <<Delete("DeleteDocumentsForTask", t), last>> /\ d = TaskGone({t}, {t}, {}, {})
  <2> DEFINE e == TaskGone({t}, {t}, {t}, {})
  <2>1. References(e) /\ UniqueIndexes(e)
    BY TaskAccepted
  <2>2. Deleted(Delete("DeleteDocumentsForTask", t), d) = e
    BY <1>3, DeletesOne, TaskStatements DEF Delete
  <2>3. Head(s) = Delete("DeleteDocumentsForTask", t) /\ Tail(s) = <<last>>
    BY <1>3, SequenceFacts
  <2>4. TaskGoing(o, Tail(s), e)
    BY <2>3 DEF TaskGoing
  <2> HIDE DEF e
  <2> QED BY <1>0, <2>1, <2>2, <2>3, <2>4
<1>4. CASE s = <<last>> /\ d = TaskGone({t}, {t}, {t}, {})
  <2> DEFINE e == TaskGone({t}, {t}, {t}, {t})
  <2>1. References(e) /\ UniqueIndexes(e)
    BY TaskAccepted
  <2>2. Deleted(last, d) = e
    BY <1>4, DeletesOne, TaskStatements DEF Delete
  <2>3. Head(s) = last /\ Tail(s) = <<>>
    BY <1>4, SequenceFacts
  <2>4. TaskGoing(o, Tail(s), e)
    BY <2>3 DEF TaskGoing
  <2> HIDE DEF e
  <2> QED BY <1>0, <2>1, <2>2, <2>3, <2>4
<1> QED BY <1>1, <1>2, <1>3, <1>4 DEF TaskGoing

------------------------------------------------------------------------------
\* Tables in which nothing refers to the row

\* A count of zero leaves nothing on either side.
LEMMA ZeroCount ==
    ASSUME NEW A, NEW B, IsFiniteSet(A), IsFiniteSet(B), Cardinality(A) + Cardinality(B) = 0
    PROVE  A = {} /\ B = {}
<1>1. Cardinality(A) \in Nat /\ Cardinality(B) \in Nat
    BY FS_CardinalityType
<1>2. Cardinality(A) = 0 /\ Cardinality(B) = 0
    BY <1>1
<1> QED BY <1>2, FS_EmptySet

\* The counts are of finite sets.
LEMMA TablesFinite ==
    ASSUME StoreInv
    PROVE  /\ IsFiniteSet(DOMAIN features) /\ IsFiniteSet(DOMAIN tasks) /\ IsFiniteSet(DOMAIN documents)
           /\ IsFiniteSet(DOMAIN pullRequests) /\ IsFiniteSet(dependencies)
<1>1. IsFiniteSet(1..MaxFeatures) /\ IsFiniteSet(1..MaxTasks) /\ IsFiniteSet(1..MaxDocuments)
    BY StoreAssumption, FS_Interval
<1>2. IsFiniteSet(TaskIDs \X TaskIDs)
    BY <1>1, FS_Product DEF TaskIDs
<1> QED BY <1>1, <1>2, FS_Subset DEF StoreInv, StoreTypeOK, IsTable, FeatureIDs, TaskIDs, DocumentIDs

\* A project that CountProjectReferences finds nothing under.
LEMMA NothingUnderProject ==
    ASSUME StoreInv, NEW p, CountProjectReferences(Committed, p) = 0
    PROVE  FeaturesOf(p) = {} /\ DocumentsOf({<<"project", p>>}) = {}
<1>1. ListFeaturesByProject(Committed, p) = FeaturesOf(p)
    BY CommittedFields DEF ListFeaturesByProject, FeaturesOf
<1>2. DocumentsUnder(Committed, {<<"project", p>>}) = DocumentsOf({<<"project", p>>})
    BY CommittedFields DEF DocumentsUnder, DocumentsOf
<1>3. IsFiniteSet(FeaturesOf(p)) /\ IsFiniteSet(DocumentsOf({<<"project", p>>}))
    BY TablesFinite, FS_Subset DEF FeaturesOf, DocumentsOf
<1>4. Cardinality(FeaturesOf(p)) + Cardinality(DocumentsOf({<<"project", p>>})) = 0
    BY <1>1, <1>2, Zenon DEF CountProjectReferences
<1> QED BY <1>3, <1>4, ZeroCount

\* A feature that CountFeatureReferences finds nothing under.
LEMMA NothingUnderFeature ==
    ASSUME StoreInv, NEW f, CountFeatureReferences(Committed, f) = 0
    PROVE  TasksOf({f}) = {} /\ DocumentsOf({<<"feature", f>>}) = {}
<1>1. ListTasksByFeature(Committed, f) = TasksOf({f})
    BY CommittedFields DEF ListTasksByFeature, TasksOf
<1>2. DocumentsUnder(Committed, {<<"feature", f>>}) = DocumentsOf({<<"feature", f>>})
    BY CommittedFields DEF DocumentsUnder, DocumentsOf
<1>3. IsFiniteSet(TasksOf({f})) /\ IsFiniteSet(DocumentsOf({<<"feature", f>>}))
    BY TablesFinite, FS_Subset DEF TasksOf, DocumentsOf
<1>4. Cardinality(TasksOf({f})) + Cardinality(DocumentsOf({<<"feature", f>>})) = 0
    BY <1>1, <1>2, Zenon DEF CountFeatureReferences
<1> QED BY <1>3, <1>4, ZeroCount

\* A task that CountTaskReferences finds nothing of.
LEMMA NothingUnderTask ==
    ASSUME StoreInv, NEW t, CountTaskReferences(Committed, t) = 0
    PROVE  /\ {e \in dependencies : t \in {e[1], e[2]}} = {}
           /\ t \notin DOMAIN pullRequests /\ DocumentsOf({<<"task", t>>}) = {}
<1> DEFINE edges == {e \in dependencies : t \in {e[1], e[2]}}
           pr == {t} \cap DOMAIN pullRequests
           docs == DocumentsOf({<<"task", t>>})
<1>1. DocumentsUnder(Committed, {<<"task", t>>}) = docs
    BY CommittedFields DEF DocumentsUnder, DocumentsOf
<1>2. IsFiniteSet(edges) /\ IsFiniteSet(pr) /\ IsFiniteSet(docs)
    BY TablesFinite, FS_Subset DEF DocumentsOf
<1>3. Cardinality(edges) + Cardinality(pr) + Cardinality(docs) = 0
    <2>1. Committed.dependencies = dependencies /\ Committed.pullRequests = pullRequests
        BY CommittedFields
    <2>2. Cardinality({e \in Committed.dependencies : t \in {e[1], e[2]}})
            + Cardinality({t} \cap DOMAIN Committed.pullRequests)
            + Cardinality(DocumentsUnder(Committed, {<<"task", t>>})) = 0
        BY DEF CountTaskReferences
    <2> QED BY <2>1, <2>2, <1>1, Zenon
<1>4. Cardinality(edges) \in Nat /\ Cardinality(pr) \in Nat /\ Cardinality(docs) \in Nat
    BY <1>2, FS_CardinalityType
<1> HIDE DEF edges, pr, docs
<1>5. Cardinality(edges) = 0 /\ Cardinality(pr) = 0 /\ Cardinality(docs) = 0
    BY <1>3, <1>4
<1>6. edges = {} /\ pr = {} /\ docs = {}
    BY <1>2, <1>5, FS_EmptySet
<1> QED BY <1>6 DEF edges, pr, docs

\* Without cascade the tables are as the cascade would have left them before its last statement.
LEMMA EmptyProject ==
    ASSUME StoreInv, NEW p, FeaturesOf(p) = {}, DocumentsOf({<<"project", p>>}) = {}
    PROVE  AllGone({<<"project", p>>}, FeaturesOf(p)) = Committed
<1> DEFINE own == {<<"project", p>>}
<1>1. TasksOf({}) = {} /\ own \cup ({"feature"} \X {}) \cup ({"task"} \X {}) = own
    BY DEF TasksOf
<1>2. /\ Erase(features, {}) = features /\ Erase(tasks, {}) = tasks /\ Erase(pullRequests, {}) = pullRequests
      /\ Erase(documents, {}) = documents
    BY EraseNothing DEF StoreInv, StoreTypeOK
<1>3. {e \in dependencies : e[1] \notin {}} = dependencies
    OBVIOUS
<1>5. AllGone(own, {}) = [sequences |-> sequences, projects |-> projects, features |-> features, tasks |-> tasks,
                          dependencies |-> dependencies, pullRequests |-> pullRequests,
                          documents |-> Erase(documents, DocumentsOf(own))]
    BY <1>1, <1>2, <1>3 DEF AllGone, Gone, Unlinked, Emptied
<1>6. AllGone(own, {}) = Committed
    BY <1>2, <1>5, Zenon DEF Committed
<1> QED BY <1>6

\* The same for a feature,
LEMMA EmptyFeature ==
    ASSUME StoreInv, NEW f, TasksOf({f}) = {}, DocumentsOf({<<"feature", f>>}) = {}
    PROVE  Gone({}, {f}, {f}, {f}, {f}, {}) = Committed
<1>1. {} \cup ({"feature"} \X {f}) \cup ({"task"} \X {}) = {<<"feature", f>>}
    OBVIOUS
<1>2. /\ Erase(features, {}) = features /\ Erase(tasks, {}) = tasks /\ Erase(pullRequests, {}) = pullRequests
      /\ Erase(documents, {}) = documents
    BY EraseNothing DEF StoreInv, StoreTypeOK
<1>3. {e \in dependencies : e[1] \notin {}} = dependencies
    OBVIOUS
<1>4. DocumentsOf({} \cup ({"feature"} \X {f}) \cup ({"task"} \X TasksOf({f}))) = {}
    BY <1>1, Zenon
<1> QED BY <1>2, <1>3, <1>4 DEF Gone, Unlinked, Emptied, Committed

\* and for a task.
LEMMA EmptyTask ==
    ASSUME StoreInv, NEW t, {e \in dependencies : t \in {e[1], e[2]}} = {},
           t \notin DOMAIN pullRequests, DocumentsOf({<<"task", t>>}) = {}
    PROVE  TaskGone({t}, {t}, {t}, {}) = Committed
<1>1. {"task"} \X {t} = {<<"task", t>>}
    OBVIOUS
<1>2. /\ Erase(tasks, {}) = tasks /\ Erase(documents, {}) = documents
      /\ Erase(pullRequests, {t}) = pullRequests
    BY EraseNothing DEF StoreInv, StoreTypeOK
<1>3. {e \in dependencies : e[1] \notin {t} /\ e[2] \notin {t}} = dependencies
    OBVIOUS
<1>4. DocumentsOf({"task"} \X {t}) = {}
    BY <1>1, Zenon
<1> QED BY <1>2, <1>3, <1>4 DEF TaskGone, Committed

\* A cascade over a task begins with the tables as they are.
LEMMA TaskUntouched == ASSUME StoreInv PROVE TaskGone({}, {}, {}, {}) = Committed
<1>1. DocumentsOf({"task"} \X {}) = {}
    BY DEF DocumentsOf
<1>2. /\ Erase(tasks, {}) = tasks /\ Erase(documents, {}) = documents
      /\ Erase(pullRequests, {}) = pullRequests
    BY EraseNothing DEF StoreInv, StoreTypeOK
<1>3. {e \in dependencies : e[1] \notin {} /\ e[2] \notin {}} = dependencies
    OBVIOUS
<1> QED BY <1>1, <1>2, <1>3 DEF TaskGone, Committed

\* The statements for one feature, written out.
LEMMA FeatureGoesInFive ==
    ASSUME NEW f
    PROVE  FeatureGoes(f) = <<Delete("DeleteDependenciesForFeature", f), Delete("DeletePullRequestsForFeature", f),
                              Delete("DeleteDocumentsForFeature", f), Delete("DeleteTasksForFeature", f),
                              Delete("DeleteFeature", f)>>
BY DEF FeatureGoes, On, ContentsOrder

\* The statements for one feature before the two that are left.
LEMMA FiveAndTwo ==
    ASSUME NEW a, NEW b, NEW c, NEW d, NEW e, NEW x, NEW y
    PROVE  <<a, b, c, d, e>> \o <<x>> \o <<y>> = <<a, b, c, d, e, x, y>>
<1> DEFINE T == {a, b, c, d, e, x, y}
           five == <<a, b, c, d, e>>
           six == five \o <<x>>
           seven == six \o <<y>>
<1>1. five \in Seq(T) /\ <<x>> \in Seq(T) /\ <<y>> \in Seq(T) /\ <<a, b, c, d, e, x, y>> \in Seq(T)
    OBVIOUS
<1> HIDE DEF T
<1>2. Len(five) = 5 /\ Len(<<x>>) = 1 /\ Len(<<y>>) = 1 /\ Len(<<a, b, c, d, e, x, y>>) = 7
    OBVIOUS
<1>3. /\ five[1] = a /\ five[2] = b /\ five[3] = c /\ five[4] = d /\ five[5] = e
      /\ <<x>>[1] = x /\ <<y>>[1] = y
    OBVIOUS
<1> HIDE DEF five
<1>4. six \in Seq(T) /\ Len(six) = 6 /\ \A i \in 1..6 : six[i] = IF i <= 5 THEN five[i] ELSE <<x>>[i - 5]
    <2>1. /\ six \in Seq(T) /\ Len(six) = Len(five) + Len(<<x>>)
          /\ \A i \in 1..Len(five) + Len(<<x>>) :
                six[i] = IF i <= Len(five) THEN five[i] ELSE <<x>>[i - Len(five)]
        BY <1>1, ConcatProperties
    <2> QED BY <1>2, <2>1
<1>5. six[6] = x
    BY <1>3, <1>4
<1> HIDE DEF six
<1>6. seven \in Seq(T) /\ Len(seven) = 7 /\ \A i \in 1..7 : seven[i] = IF i <= 6 THEN six[i] ELSE <<y>>[i - 6]
    <2>1. /\ seven \in Seq(T) /\ Len(seven) = Len(six) + Len(<<y>>)
          /\ \A i \in 1..Len(six) + Len(<<y>>) :
                seven[i] = IF i <= Len(six) THEN six[i] ELSE <<y>>[i - Len(six)]
        BY <1>1, <1>4, ConcatProperties
    <2> QED BY <1>2, <1>4, <2>1
<1>7. seven[7] = y
    BY <1>3, <1>6
<1> HIDE DEF seven
<1>8. \A i \in 1..7 : seven[i] = <<a, b, c, d, e, x, y>>[i]
    BY <1>3, <1>4, <1>5, <1>6, <1>7
<1>9. seven = <<a, b, c, d, e, x, y>>
    BY <1>1, <1>2, <1>6, <1>8, SeqEqual
<1> QED BY <1>9 DEF seven, six, five

------------------------------------------------------------------------------
\* What a transaction begins with

\* The script of each operation.
LEMMA ScriptOf ==
    ASSUME NEW o, NEW d
    PROVE  /\ o.do = "CreateProject" => Script(o, d) = Creates(o, "project")
           /\ o.do = "CreateFeature" => Script(o, d) = Creates(o, "feature")
           /\ o.do = "CreateTask" => Script(o, d) = Creates(o, "task")
           /\ o.do = "DeleteProject" => Script(o, d) = DeletesProject(o, d)
           /\ o.do = "DeleteFeature" => Script(o, d) = DeletesFeature(o)
           /\ o.do = "DeleteTask" => Script(o, d) = DeletesTask(o)
           /\ o.do \notin {"CreateProject", "CreateFeature", "CreateTask", "DeleteProject", "DeleteFeature", "DeleteTask"}
                => Script(o, d) = <<o>>
<1>1. o.do = "CreateProject" => Script(o, d) = Creates(o, "project")
    BY DEF Script
<1>2. o.do = "CreateFeature" => Script(o, d) = Creates(o, "feature")
    BY DEF Script
<1>3. o.do = "CreateTask" => Script(o, d) = Creates(o, "task")
    BY DEF Script
<1>4. o.do = "DeleteProject" => Script(o, d) = DeletesProject(o, d)
    BY DEF Script
<1>5. o.do = "DeleteFeature" => Script(o, d) = DeletesFeature(o)
    BY DEF Script
<1>6. o.do = "DeleteTask" => Script(o, d) = DeletesTask(o)
    BY DEF Script
<1>7. o.do \notin {"CreateProject", "CreateFeature", "CreateTask", "DeleteProject", "DeleteFeature", "DeleteTask"}
                => Script(o, d) = <<o>>
    BY DEF Script
<1> QED BY <1>1, <1>2, <1>3, <1>4, <1>5, <1>6, <1>7

\* What the reads of an operation let it count on.
LEMMA FindsOf ==
    ASSUME NEW o, NEW d, Finds(o, d)
    PROVE  /\ o.do = "CreateFeature" => o.id \in DOMAIN d.projects
           /\ o.do = "CreateTask" => o.id \in DOMAIN d.features
           /\ o.do = "DeleteProject" =>
                 o.id \in DOMAIN d.projects /\ (o.cascade \/ CountProjectReferences(d, o.id) = 0)
           /\ o.do = "DeleteFeature" =>
                 o.id \in DOMAIN d.features /\ (o.cascade \/ CountFeatureReferences(d, o.id) = 0)
           /\ o.do = "DeleteTask" =>
                 o.id \in DOMAIN d.tasks /\ (o.cascade \/ CountTaskReferences(d, o.id) = 0)
           /\ o.do = "RemoveDependency" => o.id \in DOMAIN d.tasks /\ o.blocked \in DOMAIN d.tasks
           /\ o.do = "AddDependency" =>
                 /\ o.id \in DOMAIN d.tasks /\ o.blocked \in DOMAIN d.tasks
                 /\ d.tasks[o.id].feature = d.tasks[o.blocked].feature
                 /\ <<o.id, o.blocked>> \notin ListDependenciesByFeature(d, d.tasks[o.id].feature)
                 /\ ~ClosesCycle(ListDependenciesByFeature(d, d.tasks[o.id].feature), o.id, o.blocked)
<1>1. o.do = "CreateFeature" => o.id \in DOMAIN d.projects
    BY DEF Finds, GetProjectByPublicID
<1>2. o.do = "CreateTask" => o.id \in DOMAIN d.features
    BY DEF Finds, GetFeatureByPublicID
<1>3. o.do = "DeleteProject" => o.id \in DOMAIN d.projects /\ (o.cascade \/ CountProjectReferences(d, o.id) = 0)
    BY DEF Finds, GetProjectByPublicID
<1>4. o.do = "DeleteFeature" => o.id \in DOMAIN d.features /\ (o.cascade \/ CountFeatureReferences(d, o.id) = 0)
    BY DEF Finds, GetFeatureByPublicID
<1>5. o.do = "DeleteTask" => o.id \in DOMAIN d.tasks /\ (o.cascade \/ CountTaskReferences(d, o.id) = 0)
    BY DEF Finds, GetTaskByPublicID
<1>6. o.do = "RemoveDependency" => o.id \in DOMAIN d.tasks /\ o.blocked \in DOMAIN d.tasks
    BY DEF Finds, GetTaskByPublicID
<1>7. o.do = "AddDependency" =>
                 /\ o.id \in DOMAIN d.tasks /\ o.blocked \in DOMAIN d.tasks
                 /\ d.tasks[o.id].feature = d.tasks[o.blocked].feature
                 /\ <<o.id, o.blocked>> \notin ListDependenciesByFeature(d, d.tasks[o.id].feature)
                 /\ ~ClosesCycle(ListDependenciesByFeature(d, d.tasks[o.id].feature), o.id, o.blocked)
    BY DEF Finds, GetTaskByPublicID
<1> QED BY <1>1, <1>2, <1>3, <1>4, <1>5, <1>6, <1>7

\* What each statement that writes does.
LEMMA WrittenOf ==
    ASSUME NEW s, NEW d
    PROVE  /\ s.do = "IncrementIDSequence" => Written(s, d) = IncrementIDSequence(d, s.entity)
           /\ s.do = "CreateProject" => Written(s, d) = InsertProject(d, s.body)
           /\ s.do = "CreateFeature" => Written(s, d) = InsertFeature(d, s.id, s.body)
           /\ s.do = "CreateTask" => Written(s, d) = InsertTask(d, s.id, s.body)
           /\ s.do = "UpdateProject" => Written(s, d) = WriteProject(d, s.id, s.row)
           /\ s.do = "UpdateFeature" => Written(s, d) = WriteFeature(d, s.id, s.row)
           /\ s.do = "UpdateTask" => Written(s, d) = WriteTask(d, s.id, s.body)
           /\ s.do = "AddDependency" => Written(s, d) = InsertDependency(d, <<s.id, s.blocked>>)
           /\ s.do = "RemoveDependency" => Written(s, d) = EraseDependency(d, <<s.id, s.blocked>>)
           /\ s.do = "UpsertPullRequest" => Written(s, d) = InsertPullRequest(d, s.id, s.pr)
           /\ s.do = "CreateDocument" => Written(s, d) = InsertDocument(d, s.row)
           /\ s.do = "UpdateDocument" => Written(s, d) = WriteDocument(d, s.id, s.fields)
           /\ s.do = "UpsertImplementationPlanDocument" => Written(s, d) = InsertImplementationPlan(d, s.id, s.body, s.body)
<1>1. s.do = "IncrementIDSequence" => Written(s, d) = IncrementIDSequence(d, s.entity)
    BY DEF Written
<1>2. s.do = "CreateProject" => Written(s, d) = InsertProject(d, s.body)
    BY DEF Written
<1>3. s.do = "CreateFeature" => Written(s, d) = InsertFeature(d, s.id, s.body)
    BY DEF Written
<1>4. s.do = "CreateTask" => Written(s, d) = InsertTask(d, s.id, s.body)
    BY DEF Written
<1>5. s.do = "UpdateProject" => Written(s, d) = WriteProject(d, s.id, s.row)
    BY DEF Written
<1>6. s.do = "UpdateFeature" => Written(s, d) = WriteFeature(d, s.id, s.row)
    BY DEF Written
<1>7. s.do = "UpdateTask" => Written(s, d) = WriteTask(d, s.id, s.body)
    BY DEF Written
<1>8. s.do = "AddDependency" => Written(s, d) = InsertDependency(d, <<s.id, s.blocked>>)
    BY DEF Written
<1>9. s.do = "RemoveDependency" => Written(s, d) = EraseDependency(d, <<s.id, s.blocked>>)
    BY DEF Written
<1>10. s.do = "UpsertPullRequest" => Written(s, d) = InsertPullRequest(d, s.id, s.pr)
    BY DEF Written
<1>11. s.do = "CreateDocument" => Written(s, d) = InsertDocument(d, s.row)
    BY DEF Written
<1>12. s.do = "UpdateDocument" => Written(s, d) = WriteDocument(d, s.id, s.fields)
    BY DEF Written
<1>13. s.do = "UpsertImplementationPlanDocument" => Written(s, d) = InsertImplementationPlan(d, s.id, s.body, s.body)
    BY DEF Written
<1> QED BY <1>1, <1>2, <1>3, <1>4, <1>5, <1>6, <1>7, <1>8, <1>9, <1>10, <1>11, <1>12, <1>13

\* DeleteProject begins its cascade, or its only statement on a project with nothing under it.
LEMMA BeginsProject ==
    ASSUME StoreInv, NEW o, o.do = "DeleteProject", Finds(o, Committed)
    PROVE  ProjectGoing(o, Script(o, Committed), Committed)
<1> DEFINE p == o.id
           held == FeaturesOf(p)
           own == {<<"project", p>>}
           last == Delete("DeleteProject", p)
<1>1. ListFeaturesByProject(Committed, p) = held
    BY CommittedFields DEF ListFeaturesByProject, FeaturesOf
<1>2. Script(o, Committed) = DeletesProject(o, Committed)
    BY ScriptOf
<1>3. CASE o.cascade
    <2>1. Script(o, Committed) = <<Delete("DeleteDocumentsForProject", p), EachFeature(held), last>>
        BY <1>1, <1>2, <1>3, Zenon DEF DeletesProject
    <2> QED BY <2>1 DEF ProjectGoing
<1>4. CASE ~o.cascade
    <2>1. CountProjectReferences(Committed, p) = 0
        BY <1>4, FindsOf
    <2>2. held = {} /\ DocumentsOf(own) = {}
        BY <2>1, NothingUnderProject
    <2>3. Committed = AllGone(own, held)
        BY <2>2, EmptyProject
    <2>4. Script(o, Committed) = <<last>>
        BY <1>2, <1>4 DEF DeletesProject
    <2> QED BY <2>3, <2>4 DEF ProjectGoing
<1> QED BY <1>3, <1>4

\* All five statements are left of a feature whose cascade begins.
LEMMA AllFiveLeft ==
    ASSUME NEW f, NEW s, s = FeatureGoes(f)
    PROVE  Left5(s, f, <<>>)
<1>1. s = <<Delete("DeleteDependenciesForFeature", f), Delete("DeletePullRequestsForFeature", f),
            Delete("DeleteDocumentsForFeature", f), Delete("DeleteTasksForFeature", f), Delete("DeleteFeature", f)>>
    BY FeatureGoesInFive
<1>2. \A a, b, c, d, e : /\ <<a, b, c, d, e>> # <<>> /\ Head(<<a, b, c, d, e>>) = a
                         /\ Tail(<<a, b, c, d, e>>) = <<b, c, d, e>>
    OBVIOUS
<1> QED BY <1>1, <1>2, SequenceFacts DEF Left5, Left4, Left3, Left2, Left1, Coming

\* DeleteFeature begins its cascade, or its only statement on a feature with nothing under it.
LEMMA BeginsFeature ==
    ASSUME StoreInv, NEW o, o.do = "DeleteFeature", Finds(o, Committed)
    PROVE  FeatureDeleted(o, Script(o, Committed), Committed)
<1> DEFINE f == o.id
<1>2. Script(o, Committed) = DeletesFeature(o)
    BY ScriptOf
<1>3. CASE o.cascade
    <2>1. Script(o, Committed) = FeatureGoes(f)
        BY <1>2, <1>3 DEF DeletesFeature
    <2>2. Left5(Script(o, Committed), f, <<>>)
        BY <2>1, AllFiveLeft
    <2>3. Committed = Gone({}, {}, {}, {}, {}, {})
        BY NoneGone DEF AllGone
    <2> QED BY <2>2, <2>3 DEF FeatureDeleted, FeatureGoing
<1>4. CASE ~o.cascade
    <2>1. CountFeatureReferences(Committed, f) = 0
        BY <1>4, FindsOf
    <2>2. Committed = Gone({}, {f}, {f}, {f}, {f}, {})
        BY <2>1, NothingUnderFeature, EmptyFeature
    <2>3. Script(o, Committed) = <<Delete("DeleteFeature", f)>>
        BY <1>2, <1>4 DEF DeletesFeature
    <2>4. Left1(Script(o, Committed), f, <<>>)
        BY <2>3, SequenceFacts DEF Left1, Coming
    <2>5. {} \cup {f} = {f}
        OBVIOUS
    <2> QED BY <2>2, <2>4, <2>5 DEF FeatureDeleted, FeatureGoing
<1> QED BY <1>3, <1>4

\* DeleteTask begins its cascade, or its only statement on a task that nothing refers to.
LEMMA BeginsTask ==
    ASSUME StoreInv, NEW o, o.do = "DeleteTask", Finds(o, Committed)
    PROVE  TaskGoing(o, Script(o, Committed), Committed)
<1> DEFINE t == o.id
           last == Delete("DeleteTask", t)
<1>2. Script(o, Committed) = DeletesTask(o)
    BY ScriptOf
<1>3. CASE o.cascade
    <2>1. Script(o, Committed) = <<Delete("DeleteDependenciesForTask", t), Delete("DeletePullRequest", t),
                                   Delete("DeleteDocumentsForTask", t), last>>
        BY <1>2, <1>3 DEF DeletesTask, On
    <2> QED BY <2>1, TaskUntouched DEF TaskGoing
<1>4. CASE ~o.cascade
    <2>1. CountTaskReferences(Committed, t) = 0
        BY <1>4, FindsOf
    <2>2. Committed = TaskGone({t}, {t}, {t}, {})
        BY <2>1, NothingUnderTask, EmptyTask
    <2>3. Script(o, Committed) = <<last>>
        BY <1>2, <1>4 DEF DeletesTask, On
    <2> QED BY <2>2, <2>3 DEF TaskGoing
<1> QED BY <1>3, <1>4

\* A transaction begins with what its reads let it do.
LEMMA Begins ==
    ASSUME StoreInv, NEW o, Transactional(o), Finds(o, Committed)
    PROVE  Progress(o, Script(o, Committed), Committed)
<1>1. o.do = "CreateProject" => Creating(o, "project", Script(o, Committed), Committed)
    BY ScriptOf DEF Creating
<1>2. o.do = "CreateFeature" => Creating(o, "feature", Script(o, Committed), Committed)
    BY ScriptOf DEF Creating
<1>3. o.do = "CreateTask" => Creating(o, "task", Script(o, Committed), Committed)
    BY ScriptOf DEF Creating
<1>4. o.do \in {"AddDependency", "RemoveDependency"} => Script(o, Committed) = <<o>>
    BY ScriptOf
<1>5. o.do = "DeleteProject" => ProjectGoing(o, Script(o, Committed), Committed)
    BY BeginsProject
<1>6. o.do = "DeleteFeature" => FeatureDeleted(o, Script(o, Committed), Committed)
    BY BeginsFeature
<1>7. o.do = "DeleteTask" => TaskGoing(o, Script(o, Committed), Committed)
    BY BeginsTask
<1> QED BY <1>1, <1>2, <1>3, <1>4, <1>5, <1>6, <1>7 DEF Progress

------------------------------------------------------------------------------
\* The loop

\* Only the deletion of a project loops.
LEMMA NoLoop ==
    ASSUME StoreInv, UniqueIndexes(Committed), NEW o, NEW s, NEW d, Transactional(o), o.do # "DeleteProject",
           Progress(o, s, d)
    PROVE  ~Loops(s)
<1>1. CASE o.do \in {"AddDependency", "RemoveDependency"}
    BY <1>1, SequenceFacts DEF Progress, Loops
<1>2. ASSUME NEW entity, o.do \in {"CreateProject", "CreateFeature", "CreateTask"}, Creating(o, entity, s, d)
      PROVE  ~Loops(s)
    BY <1>2, SequenceFacts DEF Creating, Creates, Loops
<1>3. CASE o.do \in {"CreateProject", "CreateFeature", "CreateTask"}
    BY <1>2, <1>3 DEF Progress
<1>4. CASE o.do = "DeleteFeature"
    <2>1. FeatureGoing(s, d, o.id, {}, {}, <<>>) \/ s = <<>>
        BY <1>4 DEF Progress, FeatureDeleted
    <2>2. CASE FeatureGoing(s, d, o.id, {}, {}, <<>>)
        BY <2>2, FeatureStatement
    <2> QED BY <2>1, <2>2 DEF Loops
<1>5. CASE o.do = "DeleteTask"
    BY <1>5, SequenceFacts DEF Progress, TaskGoing, Loops, Delete
<1> QED BY <1>1, <1>3, <1>4, <1>5 DEF Transactional

\* The loop of the deletion of a project, and how it goes on.
LEMMA ProjectLoop ==
    ASSUME StoreInv, UniqueIndexes(Committed), NEW o, NEW s, NEW d, ProjectGoing(o, s, d), Loops(s)
    PROVE  /\ Head(s).ids = {} => ProjectGoing(o, Tail(s), d)
           /\ \A f \in Head(s).ids :
                 ProjectGoing(o, FeatureGoes(f) \o <<EachFeature(Head(s).ids \ {f})>> \o Tail(s), d)
<1> DEFINE p == o.id
           held == FeaturesOf(p)
           own == {<<"project", p>>}
           last == Delete("DeleteProject", p)
<1>1. ASSUME NEW fs \in SUBSET held, NEW f \in held \ fs, NEW more, FeatureGoing(s, d, f, own, fs, more)
      PROVE  FALSE
    BY <1>1, FeatureStatement
<1>2. \E fs \in SUBSET held : s = <<EachFeature(held \ fs), last>> /\ d = AllGone(own, fs)
    <2>1. ASSUME NEW rest, s = <<Delete("DeleteDocumentsForProject", p), rest, last>> PROVE FALSE
        BY <2>1, SequenceFacts DEF Loops, Delete
    <2>2. s # <<last>> /\ s # <<>>
        BY SequenceFacts DEF Loops, Delete
    <2>3. ASSUME NEW fs \in SUBSET held, NEW f \in held \ fs,
                 FeatureGoing(s, d, f, own, fs, <<EachFeature(held \ (fs \cup {f})), last>>)
          PROVE  FALSE
        BY <1>1, <2>3
    <2> QED BY <2>1, <2>2, <2>3 DEF ProjectGoing
<1>3. PICK fs \in SUBSET held : s = <<EachFeature(held \ fs), last>> /\ d = AllGone(own, fs)
    BY <1>2
<1>4. Head(s).ids = held \ fs /\ Tail(s) = <<last>>
    BY <1>3, SequenceFacts DEF EachFeature
<1>5. ASSUME held \ fs = {} PROVE ProjectGoing(o, Tail(s), d)
    <2>1. fs = held
        BY <1>5
    <2> QED BY <1>3, <1>4, <2>1 DEF ProjectGoing
<1>6. ASSUME NEW f \in held \ fs
      PROVE  ProjectGoing(o, FeatureGoes(f) \o <<EachFeature((held \ fs) \ {f})>> \o <<last>>, d)
    <2> DEFINE rest == EachFeature(held \ (fs \cup {f}))
               more == <<rest, last>>
               script == FeatureGoes(f) \o <<EachFeature((held \ fs) \ {f})>> \o <<last>>
    <2>1. EachFeature((held \ fs) \ {f}) = rest
        <3>1. (held \ fs) \ {f} = held \ (fs \cup {f})
            OBVIOUS
        <3> QED BY <3>1, Zenon
    <2>2. script = FeatureGoes(f) \o <<rest>> \o <<last>>
        <3> HIDE DEF rest, last
        <3> QED BY <2>1, Zenon
    <2>3. script = <<Delete("DeleteDependenciesForFeature", f), Delete("DeletePullRequestsForFeature", f),
                     Delete("DeleteDocumentsForFeature", f), Delete("DeleteTasksForFeature", f),
                     Delete("DeleteFeature", f), rest, last>>
        <3> HIDE DEF rest, last, script
        <3> DEFINE a == Delete("DeleteDependenciesForFeature", f)
                   b == Delete("DeletePullRequestsForFeature", f)
                   c == Delete("DeleteDocumentsForFeature", f)
                   t == Delete("DeleteTasksForFeature", f)
                   e == Delete("DeleteFeature", f)
        <3>1. FeatureGoes(f) = <<a, b, c, t, e>>
            BY FeatureGoesInFive
        <3> HIDE DEF a, b, c, t, e
        <3>2. <<a, b, c, t, e>> \o <<rest>> \o <<last>> = <<a, b, c, t, e, rest, last>>
            BY FiveAndTwo
        <3>3. script = <<a, b, c, t, e, rest, last>>
            BY <2>2, <3>1, <3>2, Zenon
        <3> QED BY <3>3 DEF a, b, c, t, e
    <2>4. \A u, v, w, x, y, z : Left5(<<Delete("DeleteDependenciesForFeature", u), Delete("DeletePullRequestsForFeature", u),
                     Delete("DeleteDocumentsForFeature", u), Delete("DeleteTasksForFeature", u),
                     Delete("DeleteFeature", u), y, z>>, u, <<y, z>>)
        BY DEF Left5, Left4, Left3, Left2, Left1, Coming
    <2>5. Left5(script, f, more)
        <3> HIDE DEF rest, last, script
        <3> QED BY <2>3, <2>4
    <2>6. FeatureGoing(script, d, f, own, fs, more)
        BY <2>5, <1>3 DEF FeatureGoing, AllGone
    <2> QED BY <2>6 DEF ProjectGoing
<1>7. ASSUME NEW f \in held \ fs
      PROVE  ProjectGoing(o, FeatureGoes(f) \o <<EachFeature(Head(s).ids \ {f})>> \o Tail(s), d)
    BY <1>4, <1>6, Zenon
<1> QED BY <1>4, <1>5, <1>7

\* Whichever feature comes next.
LEMMA Iterates ==
    ASSUME StoreInv, UniqueIndexes(Committed), NEW o, NEW s, NEW d, Transactional(o), Progress(o, s, d), Loops(s)
    PROVE  /\ Head(s).ids = {} => Progress(o, Tail(s), d)
           /\ \A f \in Head(s).ids :
                 Progress(o, FeatureGoes(f) \o <<EachFeature(Head(s).ids \ {f})>> \o Tail(s), d)
<1>1. o.do = "DeleteProject"
    BY NoLoop
<1>2. ProjectGoing(o, s, d)
    BY <1>1 DEF Progress
<1>3. ASSUME NEW x, ProjectGoing(o, x, d) PROVE Progress(o, x, d)
    BY <1>1, <1>3 DEF Progress
<1> QED BY <1>2, <1>3, ProjectLoop

------------------------------------------------------------------------------
\* What the statements of a transaction come to

\* The deletion of a feature goes on statement by statement.
LEMMA FeatureDeletion ==
    ASSUME StoreInv, UniqueIndexes(Committed), NEW o, NEW s, NEW d, FeatureDeleted(o, s, d), s # <<>>
    PROVE  \E e : Outcomes(Head(s), d) = {e} /\ FeatureDeleted(o, Tail(s), e)
<1>1. FeatureGoing(s, d, o.id, {}, {}, <<>>)
    BY DEF FeatureDeleted
<1>2. FeatureGoesOn(s, d, o.id, {}, {}, <<>>)
    BY <1>1, FeatureStatement
<1>3. {} \cup {o.id} = {o.id}
    OBVIOUS
<1> QED BY <1>2, <1>3 DEF FeatureGoesOn, FeatureDeleted

\* A creation allocates its ID and then inserts its row.
LEMMA CreationStatement ==
    ASSUME NEW o, NEW s, NEW d, NEW entity, Creating(o, entity, s, d), s # <<>>, NEW e \in Outcomes(Head(s), d)
    PROVE  Creating(o, entity, Tail(s), e)
<1>1. e \in Written(Head(s), d)
    BY DEF Outcomes
<1>2. CASE s = Creates(o, entity) /\ d = Committed
    <2>1. Head(s) = [do |-> "IncrementIDSequence", entity |-> entity] /\ Tail(s) = <<o>>
        BY <1>2, SequenceFacts DEF Creates
    <2>2. e \in IncrementIDSequence(Committed, entity)
        <3>1. Head(s).do = "IncrementIDSequence" /\ Head(s).entity = entity
            BY <2>1
        <3>2. Written(Head(s), d) = IncrementIDSequence(d, entity)
            BY <3>1, WrittenOf
        <3> QED BY <1>1, <1>2, <3>2
    <2> QED BY <2>1, <2>2 DEF Creating
<1>3. CASE \E x \in IncrementIDSequence(Committed, entity) : s = <<o>> /\ d = x
    <2>1. Head(s) = o /\ Tail(s) = <<>>
        BY <1>3, SequenceFacts
    <2> QED BY <1>1, <1>3, <2>1 DEF Creating
<1> QED BY <1>2, <1>3 DEF Creating

\* A change of a dependency has one statement that writes.
LEMMA DependencyStatement ==
    ASSUME NEW o, NEW s, NEW d, s # <<>>, NEW e \in Outcomes(Head(s), d),
           (s = <<o>> /\ d = Committed) \/ (s = <<>> /\ d \in Written(o, Committed))
    PROVE  Tail(s) = <<>> /\ e \in Written(o, Committed)
BY SequenceFacts DEF Outcomes

\* A statement of a transaction takes it one step on.
LEMMA Executes ==
    ASSUME StoreInv, UniqueIndexes(Committed), NEW o, NEW s, NEW d, Transactional(o), Progress(o, s, d),
           s # <<>>, ~Loops(s), NEW e \in Outcomes(Head(s), d)
    PROVE  Progress(o, Tail(s), e) /\ UniqueIndexes(e)
<1>1. UniqueIndexes(e)
    BY DEF Outcomes
<1> DEFINE x == Tail(s)
<1> HIDE DEF x
<1>z. x = Tail(s)
    BY DEF x
<1>0. /\ o.do \in {"AddDependency", "RemoveDependency"} /\ x = <<>> /\ e \in Written(o, Committed)
           => Progress(o, x, e)
      /\ o.do = "CreateProject" /\ Creating(o, "project", x, e) => Progress(o, x, e)
      /\ o.do = "CreateFeature" /\ Creating(o, "feature", x, e) => Progress(o, x, e)
      /\ o.do = "CreateTask" /\ Creating(o, "task", x, e) => Progress(o, x, e)
      /\ o.do = "DeleteProject" /\ ProjectGoing(o, x, e) => Progress(o, x, e)
      /\ o.do = "DeleteFeature" /\ FeatureDeleted(o, x, e) => Progress(o, x, e)
      /\ o.do = "DeleteTask" /\ TaskGoing(o, x, e) => Progress(o, x, e)
    BY DEF Progress
<1>2. CASE o.do \in {"AddDependency", "RemoveDependency"}
    <2>1. Tail(s) = <<>> /\ e \in Written(o, Committed)
        BY <1>2, DependencyStatement DEF Progress
    <2> QED BY <1>2, <2>1, <1>0, <1>1, <1>z
<1>3. CASE o.do = "CreateProject"
    <2>1. Creating(o, "project", Tail(s), e)
        BY <1>3, CreationStatement DEF Progress
    <2> QED BY <1>3, <2>1, <1>0, <1>1, <1>z
<1>4. CASE o.do = "CreateFeature"
    <2>1. Creating(o, "feature", Tail(s), e)
        BY <1>4, CreationStatement DEF Progress
    <2> QED BY <1>4, <2>1, <1>0, <1>1, <1>z
<1>5. CASE o.do = "CreateTask"
    <2>1. Creating(o, "task", Tail(s), e)
        BY <1>5, CreationStatement DEF Progress
    <2> QED BY <1>5, <2>1, <1>0, <1>1, <1>z
<1>6. CASE o.do = "DeleteProject"
    <2>1. ProjectGoing(o, s, d)
        BY <1>6 DEF Progress
    <2>2. ProjectGoing(o, Tail(s), e)
        BY <2>1, ProjectStatement
    <2> QED BY <1>6, <2>2, <1>0, <1>1, <1>z
<1>7. CASE o.do = "DeleteFeature"
    <2>1. FeatureDeleted(o, s, d)
        BY <1>7 DEF Progress
    <2>2. FeatureDeleted(o, Tail(s), e)
        BY <2>1, FeatureDeletion
    <2> QED BY <1>7, <2>2, <1>0, <1>1, <1>z
<1>8. CASE o.do = "DeleteTask"
    <2>1. TaskGoing(o, s, d)
        BY <1>8 DEF Progress
    <2>2. TaskGoing(o, Tail(s), e)
        BY <2>1, TaskStatement
    <2> QED BY <1>8, <2>2, <1>0, <1>1, <1>z
<1> QED BY <1>1, <1>2, <1>3, <1>4, <1>5, <1>6, <1>7, <1>8 DEF Transactional

\* The cascades of the three deletions are never refused.
LEMMA CascadeGoesOn ==
    ASSUME StoreInv, UniqueIndexes(Committed), NEW o, NEW s, NEW d,
           o.do \in {"DeleteProject", "DeleteFeature", "DeleteTask"}, Progress(o, s, d), s # <<>>, ~Loops(s)
    PROVE  Outcomes(Head(s), d) # {}
<1>1. CASE o.do = "DeleteProject"
    <2>1. ProjectGoing(o, s, d)
        BY <1>1 DEF Progress
    <2> QED BY <2>1, ProjectStatement
<1>2. CASE o.do = "DeleteFeature"
    <2>1. FeatureDeleted(o, s, d)
        BY <1>2 DEF Progress
    <2> QED BY <2>1, FeatureDeletion
<1>3. CASE o.do = "DeleteTask"
    <2>1. TaskGoing(o, s, d)
        BY <1>3 DEF Progress
    <2> QED BY <2>1, TaskStatement
<1> QED BY <1>1, <1>2, <1>3

\* What a transaction works on are tables.
LEMMA SameTables ==
    ASSUME NEW o, NEW s, NEW d, Transactional(o), Progress(o, s, d)
    PROVE  DOMAIN d = DOMAIN Committed
<1> DEFINE all == {"sequences", "projects", "features", "tasks", "dependencies", "pullRequests", "documents"}
<1>1. DOMAIN Committed = all
    BY DEF Committed
<1>2. \A extra, ds, rs, is, ts, fs : DOMAIN Gone(extra, ds, rs, is, ts, fs) = all
    BY DEF Gone, Unlinked, Emptied
<1>3. \A es, rs, is, ts : DOMAIN TaskGone(es, rs, is, ts) = all
    BY DEF TaskGone
<1> HIDE DEF all
<1>4. ASSUME NEW entity, NEW x \in IncrementIDSequence(Committed, entity) PROVE DOMAIN x = all
    BY <1>1 DEF IncrementIDSequence
<1>5. ASSUME NEW x, DOMAIN x = all, NEW y \in Written(o, x),
             o.do \in {"CreateProject", "CreateFeature", "CreateTask", "AddDependency", "RemoveDependency"}
      PROVE  DOMAIN y = all
    <2>1. CASE o.do = "CreateProject"
        <3>1. Written(o, x) = InsertProject(x, o.body)
            BY <2>1, WrittenOf
        <3> QED BY <1>5, <3>1 DEF InsertProject
    <2>2. CASE o.do = "CreateFeature"
        <3>1. Written(o, x) = InsertFeature(x, o.id, o.body)
            BY <2>2, WrittenOf
        <3> QED BY <1>5, <3>1 DEF InsertFeature
    <2>3. CASE o.do = "CreateTask"
        <3>1. Written(o, x) = InsertTask(x, o.id, o.body)
            BY <2>3, WrittenOf
        <3> QED BY <1>5, <3>1 DEF InsertTask
    <2>4. CASE o.do = "AddDependency"
        <3>1. Written(o, x) = InsertDependency(x, <<o.id, o.blocked>>)
            BY <2>4, WrittenOf
        <3> QED BY <1>5, <3>1 DEF InsertDependency
    <2>5. CASE o.do = "RemoveDependency"
        <3>1. Written(o, x) = EraseDependency(x, <<o.id, o.blocked>>)
            BY <2>5, WrittenOf
        <3> QED BY <1>5, <3>1 DEF EraseDependency
    <2> QED BY <1>5, <2>1, <2>2, <2>3, <2>4, <2>5
<1>6. ASSUME NEW entity, Creating(o, entity, s, d), o.do \in {"CreateProject", "CreateFeature", "CreateTask"}
      PROVE  DOMAIN d = all
    BY <1>1, <1>4, <1>5, <1>6 DEF Creating
<1>7. CASE o.do \in {"CreateProject", "CreateFeature", "CreateTask"}
    <2>1. \/ Creating(o, "project", s, d) \/ Creating(o, "feature", s, d) \/ Creating(o, "task", s, d)
        BY <1>7 DEF Progress
    <2> HIDE DEF all
    <2>2. ASSUME NEW entity, Creating(o, entity, s, d) PROVE DOMAIN d = all
        BY <1>6, <1>7, <2>2
    <2> QED BY <2>1, <2>2, <1>1
<1>8. CASE o.do \in {"AddDependency", "RemoveDependency"}
    BY <1>1, <1>5, <1>8 DEF Progress
<1>9. ASSUME NEW f, NEW extra, NEW fs, NEW more, FeatureGoing(s, d, f, extra, fs, more) PROVE DOMAIN d = all
    BY <1>2, <1>9 DEF FeatureGoing
<1>10. CASE o.do = "DeleteProject"
    <2>1. \A extra, fs, p : DOMAIN AllGone(extra, fs) = all /\ DOMAIN EraseProject(AllGone(extra, fs), p) = all
        BY <1>2 DEF AllGone, EraseProject
    <2>2. ProjectGoing(o, s, d)
        BY <1>10 DEF Progress
    <2> QED BY <1>1, <1>9, <2>1, <2>2 DEF ProjectGoing
<1>11. CASE o.do = "DeleteFeature"
    <2>1. FeatureDeleted(o, s, d)
        BY <1>11 DEF Progress
    <2>2. FeatureGoing(s, d, o.id, {}, {}, <<>>) => DOMAIN d = all
        BY <1>9
    <2>3. DOMAIN AllGone({}, {o.id}) = all
        BY <1>2 DEF AllGone
    <2> QED BY <1>1, <2>1, <2>2, <2>3 DEF FeatureDeleted
<1>12. CASE o.do = "DeleteTask"
    <2>1. TaskGoing(o, s, d)
        BY <1>12 DEF Progress
    <2>2. \E es, rs, is, ts : d = TaskGone(es, rs, is, ts)
        BY <2>1 DEF TaskGoing
    <2> QED BY <1>1, <1>3, <2>2
<1> QED BY <1>1, <1>7, <1>8, <1>10, <1>11, <1>12 DEF Transactional

------------------------------------------------------------------------------
\* What a transaction commits

\* The arguments have the types of the columns.
LEMMA OperationFields ==
    ASSUME NEW o \in Operation
    PROVE  /\ o.do \in {"CreateProject", "CreateFeature", "CreateTask", "UpdateTask", "UpsertImplementationPlanDocument"}
                => o.body \in Bodies
           /\ o.do = "UpdateProject" => o.row \in ProjectRow
           /\ o.do = "UpdateFeature" => o.row \in FeatureRow
           /\ o.do \in {"DeleteProject", "DeleteFeature", "DeleteTask"} => o.cascade \in BOOLEAN
           /\ o.do = "UpsertPullRequest" => o.pr \in PullRequests
           /\ o.do = "CreateDocument" => o.row \in DocumentRow
           /\ o.do = "UpdateDocument" => o.fields \in DocumentFields
           /\ o.do \in {"CreateProject", "CreateFeature", "CreateTask", "AddDependency", "RemoveDependency",
                       "DeleteProject", "DeleteFeature", "DeleteTask", "UpdateProject", "UpdateFeature",
                       "UpdateTask", "UpsertPullRequest", "CreateDocument", "UpdateDocument",
                       "UpsertImplementationPlanDocument", "DeletePullRequest", "DeleteDocument",
                       "DeleteImplementationPlanDocument"}
BY DEF Operation

\* IncrementIDSequence moves one counter on, within its bound.
LEMMA Incremented ==
    ASSUME NEW x \in Entities, StoreInv, NEW d \in IncrementIDSequence(Committed, x)
    PROVE  /\ sequences[x] \in Nat /\ sequences[x] <= Bound[x]
           /\ d.sequences = [sequences EXCEPT ![x] = @ + 1] /\ d.sequences[x] - 1 = sequences[x]
           /\ d.projects = projects /\ d.features = features /\ d.tasks = tasks
           /\ d.dependencies = dependencies /\ d.pullRequests = pullRequests /\ d.documents = documents
           /\ DOMAIN d = DOMAIN Committed
<1>1. PICK i \in Free(Committed, x) : d = [Committed EXCEPT !.sequences[x] = i + 1]
    BY DEF IncrementIDSequence
<1>2. i = sequences[x] /\ i \in 1..Bound[x]
    BY <1>1, CommittedFields DEF Free
<1>3. Bound[x] \in Nat
    BY StoreAssumption DEF Bound, Entities
<1>4. i \in Nat /\ i <= Bound[x]
    BY <1>2, <1>3
<1>5. /\ d.sequences = [sequences EXCEPT ![x] = i + 1]
      /\ d.projects = projects /\ d.features = features /\ d.tasks = tasks
      /\ d.dependencies = dependencies /\ d.pullRequests = pullRequests /\ d.documents = documents
      /\ DOMAIN d = DOMAIN Committed
    BY <1>1 DEF Committed
<1>6. d.sequences[x] = i + 1
    BY <1>5 DEF StoreInv, StoreTypeOK
<1> QED BY <1>2, <1>4, <1>5, <1>6

\* A creation that is over has put one row under the ID that its sequence stood at.
LEMMA Created ==
    ASSUME NEW o, NEW entity, NEW d, Creating(o, entity, <<>>, d)
    PROVE  \E e \in IncrementIDSequence(Committed, entity) : d \in Written(o, e)
BY SequenceFacts DEF Creating, Creates

\* CreateProject commits a project.
LEMMA ProjectCreated ==
    ASSUME StoreInv, NEW o \in Operation, o.do = "CreateProject", NEW d, Creating(o, "project", <<>>, d), Becomes(d)
    PROVE  StoreNext
<1>1. PICK e \in IncrementIDSequence(Committed, "project") : d \in Written(o, e)
    BY Created
<1>2. /\ sequences["project"] <= Bound["project"]
      /\ e.sequences = [sequences EXCEPT !["project"] = @ + 1] /\ e.sequences["project"] - 1 = sequences["project"]
      /\ e.projects = projects /\ e.features = features /\ e.tasks = tasks
      /\ e.dependencies = dependencies /\ e.pullRequests = pullRequests /\ e.documents = documents
      /\ DOMAIN e = DOMAIN Committed
    BY Incremented DEF Entities
<1>3. d \in InsertProject(e, o.body)
    BY <1>1, WrittenOf
<1> DEFINE row == [archived |-> FALSE, body |-> o.body]
<1>4. d = [e EXCEPT !.projects = Put(projects, sequences["project"], row)]
    BY <1>2, <1>3 DEF InsertProject, New
<1>5. "projects" \in DOMAIN e
    BY <1>2 DEF Committed
<1>6. /\ d.projects = Put(projects, sequences["project"], row)
      /\ d.sequences = e.sequences /\ d.features = features /\ d.tasks = tasks
      /\ d.dependencies = dependencies /\ d.pullRequests = pullRequests /\ d.documents = documents
    BY <1>2, <1>4, <1>5
<1>7. CreateProject(o.body)
    BY <1>2, <1>6 DEF Becomes, CreateProject, Allocate, NextPublicID
<1> QED BY <1>7, OperationFields DEF StoreNext

\* CreateFeature commits a feature of a project that it has found and that is still there.
LEMMA FeatureCreated ==
    ASSUME StoreInv, NEW o \in Operation, o.do = "CreateFeature", NEW d, Creating(o, "feature", <<>>, d), Becomes(d),
           o.id \in DOMAIN projects
    PROVE  StoreNext
<1>1. PICK e \in IncrementIDSequence(Committed, "feature") : d \in Written(o, e)
    BY Created
<1>2. /\ sequences["feature"] <= Bound["feature"]
      /\ e.sequences = [sequences EXCEPT !["feature"] = @ + 1] /\ e.sequences["feature"] - 1 = sequences["feature"]
      /\ e.projects = projects /\ e.features = features /\ e.tasks = tasks
      /\ e.dependencies = dependencies /\ e.pullRequests = pullRequests /\ e.documents = documents
      /\ DOMAIN e = DOMAIN Committed
    BY Incremented DEF Entities
<1>3. d \in InsertFeature(e, o.id, o.body)
    BY <1>1, WrittenOf
<1> DEFINE row == [project |-> o.id, archived |-> FALSE, body |-> o.body]
<1>4. d = [e EXCEPT !.features = Put(features, sequences["feature"], row)]
    BY <1>2, <1>3 DEF InsertFeature, New
<1>5. "features" \in DOMAIN e
    BY <1>2 DEF Committed
<1>6. /\ d.features = Put(features, sequences["feature"], row)
      /\ d.sequences = e.sequences /\ d.projects = projects /\ d.tasks = tasks
      /\ d.dependencies = dependencies /\ d.pullRequests = pullRequests /\ d.documents = documents
    BY <1>2, <1>4, <1>5
<1>7. CreateFeature(o.id, o.body)
    BY <1>2, <1>6 DEF Becomes, CreateFeature, Allocate, NextPublicID
<1>8. o.id \in ProjectIDs
    BY DEF StoreInv, StoreTypeOK, IsTable
<1> QED BY <1>7, <1>8, OperationFields DEF StoreNext

\* CreateTask commits a task of a feature that it has found and that is still there.
LEMMA TaskCreated ==
    ASSUME StoreInv, NEW o \in Operation, o.do = "CreateTask", NEW d, Creating(o, "task", <<>>, d), Becomes(d),
           o.id \in DOMAIN features
    PROVE  StoreNext
<1>1. PICK e \in IncrementIDSequence(Committed, "task") : d \in Written(o, e)
    BY Created
<1>2. /\ sequences["task"] <= Bound["task"]
      /\ e.sequences = [sequences EXCEPT !["task"] = @ + 1] /\ e.sequences["task"] - 1 = sequences["task"]
      /\ e.projects = projects /\ e.features = features /\ e.tasks = tasks
      /\ e.dependencies = dependencies /\ e.pullRequests = pullRequests /\ e.documents = documents
      /\ DOMAIN e = DOMAIN Committed
    BY Incremented DEF Entities
<1>3. d \in InsertTask(e, o.id, o.body)
    BY <1>1, WrittenOf
<1> DEFINE row == [feature |-> o.id, body |-> o.body]
<1>4. d = [e EXCEPT !.tasks = Put(tasks, sequences["task"], row)]
    BY <1>2, <1>3 DEF InsertTask, New
<1>5. "tasks" \in DOMAIN e
    BY <1>2 DEF Committed
<1>6. /\ d.tasks = Put(tasks, sequences["task"], row)
      /\ d.sequences = e.sequences /\ d.projects = projects /\ d.features = features
      /\ d.dependencies = dependencies /\ d.pullRequests = pullRequests /\ d.documents = documents
    BY <1>2, <1>4, <1>5
<1>7. CreateTask(o.id, o.body)
    BY <1>2, <1>6 DEF Becomes, CreateTask, Allocate, NextPublicID
<1>8. o.id \in FeatureIDs
    BY DEF StoreInv, StoreTypeOK, IsTable
<1> QED BY <1>7, <1>8, OperationFields DEF StoreNext

\* AddDependency and RemoveDependency commit on the tasks that they have found, and on the edges
\* that the check for a cycle has read.
LEMMA DependencyCommitted ==
    ASSUME StoreInv, NEW o \in Operation, o.do \in {"AddDependency", "RemoveDependency"}, Finds(o, Committed),
           NEW d \in Written(o, Committed), Becomes(d)
    PROVE  StoreNext
<1>1. o.id \in DOMAIN tasks /\ o.blocked \in DOMAIN tasks
    BY FindsOf, CommittedFields
<1>2. o.id \in TaskIDs /\ o.blocked \in TaskIDs
    BY <1>1 DEF StoreInv, StoreTypeOK, IsTable
<1>3. CASE o.do = "AddDependency"
    <2> DEFINE edge == <<o.id, o.blocked>>
    <2>1. Committed.tasks = tasks /\ Committed.dependencies = dependencies
        BY CommittedFields
    <2>2. /\ tasks[o.id].feature = tasks[o.blocked].feature
          /\ ~ClosesCycle(ListDependenciesByFeature(Committed, tasks[o.id].feature), o.id, o.blocked)
        BY <1>3, <2>1, FindsOf
    <2>3. ListDependenciesByFeature(Committed, tasks[o.id].feature) = FeatureDependencies(tasks[o.id].feature)
        BY <2>1 DEF ListDependenciesByFeature, FeatureDependencies
    <2>4. ~ClosesCycle(FeatureDependencies(tasks[o.id].feature), o.id, o.blocked)
        BY <2>2, <2>3, Zenon
    <2>5. d \in InsertDependency(Committed, edge)
        BY <1>3, WrittenOf
    <2>6. edge \notin dependencies /\ d = [Committed EXCEPT !.dependencies = dependencies \cup {edge}]
        BY <2>1, <2>5 DEF InsertDependency
    <2>7. /\ d.dependencies = dependencies \cup {edge}
          /\ d.sequences = sequences /\ d.projects = projects /\ d.features = features /\ d.tasks = tasks
          /\ d.pullRequests = pullRequests /\ d.documents = documents
        BY <2>6 DEF Committed
    <2>8. AddDependency(o.id, o.blocked)
        BY <1>1, <2>2, <2>4, <2>6, <2>7 DEF Becomes, AddDependency, WithinOneFeature
    <2> QED BY <1>2, <2>8 DEF StoreNext
<1>4. CASE o.do = "RemoveDependency"
    <2> DEFINE edge == <<o.id, o.blocked>>
    <2>1. d \in EraseDependency(Committed, edge)
        BY <1>4, WrittenOf
    <2>2. edge \in dependencies /\ d = [Committed EXCEPT !.dependencies = dependencies \ {edge}]
        BY <2>1, CommittedFields DEF EraseDependency
    <2>3. /\ d.dependencies = dependencies \ {edge}
          /\ d.sequences = sequences /\ d.projects = projects /\ d.features = features /\ d.tasks = tasks
          /\ d.pullRequests = pullRequests /\ d.documents = documents
        BY <2>2 DEF Committed
    <2>4. RemoveDependency(o.id, o.blocked)
        BY <1>1, <2>2, <2>3 DEF Becomes, RemoveDependency
    <2> QED BY <1>2, <2>4 DEF StoreNext
<1> QED BY <1>3, <1>4

\* DeleteProject commits the end of the project and of all that was under it when it began.
LEMMA ProjectGone ==
    ASSUME StoreInv, NEW o \in Operation, o.do = "DeleteProject", Finds(o, Committed),
           NEW d, ProjectGoing(o, <<>>, d), Becomes(d)
    PROVE  StoreNext
<1> DEFINE p == o.id
           held == FeaturesOf(p)
           own == {<<"project", p>>}
           a == AllGone(own, held)
<1>1. p \in DOMAIN projects /\ (o.cascade \/ CountProjectReferences(Committed, p) = 0)
    BY FindsOf, CommittedFields
<1>2. ~o.cascade => held = {} /\ DocumentsOf(own) = {}
    BY <1>1, NothingUnderProject
<1>3. d = EraseProject(a, p)
    <2>1. ASSUME NEW f, NEW extra, NEW fs, NEW more PROVE ~FeatureGoing(<<>>, d, f, extra, fs, more)
        BY DEF FeatureGoing, Left5, Left4, Left3, Left2, Left1, Coming
    <2> QED BY <2>1, SequenceFacts DEF ProjectGoing
<1>4. /\ d.projects = Erase(projects, {p}) /\ d.sequences = sequences
      /\ d.features = Erase(features, held) /\ d.tasks = Erase(tasks, TasksOf(held))
      /\ d.dependencies = {e \in dependencies : e[1] \notin TasksOf(held)}
      /\ d.pullRequests = Erase(pullRequests, TasksOf(held))
      /\ d.documents = Erase(documents, DocumentsOf(own \cup ({"feature"} \X held) \cup ({"task"} \X TasksOf(held))))
    BY <1>3 DEF EraseProject, AllGone, Gone, Unlinked, Emptied
<1>5. ~Restricted(held)
    BY NotRestricted DEF StoreInv
<1>6. DeleteProject(p, o.cascade)
    BY <1>1, <1>2, <1>4, <1>5 DEF Becomes, DeleteProject, DeleteFeatureContents
<1>7. p \in ProjectIDs
    BY <1>1 DEF StoreInv, StoreTypeOK, IsTable
<1> QED BY <1>6, <1>7, OperationFields DEF StoreNext

\* DeleteFeature commits the end of the feature and of all that was under it.
LEMMA FeatureGone ==
    ASSUME StoreInv, NEW o \in Operation, o.do = "DeleteFeature", Finds(o, Committed),
           NEW d, FeatureDeleted(o, <<>>, d), Becomes(d)
    PROVE  StoreNext
<1> DEFINE f == o.id
           fs == {f}
<1>1. f \in DOMAIN features /\ (o.cascade \/ CountFeatureReferences(Committed, f) = 0)
    BY FindsOf, CommittedFields
<1>2. ~o.cascade => TasksOf(fs) = {} /\ DocumentsOf({<<"feature", f>>}) = {}
    BY <1>1, NothingUnderFeature
<1>3. d = AllGone({}, fs)
    <2>1. ~FeatureGoing(<<>>, d, f, {}, {}, <<>>)
        BY DEF FeatureGoing, Left5, Left4, Left3, Left2, Left1, Coming
    <2> QED BY <2>1 DEF FeatureDeleted
<1>4. /\ d.projects = projects /\ d.sequences = sequences
      /\ d.features = Erase(features, fs) /\ d.tasks = Erase(tasks, TasksOf(fs))
      /\ d.dependencies = {e \in dependencies : e[1] \notin TasksOf(fs)}
      /\ d.pullRequests = Erase(pullRequests, TasksOf(fs))
      /\ d.documents = Erase(documents, DocumentsOf({} \cup ({"feature"} \X fs) \cup ({"task"} \X TasksOf(fs))))
    BY <1>3 DEF AllGone, Gone, Unlinked, Emptied
<1>5. ~Restricted(fs)
    BY NotRestricted DEF StoreInv
<1>6. DeleteFeature(f, o.cascade)
    BY <1>1, <1>2, <1>4, <1>5 DEF Becomes, DeleteFeature, DeleteFeatureContents
<1>7. f \in FeatureIDs
    BY <1>1 DEF StoreInv, StoreTypeOK, IsTable
<1> QED BY <1>6, <1>7, OperationFields DEF StoreNext

\* DeleteTask commits the end of the task and of all that referred to it.
LEMMA TaskGoneAway ==
    ASSUME StoreInv, NEW o \in Operation, o.do = "DeleteTask", Finds(o, Committed),
           NEW d, TaskGoing(o, <<>>, d), Becomes(d)
    PROVE  StoreNext
<1> DEFINE t == o.id
           edges == {e \in dependencies : t \in {e[1], e[2]}}
<1>1. t \in DOMAIN tasks /\ (o.cascade \/ CountTaskReferences(Committed, t) = 0)
    BY FindsOf, CommittedFields
<1>2. ~o.cascade => edges = {} /\ DocumentsOf({<<"task", t>>}) = {} /\ t \notin DOMAIN pullRequests
    BY <1>1, NothingUnderTask
<1>3. d = TaskGone({t}, {t}, {t}, {t})
    BY SequenceFacts DEF TaskGoing
<1>4. {"task"} \X {t} = {<<"task", t>>}
    OBVIOUS
<1>5. {e \in dependencies : e[1] \notin {t} /\ e[2] \notin {t}} = dependencies \ edges
    OBVIOUS
<1>6. d.documents = Erase(documents, DocumentsOf({<<"task", t>>}))
    <2>1. d.documents = Erase(documents, DocumentsOf({"task"} \X {t}))
        BY <1>3 DEF TaskGone
    <2> QED BY <1>4, <2>1, Zenon
<1>7. /\ d.projects = projects /\ d.sequences = sequences /\ d.features = features
      /\ d.tasks = Erase(tasks, {t}) /\ d.dependencies = dependencies \ edges
      /\ d.pullRequests = Erase(pullRequests, {t})
    BY <1>3, <1>5 DEF TaskGone
<1>8. DeleteTask(t, o.cascade)
    <2> HIDE DEF t
    <2> QED BY <1>1, <1>2, <1>6, <1>7 DEF Becomes, DeleteTask
<1>9. t \in TaskIDs
    BY <1>1 DEF StoreInv, StoreTypeOK, IsTable
<1> QED BY <1>8, <1>9, OperationFields DEF StoreNext

\* What a transaction commits is one step of the store.
LEMMA OneStep ==
    ASSUME StoreInv, NEW o \in Operation, Transactional(o), Finds(o, Committed),
           NEW d, Progress(o, <<>>, d), Becomes(d)
    PROVE  StoreNext
<1>1. CASE o.do \in {"CreateProject", "CreateFeature", "CreateTask"}
    <2>1. o.do = "CreateFeature" => o.id \in DOMAIN projects
        BY FindsOf, CommittedFields
    <2>2. o.do = "CreateTask" => o.id \in DOMAIN features
        BY FindsOf, CommittedFields
    <2>3. CASE o.do = "CreateProject"
        BY <2>3, ProjectCreated DEF Progress
    <2>4. CASE o.do = "CreateFeature"
        BY <2>1, <2>4, FeatureCreated DEF Progress
    <2>5. CASE o.do = "CreateTask"
        BY <2>2, <2>5, TaskCreated DEF Progress
    <2> QED BY <1>1, <2>3, <2>4, <2>5
<1>2. CASE o.do \in {"AddDependency", "RemoveDependency"}
    <2>1. d \in Written(o, Committed)
        BY <1>2, SequenceFacts DEF Progress
    <2> QED BY <1>2, <2>1, DependencyCommitted
<1>3. CASE o.do = "DeleteProject"
    BY <1>3, ProjectGone DEF Progress
<1>4. CASE o.do = "DeleteFeature"
    BY <1>4, FeatureGone DEF Progress
<1>5. CASE o.do = "DeleteTask"
    BY <1>5, TaskGoneAway DEF Progress
<1> QED BY <1>1, <1>2, <1>3, <1>4, <1>5 DEF Transactional

------------------------------------------------------------------------------
\* What a statement commits that stands alone

\* Writing a row that exists.
LEMMA PutIsExcept ==
    ASSUME NEW T, NEW i \in DOMAIN T, NEW row, T = [j \in DOMAIN T |-> T[j]]
    PROVE  [T EXCEPT ![i] = row] = Put(T, i, row)
BY DEF Put

\* Tables are functions.
LEMMA TablesAreFunctions ==
    ASSUME StoreInv
    PROVE  /\ projects = [i \in DOMAIN projects |-> projects[i]] /\ features = [i \in DOMAIN features |-> features[i]]
           /\ tasks = [i \in DOMAIN tasks |-> tasks[i]] /\ documents = [i \in DOMAIN documents |-> documents[i]]
BY DEF StoreInv, StoreTypeOK, IsTable

\* UpdateProject writes a project that is there.
LEMMA ProjectWritten ==
    ASSUME StoreInv, NEW o \in Operation, o.do = "UpdateProject", NEW e \in Written(o, Committed), Becomes(e)
    PROVE  StoreNext
<1> DEFINE p == o.id
<1>1. e \in WriteProject(Committed, p, o.row)
    BY WrittenOf
<1>2. p \in DOMAIN projects /\ e = [Committed EXCEPT !.projects[p] = o.row]
    BY <1>1, CommittedFields DEF WriteProject
<1>3. /\ e.projects = [projects EXCEPT ![p] = o.row]
      /\ e.sequences = sequences /\ e.features = features /\ e.tasks = tasks
      /\ e.dependencies = dependencies /\ e.pullRequests = pullRequests /\ e.documents = documents
    BY <1>2 DEF Committed
<1>4. e.projects = Put(projects, p, o.row)
    BY <1>2, <1>3, TablesAreFunctions, PutIsExcept
<1>5. UpdateProject(p, o.row)
    BY <1>2, <1>3, <1>4 DEF Becomes, UpdateProject
<1>6. p \in ProjectIDs
    BY <1>2 DEF StoreInv, StoreTypeOK, IsTable
<1> QED BY <1>5, <1>6, OperationFields DEF StoreNext

\* UpdateFeature writes a feature that is there, in a project that is there: it was looked up in a
\* statement before, and the foreign key stands for what has happened since.
LEMMA FeatureWritten ==
    ASSUME StoreInv, NEW o \in Operation, o.do = "UpdateFeature", NEW e \in Written(o, Committed), References(e), Becomes(e)
    PROVE  StoreNext
<1> DEFINE f == o.id
<1>1. e \in WriteFeature(Committed, f, o.row)
    BY WrittenOf
<1>2. f \in DOMAIN features /\ e = [Committed EXCEPT !.features[f] = o.row]
    BY <1>1, CommittedFields DEF WriteFeature
<1>3. /\ e.features = [features EXCEPT ![f] = o.row]
      /\ e.sequences = sequences /\ e.projects = projects /\ e.tasks = tasks
      /\ e.dependencies = dependencies /\ e.pullRequests = pullRequests /\ e.documents = documents
    BY <1>2 DEF Committed
<1>4. e.features = Put(features, f, o.row)
    BY <1>2, <1>3, TablesAreFunctions, PutIsExcept
<1>5. o.row.project \in DOMAIN projects
    BY <1>2, <1>3 DEF References, GetProjectByPublicID
<1>6. UpdateFeature(f, o.row)
    BY <1>2, <1>3, <1>4, <1>5 DEF Becomes, UpdateFeature
<1>7. f \in FeatureIDs
    BY <1>2 DEF StoreInv, StoreTypeOK, IsTable
<1> QED BY <1>6, <1>7, OperationFields DEF StoreNext

\* UpdateTask writes every column but the feature of a task that is there.
LEMMA TaskWritten ==
    ASSUME StoreInv, NEW o \in Operation, o.do = "UpdateTask", NEW e \in Written(o, Committed), Becomes(e)
    PROVE  StoreNext
<1> DEFINE t == o.id
           row == [feature |-> tasks[t].feature, body |-> o.body]
<1>1. e \in WriteTask(Committed, t, o.body)
    BY WrittenOf
<1>2. t \in DOMAIN tasks /\ e = [Committed EXCEPT !.tasks[t].body = o.body]
    BY <1>1, CommittedFields DEF WriteTask
<1>3. /\ e.tasks = [tasks EXCEPT ![t].body = o.body]
      /\ e.sequences = sequences /\ e.projects = projects /\ e.features = features
      /\ e.dependencies = dependencies /\ e.pullRequests = pullRequests /\ e.documents = documents
    BY <1>2 DEF Committed
<1>4. tasks[t] \in TaskRow
    BY <1>2 DEF StoreInv, StoreTypeOK, IsTable
<1>5. [tasks[t] EXCEPT !.body = o.body] = row
    BY <1>4 DEF TaskRow
<1>6. e.tasks = [tasks EXCEPT ![t] = row]
    <2>1. e.tasks = [tasks EXCEPT ![t] = [tasks[t] EXCEPT !.body = o.body]]
        BY <1>2, <1>3
    <2> HIDE DEF row
    <2> QED BY <1>5, <2>1, Zenon
<1>7. e.tasks = Put(tasks, t, row)
    BY <1>2, <1>6, TablesAreFunctions, PutIsExcept
<1>8. UpdateTask(t, o.body)
    BY <1>2, <1>3, <1>7 DEF Becomes, UpdateTask
<1>9. t \in TaskIDs
    BY <1>2 DEF StoreInv, StoreTypeOK, IsTable
<1> QED BY <1>8, <1>9, OperationFields DEF StoreNext

\* UpsertPullRequest writes the pull request of a task that is there and that no other task has.
LEMMA PullRequestWritten ==
    ASSUME StoreInv, NEW o \in Operation, o.do = "UpsertPullRequest", NEW e \in Written(o, Committed),
           References(e), UniqueIndexes(e), Becomes(e)
    PROVE  StoreNext
<1> DEFINE t == o.id
<1>1. e \in InsertPullRequest(Committed, t, o.pr)
    BY WrittenOf
<1>2. e = [Committed EXCEPT !.pullRequests = Put(pullRequests, t, o.pr)]
    BY <1>1, CommittedFields DEF InsertPullRequest
<1>3. /\ e.pullRequests = Put(pullRequests, t, o.pr)
      /\ e.sequences = sequences /\ e.projects = projects /\ e.features = features /\ e.tasks = tasks
      /\ e.dependencies = dependencies /\ e.documents = documents
    BY <1>2 DEF Committed
<1>4. /\ DOMAIN e.pullRequests = DOMAIN pullRequests \cup {t} /\ e.pullRequests[t] = o.pr
      /\ \A u \in DOMAIN pullRequests \ {t} : e.pullRequests[u] = pullRequests[u]
    BY <1>3 DEF Put
<1>5. t \in DOMAIN tasks
    BY <1>3, <1>4 DEF References, GetTaskByPublicID
<1>6. \A u \in DOMAIN pullRequests \ {t} : pullRequests[u] # o.pr
    BY <1>4 DEF UniqueIndexes, IsInjective
<1>7. UpsertPullRequest(t, o.pr)
    BY <1>3, <1>5, <1>6 DEF Becomes, UpsertPullRequest
<1>8. t \in TaskIDs
    BY <1>5 DEF StoreInv, StoreTypeOK, IsTable
<1> QED BY <1>7, <1>8, OperationFields DEF StoreNext

\* DeletePullRequest reports an error unless there was a pull request to delete.
LEMMA PullRequestErased ==
    ASSUME StoreInv, NEW o \in Operation, o.do = "DeletePullRequest", NEW e \in Written(o, Committed),
           e # Committed, Becomes(e)
    PROVE  StoreNext
<1> DEFINE t == o.id
<1>1. e = ErasePullRequest(Committed, t)
    BY Deletes, DeletesOne
<1>2. e = [Committed EXCEPT !.pullRequests = Erase(pullRequests, {t})]
    BY <1>1, CommittedFields DEF ErasePullRequest
<1>3. /\ e.pullRequests = Erase(pullRequests, {t})
      /\ e.sequences = sequences /\ e.projects = projects /\ e.features = features /\ e.tasks = tasks
      /\ e.dependencies = dependencies /\ e.documents = documents
    BY <1>2 DEF Committed
<1>4. ASSUME t \notin DOMAIN pullRequests PROVE FALSE
    <2>1. Erase(pullRequests, {t}) = pullRequests
        BY <1>4, EraseNothing DEF StoreInv, StoreTypeOK
    <2> QED BY <1>2, <2>1 DEF Committed
<1>5. DeletePullRequest(t)
    BY <1>3, <1>4 DEF Becomes, DeletePullRequest
<1>6. t \in TaskIDs
    BY <1>4 DEF StoreInv, StoreTypeOK, IsTable
<1> QED BY <1>5, <1>6 DEF StoreNext

\* DeleteDocument reports an error unless there was a document to delete.
LEMMA DocumentErased ==
    ASSUME StoreInv, NEW o \in Operation, o.do = "DeleteDocument", NEW e \in Written(o, Committed),
           e # Committed, Becomes(e)
    PROVE  StoreNext
<1> DEFINE i == o.id
<1>1. e = EraseDocument(Committed, i)
    BY Deletes, DeletesOne
<1>2. e = [Committed EXCEPT !.documents = Erase(documents, {i})]
    BY <1>1, CommittedFields DEF EraseDocument
<1>3. /\ e.documents = Erase(documents, {i})
      /\ e.sequences = sequences /\ e.projects = projects /\ e.features = features /\ e.tasks = tasks
      /\ e.dependencies = dependencies /\ e.pullRequests = pullRequests
    BY <1>2 DEF Committed
<1>4. ASSUME i \notin DOMAIN documents PROVE FALSE
    <2>1. Erase(documents, {i}) = documents
        BY <1>4, EraseNothing DEF StoreInv, StoreTypeOK
    <2> QED BY <1>2, <2>1 DEF Committed
<1>5. DeleteDocument(i)
    BY <1>3, <1>4 DEF Becomes, DeleteDocument
<1>6. i \in DocumentIDs
    BY <1>4 DEF StoreInv, StoreTypeOK, IsTable
<1> QED BY <1>5, <1>6 DEF StoreNext

\* The plan that a statement finds.
LEMMA PlanDocumentsAre == ASSUME NEW t PROVE PlanDocuments(Committed, t) = PlansOf(t)
<1>1. Committed.documents = documents
    BY CommittedFields
<1> QED BY <1>1 DEF PlanDocuments, DocumentsUnder, PlansOf, DocumentsOf

\* DeleteImplementationPlanDocument reports an error unless there was a plan to delete.
LEMMA PlanErased ==
    ASSUME StoreInv, NEW o \in Operation, o.do = "DeleteImplementationPlanDocument", NEW e \in Written(o, Committed),
           e # Committed, Becomes(e)
    PROVE  StoreNext
<1> DEFINE t == o.id
<1>1. e = EraseImplementationPlan(Committed, t)
    BY Deletes, DeletesOne
<1>2. e = [Committed EXCEPT !.documents = Erase(documents, PlansOf(t))]
    <2>1. PlanDocuments(Committed, t) = PlansOf(t) /\ Committed.documents = documents
        BY PlanDocumentsAre, CommittedFields
    <2> QED BY <1>1, <2>1 DEF EraseImplementationPlan
<1>3. /\ e.documents = Erase(documents, PlansOf(t))
      /\ e.sequences = sequences /\ e.projects = projects /\ e.features = features /\ e.tasks = tasks
      /\ e.dependencies = dependencies /\ e.pullRequests = pullRequests
    BY <1>2 DEF Committed
<1>4. PlansOf(t) # {}
    <2>1. ASSUME PlansOf(t) = {} PROVE FALSE
        <3>1. Erase(documents, {}) = documents
            BY EraseNothing DEF StoreInv, StoreTypeOK
        <3> QED BY <1>2, <2>1, <3>1 DEF Committed
    <2> QED BY <2>1
<1>5. t \in DOMAIN tasks
    <2>1. PICK i \in DOMAIN documents : documents[i].parent = <<"task", t>>
        BY <1>4 DEF PlansOf, DocumentsOf
    <2>2. Exists(<<"task", t>>)
        BY <2>1 DEF StoreInv, ForeignKeys
    <2> QED BY <2>2 DEF Exists
<1>6. DeleteImplementationPlan(t)
    BY <1>3, <1>4, <1>5 DEF Becomes, DeleteImplementationPlan
<1>7. t \in TaskIDs
    BY <1>5 DEF StoreInv, StoreTypeOK, IsTable
<1> QED BY <1>6, <1>7 DEF StoreNext

\* The document of a row that the schema accepts has a parent and is its task's only plan.
LEMMA DocumentAccepted ==
    ASSUME StoreInv, NEW e, References(e), UniqueIndexes(e), e.projects = projects, e.features = features,
           e.tasks = tasks, NEW i, NEW row \in DocumentRow, e.documents = Put(documents, i, row)
    PROVE  Exists(row.parent) /\ (row.plan => PlanAllowed(i, row.parent))
<1> DEFINE parent == row.parent
<1>1. /\ DOMAIN e.documents = DOMAIN documents \cup {i} /\ e.documents[i] = row
      /\ \A j \in DOMAIN documents \ {i} : e.documents[j] = documents[j]
    BY DEF Put
<1>2. GetParent(e, parent)
    BY <1>1 DEF References
<1>3. parent = <<parent[1], parent[2]>> /\ parent[1] \in {"project", "feature", "task"}
    BY DEF DocumentRow, Parents
<1> HIDE DEF parent
<1>4. Exists(parent)
    <2>1. CASE parent[1] = "project"
        BY <1>2, <2>1 DEF GetParent, GetProjectByPublicID, Exists
    <2>2. CASE parent[1] = "feature"
        BY <1>2, <2>2 DEF GetParent, GetFeatureByPublicID, Exists
    <2>3. CASE parent[1] = "task"
        BY <1>2, <2>3 DEF GetParent, GetTaskByPublicID, Exists
    <2> QED BY <1>3, <2>1, <2>2, <2>3
<1>5. ASSUME row.plan PROVE PlanAllowed(i, parent)
    <2>1. parent[1] = "task" /\ PlanDocuments(e, parent[2]) = {i}
        BY <1>1, <1>5 DEF UniqueIndexes, parent
    <2>2. ASSUME NEW j \in PlansOf(parent[2]), j # i PROVE FALSE
        <3>1. j \in DOMAIN documents /\ documents[j].parent = <<"task", parent[2]>> /\ documents[j].plan
            BY <2>2 DEF PlansOf, DocumentsOf
        <3>2. j \in PlanDocuments(e, parent[2])
            BY <1>1, <2>2, <3>1 DEF PlanDocuments, DocumentsUnder
        <3> QED BY <2>1, <2>2, <3>2
    <2> QED BY <2>1, <2>2 DEF PlanAllowed
<1> QED BY <1>4, <1>5 DEF parent

\* A document that is inserted has a parent and, as a plan, its task for itself.
LEMMA DocumentInserted ==
    ASSUME StoreInv, NEW row \in DocumentRow, NEW e \in InsertDocument(Committed, row), References(e),
           UniqueIndexes(e), Becomes(e)
    PROVE  CreateDocument(row.parent, row.title, row.source, row.plan)
<1> DEFINE id == sequences["document"]
<1>1. PICK i \in Free(Committed, "document") :
         e = [Committed EXCEPT !.sequences["document"] = i + 1, !.documents = Put(@, i, row)]
    BY DEF InsertDocument
<1>2. i = id /\ i \in 1..Bound["document"]
    BY <1>1, CommittedFields DEF Free
<1>3. Bound["document"] \in Nat
    BY StoreAssumption DEF Bound
<1>4. id <= Bound["document"]
    BY <1>2, <1>3
<1>5. /\ e.sequences = [sequences EXCEPT !["document"] = i + 1] /\ e.documents = Put(documents, i, row)
      /\ e.projects = projects /\ e.features = features /\ e.tasks = tasks
      /\ e.dependencies = dependencies /\ e.pullRequests = pullRequests
    BY <1>1 DEF Committed
<1>6. Exists(row.parent) /\ (row.plan => PlanAllowed(id, row.parent))
    BY <1>2, <1>5, DocumentAccepted
<1>7. row = [parent |-> row.parent, title |-> row.title, source |-> row.source, plan |-> row.plan]
    BY DEF DocumentRow
<1>8. e.documents = Put(documents, id, [parent |-> row.parent, title |-> row.title,
                                        source |-> row.source, plan |-> row.plan])
    <2> HIDE DEF id
    <2> QED BY <1>2, <1>5, <1>7, Zenon
<1>9. Allocate("document")
    BY <1>2, <1>4, <1>5 DEF Allocate, Becomes
<1> QED BY <1>5, <1>6, <1>8, <1>9 DEF CreateDocument, Becomes, NextPublicID

\* CreateDocument writes under a parent that is still there.
LEMMA DocumentCreated ==
    ASSUME StoreInv, NEW o \in Operation, o.do = "CreateDocument", NEW e \in Written(o, Committed),
           References(e), UniqueIndexes(e), Becomes(e)
    PROVE  StoreNext
<1>1. o.row \in DocumentRow
    BY OperationFields
<1>2. e \in InsertDocument(Committed, o.row)
    BY WrittenOf
<1>3. CreateDocument(o.row.parent, o.row.title, o.row.source, o.row.plan)
    BY <1>1, <1>2, DocumentInserted
<1>4. /\ o.row.parent \in Parents /\ o.row.title \in Bodies /\ o.row.source \in Bodies /\ o.row.plan \in BOOLEAN
    BY <1>1 DEF DocumentRow
<1> QED BY <1>3, <1>4 DEF StoreNext

\* The columns whose flags are raised are written, and no others.
LEMMA FieldsWritten ==
    ASSUME StoreInv, NEW i, NEW fields \in DocumentFields, NEW e \in WriteDocument(Committed, i, fields), References(e),
           UniqueIndexes(e), Becomes(e)
    PROVE  i \in DocumentIDs /\ UpdateDocument(i, fields)
<1> DEFINE old == documents[i]
           Column(c) == IF c \in DOMAIN fields THEN fields[c] ELSE old[c]
           row == [parent |-> old.parent, title |-> Column("title"), source |-> Column("source"),
                   plan |-> Column("plan")]
           written == [c \in DOMAIN old |-> IF c \in DOMAIN fields THEN fields[c] ELSE old[c]]
<1>1. i \in DOMAIN documents /\ e = [Committed EXCEPT !.documents[i] = written]
    BY CommittedFields DEF WriteDocument
<1>2. old \in DocumentRow /\ i \in DocumentIDs
    BY <1>1 DEF StoreInv, StoreTypeOK, IsTable
<1>3. /\ "parent" \notin DOMAIN fields
      /\ "title" \in DOMAIN fields => fields["title"] \in Bodies
      /\ "source" \in DOMAIN fields => fields["source"] \in Bodies
      /\ "plan" \in DOMAIN fields => fields["plan"] \in BOOLEAN
    BY FieldsTyped
<1>4. written = row
    BY <1>2, <1>3 DEF DocumentRow
<1>5. row \in DocumentRow
    <2>1. Column("title") \in Bodies
        BY <1>2, <1>3 DEF DocumentRow
    <2>2. Column("source") \in Bodies
        BY <1>2, <1>3 DEF DocumentRow
    <2>3. Column("plan") \in BOOLEAN
        BY <1>2, <1>3 DEF DocumentRow
    <2> QED BY <1>2, <2>1, <2>2, <2>3 DEF DocumentRow
<1>6. /\ e.documents = [documents EXCEPT ![i] = written]
      /\ e.sequences = sequences /\ e.projects = projects /\ e.features = features /\ e.tasks = tasks
      /\ e.dependencies = dependencies /\ e.pullRequests = pullRequests
    <2> HIDE DEF written
    <2> QED BY <1>1 DEF Committed
<1>7. e.documents = Put(documents, i, row)
    <2> HIDE DEF row, written
    <2> QED BY <1>1, <1>4, <1>6, TablesAreFunctions, PutIsExcept
<1>8. row.plan => PlanAllowed(i, row.parent)
    <2> HIDE DEF row, written
    <2> QED BY <1>5, <1>6, <1>7, DocumentAccepted
<1> QED BY <1>1, <1>2, <1>6, <1>7, <1>8 DEF UpdateDocument, Becomes

\* UpdateDocument writes columns of a document that is there.
LEMMA DocumentWritten ==
    ASSUME StoreInv, NEW o \in Operation, o.do = "UpdateDocument", NEW e \in Written(o, Committed),
           References(e), UniqueIndexes(e), Becomes(e)
    PROVE  StoreNext
<1> DEFINE i == o.id
           fields == o.fields
<1>1. fields \in DocumentFields
    BY OperationFields
<1>2. e \in WriteDocument(Committed, i, fields)
    BY WrittenOf
<1>3. i \in DocumentIDs /\ UpdateDocument(i, fields)
    BY <1>1, <1>2, FieldsWritten
<1> HIDE DEF i, fields
<1> QED BY <1>1, <1>3 DEF StoreNext

\* An edit of the source alone is one of the edits.
LEMMA SourceAlone ==
    ASSUME NEW b \in Bodies
    PROVE  [source |-> b] \in DocumentFields
<1> DEFINE row == [title |-> b, source |-> b, plan |-> FALSE]
<1>1. row \in [title : Bodies, source : Bodies, plan : BOOLEAN]
    OBVIOUS
<1>2. [source |-> b] = [c \in {"source"} |-> row[c]]
    OBVIOUS
<1>3. {"source"} \in SUBSET {"title", "source", "plan"}
    OBVIOUS
<1> DEFINE fields == [source |-> b]
<1> HIDE DEF row, fields
<1>4. \E columns \in SUBSET {"title", "source", "plan"}, r \in [title : Bodies, source : Bodies, plan : BOOLEAN] :
          fields = [c \in columns |-> r[c]]
    BY <1>1, <1>2, <1>3 DEF fields
<1>5. fields \in DocumentFields
    BY <1>4 DEF DocumentFields
<1> QED BY <1>5 DEF fields

\* UpsertImplementationPlanDocument inserts the task's only plan, or keeps the ID and the title of
\* the one that is there.
LEMMA PlanWritten ==
    ASSUME StoreInv, NEW o \in Operation, o.do = "UpsertImplementationPlanDocument", NEW e \in Written(o, Committed),
           References(e), UniqueIndexes(e), Becomes(e)
    PROVE  StoreNext
<1> DEFINE t == o.id
           b == o.body
<1>1. e \in InsertImplementationPlan(Committed, t, b, b)
    BY WrittenOf
<1>2. PlanDocuments(Committed, t) = PlansOf(t)
    BY PlanDocumentsAre
<1>3. b \in Bodies
    BY OperationFields
<1>4. CASE PlansOf(t) = {}
    <2> DEFINE row == [parent |-> <<"task", t>>, title |-> b, source |-> b, plan |-> TRUE]
    <2>1. e \in InsertDocument(Committed, row)
        BY <1>1, <1>2, <1>4 DEF InsertImplementationPlan
    <2>2. t \in DOMAIN tasks
        <3>1. \E i : e.documents = Put(documents, i, row) /\ e.tasks = tasks
            BY <2>1 DEF InsertDocument, Committed
        <3>2. PICK i : e.documents = Put(documents, i, row) /\ e.tasks = tasks
            BY <3>1
        <3>3. i \in DOMAIN e.documents /\ e.documents[i] = row
            BY <3>2 DEF Put
        <3>4. row.parent[1] = "task" /\ row.parent[2] = t
            OBVIOUS
        <3>5. GetParent(e, row.parent)
            BY <3>3 DEF References
        <3> HIDE DEF row
        <3> QED BY <3>2, <3>4, <3>5 DEF GetParent, GetTaskByPublicID
    <2>3. t \in TaskIDs
        BY <2>2 DEF StoreInv, StoreTypeOK, IsTable
    <2>4. row \in DocumentRow
        BY <1>3, <2>3 DEF DocumentRow, Parents
    <2>5. CreateDocument(row.parent, row.title, row.source, row.plan)
        <3> HIDE DEF row
        <3> QED BY <2>1, <2>4, DocumentInserted
    <2>6. CreateDocument(<<"task", t>>, b, b, TRUE)
        BY <2>5
    <2>7. UpsertImplementationPlan(t, b, b)
        BY <1>4, <2>6 DEF UpsertImplementationPlan
    <2> QED BY <1>3, <2>3, <2>7 DEF StoreNext
<1>5. CASE PlansOf(t) # {}
    <2>1. PICK i \in PlansOf(t) : e \in WriteDocument(Committed, i, [source |-> b])
        BY <1>1, <1>2, <1>5 DEF InsertImplementationPlan
    <2>2. [source |-> b] \in DocumentFields
        BY <1>3, SourceAlone
    <2>3. UpdateDocument(i, [source |-> b])
        <3> DEFINE fields == [source |-> b]
        <3> HIDE DEF fields
        <3> QED BY <2>1, <2>2, FieldsWritten DEF fields
    <2>4. t \in DOMAIN tasks
        <3>1. i \in DOMAIN documents /\ documents[i].parent = <<"task", t>>
            BY <2>1 DEF PlansOf, DocumentsOf
        <3>2. Exists(<<"task", t>>)
            BY <3>1 DEF StoreInv, ForeignKeys
        <3> QED BY <3>2 DEF Exists
    <2>5. t \in TaskIDs
        BY <2>4 DEF StoreInv, StoreTypeOK, IsTable
    <2>6. UpsertImplementationPlan(t, b, b)
        BY <2>1, <2>3 DEF UpsertImplementationPlan
    <2> QED BY <1>3, <2>5, <2>6 DEF StoreNext
<1> QED BY <1>4, <1>5

\* What a statement commits that stands alone is one step of the store.
LEMMA OneStatementOneStep ==
    ASSUME StoreInv, NEW o \in Operation, ~Transactional(o), NEW e \in Outcomes(o, Committed),
           o.do \in MustAffect => e # Committed, Becomes(e)
    PROVE  StoreNext
<1>1. e \in Written(o, Committed) /\ References(e) /\ UniqueIndexes(e)
    BY DEF Outcomes
<1>2. o.do \in {"UpdateProject", "UpdateFeature", "UpdateTask", "UpsertPullRequest", "CreateDocument",
                "UpdateDocument", "UpsertImplementationPlanDocument", "DeletePullRequest", "DeleteDocument",
                "DeleteImplementationPlanDocument"}
    BY OperationFields DEF Transactional
<1>3. CASE o.do = "UpdateProject"
    BY <1>1, <1>3, ProjectWritten
<1>4. CASE o.do = "UpdateFeature"
    BY <1>1, <1>4, FeatureWritten
<1>5. CASE o.do = "UpdateTask"
    BY <1>1, <1>5, TaskWritten
<1>6. CASE o.do = "UpsertPullRequest"
    BY <1>1, <1>6, PullRequestWritten
<1>7. CASE o.do = "CreateDocument"
    BY <1>1, <1>7, DocumentCreated
<1>8. CASE o.do = "UpdateDocument"
    BY <1>1, <1>8, DocumentWritten
<1>9. CASE o.do = "UpsertImplementationPlanDocument"
    BY <1>1, <1>9, PlanWritten
<1>10. CASE o.do = "DeletePullRequest"
    BY <1>1, <1>10, PullRequestErased DEF MustAffect
<1>11. CASE o.do = "DeleteDocument"
    BY <1>1, <1>11, DocumentErased DEF MustAffect
<1>12. CASE o.do = "DeleteImplementationPlanDocument"
    BY <1>1, <1>12, PlanErased DEF MustAffect
<1> QED BY <1>2, <1>3, <1>4, <1>5, <1>6, <1>7, <1>8, <1>9, <1>10, <1>11, <1>12

------------------------------------------------------------------------------
\* The invariant

\* While nobody commits, what an operation has read and done stays as it was.
LEMMA HandsStay ==
    ASSUME UNCHANGED storeVars
    PROVE  Committed' = Committed /\ \A now : InHand(now) => InHand(now)'
<1>1. /\ sequences' = sequences /\ projects' = projects /\ features' = features /\ tasks' = tasks
      /\ dependencies' = dependencies /\ pullRequests' = pullRequests /\ documents' = documents
    BY DEF storeVars, tables
<1>2. Committed' = Committed
    BY <1>1 DEF Committed
<1>3. \A extra, ds, rs, is, ts, fs : Gone(extra, ds, rs, is, ts, fs)' = Gone(extra, ds, rs, is, ts, fs)
    BY <1>1 DEF Gone, Unlinked, Emptied, TasksOf, DocumentsOf
<1>4. \A extra, fs : AllGone(extra, fs)' = AllGone(extra, fs)
    BY <1>3 DEF AllGone
<1>5. \A s, d, f, extra, fs, more : FeatureGoing(s, d, f, extra, fs, more)' <=> FeatureGoing(s, d, f, extra, fs, more)
    BY <1>3 DEF FeatureGoing
<1>6. \A es, rs, is, ts : TaskGone(es, rs, is, ts)' = TaskGone(es, rs, is, ts)
    BY <1>1 DEF TaskGone, DocumentsOf
<1>7. \A o, entity, s, d : Creating(o, entity, s, d)' <=> Creating(o, entity, s, d)
    BY <1>2 DEF Creating
<1>8. \A p : FeaturesOf(p)' = FeaturesOf(p)
    BY <1>1 DEF FeaturesOf
<1>9. ASSUME NEW o, NEW s, NEW d PROVE ProjectGoing(o, s, d) => ProjectGoing(o, s, d)'
    BY <1>2, <1>4, <1>5, <1>8 DEF ProjectGoing
<1>10. \A o, s, d : FeatureDeleted(o, s, d)' <=> FeatureDeleted(o, s, d)
    BY <1>4, <1>5 DEF FeatureDeleted
<1>11. \A o, s, d : TaskGoing(o, s, d)' <=> TaskGoing(o, s, d)
    BY <1>6 DEF TaskGoing
<1>12. \A o, s, d : Progress(o, s, d) => Progress(o, s, d)'
    BY <1>2, <1>7, <1>9, <1>10, <1>11 DEF Progress
<1>13. ASSUME NEW now, InHand(now) PROVE InHand(now)'
    BY <1>2, <1>12, <1>13 DEF InHand
<1> QED BY <1>2, <1>13

\* The unique indexes look at pull requests and documents only.
LEMMA SameIndexes ==
    ASSUME NEW d, NEW e, d.pullRequests = e.pullRequests, d.documents = e.documents, UniqueIndexes(d)
    PROVE  UniqueIndexes(e)
BY DEF UniqueIndexes, PlanDocuments, DocumentsUnder, IsInjective

\* The operations under way that have a transaction are those that begin one.
LEMMA InTransactionRuns ==
    ASSUME CommitsInv, NEW c \in Connections
    PROVE  /\ InTransaction(c) => Running(c) /\ Transactional(connection[c].operation)
           /\ Running(c) /\ Transactional(connection[c].operation) => InTransaction(c)
           /\ Running(c) => connection[c].operation \in Operation
<1>1. InTransaction(c) => Running(c)
    BY DEF InTransaction, Running, Idle
<1>2. Running(c) => InHand(connection[c])
    BY DEF CommitsInv
<1>3. Running(c) /\ ~Transactional(connection[c].operation) => ~InTransaction(c)
    BY <1>2 DEF InHand, InTransaction
<1>4. ASSUME Running(c), Transactional(connection[c].operation) PROVE InTransaction(c)
    <2>1. DOMAIN connection[c].db = DOMAIN Committed
        BY <1>2, <1>4, SameTables DEF InHand
    <2>2. "tasks" \in DOMAIN Committed
        BY DEF Committed
    <2>3. "tasks" \notin DOMAIN <<>>
        OBVIOUS
    <2> QED BY <2>1, <2>2, <2>3 DEF InTransaction
<1>5. Running(c) => connection[c].operation \in Operation
    BY <1>2, TransactionsAssumption DEF InHand
<1> QED BY <1>1, <1>3, <1>4, <1>5

\* Nothing is under way in an empty database.
LEMMA CommitsInit == HInit /\ TransactionsIdle => CommitsInv
<1> SUFFICES ASSUME HInit, TransactionsIdle PROVE CommitsInv
    OBVIOUS
<1>1. StoreInv
    BY StoreInitInv DEF HInit
<1>2. UniqueIndexes(Committed)
    <2>1. DOMAIN <<>> = {}
        OBVIOUS
    <2>2. Committed.pullRequests = <<>> /\ Committed.documents = <<>>
        BY CommittedFields DEF HInit, StoreInit
    <2> QED BY <2>1, <2>2 DEF UniqueIndexes, IsInjective
<1>3. /\ DOMAIN connection = Connections
      /\ \A c \in Connections : DOMAIN connection[c] = {"operation", "script", "db"} /\ ~Running(c)
                                /\ ~InTransaction(c)
    BY DEF TransactionsIdle, Running, InTransaction, Idle
<1> QED BY <1>1, <1>2, <1>3 DEF CommitsInv

\* A connection goes on, and nobody else is affected.
LEMMA GoesOn ==
    ASSUME CommitsInv, UNCHANGED storeVars, NEW c \in Connections, NEW state, Goes(c, state),
           DOMAIN state = {"operation", "script", "db"}, state # Idle => InHand(state),
           state.db # <<>> => \A b \in Connections \ {c} : ~InTransaction(b)
    PROVE  CommitsInv'
<1>1. Committed' = Committed /\ \A now : InHand(now) => InHand(now)'
    BY HandsStay
<1>2. StoreInv'
    BY StoreNextInv DEF CommitsInv
<1>3. UniqueIndexes(Committed)'
    <2>1. \A d : UniqueIndexes(d)' <=> UniqueIndexes(d)
        BY DEF UniqueIndexes, PlanDocuments, DocumentsUnder
    <2> QED BY <1>1, <2>1 DEF CommitsInv
<1>4. /\ DOMAIN connection' = Connections /\ connection'[c] = state
      /\ \A b \in Connections \ {c} : connection'[b] = connection[b]
    BY DEF Goes, CommitsInv
<1>5. ASSUME NEW b \in Connections
      PROVE  /\ DOMAIN connection'[b] = {"operation", "script", "db"}
             /\ Running(b)' => InHand(connection[b])'
    <2>1. CASE b = c
        BY <1>1, <1>4, <2>1 DEF Running, Idle
    <2>2. CASE b # c
        <3>1. connection'[b] = connection[b]
            BY <1>4, <2>2
        <3>2. DOMAIN connection[b] = {"operation", "script", "db"} /\ (Running(b) => InHand(connection[b]))
            BY DEF CommitsInv
        <3>3. Running(b)' <=> Running(b)
            BY <3>1 DEF Running, Idle
        <3> QED BY <1>1, <3>1, <3>2, <3>3
    <2> QED BY <2>1, <2>2
<1>6. ASSUME NEW a \in Connections, NEW b \in Connections, InTransaction(a)', InTransaction(b)' PROVE a = b
    BY <1>4, <1>6 DEF InTransaction, CommitsInv
<1> QED BY <1>2, <1>3, <1>4, <1>5, <1>6 DEF CommitsInv

\* Somebody commits, while nobody else has a transaction.
LEMMA CommitsStay ==
    ASSUME CommitsInv, NEW c \in Connections, Goes(c, Idle), NEW e, Becomes(e), UniqueIndexes(e), StoreNext,
           \A b \in Connections \ {c} : ~InTransaction(b)
    PROVE  CommitsInv'
<1>1. StoreInv'
    BY StoreNextInv DEF CommitsInv
<1>2. UniqueIndexes(Committed)'
    <2>1. Committed'.pullRequests = e.pullRequests /\ Committed'.documents = e.documents
        BY DEF Becomes, Committed
    <2>2. UniqueIndexes(Committed')
        BY <2>1, SameIndexes
    <2> QED BY <2>2 DEF UniqueIndexes, PlanDocuments, DocumentsUnder
<1>3. /\ DOMAIN connection' = Connections /\ connection'[c] = Idle
      /\ \A b \in Connections \ {c} : connection'[b] = connection[b]
    BY DEF Goes, CommitsInv
<1>4. ~Running(c)' /\ ~InTransaction(c)'
    BY <1>3 DEF Running, InTransaction, Idle
<1>5. ASSUME NEW b \in Connections \ {c}
      PROVE  /\ DOMAIN connection'[b] = {"operation", "script", "db"}
             /\ Running(b)' => InHand(connection[b])'
             /\ ~InTransaction(b)'
    <2>1. connection'[b] = connection[b] /\ ~InTransaction(b)
        BY <1>3
    <2>2. DOMAIN connection[b] = {"operation", "script", "db"} /\ (Running(b) => InHand(connection[b]))
        BY DEF CommitsInv
    <2>3. Running(b) => ~Transactional(connection[b].operation)
        BY <2>1, InTransactionRuns
    <2>4. Running(b)' <=> Running(b)
        BY <2>1 DEF Running, Idle
    <2>5. \A o : Transactional(o)' <=> Transactional(o)
        BY DEF Transactional
    <2>6. Running(b)' => InHand(connection[b])'
        BY <2>1, <2>2, <2>3, <2>4, <2>5 DEF InHand
    <2>7. ~InTransaction(b)'
        BY <2>1 DEF InTransaction
    <2> QED BY <2>1, <2>2, <2>6, <2>7
<1>6. ASSUME NEW b \in Connections
      PROVE  DOMAIN connection'[b] = {"operation", "script", "db"} /\ (Running(b)' => InHand(connection[b])')
    BY <1>3, <1>4, <1>5 DEF Idle
<1> QED BY <1>1, <1>2, <1>3, <1>4, <1>5, <1>6 DEF CommitsInv

------------------------------------------------------------------------------
\* The theorems

\* An operation begins.
LEMMA BeginStep ==
    ASSUME CommitsInv, NEW c \in Connections, NEW o \in Operations, Begin(c, o)
    PROVE  CommitsInv' /\ UNCHANGED historyVars
<1> DEFINE state == [operation |-> o, script |-> Script(o, Committed),
                     db |-> IF Transactional(o) THEN Committed ELSE <<>>]
<1>1. UNCHANGED historyVars /\ UNCHANGED storeVars
    BY DEF Begin, historyVars
<1>2. Goes(c, state) /\ Finds(o, Committed) /\ (Transactional(o) => NoWriter)
    BY DEF Begin
<1>3. o \in Operation
    BY TransactionsAssumption
<1>4. state.operation = o /\ state.script = Script(o, Committed)
      /\ state.db = (IF Transactional(o) THEN Committed ELSE <<>>)
      /\ DOMAIN state = {"operation", "script", "db"}
    OBVIOUS
<1> HIDE DEF state
<1>5. InHand(state)
    <2>1. CASE Transactional(o)
        BY <1>2, <1>4, <2>1, Begins DEF InHand, CommitsInv
    <2>2. CASE ~Transactional(o)
        <3>1. Script(o, Committed) = <<o>>
            BY <2>2, ScriptOf DEF Transactional
        <3> QED BY <1>4, <2>2, <3>1 DEF InHand
    <2> QED BY <2>1, <2>2
<1>6. state.db # <<>> => \A b \in Connections \ {c} : ~InTransaction(b)
    BY <1>2, <1>4 DEF NoWriter
<1> QED BY <1>1, <1>2, <1>4, <1>5, <1>6, GoesOn

\* What a transaction holds, for its next step.
LEMMA TransactionFacts ==
    ASSUME CommitsInv, NEW c \in Connections, InTransaction(c), NEW now, now = connection[c]
    PROVE  /\ StoreInv /\ UniqueIndexes(Committed) /\ now.operation \in Operation
           /\ Transactional(now.operation) /\ UniqueIndexes(now.db)
           /\ Finds(now.operation, Committed) /\ Progress(now.operation, now.script, now.db)
           /\ DOMAIN now = {"operation", "script", "db"}
           /\ \A b \in Connections \ {c} : ~InTransaction(b)
<1>1. Running(c) /\ Transactional(now.operation) /\ now.operation \in Operation
    BY InTransactionRuns
<1>2. InHand(now)
    BY <1>1 DEF CommitsInv
<1> QED BY <1>1, <1>2 DEF CommitsInv, InHand

\* A transaction holds what it comes to by its next step.
LEMMA TransactionGoesOn ==
    ASSUME CommitsInv, UNCHANGED storeVars, NEW c \in Connections, InTransaction(c), NEW script, NEW rows,
           Goes(c, [connection[c] EXCEPT !.script = script, !.db = rows]),
           Progress(connection[c].operation, script, rows), UniqueIndexes(rows)
    PROVE  CommitsInv'
<1> DEFINE now == connection[c]
           state == [now EXCEPT !.script = script, !.db = rows]
<1>1. /\ now.operation \in Operation /\ Transactional(now.operation) /\ Finds(now.operation, Committed)
      /\ DOMAIN now = {"operation", "script", "db"}
      /\ \A b \in Connections \ {c} : ~InTransaction(b)
    BY TransactionFacts
<1>2. now.operation \in Operations
    BY InTransactionRuns DEF CommitsInv, InHand
<1>3. /\ DOMAIN state = {"operation", "script", "db"}
      /\ state.operation = now.operation /\ state.script = script /\ state.db = rows
    BY <1>1
<1> HIDE DEF state
<1>4. InHand(state)
    BY <1>1, <1>2, <1>3 DEF InHand
<1>5. Goes(c, state)
    BY DEF state
<1> QED BY <1>1, <1>3, <1>4, <1>5, GoesOn

\* The loop over the features of a project goes on.
LEMMA IterateStep ==
    ASSUME CommitsInv, NEW c \in Connections, Iterate(c)
    PROVE  CommitsInv' /\ UNCHANGED historyVars
<1> DEFINE now == connection[c]
           o == now.operation
           remaining == Head(now.script).ids
           Onward(f) == FeatureGoes(f) \o <<EachFeature(remaining \ {f})>> \o Tail(now.script)
<1>1. UNCHANGED historyVars /\ UNCHANGED storeVars /\ InTransaction(c) /\ Loops(now.script)
    BY DEF Iterate, historyVars
<1>2. /\ StoreInv /\ UniqueIndexes(Committed) /\ Transactional(o) /\ UniqueIndexes(now.db)
      /\ Progress(o, now.script, now.db) /\ DOMAIN now = {"operation", "script", "db"}
    BY <1>1, TransactionFacts
<1>3. /\ remaining = {} => Progress(o, Tail(now.script), now.db)
      /\ \A f \in remaining : Progress(o, Onward(f), now.db)
    BY <1>1, <1>2, Iterates
<1>4. ASSUME NEW script, Goes(c, [now EXCEPT !.script = script]), Progress(o, script, now.db) PROVE CommitsInv'
    <2>1. [now EXCEPT !.script = script] = [now EXCEPT !.script = script, !.db = now.db]
        BY <1>2
    <2>2. Goes(c, [now EXCEPT !.script = script, !.db = now.db])
        BY <1>4, <2>1, Zenon
    <2> QED BY <1>1, <1>2, <1>4, <2>2, TransactionGoesOn
<1>5. \/ remaining = {} /\ Goes(c, [now EXCEPT !.script = Tail(now.script)])
      \/ \E f \in remaining : Goes(c, [now EXCEPT !.script = Onward(f)])
    BY <1>2 DEF Iterate
<1> HIDE DEF remaining, Onward
<1> QED BY <1>1, <1>3, <1>4, <1>5

\* A statement of a transaction.
LEMMA ExecuteStep ==
    ASSUME CommitsInv, NEW c \in Connections, Execute(c)
    PROVE  CommitsInv' /\ UNCHANGED historyVars
<1> DEFINE now == connection[c]
           o == now.operation
<1>1. /\ UNCHANGED historyVars /\ UNCHANGED storeVars /\ InTransaction(c)
      /\ now.script # <<>> /\ ~Loops(now.script)
    BY DEF Execute, historyVars
<1>2. /\ StoreInv /\ UniqueIndexes(Committed) /\ Transactional(o)
      /\ Progress(o, now.script, now.db) /\ DOMAIN now = {"operation", "script", "db"}
    BY <1>1, TransactionFacts
<1>3. PICK e \in Outcomes(Head(now.script), now.db) :
         Goes(c, [now EXCEPT !.script = Tail(now.script), !.db = e])
    BY <1>2 DEF Execute
<1>4. Progress(o, Tail(now.script), e) /\ UniqueIndexes(e)
    BY <1>1, <1>2, Executes
<1>5. CommitsInv'
    BY <1>1, <1>3, <1>4, TransactionGoesOn
<1> QED BY <1>1, <1>5

\* COMMIT: the store takes one step.
LEMMA CommitsStep ==
    ASSUME CommitsInv, NEW c \in Connections, Commits(c)
    PROVE  CommitsInv' /\ HNext
<1> DEFINE now == connection[c]
           o == now.operation
<1>1. InTransaction(c) /\ now.script = <<>> /\ Becomes(now.db) /\ Goes(c, Idle)
    BY DEF Commits
<1>2. /\ StoreInv /\ o \in Operation /\ Transactional(o) /\ UniqueIndexes(now.db) /\ Finds(o, Committed)
      /\ Progress(o, now.script, now.db)
      /\ \A b \in Connections \ {c} : ~InTransaction(b)
    BY <1>1, TransactionFacts
<1>3. StoreNext
    BY <1>1, <1>2, OneStep
<1>4. HNext
    BY <1>1, <1>3 DEF Becomes, HNext
<1>5. CommitsInv'
    BY <1>1, <1>2, <1>3, CommitsStay
<1> QED BY <1>4, <1>5

\* A statement that stands alone: the store takes one step.
LEMMA WriteAloneStep ==
    ASSUME CommitsInv, NEW c \in Connections, WriteAlone(c)
    PROVE  CommitsInv' /\ HNext
<1> DEFINE now == connection[c]
           o == now.operation
<1>1. Running(c) /\ ~InTransaction(c) /\ NoWriter /\ Goes(c, Idle)
    BY DEF WriteAlone
<1>2. o \in Operation /\ ~Transactional(o) /\ InHand(now)
    BY <1>1, InTransactionRuns DEF CommitsInv
<1>3. Head(now.script) = o
    BY <1>2, SequenceFacts DEF InHand
<1>4. PICK e \in Outcomes(o, Committed) : (o.do \in MustAffect => e # Committed) /\ Becomes(e)
    BY <1>3 DEF WriteAlone
<1>5. UniqueIndexes(e)
    BY DEF Outcomes
<1>6. StoreNext
    BY <1>2, <1>4, OneStatementOneStep DEF CommitsInv
<1>7. HNext
    BY <1>4, <1>6 DEF Becomes, HNext
<1>8. CommitsInv'
    BY <1>1, <1>4, <1>5, <1>6, CommitsStay DEF NoWriter
<1> QED BY <1>7, <1>8

\* Whatever fails leaves the store as it is.
LEMMA FailStep ==
    ASSUME CommitsInv, NEW c \in Connections, Fail(c)
    PROVE  CommitsInv' /\ UNCHANGED historyVars
<1>1. UNCHANGED historyVars /\ UNCHANGED storeVars /\ Goes(c, Idle)
    BY DEF Fail, historyVars
<1>2. DOMAIN Idle = {"operation", "script", "db"} /\ Idle.db = <<>>
    BY DEF Idle
<1> HIDE DEF Idle
<1> QED BY <1>1, <1>2, GoesOn

\* Every step keeps the invariant, and is a step of the store with its history or leaves it alone.
LEMMA CommitsNext == CommitsInv /\ [TransactionsNext]_transactionVars => CommitsInv' /\ [HNext]_historyVars
<1> SUFFICES ASSUME CommitsInv, [TransactionsNext]_transactionVars PROVE CommitsInv' /\ [HNext]_historyVars
    OBVIOUS
<1>1. CASE UNCHANGED transactionVars
    <2>1. UNCHANGED historyVars /\ UNCHANGED storeVars /\ connection' = connection
        BY <1>1 DEF transactionVars, historyVars
    <2>2. Committed' = Committed /\ \A now : InHand(now) => InHand(now)'
        BY <2>1, HandsStay
    <2>3. StoreInv'
        BY <2>1, StoreNextInv DEF CommitsInv
    <2>4. UniqueIndexes(Committed)'
        <3>1. \A d : UniqueIndexes(d)' <=> UniqueIndexes(d)
            BY DEF UniqueIndexes, PlanDocuments, DocumentsUnder
        <3> QED BY <2>2, <3>1 DEF CommitsInv
    <2>5. \A c \in Connections : (Running(c)' <=> Running(c)) /\ (InTransaction(c)' <=> InTransaction(c))
        BY <2>1 DEF Running, InTransaction, Idle
    <2> QED BY <2>1, <2>2, <2>3, <2>4, <2>5 DEF CommitsInv
<1>2. ASSUME NEW c \in Connections,
             \/ \E o \in Operations : Begin(c, o)
             \/ Iterate(c) \/ Execute(c) \/ Commits(c) \/ WriteAlone(c) \/ Fail(c)
      PROVE  CommitsInv' /\ [HNext]_historyVars
    BY <1>2, BeginStep, IterateStep, ExecuteStep, CommitsStep, WriteAloneStep, FailStep
<1> QED BY <1>1, <1>2 DEF TransactionsNext

\* The invariant holds.
LEMMA CommitsInvariant == TransactionsSpec => []CommitsInv
BY CommitsInit, CommitsNext, PTL DEF TransactionsSpec

\* The operations, statement by statement and on any number of connections, implement the store
\* of single steps with the public IDs that it has issued.
THEOREM TransactionsRefine == TransactionsSpec => HSpec
<1>1. TransactionsSpec => HInit
    BY DEF TransactionsSpec
<1>2. TransactionsSpec => [][HNext]_historyVars
    BY CommitsInvariant, CommitsNext, PTL DEF TransactionsSpec
<1> QED BY <1>1, <1>2, PTL DEF HSpec

\* Every operation of repository.go takes effect in one step or not at all, whatever other
\* connections commit between its statements and wherever it fails.
THEOREM TransactionsStayAtomic == TransactionsSpec => TransactionsAreAtomic
<1>1. [HNext]_historyVars => [StoreNext]_storeVars
    BY DEF HNext, historyVars
<1>2. TransactionsSpec => [][HNext]_historyVars
    BY CommitsInvariant, CommitsNext, PTL DEF TransactionsSpec
<1> QED BY <1>1, <1>2, PTL DEF TransactionsAreAtomic

\* No statement of a cascade is ever refused by a foreign key: the order of the statements of
\* deleteFeatureContents, DeleteProject and DeleteTask is one that RESTRICT accepts.
THEOREM CascadesAlwaysSucceed == TransactionsSpec => []CascadesSucceed
<1>1. CommitsInv => CascadesSucceed
    <2> SUFFICES ASSUME CommitsInv, NEW c \in Connections, InTransaction(c),
                        connection[c].script # <<>>, ~Loops(connection[c].script),
                        "cascade" \in DOMAIN connection[c].operation
                 PROVE  Outcomes(Head(connection[c].script), connection[c].db) # {}
        BY DEF CascadesSucceed
    <2> DEFINE now == connection[c]
    <2>1. /\ StoreInv /\ UniqueIndexes(Committed) /\ now.operation \in Operation
          /\ Progress(now.operation, now.script, now.db)
        BY TransactionFacts
    <2>2. now.operation.do \in {"DeleteProject", "DeleteFeature", "DeleteTask"}
        BY <2>1 DEF Operation
    <2> QED BY <2>1, <2>2, CascadeGoesOn
<1> QED BY <1>1, CommitsInvariant, PTL

\* What the proofs about the store of single steps say holds of the statements: every committed
\* database is one that Validate finds nothing wrong with.
THEOREM CommittedStaysValid == TransactionsSpec => []ValidateClean
<1>1. CommitsInv => ValidateClean
    BY DEF CommitsInv, StoreInv, ValidateClean
<1> QED BY <1>1, CommitsInvariant, PTL

\* And a public ID names one row for good, also after that row was deleted by a cascade.
THEOREM CommittedIdsStayUnique == TransactionsSpec => IdsNeverReused
BY TransactionsRefine, IdsStayUnique

------------------------------------------------------------------------------
\* The streams of revisions

\* The shapes that the argument needs; revisions are counted from one.
StreamShapes ==
    /\ connected \subseteq Tabs /\ revision \in Nat \ {0} /\ current = revision
    /\ {slot, handler, wire, seen} \subseteq [Tabs -> Nat]

\* A stream that is closed holds nothing.
ClosedEmpty == \A t \in Tabs \ connected : slot[t] = 0 /\ wire[t] = 0

\* Where the current revision is on its way to the tab: in the channel, or taken
\* by the handler, which then has it on the wire until the tab has seen it.
OnItsWay ==
    \A t \in connected : /\ slot[t] # 0 => slot[t] = current
                         /\ slot[t] = 0 => handler[t] = current
                         /\ wire[t] # 0 => wire[t] = handler[t]
                         /\ wire[t] = 0 => seen[t] = handler[t]

\* The inductive invariant.
StreamInv == StreamShapes /\ ClosedEmpty /\ OnItsWay

------------------------------------------------------------------------------
\* Before any tab has connected there is nothing to lose.
LEMMA StreamInitInv == RevisionInit => StreamInv
BY DEF RevisionInit, StreamInv, StreamShapes, ClosedEmpty, OnItsWay

\* A tick of the Watcher fills the channel of every stream, or does nothing to them.
LEMMA PollStep ==
    ASSUME StreamInv, Poll PROVE StreamInv'
<1>1. CASE PollChange
    <2>1. /\ revision' = revision + 1 /\ current' = revision + 1 /\ UNCHANGED <<handler, wire, connected, seen>>
          /\ slot' = [t \in Tabs |-> IF t \in connected THEN revision + 1 ELSE 0]
        BY <1>1 DEF PollChange, LatestWins
    <2>2. StreamShapes'
        BY <2>1 DEF StreamInv, StreamShapes
    <2>3. ClosedEmpty' /\ OnItsWay'
        BY <2>1 DEF StreamInv, StreamShapes, ClosedEmpty, OnItsWay
    <2> QED BY <2>2, <2>3 DEF StreamInv
<1>2. CASE PollIdle \/ PollFails \/ PollBaseline \/ PollSame
    BY <1>2 DEF PollIdle, PollFails, PollBaseline, PollSame, streams,
                StreamInv, StreamShapes, ClosedEmpty, OnItsWay
<1> QED BY <1>1, <1>2 DEF Poll

\* A stream that ends is empty, and the others stay as they are.
LEMMA CloseStep ==
    ASSUME StreamInv, NEW ts \in SUBSET Tabs, Close(ts), revision' \in Nat \ {0}, current' = revision',
           ts = Tabs \/ current' = current
    PROVE  StreamInv'
<1>1. StreamShapes'
    BY DEF StreamInv, StreamShapes, Close
<1>2. ClosedEmpty' /\ OnItsWay'
    BY DEF StreamInv, StreamShapes, ClosedEmpty, OnItsWay, Close
<1> QED BY <1>1, <1>2 DEF StreamInv

\* The first message of a connection is the current revision.
LEMMA ConnectStep ==
    ASSUME StreamInv, NEW t \in Tabs, Connect(t) PROVE StreamInv'
BY DEF Connect, server, StreamInv, StreamShapes, ClosedEmpty, OnItsWay

\* The handler takes what the channel holds, which is the current revision.
LEMMA SendStep ==
    ASSUME StreamInv, NEW t \in Tabs, Send(t) PROVE StreamInv'
BY DEF Send, server, StreamInv, StreamShapes, ClosedEmpty, OnItsWay

\* A heartbeat repeats what the tab has seen, or ends the stream.
LEMMA HeartbeatStep ==
    ASSUME StreamInv, NEW t \in Tabs, Heartbeat(t) PROVE StreamInv'
<1>1. UNCHANGED server
    BY DEF Heartbeat
<1>2. CASE Alive
    BY <1>1, <1>2 DEF Heartbeat, server, StreamInv, StreamShapes, ClosedEmpty, OnItsWay
<1>3. CASE ~Alive
    BY <1>1, <1>3, CloseStep DEF Heartbeat, server, StreamInv, StreamShapes
<1> QED BY <1>2, <1>3

\* What leaves the wire is what the tab has seen.
LEMMA ReceiveStep ==
    ASSUME StreamInv, NEW t \in Tabs, Receive(t) PROVE StreamInv'
BY DEF Receive, server, StreamInv, StreamShapes, ClosedEmpty, OnItsWay

\* Every step of the database, the server, a stream or a tab preserves it.
LEMMA StreamNextInv == StreamInv /\ [RevisionNext]_revisionVars => StreamInv'
<1> SUFFICES ASSUME StreamInv, [RevisionNext]_revisionVars PROVE StreamInv'
    OBVIOUS
<1>1. CASE UNCHANGED <<server, streams>>
    BY <1>1 DEF server, streams, StreamInv, StreamShapes, ClosedEmpty, OnItsWay
<1>2. CASE Commit \/ Break \/ Repair \/ UNCHANGED revisionVars
    BY <1>1, <1>2 DEF Commit, Break, Repair, revisionVars
<1>3. CASE Restart
    BY <1>3, CloseStep DEF Restart
<1>4. ASSUME NEW t \in Tabs, Drop(t) PROVE StreamInv'
    BY <1>4, CloseStep DEF Drop, server, StreamInv, StreamShapes
<1>5. ASSUME NEW t \in Tabs,
             Refetch(t) \/ Mutate(t) \/ CommitWrite(t) \/ WriteSucceeds(t) \/ WriteFails(t) \/ WindowEnds(t)
      PROVE  StreamInv'
    BY <1>1, <1>5 DEF Refetch, Mutate, CommitWrite, WriteSucceeds, WriteFails, WindowEnds
<1> QED BY <1>2, <1>3, <1>4, <1>5, PollStep, ConnectStep, SendStep, HeartbeatStep, ReceiveStep DEF RevisionNext

\* However slow a stream is, and whatever is published meanwhile: once its channel
\* and its wire are empty, its tab has seen the current revision.
THEOREM NothingIsLost == RevisionSpec => []NothingPublishedIsLost
<1>1. StreamInv => NothingPublishedIsLost
    BY DEF StreamInv, OnItsWay, NothingPublishedIsLost
<1> QED BY <1>1, StreamInitInv, StreamNextInv, PTL DEF RevisionSpec

================================================================================
