------------------------- MODULE DataDirectoryProofs --------------------------
(***************************************************************************)
(* Theorems about the files that processes share in the data directory:    *)
(* about Opening, for any number of commands, crashes and older builds and *)
(* any set of migrations that has those the code names, and about          *)
(* RunState, for any number of servers, clients, attempts and failures.    *)
(***************************************************************************)
EXTENDS Opening, RunState, TLAPS

------------------------------------------------------------------------------
\* Types

Views == [seen : SUBSET Migrations, host : BOOLEAN, vocabulary : BOOLEAN, ids : BOOLEAN,
          idsRecorded : BOOLEAN, todo : SUBSET Migrations, created : BOOLEAN]

Positions == Steps \union {"idle", "open", "graph"}

Types ==
  /\ dirs \subseteq Dirs
  /\ disk \in [Dirs -> [Names -> Contents]]
  /\ recorded \subseteq Migrations /\ applied \subseteq Migrations /\ again \subseteq Migrations
  /\ pc \in [Processes -> Positions]
  /\ view \in [Processes -> Views]
  /\ samples \in [Processes -> {"none", "partial", "whole"}]
  /\ start \in Places

\* What a process has seen before it looked at anything.
LEMMA NoViewIsView == NoView \in Views
  BY DEF NoView, Views

\* What it goes into the loop of the migrations with.
LEMMA LoopIsView ==
  ASSUME NEW seen \in Views
  PROVE  /\ Loop(seen) \in Views
         /\ Loop(seen).todo = Migrations /\ Loop(seen).created = seen.created
         /\ Loop(seen).seen = {} /\ ~Loop(seen).vocabulary /\ ~Loop(seen).ids
  BY DEF Loop, NoView, Views

\* A view with one answer replaced is a view.
LEMMA Viewed ==
  ASSUME NEW w \in Views, NEW b \in BOOLEAN, NEW c \in BOOLEAN
  PROVE  /\ [w EXCEPT !.host = b] \in Views /\ [w EXCEPT !.vocabulary = b] \in Views
         /\ [w EXCEPT !.created = b] \in Views /\ [w EXCEPT !.ids = b, !.idsRecorded = c] \in Views
<1>1. [w EXCEPT !.host = b] \in Views
  BY Zenon DEF Views
<1>2. [w EXCEPT !.vocabulary = b] \in Views
  BY Zenon DEF Views
<1>3. [w EXCEPT !.created = b] \in Views
  BY Zenon DEF Views
<1>4. [w EXCEPT !.ids = b, !.idsRecorded = c] \in Views
  BY Zenon DEF Views
<1> QED BY <1>1, <1>2, <1>3, <1>4

\* What a process sees is kept in one field of its view.
LEMMA Seeing ==
  ASSUME Types, NEW p \in Processes
  PROVE  /\ \A value \in SUBSET Migrations : Sees(p, "seen", value) =>
              view' = [view EXCEPT ![p] = [view[p] EXCEPT !.seen = value]]
         /\ \A value \in SUBSET Migrations : Sees(p, "todo", value) =>
              view' = [view EXCEPT ![p] = [view[p] EXCEPT !.todo = value]]
         /\ \A value \in BOOLEAN : Sees(p, "host", value) =>
              view' = [view EXCEPT ![p] = [view[p] EXCEPT !.host = value]]
         /\ \A value \in BOOLEAN : Sees(p, "vocabulary", value) =>
              view' = [view EXCEPT ![p] = [view[p] EXCEPT !.vocabulary = value]]
         /\ \A value \in BOOLEAN : Sees(p, "created", value) =>
              view' = [view EXCEPT ![p] = [view[p] EXCEPT !.created = value]]
  BY DEF Types, Views, Sees

FirstPlaces == {"nothing", "legacy", "current", "both", "configured", "half"}

\* The two directories at each start.
LEMMA FirstDirs ==
  /\ DirsAt("nothing") = {} /\ DirsAt("legacy") = {"prx"}
  /\ \A s \in FirstPlaces \ {"nothing", "legacy"} : "nnx" \in DirsAt(s) /\ DirsAt(s) \subseteq Dirs
  BY DEF DirsAt, FirstPlaces, Dirs

\* The files that there may be at first.
LEMMA FirstDisk ==
  /\ \A s : DiskAt(s) = [dir \in Dirs |-> DiskAt(s)[dir]]
  /\ \A s \in {"nothing", "current", "half"} : DiskAt(s)["prx"] = Empty
  /\ \A s \in {"nothing", "legacy", "configured"} : DiskAt(s)["nnx"] = Empty
  /\ \A s \in {"both", "configured"} : DiskAt(s)["prx"] = [Empty EXCEPT !["prx.db"] = "other"]
  /\ \A s \in {"both", "current"} : DiskAt(s)["nnx"] = Work("nnx.db", "nnx.db-wal")
  /\ DiskAt("legacy")["prx"] = Work("prx.db", "prx.db-wal")
  /\ DiskAt("half")["nnx"] = Work("prx.db", "nnx.db-wal")
<1>1. "prx" \in Dirs /\ "nnx" \in Dirs
  BY DEF Dirs
<1>2. \A s : DiskAt(s) = [dir \in Dirs |-> DiskAt(s)[dir]]
  BY DEF DiskAt
<1>3. \A s \in {"nothing", "current", "half"} : DiskAt(s)["prx"] = Empty
  BY <1>1 DEF DiskAt
<1>4. \A s \in {"nothing", "legacy", "configured"} : DiskAt(s)["nnx"] = Empty
  BY <1>1 DEF DiskAt
<1>5. \A s \in {"both", "configured"} : DiskAt(s)["prx"] = [Empty EXCEPT !["prx.db"] = "other"]
  BY <1>1 DEF DiskAt
<1>6. \A s \in {"both", "current"} : DiskAt(s)["nnx"] = Work("nnx.db", "nnx.db-wal")
  BY <1>1 DEF DiskAt
<1>7. DiskAt("legacy")["prx"] = Work("prx.db", "prx.db-wal")
  BY <1>1 DEF DiskAt
<1>8. DiskAt("half")["nnx"] = Work("prx.db", "nnx.db-wal")
  BY <1>1 DEF DiskAt
<1> QED BY <1>2, <1>3, <1>4, <1>5, <1>6, <1>7, <1>8

\* The types hold at first.
LEMMA InitTypes == OpeningInit => Types
<1> SUFFICES ASSUME OpeningInit PROVE Types
  OBVIOUS
<1>1. recorded \subseteq Migrations /\ applied \subseteq Migrations
  BY OpeningAssumption DEF OpeningInit
<1>2. start \in FirstPlaces /\ start \in Places
  BY OpeningAssumption DEF OpeningInit, FirstPlaces
<1>3. dirs \subseteq Dirs
  BY <1>2, FirstDirs DEF OpeningInit, FirstPlaces, Dirs
<1>4. disk \in [Dirs -> [Names -> Contents]]
  <2>1. Empty \in [Names -> Contents] /\ [Empty EXCEPT !["prx.db"] = "other"] \in [Names -> Contents]
        /\ \A main, wal \in Names : Work(main, wal) \in [Names -> Contents]
    BY DEF Empty, Work, Names, Contents
  <2>2. \A dir \in Dirs : DiskAt(start)[dir] \in [Names -> Contents]
    <3>1. DiskAt(start)["prx"] \in [Names -> Contents]
      <4>1. CASE start = "legacy"
        BY <2>1, <4>1, FirstDisk DEF Names
      <4>2. CASE start # "legacy"
        BY <1>2, <2>1, <4>2, FirstDisk DEF FirstPlaces
      <4> QED BY <4>1, <4>2
    <3>2. DiskAt(start)["nnx"] \in [Names -> Contents]
      <4>1. CASE start \in {"nothing", "legacy", "configured"}
        BY <2>1, <4>1, FirstDisk
      <4>2. CASE start \in {"both", "current", "half"}
        BY <2>1, <4>2, FirstDisk DEF Names
      <4> QED BY <1>2, <4>1, <4>2 DEF FirstPlaces
    <3> QED BY <3>1, <3>2 DEF Dirs
  <2> QED BY <2>2, FirstDisk DEF OpeningInit
<1>5. pc \in [Processes -> Positions] /\ view \in [Processes -> Views]
      /\ samples \in [Processes -> {"none", "partial", "whole"}] /\ again = {}
  BY NoViewIsView DEF OpeningInit, Positions
<1> QED BY <1>1, <1>2, <1>3, <1>4, <1>5 DEF Types

\* Every step keeps the types.
LEMMA StepTypes == Types /\ [OpeningNext]_openingVars => Types'
<1> SUFFICES ASSUME Types, [OpeningNext]_openingVars PROVE Types'
  OBVIOUS
<1>1. CASE UNCHANGED openingVars
  BY <1>1 DEF Types, openingVars
<1>2. CASE OldBuild
  BY <1>2 DEF OldBuild, Types, files, history
<1>3. ASSUME NEW p \in Processes, Begin(p) \/ LstatNew(p) \/ LstatLegacy(p) \/ FindTarget(p) \/ Opened(p) PROVE Types'
  BY <1>3 DEF Begin, LstatNew, LstatLegacy, FindTarget, Opened, Goes, Types, Positions, Steps, files, schema, history
<1>4. ASSUME NEW p \in Processes, RenameDir(p) PROVE Types'
  <2>1. Empty \in [Names -> Contents]
    BY DEF Empty, Names, Contents
  <2>2. CASE UNCHANGED files
    BY <1>4, <2>2 DEF RenameDir, Goes, Types, Positions, Steps, files, schema, history
  <2>3. CASE dirs' = {"nnx"} /\ disk' = [disk EXCEPT !["nnx"] = disk["prx"], !["prx"] = Empty]
    <3>1. dirs' \subseteq Dirs /\ disk' \in [Dirs -> [Names -> Contents]]
      BY <2>1, <2>3 DEF Types, Dirs
    <3> QED BY <1>4, <3>1 DEF RenameDir, Goes, Types, Positions, Steps, schema, history
  <2> QED BY <1>4, <2>2, <2>3 DEF RenameDir
<1>5. ASSUME NEW p \in Processes, FindLegacy(p) \/ RenameFile(p) PROVE Types'
  <2>1. RenameOrder[1] = "wal" /\ RenameOrder[2] = "main"
    BY DEF RenameOrder
  <2>2. \A from, to \in Names : Renamed(from, to) => disk' \in [Dirs -> [Names -> Contents]]
    BY DEF Renamed, Types, Dirs, Contents
  <2>3. FindLegacy(p) => disk' = disk
    BY DEF FindLegacy, files
  <2>4. disk' \in [Dirs -> [Names -> Contents]]
    BY <1>5, <2>2, <2>3 DEF RenameFile, Names, Types
  <2> QED BY <1>5, <2>1, <2>4 DEF FindLegacy, RenameFile, Goes, Types, Positions, Steps, files, schema, history
<1>6. ASSUME NEW p \in Processes, Stat(p) PROVE Types'
  <2>1. view' = [view EXCEPT ![p] = [view[p] EXCEPT !.created = ~Exists("nnx", "nnx.db")]]
    BY <1>6, Seeing DEF Stat
  <2>2. view' \in [Processes -> Views]
    BY <2>1, Viewed DEF Types
  <2> QED BY <1>6, <2>2 DEF Stat, Goes, Types, Positions, Steps, Dirs, files, schema, history
<1>7. ASSUME NEW p \in Processes, CreateMetadata(p) PROVE Types'
  BY <1>7 DEF CreateMetadata, Goes, Types, Positions, Steps, Dirs, Names, Contents, files, schema, history
<1>8. ASSUME NEW p \in Processes, ReadRecords(p) PROVE Types'
  <2>1. view' = [view EXCEPT ![p] = [view[p] EXCEPT !.seen = recorded \intersect {hostMigration, taskStatusMigration}]]
    BY <1>8, Seeing DEF ReadRecords, Types
  <2>2. view' \in [Processes -> Views]
    BY <2>1 DEF Types, Views
  <2> QED BY <1>8, <2>2 DEF ReadRecords, Goes, Types, Positions, Steps, files, schema, history
<1>9. ASSUME NEW p \in Processes, ReadHost(p) PROVE Types'
  <2>1. view' = [view EXCEPT ![p] = [view[p] EXCEPT !.host = (hostMigration \in applied)]]
    BY <1>9 DEF ReadHost, Sees
  <2>2. view' \in [Processes -> Views]
    <3>1. view[p] \in Views /\ (hostMigration \in applied) \in BOOLEAN
      BY DEF Types
    <3>2. [view[p] EXCEPT !.host = (hostMigration \in applied)] \in Views
      BY <3>1, Viewed, Zenon
    <3> QED BY <2>1, <3>2, Zenon DEF Types
  <2> QED BY <1>9, <2>2 DEF ReadHost, Goes, Types, Positions, Steps, files, schema, history
<1>10. ASSUME NEW p \in Processes, ReadVocabulary(p) PROVE Types'
  <2>1. view' = [view EXCEPT ![p] = [view[p] EXCEPT !.vocabulary = (taskStatusMigration \in applied)]]
    BY <1>10 DEF ReadVocabulary, Sees
  <2>2. view' \in [Processes -> Views]
    <3>1. view[p] \in Views /\ (taskStatusMigration \in applied) \in BOOLEAN
      BY DEF Types
    <3>2. [view[p] EXCEPT !.vocabulary = (taskStatusMigration \in applied)] \in Views
      BY <3>1, Viewed, Zenon
    <3> QED BY <2>1, <3>2, Zenon DEF Types
  <2> QED BY <1>10, <2>2 DEF ReadVocabulary, Goes, Types, Positions, Steps, files, schema, history
<1>11. ASSUME NEW p \in Processes, ReadPublicIDs(p) PROVE Types'
  <2> DEFINE seen == [view[p] EXCEPT !.ids = (publicIDsMigration \in applied),
                                     !.idsRecorded = (publicIDsMigration \in recorded)]
  <2>1. seen \in Views
    <3>1. view[p] \in Views /\ (publicIDsMigration \in applied) \in BOOLEAN /\ (publicIDsMigration \in recorded) \in BOOLEAN
      BY DEF Types
    <3> QED BY <3>1, Viewed, Zenon
  <2> HIDE DEF seen
  <2>2. view' \in [Processes -> Views]
    <3>1. view' = [view EXCEPT ![p] = seen] \/ view' = [view EXCEPT ![p] = Loop(seen)]
      BY <1>11, Zenon DEF ReadPublicIDs, seen
    <3> QED BY <2>1, <3>1, LoopIsView DEF Types
  <2>3. pc' \in [Processes -> Positions]
    BY <1>11 DEF ReadPublicIDs, Goes, Types, Positions, Steps
  <2> QED BY <1>11, <2>2, <2>3 DEF ReadPublicIDs, Types, files, schema, history
<1>12. ASSUME NEW p \in Processes, RepairCommits(p) PROVE Types'
  <2>1. view' \in [Processes -> Views]
    BY <1>12, LoopIsView DEF RepairCommits, Types
  <2>2. recorded' \subseteq Migrations
    BY <1>12, OpeningAssumption DEF RepairCommits, Inserted, Missing, Types
  <2> QED BY <1>12, <2>1, <2>2 DEF RepairCommits, Goes, Types, Positions, Steps, files, history
<1>13. ASSUME NEW p \in Processes, CheckVersion(p) PROVE Types'
  <2>1. PICK v \in Migrations : IF v \in recorded
                                THEN Sees(p, "todo", view[p].todo \ {v}) /\ UNCHANGED pc
                                ELSE Goes(p, "apply") /\ UNCHANGED view
    BY <1>13 DEF CheckVersion
  <2>2. view' \in [Processes -> Views]
    <3>1. [view[p] EXCEPT !.todo = view[p].todo \ {v}] \in Views
      BY DEF Types, Views
    <3>2. view' = view \/ view' = [view EXCEPT ![p] = [view[p] EXCEPT !.todo = view[p].todo \ {v}]]
      BY <2>1, Seeing DEF Types, Views
    <3> QED BY <3>1, <3>2 DEF Types
  <2>3. pc' \in [Processes -> Positions]
    BY <2>1 DEF Goes, Types, Positions, Steps
  <2> QED BY <1>13, <2>2, <2>3 DEF CheckVersion, Types, files, schema, history
<1>14. ASSUME NEW p \in Processes, Apply(p) PROVE Types'
  <2>1. PICK v \in Migrations : /\ \E result \in Inserted(recorded, {v}) : recorded' = result
                                /\ applied' = applied \union {v}
                                /\ again' = again \union ({v} \intersect applied)
                                /\ Sees(p, "todo", view[p].todo \ {v})
    BY <1>14 DEF Apply
  <2>2. view' \in [Processes -> Views]
    <3>1. [view[p] EXCEPT !.todo = view[p].todo \ {v}] \in Views
      BY DEF Types, Views
    <3>2. view[p].todo \ {v} \in SUBSET Migrations
      BY DEF Types, Views
    <3>3. view' = [view EXCEPT ![p] = [view[p] EXCEPT !.todo = view[p].todo \ {v}]]
      BY <2>1, <3>2, Seeing
    <3> QED BY <3>1, <3>3 DEF Types
  <2>3. recorded' \subseteq Migrations /\ applied' \subseteq Migrations /\ again' \subseteq Migrations
    BY <2>1 DEF Inserted, Types
  <2> QED BY <1>14, <2>2, <2>3 DEF Apply, Goes, Types, Positions, Steps, files, history
<1>15. ASSUME NEW p \in Processes, RepairFails(p) \/ ApplyFails(p) \/ Close(p) \/ Crash(p) PROVE Types'
  BY <1>15, NoViewIsView DEF RepairFails, ApplyFails, Close, Crash, Ends, Goes, Types, Positions, files, schema, history
<1>16. ASSUME NEW p \in Processes, EnsureSampleData(p) \/ SeedSampleGraph(p) PROVE Types'
  BY <1>16, NoViewIsView DEF EnsureSampleData, SeedSampleGraph, Ends, Goes, Types, Positions, files, schema, history
<1> QED BY <1>1, <1>2, <1>3, <1>4, <1>5, <1>6, <1>7, <1>8, <1>9, <1>10, <1>11, <1>12, <1>13, <1>14, <1>15, <1>16
        DEF OpeningNext, Proceed

\* Every file, record and command is in a state that the code knows.
THEOREM OpeningTypes == OpeningSpec => []OpeningTypeOK
<1>1. Types => OpeningTypeOK
  BY DEF Types, OpeningTypeOK, Views, Positions
<1> QED BY <1>1, InitTypes, StepTypes, PTL DEF OpeningSpec

------------------------------------------------------------------------------
\* Migrations

\* What a command has read of the schema is still so: nothing is taken out of it.  A record it has
\* seen is thus never found stale, and what it does not mean to apply has been applied.
Known(p) ==
  /\ view[p].seen \subseteq applied \intersect {hostMigration, taskStatusMigration}
  /\ view[p].vocabulary => taskStatusMigration \in applied
  /\ view[p].ids => publicIDsMigration \in applied
  /\ pc[p] \in {"vocabulary", "ids", "repair"} /\ hostMigration \in view[p].seen => view[p].host
  /\ pc[p] \in {"ids", "repair"} /\ taskStatusMigration \in view[p].seen => view[p].vocabulary
  /\ pc[p] \in {"check", "apply"} => Migrations \ view[p].todo \subseteq applied

\* The records tell what was applied, but for two that can be lost; and the one of them that could be
\* applied again is lost only when the schema has gone past the version whose column it needs.
Recorded ==
  /\ recorded \subseteq applied
  /\ applied \ recorded \subseteq {taskStatusMigration, publicIDsMigration}
  /\ taskStatusMigration \in applied \ recorded => kindMigration \in applied
  /\ vocabularyMigration \in applied => kindMigration \in applied
  /\ again = {}

SchemaInv == Types /\ (branch = {} => Recorded /\ \A p \in Processes : Known(p))

\* What a process knows stays so, for versions are only ever added.
LEMMA KnownKept ==
  ASSUME NEW q \in Processes, Known(q), applied \subseteq applied', pc'[q] = pc[q], view'[q] = view[q]
  PROVE  Known(q)'
  BY DEF Known

\* A version that is applied had not been applied.
LEMMA AppliesNew ==
  ASSUME Types, Recorded, NEW v \in Migrations, BodyRuns(v), v \notin recorded
  PROVE  v \notin applied
  BY OpeningAssumption DEF Recorded, BodyRuns, publicIDsMigration, taskStatusMigration

\* The versions that the code names are different ones, the vocabulary after the kind.
LEMMA NumbersDiffer ==
  /\ hostMigration # taskStatusMigration /\ hostMigration # publicIDsMigration
  /\ taskStatusMigration # publicIDsMigration /\ kindMigration < vocabularyMigration
  /\ kindMigration # vocabularyMigration /\ kindMigration # taskStatusMigration
  /\ ~(vocabularyMigration <= kindMigration)
  BY DEF hostMigration, taskStatusMigration, publicIDsMigration, kindMigration, vocabularyMigration

\* With what is known of the schema, nothing is stale and only what was applied is missing.
LEMMA NothingStale ==
  ASSUME NEW p \in Processes, Known(p), pc[p] \in {"ids", "repair"}
  PROVE  Stale(view[p]) = {} /\ (pc[p] = "repair" => Missing(view[p]) \subseteq applied)
  BY NumbersDiffer DEF Known, Stale, Missing

\* No process knows anything at first.
LEMMA InitSchema == OpeningInit => SchemaInv
<1> SUFFICES ASSUME OpeningInit PROVE SchemaInv
  OBVIOUS
<1>1. Types
  BY InitTypes
<1>2. Created(start) => recorded = {} /\ applied = {} /\ again = {}
  BY DEF OpeningInit
<1>3. ~Created(start) /\ branch = {} => Recorded
  <2>1. ASSUME ~Created(start), branch = {} PROVE Recorded
    <3>1. PICK database \in Databases : recorded = database.recorded /\ applied = database.applied
                                        /\ branch = database.recorded \ database.applied
      BY <2>1 DEF OpeningInit
    <3>2. database.recorded \subseteq database.applied /\ again = {}
      BY <2>1, <3>1 DEF OpeningInit
    <3> QED BY <3>1, <3>2, OpeningAssumption DEF Recorded
  <2> QED BY <2>1
<1>4. ASSUME NEW p \in Processes PROVE Known(p)
  <2>1. pc[p] = "idle" /\ view[p] = NoView
    BY DEF OpeningInit
  <2> QED BY <2>1 DEF Known, NoView
<1> QED BY <1>1, <1>2, <1>3, <1>4 DEF SchemaInv, Recorded

\* Steps of one command, apart from the records and the schema: it learns only what is so.
LEMMA KnowsMore ==
  ASSUME SchemaInv, branch = {}, NEW p \in Processes, Proceed(p) \/ Begin(p) \/ EnsureSampleData(p) \/ Close(p) \/ Crash(p),
         UNCHANGED schema
  PROVE  Known(p)'
<1>1. Known(p) /\ Recorded /\ Types
  BY DEF SchemaInv
<1>2. CASE Begin(p) \/ LstatNew(p) \/ LstatLegacy(p) \/ RenameDir(p) \/ FindTarget(p) \/ Opened(p) \/ EnsureSampleData(p)
           \/ FindLegacy(p) \/ RenameFile(p) \/ CreateMetadata(p)
  <2>1. view'[p] = view[p]
    BY <1>2 DEF Begin, LstatNew, LstatLegacy, RenameDir, FindTarget, Opened, EnsureSampleData, FindLegacy, RenameFile, CreateMetadata
  <2>2. pc'[p] \in {"lstat", "target", "legacy", "rename", "stat", "named", "open", "graph", "wal", "main", "records"}
    BY <1>1, <1>2 DEF Begin, LstatNew, LstatLegacy, RenameDir, FindTarget, Opened, EnsureSampleData, FindLegacy, RenameFile,
                CreateMetadata, Goes, RenameOrder, Types
  <2> QED BY <1>1, <2>1, <2>2 DEF Known, schema
<1>3. CASE RepairFails(p) \/ ApplyFails(p) \/ Close(p) \/ Crash(p) \/ SeedSampleGraph(p)
  <2>1. view'[p] = NoView /\ pc'[p] = "idle"
    BY <1>1, <1>3 DEF RepairFails, ApplyFails, Close, Crash, SeedSampleGraph, Ends, Goes, Types
  <2> QED BY <2>1 DEF Known, NoView
<1>4. CASE Stat(p)
  <2>1. view'[p] = [view[p] EXCEPT !.created = ~Exists("nnx", "nnx.db")] /\ pc'[p] = "metadata"
    BY <1>1, <1>4, Seeing, ZenonT(60) DEF Stat, Goes, Types
  <2> QED BY <1>1, <2>1 DEF Known, schema, Types, Views
<1>5. CASE ReadRecords(p)
  <2>1. view'[p] = [view[p] EXCEPT !.seen = recorded \intersect {hostMigration, taskStatusMigration}] /\ pc'[p] = "host"
    <3>1. view' = [view EXCEPT ![p] = [view[p] EXCEPT !.seen = recorded \intersect {hostMigration, taskStatusMigration}]]
      BY <1>1, <1>5, Seeing DEF ReadRecords, Types
    <3> QED BY <1>1, <1>5, <3>1 DEF ReadRecords, Goes, Types
  <2>2. /\ view'[p].seen = recorded \intersect {hostMigration, taskStatusMigration}
        /\ view'[p].vocabulary = view[p].vocabulary /\ view'[p].ids = view[p].ids
    BY <1>1, <2>1 DEF Types, Views
  <2> QED BY <1>1, <2>1, <2>2 DEF Known, Recorded, schema
<1>6. CASE ReadHost(p)
  <2>1. view'[p] = [view[p] EXCEPT !.host = (hostMigration \in applied)] /\ pc'[p] = "vocabulary"
    BY <1>1, <1>6 DEF ReadHost, Goes, Types, Sees
  <2>2. /\ view'[p].seen = view[p].seen /\ view'[p].host = (hostMigration \in applied)
        /\ view'[p].vocabulary = view[p].vocabulary /\ view'[p].ids = view[p].ids
    <3>1. view[p] \in Views
      BY <1>1 DEF Types
    <3> QED BY <2>1, <3>1, Zenon DEF Views
  <2> QED BY <1>1, <2>1, <2>2 DEF Known, schema
<1>7. CASE ReadVocabulary(p)
  <2>1. view'[p] = [view[p] EXCEPT !.vocabulary = (taskStatusMigration \in applied)] /\ pc'[p] = "ids" /\ pc[p] = "vocabulary"
    BY <1>1, <1>7 DEF ReadVocabulary, Goes, Types, Sees, At
  <2>2. /\ view'[p].seen = view[p].seen /\ view'[p].host = view[p].host
        /\ view'[p].vocabulary = (taskStatusMigration \in applied) /\ view'[p].ids = view[p].ids
    <3>1. view[p] \in Views
      BY <1>1 DEF Types
    <3> QED BY <2>1, <3>1, Zenon DEF Views
  <2> QED BY <1>1, <2>1, <2>2 DEF Known, schema
<1>8. CASE ReadPublicIDs(p)
  <2> DEFINE seen == [view[p] EXCEPT !.ids = (publicIDsMigration \in applied),
                                     !.idsRecorded = (publicIDsMigration \in recorded)]
  <2>1. /\ seen.seen = view[p].seen /\ seen.host = view[p].host /\ seen \in Views
        /\ seen.vocabulary = view[p].vocabulary /\ seen.ids = (publicIDsMigration \in applied)
    <3>1. view[p] \in Views /\ (publicIDsMigration \in applied) \in BOOLEAN /\ (publicIDsMigration \in recorded) \in BOOLEAN
      BY <1>1 DEF Types
    <3>2. seen \in Views
      BY <3>1, Viewed, Zenon
    <3> QED BY <3>1, <3>2, Zenon DEF Views
  <2>2. /\ pc[p] = "ids"
        /\ \/ view'[p] = Loop(seen) /\ pc'[p] = "check"
           \/ view'[p] = seen /\ pc'[p] = "repair"
    BY <1>1, <1>8 DEF ReadPublicIDs, Goes, Types, At
  <2> HIDE DEF seen
  <2>3. CASE view'[p] = Loop(seen) /\ pc'[p] = "check"
    BY <2>1, <2>3, LoopIsView DEF Known
  <2>4. CASE view'[p] = seen /\ pc'[p] = "repair"
    BY <1>1, <2>1, <2>2, <2>4 DEF Known, schema
  <2> QED BY <2>2, <2>3, <2>4
<1>9. CASE CheckVersion(p)
  <2>1. PICK v \in Migrations : /\ pc[p] = "check"
                                /\ IF v \in recorded
                                   THEN Sees(p, "todo", view[p].todo \ {v}) /\ UNCHANGED pc
                                   ELSE Goes(p, "apply") /\ UNCHANGED view
    BY <1>9 DEF CheckVersion, At
  <2>2. CASE v \in recorded
    <3>1. view'[p] = [view[p] EXCEPT !.todo = view[p].todo \ {v}] /\ pc'[p] = "check"
      <4>1. view[p].todo \ {v} \in SUBSET Migrations
        BY <1>1 DEF Types, Views
      <4>2. view' = [view EXCEPT ![p] = [view[p] EXCEPT !.todo = view[p].todo \ {v}]]
        BY <1>1, <2>1, <2>2, <4>1, Seeing
      <4> QED BY <1>1, <2>1, <2>2, <4>2 DEF Types
    <3>2. /\ view'[p].seen = view[p].seen /\ view'[p].todo = view[p].todo \ {v}
          /\ view'[p].vocabulary = view[p].vocabulary /\ view'[p].ids = view[p].ids
      BY <1>1, <3>1 DEF Types, Views
    <3> QED BY <1>1, <2>1, <2>2, <3>1, <3>2 DEF Known, Recorded, schema
  <2>3. CASE v \notin recorded
    BY <1>1, <2>1, <2>3 DEF Known, Goes, Types, schema
  <2> QED BY <2>2, <2>3
<1>10. CASE RepairCommits(p)
  <2>1. view'[p] = Loop(view[p]) /\ pc'[p] = "check" /\ view[p] \in Views
    BY <1>1, <1>10 DEF RepairCommits, Goes, Types
  <2> QED BY <2>1, LoopIsView DEF Known
<1>11. ~Apply(p)
  <2>1. ASSUME Apply(p) PROVE FALSE
    BY <2>1 DEF Apply, Inserted, schema
  <2> QED BY <2>1
<1> QED BY <1>2, <1>3, <1>4, <1>5, <1>6, <1>7, <1>8, <1>9, <1>10, <1>11 DEF Proceed

\* A repair of a database without another branch's records takes no record away.
LEMMA RepairKeeps ==
  ASSUME SchemaInv, branch = {}, NEW p \in Processes, RepairCommits(p)
  PROVE  Recorded' /\ Known(p)' /\ applied' = applied
<1>1. Known(p) /\ Recorded /\ Types
  BY DEF SchemaInv
<1>2. pc[p] = "repair" /\ applied' = applied /\ again' = again
  BY DEF RepairCommits, At
<1>3. Stale(view[p]) = {} /\ Missing(view[p]) \subseteq applied
  BY <1>1, <1>2, NothingStale
<1>4. recorded' = recorded \union Missing(view[p])
  BY <1>3 DEF RepairCommits, Inserted
<1>5. Recorded'
  BY <1>1, <1>2, <1>3, <1>4 DEF Recorded
<1>6. view'[p] = Loop(view[p]) /\ pc'[p] = "check" /\ view[p] \in Views
  BY <1>1 DEF RepairCommits, Goes, Types
<1>7. Known(p)'
  BY <1>6, LoopIsView DEF Known
<1> QED BY <1>2, <1>5, <1>7

\* A migration is applied when it had not been, and in its turn.
LEMMA ApplyKeeps ==
  ASSUME SchemaInv, branch = {}, NEW p \in Processes, Apply(p)
  PROVE  Recorded' /\ Known(p)' /\ applied \subseteq applied'
<1>1. Known(p) /\ Recorded /\ Types
  BY DEF SchemaInv
<1>2. PICK v \in Migrations : /\ pc[p] = "apply" /\ IsNext(p, v) /\ BodyRuns(v)
                              /\ \E result \in Inserted(recorded, {v}) : recorded' = result
                              /\ applied' = applied \union {v}
                              /\ again' = again \union ({v} \intersect applied)
                              /\ Sees(p, "todo", view[p].todo \ {v})
  BY DEF Apply, At
<1>3. recorded' = recorded \union {v} /\ v \notin recorded
  BY <1>2 DEF Inserted
<1>4. v \notin applied /\ again' = again
  BY <1>1, <1>2, <1>3, AppliesNew
<1>5. v = vocabularyMigration => kindMigration \in applied
  <2>1. kindMigration \in Migrations
    BY OpeningAssumption
  <2> QED BY <1>1, <1>2, <2>1, NumbersDiffer DEF Known, IsNext
<1>6. Recorded'
  BY <1>1, <1>2, <1>3, <1>4, <1>5 DEF Recorded
<1>7. pc'[p] = "check"
  BY <1>1 DEF Apply, Goes, Types
<1>8. view'[p] = [view[p] EXCEPT !.todo = view[p].todo \ {v}]
  <2>1. view[p].todo \ {v} \in SUBSET Migrations
    BY <1>1 DEF Types, Views
  <2>2. view' = [view EXCEPT ![p] = [view[p] EXCEPT !.todo = view[p].todo \ {v}]]
    BY <1>1, <1>2, <2>1, Seeing
  <2> QED BY <1>1, <2>2 DEF Types
<1>9. /\ view'[p].seen = view[p].seen /\ view'[p].todo = view[p].todo \ {v}
      /\ view'[p].vocabulary = view[p].vocabulary /\ view'[p].ids = view[p].ids
  BY <1>1, <1>8 DEF Types, Views
<1>10. Known(p)'
  BY <1>1, <1>2, <1>7, <1>9 DEF Known
<1> QED BY <1>2, <1>6, <1>10

\* An older build takes away the record of a version that it mistakes, from a schema that has gone
\* past the column that the version needs.
LEMMA OldBuildKeeps ==
  ASSUME SchemaInv, branch = {}, OldBuild
  PROVE  Recorded' /\ applied' = applied
  BY NumbersDiffer DEF SchemaInv, OldBuild, Recorded

\* The steps of a command leave the others where they are and do not change the history.
LEMMA Alone ==
  ASSUME Types, NEW p \in Processes, Proceed(p) \/ Begin(p) \/ EnsureSampleData(p) \/ Close(p) \/ Crash(p)
  PROVE  /\ \A q \in Processes \ {p} : pc'[q] = pc[q] /\ view'[q] = view[q]
         /\ UNCHANGED history
         /\ UNCHANGED schema \/ RepairCommits(p) \/ Apply(p)
<1>1. CASE Begin(p) \/ LstatNew(p) \/ LstatLegacy(p) \/ RenameDir(p) \/ FindTarget(p) \/ Opened(p) \/ EnsureSampleData(p)
           \/ FindLegacy(p) \/ RenameFile(p) \/ CreateMetadata(p)
  BY <1>1 DEF Begin, LstatNew, LstatLegacy, RenameDir, FindTarget, Opened, EnsureSampleData, FindLegacy, RenameFile,
              CreateMetadata, Goes, Types
<1>2. CASE RepairFails(p) \/ ApplyFails(p) \/ Close(p) \/ Crash(p) \/ SeedSampleGraph(p)
  BY <1>2 DEF RepairFails, ApplyFails, Close, Crash, SeedSampleGraph, Ends, Goes, Types
<1>3. CASE Stat(p) \/ ReadRecords(p) \/ ReadHost(p) \/ ReadVocabulary(p)
  BY <1>3 DEF Stat, ReadRecords, ReadHost, ReadVocabulary, Sees, Goes, Types
<1>4. CASE ReadPublicIDs(p) \/ RepairCommits(p)
  BY <1>4 DEF ReadPublicIDs, RepairCommits, Goes, Types
<1>5. CASE CheckVersion(p)
  BY <1>5 DEF CheckVersion, Sees, Goes, Types
<1>6. CASE Apply(p)
  BY <1>6 DEF Apply, Sees, Goes, Types
<1> QED BY <1>1, <1>2, <1>3, <1>4, <1>5, <1>6 DEF Proceed

\* The schema keeps in order at every step.
LEMMA StepSchema == SchemaInv /\ [OpeningNext]_openingVars => SchemaInv'
<1> SUFFICES ASSUME SchemaInv, [OpeningNext]_openingVars PROVE SchemaInv'
  OBVIOUS
<1>1. Types /\ Types'
  BY StepTypes DEF SchemaInv
<1>2. CASE UNCHANGED openingVars
  BY <1>1, <1>2 DEF SchemaInv, openingVars, Recorded, Known
<1>3. CASE OldBuild
  <2>1. branch' = branch /\ pc' = pc /\ view' = view
    BY <1>3 DEF OldBuild, history
  <2>2. ASSUME branch = {} PROVE Recorded' /\ \A q \in Processes : Known(q)'
    <3>1. Recorded' /\ applied' = applied
      BY <1>3, <2>2, OldBuildKeeps
    <3>2. \A q \in Processes : Known(q)
      BY <2>2 DEF SchemaInv
    <3> QED BY <2>1, <3>1, <3>2, KnownKept
  <2> QED BY <1>1, <2>1, <2>2 DEF SchemaInv
<1>4. ASSUME NEW p \in Processes, Proceed(p) \/ Begin(p) \/ EnsureSampleData(p) \/ Close(p) \/ Crash(p) PROVE SchemaInv'
  <2>1. /\ \A q \in Processes \ {p} : pc'[q] = pc[q] /\ view'[q] = view[q]
        /\ branch' = branch
        /\ UNCHANGED schema \/ RepairCommits(p) \/ Apply(p)
    BY <1>1, <1>4, Alone DEF history
  <2>2. ASSUME branch = {} PROVE Recorded' /\ \A q \in Processes : Known(q)'
    <3>1. Recorded /\ \A q \in Processes : Known(q)
      BY <2>2 DEF SchemaInv
    <3>2. Recorded' /\ Known(p)' /\ applied \subseteq applied'
      <4>1. CASE UNCHANGED schema
        BY <1>4, <2>2, <3>1, <4>1, KnowsMore DEF Recorded, schema
      <4>2. CASE RepairCommits(p)
        BY <2>2, <4>2, RepairKeeps
      <4>3. CASE Apply(p)
        BY <2>2, <4>3, ApplyKeeps
      <4> QED BY <2>1, <4>1, <4>2, <4>3
    <3> QED BY <2>1, <3>1, <3>2, KnownKept
  <2> QED BY <1>1, <2>1, <2>2 DEF SchemaInv
<1> QED BY <1>2, <1>3, <1>4 DEF OpeningNext

\* docs/design/persistence.md: no migration is applied again to a schema that has gone past it,
\* whichever commands find it missing at once, crash or are of an older build.
THEOREM MigrationsApplyOnce == OpeningSpec => []AppliedOnce
<1>1. SchemaInv => AppliedOnce
  BY DEF SchemaInv, Recorded, AppliedOnce
<1> QED BY <1>1, InitSchema, StepSchema, PTL DEF OpeningSpec

------------------------------------------------------------------------------
\* Files

\* The directory nnx while the files of a database that was there are renamed, and when there was none.
Apart == Work("prx.db", "prx.db-wal")
Half == Work("prx.db", "nnx.db-wal")
Together == Work("nnx.db", "nnx.db-wal")
Fresh == [Empty EXCEPT !["nnx.db"] = "created"]

Finding == {"target", "named", "wal", "main"}
Found == {"stat", "metadata"} \union Using

\* A database that was there is in one of three stages, or still in prx's directory; and a command
\* that is past a stage finds the next one.
Moving ==
  /\ \/ "nnx" \in dirs /\ disk["nnx"] \in {Apart, Half, Together}
     \/ "nnx" \notin dirs /\ disk["nnx"] = Empty /\ "prx" \in dirs /\ disk["prx"] = Apart
  /\ \A p \in Processes :
       /\ pc[p] \in Finding \union Found => "nnx" \in dirs
       /\ pc[p] = "main" => disk["nnx"] # Apart
       /\ pc[p] \in Found => disk["nnx"] = Together
       /\ ~view[p].created /\ pc[p] # "graph" /\ samples[p] = "none"

\* Otherwise there is at most a new one, and it is there for whoever uses it.
Making ==
  /\ disk["nnx"] \in {Empty, Fresh}
  /\ "prx" \in dirs => "nnx" \in dirs
  /\ \A p \in Processes : pc[p] \in Using => disk["nnx"] = Fresh

FilesInv ==
  /\ Types
  /\ IF Created(start) THEN Making ELSE Moving
  /\ start \in {"both", "configured"} => disk["prx"] = DiskAt(start)["prx"] /\ "nnx" \in dirs

\* The stages of a database that is moved, file by file.
LEMMA Stages ==
  /\ \A stage \in {Apart, Half, Together, Empty, Fresh} : stage \in [Names -> Contents]
  /\ Apart["prx.db"] = "work" /\ Apart["prx.db-wal"] = "work" /\ Apart["nnx.db"] = "absent" /\ Apart["nnx.db-wal"] = "absent"
  /\ Half["prx.db"] = "work" /\ Half["nnx.db-wal"] = "work" /\ Half["nnx.db"] = "absent" /\ Half["prx.db-wal"] = "absent"
  /\ Together["nnx.db"] = "work" /\ Together["nnx.db-wal"] = "work" /\ Together["prx.db"] = "absent" /\ Together["prx.db-wal"] = "absent"
  /\ Empty["prx.db"] = "absent" /\ Empty["nnx.db"] = "absent" /\ Empty["prx.db-wal"] = "absent"
  /\ Fresh["prx.db"] = "absent" /\ Fresh["nnx.db"] = "created" /\ Fresh["prx.db-wal"] = "absent"
  BY DEF Apart, Half, Together, Fresh, Empty, Work, Names, Contents

\* What renaming one of the files makes of the stages.
LEMMA Renaming ==
  /\ [Apart EXCEPT !["nnx.db-wal"] = Apart["prx.db-wal"], !["prx.db-wal"] = "absent"] = Half
  /\ [Half EXCEPT !["nnx.db"] = Half["prx.db"], !["prx.db"] = "absent"] = Together
  /\ [Empty EXCEPT !["nnx.db"] = "created"] = Fresh
  BY DEF Apart, Half, Together, Fresh, Empty, Work, Names

\* The files at first are at one of the stages.
LEMMA InitFiles == OpeningInit => FilesInv
<1> SUFFICES ASSUME OpeningInit PROVE FilesInv
  OBVIOUS
<1>1. Types /\ start \in FirstPlaces
  BY InitTypes, OpeningAssumption DEF OpeningInit, FirstPlaces
<1>2. disk = DiskAt(start) /\ dirs = DirsAt(start)
  BY DEF OpeningInit
<1>3. \A p \in Processes : pc[p] = "idle" /\ ~view[p].created /\ samples[p] = "none"
  BY DEF OpeningInit, NoView
<1>4. ASSUME Created(start) PROVE Making
  <2>1. start \in {"nothing", "configured"}
    BY <1>4 DEF Created
  <2>2. disk["nnx"] = Empty
    BY <1>2, <2>1, FirstDisk
  <2>3. "prx" \in dirs => "nnx" \in dirs
    BY <1>2, <2>1, FirstDirs DEF FirstPlaces
  <2> QED BY <1>3, <2>2, <2>3 DEF Making, Using
<1>5. ASSUME ~Created(start) PROVE Moving
  <2>1. start \in {"legacy", "both", "current", "half"}
    BY <1>1, <1>5 DEF Created, FirstPlaces
  <2>2. \/ "nnx" \in dirs /\ disk["nnx"] \in {Apart, Half, Together}
        \/ "nnx" \notin dirs /\ disk["nnx"] = Empty /\ "prx" \in dirs /\ disk["prx"] = Apart
    <3>1. CASE start = "legacy"
      BY <1>2, <3>1, FirstDirs, FirstDisk DEF Apart
    <3>2. CASE start \in {"both", "current", "half"}
      BY <1>2, <3>2, FirstDirs, FirstDisk DEF FirstPlaces, Half, Together
    <3> QED BY <2>1, <3>1, <3>2
  <2> QED BY <1>3, <2>2 DEF Moving, Finding, Found, Using
<1>6. start \in {"both", "configured"} => disk["prx"] = DiskAt(start)["prx"] /\ "nnx" \in dirs
  BY <1>2, FirstDirs DEF FirstPlaces
<1> QED BY <1>1, <1>4, <1>5, <1>6 DEF FilesInv

\* The steps on the schema and the sample data: they leave the files alone, are taken by a command
\* that uses the database, and tell nobody that the file was created.
Schema(p) ==
  \/ ReadRecords(p) \/ ReadHost(p) \/ ReadVocabulary(p) \/ ReadPublicIDs(p) \/ RepairCommits(p) \/ RepairFails(p)
  \/ CheckVersion(p) \/ Apply(p) \/ ApplyFails(p) \/ Opened(p) \/ Close(p) \/ Crash(p)

\* The steps from the open database on touch no files, and create nothing.
LEMMA SchemaSteps ==
  ASSUME Types, NEW p \in Processes, Schema(p)
  PROVE  /\ UNCHANGED <<files, samples, start>>
         /\ pc'[p] = "idle" \/ (pc[p] \in Using /\ pc'[p] \in Using \ {"graph"})
         /\ view'[p].created => view[p].created
<1>1. ASSUME RepairFails(p) \/ ApplyFails(p) \/ Close(p) \/ Crash(p) PROVE pc'[p] = "idle" /\ view'[p] = NoView
  BY <1>1 DEF RepairFails, ApplyFails, Close, Crash, Ends, Goes, Types
<1>2. ASSUME ReadRecords(p) \/ ReadHost(p) \/ ReadVocabulary(p) PROVE view'[p].created = view[p].created
  <2>1. view[p] \in Views /\ view \in [Processes -> Views]
    BY DEF Types
  <2>2. CASE ReadRecords(p)
    BY <2>1, <2>2, Zenon DEF ReadRecords, Sees, Views
  <2>3. CASE ReadHost(p)
    BY <2>1, <2>3, Zenon DEF ReadHost, Sees, Views
  <2>4. CASE ReadVocabulary(p)
    BY <2>1, <2>4, Zenon DEF ReadVocabulary, Sees, Views
  <2> QED BY <1>2, <2>2, <2>3, <2>4
<1>3. ASSUME ReadRecords(p) \/ ReadHost(p) \/ ReadVocabulary(p) \/ Opened(p)
      PROVE  pc[p] \in Using /\ pc'[p] \in Using \ {"graph"}
  BY <1>3 DEF ReadRecords, ReadHost, ReadVocabulary, Opened, At, Goes, Using, Types
<1>4. ASSUME ReadPublicIDs(p) PROVE view'[p].created = view[p].created /\ pc[p] \in Using /\ pc'[p] \in Using \ {"graph"}
  <2> DEFINE seen == [view[p] EXCEPT !.ids = (publicIDsMigration \in applied),
                                     !.idsRecorded = (publicIDsMigration \in recorded)]
  <2>1. view[p] \in Views /\ (publicIDsMigration \in applied) \in BOOLEAN /\ (publicIDsMigration \in recorded) \in BOOLEAN
    BY DEF Types
  <2>2. seen \in Views /\ seen.created = view[p].created
    <3>1. seen \in Views
      BY <2>1, Viewed, Zenon
    <3> QED BY <2>1, <3>1, Zenon DEF Views
  <2>3. view' = [view EXCEPT ![p] = seen] \/ view' = [view EXCEPT ![p] = Loop(seen)]
    BY <1>4, Zenon DEF ReadPublicIDs, seen
  <2> HIDE DEF seen
  <2>4. view'[p].created = view[p].created
    BY <2>2, <2>3, LoopIsView DEF Types
  <2> QED BY <1>4, <2>4 DEF ReadPublicIDs, At, Goes, Using, Types
<1>5. ASSUME RepairCommits(p) PROVE view'[p].created = view[p].created /\ pc[p] \in Using /\ pc'[p] \in Using \ {"graph"}
  BY <1>5, LoopIsView DEF RepairCommits, At, Goes, Using, Types
<1>6. ASSUME CheckVersion(p) \/ Apply(p)
      PROVE  view'[p].created = view[p].created /\ pc[p] \in Using /\ pc'[p] \in Using \ {"graph"}
  <2>1. \A todo : Sees(p, "todo", todo) => view'[p].created = view[p].created
    BY Zenon DEF Sees, Types, Views
  <2>2. view'[p].created = view[p].created
    BY <1>6, <2>1 DEF CheckVersion, Apply
  <2> QED BY <1>6, <2>2 DEF CheckVersion, Apply, At, Goes, Using, Types
<1>7. UNCHANGED <<files, samples, start>> /\ (Opened(p) => view' = view)
  BY DEF Schema, ReadRecords, ReadHost, ReadVocabulary, ReadPublicIDs, RepairCommits, RepairFails, CheckVersion, Apply,
         ApplyFails, Opened, Close, Crash, files, history
<1> QED BY <1>1, <1>2, <1>3, <1>4, <1>5, <1>6, <1>7 DEF Schema, NoView

\* Steps that only look at the files.
Look(p) == Begin(p) \/ LstatNew(p) \/ LstatLegacy(p) \/ FindTarget(p) \/ FindLegacy(p)

\* What a process that looks finds is there.
LEMMA LookMoves ==
  ASSUME Types, Moving, NEW p \in Processes, Look(p)
  PROVE  /\ pc'[p] \in Finding \union Found => "nnx" \in dirs
         /\ pc'[p] = "main" => disk["nnx"] # Apart
         /\ pc'[p] \in Found => disk["nnx"] = Together
         /\ pc'[p] # "graph"
<1>1. CASE Begin(p)
  BY <1>1 DEF Begin, Goes, Types, Finding, Found, Using
<1>2. CASE LstatNew(p)
  BY <1>2 DEF LstatNew, Goes, Types, Finding, Found, Using
<1>3. CASE LstatLegacy(p)
  BY <1>3 DEF LstatLegacy, Goes, Types, Finding, Found, Using, Moving
<1>4. CASE FindTarget(p)
  <2>1. "nnx" \in dirs
    BY <1>4 DEF FindTarget, At, Moving, Finding
  <2> QED BY <1>4, <2>1, Stages DEF FindTarget, Goes, Types, Finding, Found, Using, Moving, Exists
<1>5. CASE FindLegacy(p)
  <2>1. "nnx" \in dirs
    BY <1>5 DEF FindLegacy, At, Moving, Finding
  <2> QED BY <1>5, <2>1, Stages DEF FindLegacy, Goes, Types, Finding, Found, Using, Moving, Exists, RenameOrder
<1> QED BY <1>1, <1>2, <1>3, <1>4, <1>5 DEF Look

\* Renaming a file: each command goes at least as far as the one before.
LEMMA RenameMoves ==
  ASSUME Types, Moving, NEW p \in Processes, RenameFile(p)
  PROVE  /\ "nnx" \in dirs /\ disk'["nnx"] \in {Apart, Half, Together}
         /\ disk["nnx"] # Apart => disk'["nnx"] # Apart
         /\ disk["nnx"] = Together => disk'["nnx"] = Together
         /\ (pc'[p] = "main" /\ disk'["nnx"] # Apart) \/ (pc'[p] = "stat" /\ disk'["nnx"] = Together)
         /\ disk'["prx"] = disk["prx"]
<1>1. "nnx" \in dirs /\ disk["nnx"] \in {Apart, Half, Together} /\ disk \in [Dirs -> [Names -> Contents]]
  BY DEF RenameFile, At, Moving, Finding, Types
<1>2. RenameOrder[1] = "wal" /\ RenameOrder[2] = "main"
  BY DEF RenameOrder
<1>3. "nnx" \in Dirs /\ "prx" \in Dirs
  BY DEF Dirs
<1>4. CASE pc[p] = "wal"
  <2>1. Renamed("prx.db-wal", "nnx.db-wal") /\ pc'[p] = "main"
    BY <1>2, <1>4 DEF RenameFile, At, Goes, Types
  <2>2. CASE disk["nnx"] = Apart
    <3>1. disk' = [disk EXCEPT !["nnx"] = [Apart EXCEPT !["nnx.db-wal"] = Apart["prx.db-wal"], !["prx.db-wal"] = "absent"]]
      BY <1>1, <1>3, <2>1, <2>2, Stages DEF Renamed, Exists
    <3>2. disk'["nnx"] = Half /\ disk'["prx"] = disk["prx"]
      BY <1>1, <1>3, <3>1, Renaming
    <3>3. Half # Apart /\ Together # Apart
      BY Stages
    <3> QED BY <1>1, <2>1, <2>2, <3>2, <3>3
  <2>3. CASE disk["nnx"] # Apart
    <3>1. disk' = disk
      BY <1>1, <2>1, <2>3, Stages DEF Renamed, Exists
    <3> QED BY <1>1, <2>1, <2>3, <3>1, Zenon
  <2> QED BY <2>2, <2>3
<1>5. CASE pc[p] = "main"
  <2>1. Renamed("prx.db", "nnx.db") /\ pc'[p] = "stat" /\ disk["nnx"] # Apart
    BY <1>2, <1>5 DEF RenameFile, At, Goes, Types, Moving
  <2>2. CASE disk["nnx"] = Half
    <3>1. disk' = [disk EXCEPT !["nnx"] = [Half EXCEPT !["nnx.db"] = Half["prx.db"], !["prx.db"] = "absent"]]
      BY <1>1, <1>3, <2>1, <2>2, Stages DEF Renamed, Exists
    <3>2. disk'["nnx"] = Together /\ disk'["prx"] = disk["prx"]
      BY <1>1, <1>3, <3>1, Renaming
    <3> QED BY <1>1, <2>1, <2>2, <3>2, Stages
  <2>3. CASE disk["nnx"] = Together
    <3>1. disk' = disk
      BY <1>1, <2>1, <2>3, Stages DEF Renamed, Exists
    <3> QED BY <1>1, <2>1, <2>3, <3>1, Stages
  <2> QED BY <1>1, <2>1, <2>2, <2>3
<1> QED BY <1>4, <1>5 DEF RenameFile, At

\* A database that was there is found.
LEMMA MovingStep ==
  ASSUME Types, Moving, NEW p \in Processes, Proceed(p) \/ Begin(p) \/ EnsureSampleData(p) \/ Close(p) \/ Crash(p)
  PROVE  Moving'
<1>1. \A q \in Processes \ {p} : pc'[q] = pc[q] /\ view'[q] = view[q]
  BY Alone
<1>2. CASE Look(p)
  <2>1. UNCHANGED <<files, samples, view>>
    BY <1>2 DEF Look, Begin, LstatNew, LstatLegacy, FindTarget, FindLegacy
  <2> QED BY <1>1, <1>2, <2>1, LookMoves DEF Moving, files
<1>3. CASE Schema(p)
  BY <1>1, <1>3, SchemaSteps DEF Moving, files, Finding, Found, Using
<1>4. CASE EnsureSampleData(p) \/ SeedSampleGraph(p)
  BY <1>4 DEF EnsureSampleData, SeedSampleGraph, At, Moving
<1>5. CASE RenameDir(p)
  <2>1. UNCHANGED <<view, samples>> /\ pc'[p] = "target"
    BY <1>5 DEF RenameDir, Goes, Types
  <2>2. CASE "prx" \in dirs /\ "nnx" \notin dirs /\ dirs' = {"nnx"} /\ disk'["nnx"] = Apart
    BY <1>1, <2>1, <2>2 DEF Moving, Finding, Found, Using
  <2>3. CASE "nnx" \in dirs /\ UNCHANGED files
    BY <1>1, <2>1, <2>3 DEF Moving, Finding, Found, Using, files
  <2>4. "prx" \in dirs /\ "nnx" \notin dirs => dirs' = {"nnx"} /\ disk'["nnx"] = Apart
    BY <1>5 DEF RenameDir, Moving, Types, Dirs
  <2> QED BY <1>5, <2>2, <2>3, <2>4 DEF RenameDir
<1>6. CASE RenameFile(p)
  <2>1. UNCHANGED <<view, samples, dirs>>
    BY <1>6 DEF RenameFile
  <2> QED BY <1>1, <1>6, <2>1, RenameMoves DEF Moving, Finding, Found, Using
<1>7. CASE Stat(p)
  <2>1. "nnx" \in dirs /\ disk["nnx"] = Together /\ Exists("nnx", "nnx.db")
    BY <1>7, Stages DEF Stat, At, Moving, Found, Exists
  <2>2. UNCHANGED <<dirs, disk, samples>> /\ pc'[p] = "metadata"
    BY <1>7, <2>1 DEF Stat, Goes, Types
  <2>3. view'[p].created = FALSE
    BY <1>7, <2>1, Zenon DEF Stat, Sees, Types, Views
  <2> QED BY <1>1, <2>1, <2>2, <2>3 DEF Moving
<1>8. CASE CreateMetadata(p)
  <2>1. "nnx" \in dirs /\ disk["nnx"] = Together /\ Exists("nnx", "nnx.db")
    BY <1>8, Stages DEF CreateMetadata, At, Moving, Found, Exists
  <2>2. UNCHANGED <<dirs, disk, view, samples>> /\ pc'[p] = "records"
    BY <1>8, <2>1 DEF CreateMetadata, Goes, Types
  <2> QED BY <1>1, <2>1, <2>2 DEF Moving
<1> QED BY <1>2, <1>3, <1>4, <1>5, <1>6, <1>7, <1>8 DEF Proceed, Schema, Look

\* A database that was not there is made once.
LEMMA MakingStep ==
  ASSUME Types, Making, NEW p \in Processes, Proceed(p) \/ Begin(p) \/ EnsureSampleData(p) \/ Close(p) \/ Crash(p)
  PROVE  Making'
<1>1. \A q \in Processes \ {p} : pc'[q] = pc[q]
  BY Alone
<1>2. CASE Look(p)
  <2>1. UNCHANGED files
    BY <1>2 DEF Look, Begin, LstatNew, LstatLegacy, FindTarget, FindLegacy
  <2>2. pc'[p] \notin Using
    BY <1>2 DEF Look, Begin, LstatNew, LstatLegacy, FindTarget, FindLegacy, Goes, Types, Using, RenameOrder
  <2> QED BY <1>1, <2>1, <2>2 DEF Making, files
<1>3. CASE Schema(p)
  BY <1>1, <1>3, SchemaSteps DEF Making, files, Using
<1>4. CASE EnsureSampleData(p) \/ SeedSampleGraph(p)
  BY <1>1, <1>4 DEF EnsureSampleData, SeedSampleGraph, Ends, At, Goes, Types, Making, files, Using
<1>5. CASE RenameDir(p)
  BY <1>1, <1>5 DEF RenameDir, Goes, Types, Making, files, Using
<1>6. CASE RenameFile(p)
  <2>1. disk' = disk
    BY <1>6, Stages DEF RenameFile, Renamed, Exists, Making
  <2>2. pc'[p] \notin Using
    BY <1>6 DEF RenameFile, Goes, Types, Using, RenameOrder
  <2> QED BY <1>1, <1>6, <2>1, <2>2 DEF RenameFile, Making
<1>7. CASE Stat(p)
  BY <1>1, <1>7 DEF Stat, Goes, Types, Making, Using
<1>8. CASE CreateMetadata(p)
  <2>1. disk'["nnx"] = Fresh \/ (disk'["nnx"] = disk["nnx"] /\ disk["nnx"]["nnx.db"] # "absent")
    BY <1>8, Renaming, Stages DEF CreateMetadata, Types, Dirs, Names, Making, Exists
  <2>2. disk'["nnx"] = Fresh
    BY <2>1, Stages DEF Making
  <2> QED BY <1>1, <1>8, <2>2 DEF CreateMetadata, Goes, Types, Making
<1> QED BY <1>2, <1>3, <1>4, <1>5, <1>6, <1>7, <1>8 DEF Proceed, Schema, Look

\* The files stay at one of the stages at every step.
LEMMA StepFiles == FilesInv /\ [OpeningNext]_openingVars => FilesInv'
<1> SUFFICES ASSUME FilesInv, [OpeningNext]_openingVars PROVE FilesInv'
  OBVIOUS
<1>1. Types /\ Types'
  BY StepTypes DEF FilesInv
<1>2. CASE UNCHANGED openingVars
  BY <1>1, <1>2 DEF FilesInv, openingVars, Moving, Making
<1>3. CASE OldBuild
  BY <1>1, <1>3 DEF FilesInv, OldBuild, Moving, Making, files, history
<1>4. ASSUME NEW p \in Processes, Proceed(p) \/ Begin(p) \/ EnsureSampleData(p) \/ Close(p) \/ Crash(p) PROVE FilesInv'
  <2>1. start' = start
    BY <1>1, <1>4, Alone DEF history
  <2>2. IF Created(start) THEN Making' ELSE Moving'
    BY <1>1, <1>4, MovingStep, MakingStep DEF FilesInv
  <2>3. ASSUME "nnx" \in dirs PROVE disk'["prx"] = disk["prx"] /\ "nnx" \in dirs'
    <3>1. CASE UNCHANGED files
      BY <2>3, <3>1 DEF files
    <3>2. CASE RenameDir(p)
      BY <2>3, <3>2 DEF RenameDir, files
    <3>3. CASE RenameFile(p)
      BY <1>1, <2>3, <3>3 DEF RenameFile, Renamed, Types, Dirs
    <3>4. CASE Stat(p) \/ CreateMetadata(p)
      BY <1>1, <2>3, <3>4 DEF Stat, CreateMetadata, Types, Dirs
    <3>5. CASE Begin(p) \/ LstatNew(p) \/ LstatLegacy(p) \/ FindTarget(p) \/ FindLegacy(p)
               \/ EnsureSampleData(p) \/ SeedSampleGraph(p)
      BY <3>1, <3>5 DEF Begin, LstatNew, LstatLegacy, FindTarget, FindLegacy, EnsureSampleData, SeedSampleGraph
    <3>6. CASE Schema(p)
      BY <1>1, <3>1, <3>6, SchemaSteps
    <3> QED BY <1>4, <3>2, <3>3, <3>4, <3>5, <3>6 DEF Proceed, Schema
  <2> QED BY <1>1, <2>1, <2>2, <2>3 DEF FilesInv
<1> QED BY <1>2, <1>3, <1>4 DEF OpeningNext

\* Whoever uses the database uses the one the user worked with, with its WAL, however many commands
\* move it at once and wherever some of them died; a second directory is left alone, and sample data
\* is poured only into a database that was not there before.
THEOREM UsersKeepTheirWork == OpeningSpec => []WorkIsKept
<1>1. FilesInv => WorkIsKept
  <2> SUFFICES ASSUME FilesInv PROVE WorkIsKept
    OBVIOUS
  <2>1. CASE Created(start)
    BY <2>1, Stages DEF FilesInv, WorkIsKept, Making
  <2>2. CASE ~Created(start)
    <3>1. \A p \in Processes : pc[p] \in Using => disk["nnx"]["nnx.db"] = "work"
      BY <2>2, Stages DEF FilesInv, Moving, Found
    <3>2. disk["nnx"]["nnx.db"] = "work" => disk["nnx"]["nnx.db-wal"] = "work"
      <4>1. disk["nnx"] \in {Apart, Half, Together, Empty}
        BY <2>2 DEF FilesInv, Moving
      <4> QED BY <4>1, Stages
    <3> QED BY <2>2, <3>1, <3>2 DEF FilesInv, WorkIsKept, Moving
  <2> QED BY <2>1, <2>2
<1> QED BY <1>1, InitFiles, StepFiles, PTL DEF OpeningSpec

------------------------------------------------------------------------------
\* Run state

\* The phases in which a server holds the lock.
Holding == {"locked", "starting", "serving", "failing", "closing", "releasing"}

\* There is one inode, for the file is never unlinked.
OneFile == \A p \in Servers : handle[p] = file

\* A server holds the lock exactly in the phases Holding.
HoldersLock ==
    /\ \A p \in Servers : phase[p] \in Holding => excl[file] = p
    /\ excl[file] # Nobody => phase[excl[file]] \in Holding

\* While a reader shares the lock nobody holds it.
ReadersShare ==
    \A c \in Clients : client[c].at = "sharing" => c \in shared[file] /\ excl[file] = Nobody

\* A server that the record or a command names is not a new one.
Remembered ==
    /\ text[file] # Nobody => phase[text[file]] # "trying"
    /\ \A c \in Clients : client[c].target # Nobody => phase[client[c].target] # "trying"

\* A stop that acts or waits has a target.
StopHasTarget ==
    \A c \in Clients : client[c].doing = "stop" /\ (client[c].part = "wait" \/ client[c].at = "acting")
                       => client[c].target # Nobody

\* The inductive invariant.
RunStateInv ==
    /\ RunStateTypeOK
    /\ OneFile
    /\ HoldersLock
    /\ RecordIsTheHolders
    /\ ReadersShare
    /\ Remembered
    /\ StopHasTarget

------------------------------------------------------------------------------
\* What the assumption says of the constants, in the form the steps need.
LEMMA Constants ==
    /\ Nobody \notin Servers /\ "not running" \notin Servers /\ "unknown" \notin Servers
    /\ 1 \in 1..Inodes /\ 0 \in 0..(Attempts - 1) /\ Attempts \in Nat
<1>1. Nobody \notin Servers /\ "not running" \notin Servers /\ "unknown" \notin Servers
    BY RunStateAssumption, Zenon
<1>2. Inodes \in Nat \ {0} /\ Attempts \in Nat \ {0}
    BY RunStateAssumption
<1>3. 1 \in 1..Inodes /\ 0 \in 0..(Attempts - 1) /\ Attempts \in Nat
    BY <1>2
<1> QED BY <1>1, <1>3

\* A fresh start, with nothing recorded, satisfies the invariant.
LEMMA InitInv == RunStateInit => RunStateInv
<1> SUFFICES ASSUME RunStateInit PROVE RunStateInv
    OBVIOUS
<1>1. RunStateTypeOK
    BY Constants DEF RunStateInit, RunStateTypeOK, Idle
<1>2. OneFile /\ HoldersLock /\ RecordIsTheHolders /\ ReadersShare /\ Remembered /\ StopHasTarget
    BY Constants DEF RunStateInit, OneFile, HoldersLock, RecordIsTheHolders, ReadersShare, Remembered,
       StopHasTarget, Holding, Idle
<1> QED BY <1>1, <1>2 DEF RunStateInv

------------------------------------------------------------------------------
\* Servers

\* A server that launchd starts is a process that nothing remembers.
LEMMA LaunchdStartsStep ==
    ASSUME RunStateInv, NEW p \in Servers, LaunchdStarts(p)
    PROVE  RunStateInv'
<1>1. RunStateTypeOK'
    BY Constants DEF RunStateInv, RunStateTypeOK, LaunchdStarts, Born, record
<1>2. OneFile'
    BY DEF RunStateInv, RunStateTypeOK, OneFile, LaunchdStarts, Born, record
<1>3. HoldersLock' /\ RecordIsTheHolders' /\ Remembered'
    BY Constants DEF RunStateInv, RunStateTypeOK, HoldersLock, RecordIsTheHolders, Remembered, Holding,
       LaunchdStarts, Born, Unused, record
<1>4. ReadersShare' /\ StopHasTarget'
    BY DEF RunStateInv, ReadersShare, StopHasTarget, LaunchdStarts, Born, record
<1> QED BY <1>1, <1>2, <1>3, <1>4 DEF RunStateInv

\* So is a server that a user starts.
LEMMA UserStartsStep ==
    ASSUME RunStateInv, NEW p \in Servers, UserStarts(p)
    PROVE  RunStateInv'
<1>1. RunStateTypeOK'
    BY Constants DEF RunStateInv, RunStateTypeOK, UserStarts, Born, record, launchd
<1>2. OneFile'
    BY DEF RunStateInv, RunStateTypeOK, OneFile, UserStarts, Born, record
<1>3. HoldersLock' /\ RecordIsTheHolders' /\ Remembered'
    BY Constants DEF RunStateInv, RunStateTypeOK, HoldersLock, RecordIsTheHolders, Remembered, Holding,
       UserStarts, Born, Unused, record
<1>4. ReadersShare' /\ StopHasTarget'
    BY DEF RunStateInv, ReadersShare, StopHasTarget, UserStarts, Born, record
<1> QED BY <1>1, <1>2, <1>3, <1>4 DEF RunStateInv

\* A server takes the lock only when neither a server nor a reader has it.
LEMMA LocksStep ==
    ASSUME RunStateInv, NEW p \in Servers, Locks(p)
    PROVE  RunStateInv'
<1>1. RunStateTypeOK' /\ OneFile'
    BY DEF RunStateInv, RunStateTypeOK, OneFile, Locks, launchd
<1>2. HoldersLock' /\ RecordIsTheHolders' /\ Remembered'
    BY Constants, ZenonT(60) DEF RunStateInv, RunStateTypeOK, OneFile, HoldersLock, RecordIsTheHolders, Remembered, Holding,
       Locks, MayTry, Free
<1>3. ReadersShare' /\ StopHasTarget'
    BY DEF RunStateInv, RunStateTypeOK, OneFile, ReadersShare, StopHasTarget, Locks, Free
<1> QED BY <1>1, <1>2, <1>3 DEF RunStateInv

\* Another attempt stays below the limit.
LEMMA TriesAgainStep ==
    ASSUME RunStateInv, NEW p \in Servers, TriesAgain(p)
    PROVE  RunStateInv'
<1>1. tries[p] + 1 \in 0..(Attempts - 1)
    <2>1. tries[p] \in 0..(Attempts - 1) /\ tries[p] + 1 # Attempts
        BY DEF RunStateInv, RunStateTypeOK, TriesAgain, LastAttempt
    <2>2. Attempts \in Nat
        BY Constants
    <2> QED BY <2>1, <2>2
<1>2. RunStateTypeOK' /\ OneFile'
    BY <1>1 DEF RunStateInv, RunStateTypeOK, OneFile, TriesAgain, record, launchd
<1>3. HoldersLock' /\ RecordIsTheHolders' /\ Remembered' /\ ReadersShare' /\ StopHasTarget'
    BY DEF RunStateInv, HoldersLock, RecordIsTheHolders, Remembered, ReadersShare, StopHasTarget,
       TriesAgain, record
<1> QED BY <1>2, <1>3 DEF RunStateInv

\* A server that exits, and is not named by the lock any more.
LEMMA ExitsTypes ==
    ASSUME RunStateTypeOK, NEW p \in Servers, NEW clean \in BOOLEAN, Exits(p, clean)
    PROVE  /\ phase' = [phase EXCEPT ![p] = "none"] /\ handle' = handle
           /\ phase' \in [Servers -> {"none", "trying", "locked", "starting", "serving", "failing",
                                      "closing", "releasing", "leaving"}]
           /\ tries' \in [Servers -> 0..(Attempts - 1)] /\ met' \in [Servers -> SUBSET Clients]
           /\ failed' \subseteq Servers /\ signalled' \subseteq Servers
           /\ job' \in Servers \cup {Nobody} /\ wanted' \in BOOLEAN
BY Constants DEF RunStateTypeOK, Exits, launchd

\* A refused server exits without having touched the record.
LEMMA RefusedStep ==
    ASSUME RunStateInv, NEW p \in Servers, Refused(p)
    PROVE  RunStateInv'
<1>1. RunStateTypeOK' /\ OneFile'
    BY ExitsTypes DEF RunStateInv, RunStateTypeOK, OneFile, Refused, record
<1>2. phase[p] = "trying" /\ phase' = [phase EXCEPT ![p] = "none"] /\ UNCHANGED <<record, client>>
    BY ExitsTypes DEF RunStateInv, Refused, MayTry
<1>3. HoldersLock' /\ RecordIsTheHolders' /\ Remembered'
    BY <1>2 DEF RunStateInv, RunStateTypeOK, HoldersLock, RecordIsTheHolders, Remembered, Holding, record
<1>4. ReadersShare' /\ StopHasTarget'
    BY <1>2 DEF RunStateInv, ReadersShare, StopHasTarget, record
<1> QED BY <1>1, <1>3, <1>4 DEF RunStateInv

\* The record of a dead predecessor goes before anything else happens.
LEMMA TruncatesStep ==
    ASSUME RunStateInv, NEW p \in Servers, Truncates(p)
    PROVE  RunStateInv'
<1>1. RunStateTypeOK' /\ OneFile'
    BY DEF RunStateInv, RunStateTypeOK, OneFile, Truncates, Emptied, Moves, launchd
<1>2. HoldersLock' /\ RecordIsTheHolders' /\ Remembered'
    BY Constants, ZenonT(60) DEF RunStateInv, RunStateTypeOK, OneFile, HoldersLock, RecordIsTheHolders, Remembered, Holding,
       Truncates, Emptied, Moves
<1>3. ReadersShare' /\ StopHasTarget'
    BY DEF RunStateInv, ReadersShare, StopHasTarget, Truncates
<1> QED BY <1>1, <1>2, <1>3 DEF RunStateInv

\* The holder records itself.
LEMMA RecordsStep ==
    ASSUME RunStateInv, NEW p \in Servers, Records(p)
    PROVE  RunStateInv'
<1>1. RunStateTypeOK' /\ OneFile'
    BY DEF RunStateInv, RunStateTypeOK, OneFile, Records, Moves, launchd
<1>2. HoldersLock' /\ RecordIsTheHolders' /\ Remembered'
    BY Constants, ZenonT(60) DEF RunStateInv, RunStateTypeOK, OneFile, HoldersLock, RecordIsTheHolders, Remembered, Holding,
       Records, Moves
<1>3. ReadersShare' /\ StopHasTarget'
    BY DEF RunStateInv, ReadersShare, StopHasTarget, Records
<1> QED BY <1>1, <1>2, <1>3 DEF RunStateInv

\* A server that fails keeps the lock.
LEMMA FailsStep ==
    ASSUME RunStateInv, NEW p \in Servers, Fails(p)
    PROVE  RunStateInv'
<1>1. /\ phase[p] \in {"starting", "serving"} /\ UNCHANGED <<record, client>>
      /\ phase' = [phase EXCEPT ![p] = IF job = p THEN "failing" ELSE "closing"]
    BY DEF Fails, Moves
<1>2. RunStateTypeOK' /\ OneFile'
    BY <1>1 DEF RunStateInv, RunStateTypeOK, OneFile, Fails, Moves, record, launchd
<1>3. HoldersLock' /\ RecordIsTheHolders' /\ Remembered'
    BY <1>1 DEF RunStateInv, RunStateTypeOK, HoldersLock, RecordIsTheHolders, Remembered, Holding, record
<1>4. ReadersShare' /\ StopHasTarget'
    BY <1>1 DEF RunStateInv, ReadersShare, StopHasTarget, record
<1> QED BY <1>2, <1>3, <1>4 DEF RunStateInv

\* A server that is stopped while it starts keeps the lock until it has closed.
LEMMA InterruptedStep ==
    ASSUME RunStateInv, NEW p \in Servers, Interrupted(p)
    PROVE  RunStateInv'
<1>1. /\ phase[p] = "starting" /\ UNCHANGED <<record, client>>
      /\ phase' = [phase EXCEPT ![p] = "closing"]
    BY DEF Interrupted, Moves
<1>2. RunStateTypeOK' /\ OneFile'
    BY <1>1 DEF RunStateInv, RunStateTypeOK, OneFile, Interrupted, Moves, record, launchd
<1>3. HoldersLock' /\ RecordIsTheHolders' /\ Remembered'
    BY <1>1 DEF RunStateInv, RunStateTypeOK, HoldersLock, RecordIsTheHolders, Remembered, Holding, record
<1>4. ReadersShare' /\ StopHasTarget'
    BY <1>1 DEF RunStateInv, ReadersShare, StopHasTarget, record
<1> QED BY <1>2, <1>3, <1>4 DEF RunStateInv

\* A server that closes keeps the lock.
LEMMA ClosesStep ==
    ASSUME RunStateInv, NEW p \in Servers, Closes(p)
    PROVE  RunStateInv'
<1>1. /\ phase[p] \in {"failing", "serving"} /\ UNCHANGED <<record, client>>
      /\ phase' = [phase EXCEPT ![p] = "closing"]
    BY DEF Closes, Moves
<1>2. RunStateTypeOK' /\ OneFile'
    BY <1>1 DEF RunStateInv, RunStateTypeOK, OneFile, Closes, Moves, record, launchd
<1>3. HoldersLock' /\ RecordIsTheHolders' /\ Remembered'
    BY <1>1 DEF RunStateInv, RunStateTypeOK, HoldersLock, RecordIsTheHolders, Remembered, Holding, record
<1>4. ReadersShare' /\ StopHasTarget'
    BY <1>1 DEF RunStateInv, ReadersShare, StopHasTarget, record
<1> QED BY <1>2, <1>3, <1>4 DEF RunStateInv

\* The record is emptied while the lock is still held.
LEMMA EmptiesStep ==
    ASSUME RunStateInv, NEW p \in Servers, Empties(p)
    PROVE  RunStateInv'
<1>1. RunStateTypeOK' /\ OneFile'
    BY DEF RunStateInv, RunStateTypeOK, OneFile, Empties, Moves, launchd
<1>2. HoldersLock' /\ RecordIsTheHolders' /\ Remembered'
    BY Constants, ZenonT(60) DEF RunStateInv, RunStateTypeOK, OneFile, HoldersLock, RecordIsTheHolders, Remembered, Holding,
       Empties, Moves
<1>3. ReadersShare' /\ StopHasTarget'
    BY DEF RunStateInv, ReadersShare, StopHasTarget, Empties
<1> QED BY <1>1, <1>2, <1>3 DEF RunStateInv

\* A server that gives up the lock leaves.
LEMMA UnlocksStep ==
    ASSUME RunStateInv, NEW p \in Servers, Unlocks(p)
    PROVE  RunStateInv'
<1>1. /\ phase[p] = "releasing" /\ phase' = [phase EXCEPT ![p] = "leaving"]
      /\ file' = file /\ excl' = [excl EXCEPT ![file] = Nobody] /\ UNCHANGED <<shared, text, client>>
    BY DEF RunStateInv, OneFile, Unlocks, Moves, Kept
<1>2. RunStateTypeOK' /\ OneFile'
    <2>1. excl' \in [1..Inodes -> Servers \cup {Nobody}]
        BY <1>1 DEF RunStateInv, RunStateTypeOK
    <2> QED BY <1>1, <2>1 DEF RunStateInv, RunStateTypeOK, OneFile, Unlocks, Moves, launchd
<1>3. HoldersLock' /\ RecordIsTheHolders' /\ Remembered'
    BY <1>1, Constants DEF RunStateInv, RunStateTypeOK, HoldersLock, RecordIsTheHolders, Remembered, Holding
<1>4. ReadersShare' /\ StopHasTarget'
    BY <1>1 DEF RunStateInv, RunStateTypeOK, ReadersShare, StopHasTarget
<1> QED BY <1>2, <1>3, <1>4 DEF RunStateInv

\* A server that has given up the lock exits.
LEMMA QuitsStep ==
    ASSUME RunStateInv, NEW p \in Servers, Quits(p)
    PROVE  RunStateInv'
<1>0. PICK clean \in BOOLEAN : Exits(p, clean)
    BY DEF Quits
<1>1. phase[p] = "leaving" /\ phase' = [phase EXCEPT ![p] = "none"] /\ UNCHANGED <<record, client>>
    BY <1>0, ExitsTypes DEF RunStateInv, Quits
<1>2. RunStateTypeOK' /\ OneFile'
    BY <1>0, <1>1, ExitsTypes DEF RunStateInv, RunStateTypeOK, OneFile, record
<1>3. HoldersLock' /\ RecordIsTheHolders' /\ Remembered'
    BY <1>1 DEF RunStateInv, RunStateTypeOK, HoldersLock, RecordIsTheHolders, Remembered, Holding, record
<1>4. ReadersShare' /\ StopHasTarget'
    BY <1>1 DEF RunStateInv, ReadersShare, StopHasTarget, record
<1> QED BY <1>2, <1>3, <1>4 DEF RunStateInv

\* A dead server loses its lock, and its record stays behind.
LEMMA CrashesStep ==
    ASSUME RunStateInv, NEW p \in Servers, Crashes(p)
    PROVE  RunStateInv'
<1>1. /\ phase' = [phase EXCEPT ![p] = "none"] /\ UNCHANGED <<file, shared, text, client>>
      /\ excl' = [i \in 1..Inodes |-> IF excl[i] = p THEN Nobody ELSE excl[i]]
    BY ExitsTypes DEF RunStateInv, Crashes
<1>2. RunStateTypeOK' /\ OneFile'
    <2>1. PICK clean \in BOOLEAN : Exits(p, clean)
        BY DEF Crashes
    <2>2. excl' \in [1..Inodes -> Servers \cup {Nobody}]
        BY <1>1 DEF RunStateInv, RunStateTypeOK
    <2> QED BY <1>1, <2>1, <2>2, ExitsTypes DEF RunStateInv, RunStateTypeOK, OneFile
<1>3. HoldersLock' /\ RecordIsTheHolders' /\ Remembered'
    BY <1>1, Constants DEF RunStateInv, RunStateTypeOK, HoldersLock, RecordIsTheHolders, Remembered, Holding
<1>4. ReadersShare' /\ StopHasTarget'
    BY <1>1, Constants DEF RunStateInv, RunStateTypeOK, ReadersShare, StopHasTarget
<1> QED BY <1>2, <1>3, <1>4 DEF RunStateInv

\* A server that is to be replaced is only signalled.
LEMMA ReplacedStep ==
    ASSUME RunStateInv, NEW p \in Servers, Replaced(p)
    PROVE  RunStateInv'
<1>1. RunStateTypeOK' /\ OneFile'
    BY DEF RunStateInv, RunStateTypeOK, OneFile, Replaced, record, server
<1>2. HoldersLock' /\ RecordIsTheHolders' /\ Remembered' /\ ReadersShare' /\ StopHasTarget'
    BY DEF RunStateInv, HoldersLock, RecordIsTheHolders, Remembered, ReadersShare, StopHasTarget,
       Replaced, record, server
<1> QED BY <1>1, <1>2 DEF RunStateInv

------------------------------------------------------------------------------
\* Commands

\* What a command hears keeps its record well typed, sets no target that is not
\* the answer, and ends or repeats a wait.
LEMMA HearsTypes ==
    ASSUME RunStateTypeOK, NEW c \in Clients, NEW answer, Hears(c, answer)
    PROVE  /\ client' = [client EXCEPT ![c] = client'[c]]
           /\ client'[c] \in [doing : Commands \cup {"nothing"},
                              part : {"first", "wait"},
                              at : {"idle", "probe", "sharing", "reading", "acting"},
                              target : Servers \cup {Nobody}]
           /\ client'[c].at # "sharing"
           /\ client'[c].target \in {Nobody, client[c].target} \cup ({answer} \cap Servers)
BY ZenonT(60) DEF RunStateTypeOK, Hears, Idle

Command == [doing : Commands \cup {"nothing"},
            part : {"first", "wait"},
            at : {"idle", "probe", "sharing", "reading", "acting"},
            target : Servers \cup {Nobody}]

\* What a step of a command has to guarantee: it changes its own command, shares
\* the lock only when nobody holds it, and names no server that has just started.
LEMMA CommandStep ==
    ASSUME RunStateInv, NEW c \in Clients,
           UNCHANGED <<file, excl, text, phase, handle, tries, met, failed, job>>,
           signalled' \subseteq Servers, wanted' \in BOOLEAN,
           shared' \in [1..Inodes -> SUBSET Clients],
           \A d \in Clients \ {c} : d \in shared[file] => d \in shared'[file],
           client' = [client EXCEPT ![c] = client'[c]], client'[c] \in Command,
           client'[c].at = "sharing" => c \in shared'[file] /\ excl[file] = Nobody,
           client'[c].target # Nobody => phase[client'[c].target] # "trying",
           client'[c].doing = "stop" /\ (client'[c].part = "wait" \/ client'[c].at = "acting")
               => client'[c].target # Nobody
    PROVE  RunStateInv'
<1>0. client \in [Clients -> Command]
    BY DEF RunStateInv, RunStateTypeOK, Command
<1>1. RunStateTypeOK' /\ OneFile'
    BY <1>0 DEF RunStateInv, RunStateTypeOK, OneFile, Command
<1>2. HoldersLock' /\ RecordIsTheHolders'
    BY DEF RunStateInv, HoldersLock, RecordIsTheHolders
<1>3. \A d \in Clients : d # c => client'[d] = client[d]
    BY <1>0
<1>4. ReadersShare'
    BY <1>3 DEF RunStateInv, ReadersShare
<1>5. Remembered'
    BY <1>3 DEF RunStateInv, Remembered
<1>6. StopHasTarget'
    BY <1>3 DEF RunStateInv, StopHasTarget
<1> QED BY <1>1, <1>2, <1>4, <1>5, <1>6 DEF RunStateInv

\* A command begins with a look at the record.
LEMMA BeginsStep ==
    ASSUME RunStateInv, NEW c \in Clients, NEW what \in Commands, Begins(c, what)
    PROVE  RunStateInv'
<1>1. client \in [Clients -> Command] /\ client[c] = Idle
    BY DEF RunStateInv, RunStateTypeOK, Begins, Command
<1>2. client' = [client EXCEPT ![c] = [Idle EXCEPT !.doing = what, !.at = "probe"]]
    BY <1>1 DEF Begins
<1>3. client' = [client EXCEPT ![c] = client'[c]] /\ client'[c] = [Idle EXCEPT !.doing = what, !.at = "probe"]
    BY <1>1, <1>2
<1>4. client'[c] \in Command /\ client'[c].at = "probe" /\ client'[c].part = "first" /\ client'[c].target = Nobody
    BY <1>3 DEF Command, Idle
<1>5. /\ UNCHANGED <<file, excl, text, phase, handle, tries, met, failed, job, shared, signalled, wanted>>
      /\ signalled' \subseteq Servers /\ wanted' \in BOOLEAN /\ shared' \in [1..Inodes -> SUBSET Clients]
    BY DEF RunStateInv, RunStateTypeOK, Begins, record, server, launchd
<1> QED BY <1>3, <1>4, <1>5, CommandStep

\* A reader shares the lock only when no server holds it.
LEMMA ProbesStep ==
    ASSUME RunStateInv, NEW c \in Clients, Probes(c)
    PROVE  RunStateInv'
<1>0. client \in [Clients -> Command] /\ client[c] \in Command /\ file \in 1..Inodes
      /\ shared \in [1..Inodes -> SUBSET Clients]
    BY DEF RunStateInv, RunStateTypeOK, Command
<1>1. /\ UNCHANGED <<file, excl, text, phase, handle, tries, met, failed, job, signalled, wanted>>
      /\ signalled' \subseteq Servers /\ wanted' \in BOOLEAN
    BY DEF RunStateInv, RunStateTypeOK, Probes, server, launchd
<1>a. \/ /\ excl[file] = Nobody /\ shared' = [shared EXCEPT ![file] = shared[file] \cup {c}]
         /\ client' = [client EXCEPT ![c].at = "sharing"]
      \/ shared' = shared /\ client' = [client EXCEPT ![c].at = "reading"]
    BY DEF Probes
<1>2. /\ shared' \in [1..Inodes -> SUBSET Clients]
      /\ \A d \in Clients \ {c} : d \in shared[file] => d \in shared'[file]
    <2>1. CASE shared' = [shared EXCEPT ![file] = shared[file] \cup {c}]
        <3>1. shared'[file] = shared[file] \cup {c} /\ shared' \in [1..Inodes -> SUBSET Clients]
            BY <1>0, <2>1
        <3> QED BY <3>1
    <2>2. CASE shared' = shared
        BY <1>0, <2>2
    <2> QED BY <1>a, <2>1, <2>2
<1>3. \E at \in {"sharing", "reading"} : client' = [client EXCEPT ![c].at = at]
    BY <1>a
<1>4. client' = [client EXCEPT ![c] = client'[c]] /\ client'[c] \in Command
      /\ client'[c].doing = client[c].doing /\ client'[c].part = client[c].part
      /\ client'[c].target = client[c].target /\ client'[c].at \in {"sharing", "reading"}
    BY <1>0, <1>3 DEF Command
<1>5. client'[c].at = "sharing" => c \in shared'[file] /\ excl[file] = Nobody
    <2>1. CASE excl[file] = Nobody /\ shared' = [shared EXCEPT ![file] = shared[file] \cup {c}]
        <3>1. shared'[file] = shared[file] \cup {c}
            BY <1>0, <2>1
        <3> QED BY <2>1, <3>1
    <2>2. CASE client' = [client EXCEPT ![c].at = "reading"]
        BY <1>0, <2>2 DEF Command
    <2> QED BY <1>a, <2>1, <2>2
<1>6. client'[c].target # Nobody => phase[client'[c].target] # "trying"
    BY <1>4 DEF RunStateInv, Remembered
<1>7. client'[c].doing = "stop" /\ (client'[c].part = "wait" \/ client'[c].at = "acting")
          => client'[c].target # Nobody
    BY <1>4 DEF RunStateInv, StopHasTarget
<1> QED BY <1>1, <1>2, <1>4, <1>5, <1>6, <1>7, CommandStep

\* A stop goes on with a target: the server it heard of, or the one it waits for.
LEMMA HearsTarget ==
    ASSUME RunStateInv, NEW c \in Clients, NEW answer \in Servers \cup {"not running", "unknown"},
           Hears(c, answer), client[c].at # "acting",
           client'[c].doing = "stop" /\ (client'[c].part = "wait" \/ client'[c].at = "acting")
    PROVE  client'[c].target # Nobody
<1>0. client \in [Clients -> Command] /\ client[c] \in Command
    BY DEF RunStateInv, RunStateTypeOK, Command
<1>1. ~Enough(c, answer)
    BY <1>0 DEF Hears, Idle
<1>2. client[c].doing = "stop"
    BY <1>0, <1>1 DEF Hears, Command
<1>3. CASE client[c].part = "wait"
    BY <1>0, <1>1, <1>2, <1>3 DEF Hears, Command, RunStateInv, StopHasTarget
<1>4. CASE client[c].part = "first"
    <2>1. answer \in Servers
        BY <1>1, <1>2, <1>4 DEF Enough, Settled
    <2>2. client'[c].target = answer
        BY <1>0, <1>1, <1>2, <1>4, <2>1 DEF Hears, Command
    <2> QED BY <2>1, <2>2, Constants
<1> QED BY <1>0, <1>3, <1>4 DEF Command

\* A reader that got the lock answers "not running" and lets go of it.
LEMMA LetsGoStep ==
    ASSUME RunStateInv, NEW c \in Clients, LetsGo(c)
    PROVE  RunStateInv'
<1>0. file \in 1..Inodes /\ shared \in [1..Inodes -> SUBSET Clients] /\ RunStateTypeOK
    BY DEF RunStateInv, RunStateTypeOK
<1>1. /\ UNCHANGED <<file, excl, text, phase, handle, tries, met, failed, job, signalled, wanted>>
      /\ signalled' \subseteq Servers /\ wanted' \in BOOLEAN
    BY DEF RunStateInv, RunStateTypeOK, LetsGo, server, launchd
<1>2. /\ shared' \in [1..Inodes -> SUBSET Clients]
      /\ \A d \in Clients \ {c} : d \in shared[file] => d \in shared'[file]
    BY <1>0 DEF LetsGo
<1>3. Hears(c, "not running") /\ client[c].at # "acting"
    BY DEF LetsGo
<1>4. /\ client' = [client EXCEPT ![c] = client'[c]] /\ client'[c] \in Command
      /\ client'[c].at # "sharing" /\ client'[c].target \in {Nobody, client[c].target}
    <2>1. {"not running"} \cap Servers = {}
        BY Constants
    <2>2. client'[c].target \in {Nobody, client[c].target} \cup ({"not running"} \cap Servers)
        BY <1>0, <1>3, HearsTypes
    <2> QED BY <1>0, <1>3, <2>1, <2>2, HearsTypes DEF Command
<1>5. client'[c].target # Nobody => phase[client'[c].target] # "trying"
    BY <1>4 DEF RunStateInv, Remembered
<1>6. client'[c].doing = "stop" /\ (client'[c].part = "wait" \/ client'[c].at = "acting")
          => client'[c].target # Nobody
    BY <1>3, HearsTarget
<1> QED BY <1>1, <1>2, <1>4, <1>5, <1>6, CommandStep

\* A reader that did not get the lock answers what is recorded.
LEMMA ReadsStep ==
    ASSUME RunStateInv, NEW c \in Clients, Reads(c)
    PROVE  RunStateInv'
<1> DEFINE answer == IF text[file] = Nobody THEN "unknown" ELSE text[file]
<1>0. RunStateTypeOK /\ text[file] \in Servers \cup {Nobody}
    BY DEF RunStateInv, RunStateTypeOK
<1>1. /\ UNCHANGED <<file, excl, text, phase, handle, tries, met, failed, job, shared, signalled, wanted>>
      /\ signalled' \subseteq Servers /\ wanted' \in BOOLEAN /\ shared' \in [1..Inodes -> SUBSET Clients]
    BY DEF RunStateInv, RunStateTypeOK, Reads, record, server, launchd
<1>2. Hears(c, answer) /\ client[c].at # "acting" /\ answer \in Servers \cup {"not running", "unknown"}
    BY <1>0 DEF Reads
<1>3. /\ client' = [client EXCEPT ![c] = client'[c]] /\ client'[c] \in Command
      /\ client'[c].at # "sharing"
      /\ client'[c].target \in {Nobody, client[c].target} \cup ({answer} \cap Servers)
    BY <1>0, <1>2, HearsTypes DEF Command
<1>4. answer \in Servers => phase[answer] # "trying"
    BY Constants DEF RunStateInv, Remembered
<1>5. client'[c].target # Nobody => phase[client'[c].target] # "trying"
    BY <1>3, <1>4 DEF RunStateInv, Remembered
<1>6. client'[c].doing = "stop" /\ (client'[c].part = "wait" \/ client'[c].at = "acting")
          => client'[c].target # Nobody
    BY <1>2, HearsTarget
<1> QED BY <1>1, <1>3, <1>5, <1>6, CommandStep

\* An action that makes its command wait, or end.
LEMMA ActsStep ==
    ASSUME RunStateInv, NEW c \in Clients, client[c].at = "acting",
           UNCHANGED <<record, server, job>>, signalled' \subseteq Servers, wanted' \in BOOLEAN,
           Waits(c) \/ client' = [client EXCEPT ![c] = Idle]
    PROVE  RunStateInv'
<1>0. client \in [Clients -> Command] /\ client[c] \in Command
    BY DEF RunStateInv, RunStateTypeOK, Command
<1>1. /\ UNCHANGED <<file, excl, text, phase, handle, tries, met, failed, job, shared>>
      /\ shared' \in [1..Inodes -> SUBSET Clients]
    BY DEF RunStateInv, RunStateTypeOK, record, server
<1>2. CASE Waits(c)
    <2>1. /\ client' = [client EXCEPT ![c] = client'[c]] /\ client'[c] \in Command
          /\ client'[c].at = "probe" /\ client'[c].target = client[c].target
          /\ client'[c].doing = client[c].doing
        BY <1>0, <1>2 DEF Waits, Command
    <2>2. client'[c].target # Nobody => phase[client'[c].target] # "trying"
        BY <2>1 DEF RunStateInv, Remembered
    <2>3. client'[c].doing = "stop" => client'[c].target # Nobody
        BY <2>1 DEF RunStateInv, StopHasTarget
    <2> QED BY <1>1, <2>1, <2>2, <2>3, CommandStep
<1>3. CASE client' = [client EXCEPT ![c] = Idle]
    <2>1. /\ client' = [client EXCEPT ![c] = client'[c]] /\ client'[c] = Idle
        BY <1>0, <1>3
    <2>2. /\ client'[c] \in Command /\ client'[c].at = "idle" /\ client'[c].target = Nobody
          /\ client'[c].doing = "nothing"
        BY <2>1 DEF Idle, Command
    <2> QED BY <1>1, <2>1, <2>2, CommandStep
<1> QED BY <1>2, <1>3

\* A signal or a launchctl call makes the command wait, or ends it.
LEMMA ActingSteps ==
    ASSUME RunStateInv, NEW c \in Clients, Kills(c) \/ Starts(c) \/ Restarts(c) \/ Installs(c) \/ SetsUp(c) \/ Skips(c)
    PROVE  RunStateInv'
<1>0. /\ signalled \subseteq Servers /\ wanted \in BOOLEAN /\ job \in Servers \cup {Nobody}
      /\ client[c].target \in Servers \cup {Nobody}
    BY DEF RunStateInv, RunStateTypeOK
<1>1. CASE Kills(c)
    <2>1. client[c].target \in Servers
        BY <1>0, <1>1 DEF Kills, RunStateInv, StopHasTarget
    <2> QED BY <1>0, <1>1, <2>1, ActsStep DEF Kills, launchd
<1>2. CASE Starts(c)
    BY <1>0, <1>2, ActsStep DEF Starts
<1>3. CASE Restarts(c)
    BY <1>0, <1>3, ActsStep DEF Restarts
<1>4. CASE Installs(c)
    BY <1>0, <1>4, ActsStep DEF Installs
<1>5. CASE SetsUp(c) \/ Skips(c)
    BY <1>0, <1>5, ActsStep DEF SetsUp, Skips, launchd
<1> QED BY <1>1, <1>2, <1>3, <1>4, <1>5

\* A wait may end without an answer.
LEMMA TimesOutStep ==
    ASSUME RunStateInv, NEW c \in Clients, TimesOut(c)
    PROVE  RunStateInv'
<1>1. client \in [Clients -> Command] /\ client' = [client EXCEPT ![c] = Idle]
    BY DEF RunStateInv, RunStateTypeOK, Command, TimesOut
<1>2. client' = [client EXCEPT ![c] = client'[c]] /\ client'[c] = Idle
    BY <1>1
<1>3. /\ client'[c] \in Command /\ client'[c].at = "idle" /\ client'[c].target = Nobody
      /\ client'[c].doing = "nothing"
    BY <1>2 DEF Idle, Command
<1>4. /\ UNCHANGED <<file, excl, text, phase, handle, tries, met, failed, job, shared, signalled, wanted>>
      /\ signalled' \subseteq Servers /\ wanted' \in BOOLEAN /\ shared' \in [1..Inodes -> SUBSET Clients]
    BY DEF RunStateInv, RunStateTypeOK, TimesOut, record, server, launchd
<1> QED BY <1>2, <1>3, <1>4, CommandStep

------------------------------------------------------------------------------
\* Every step, of a server or a command, preserves the invariant.
LEMMA NextInv == RunStateInv /\ [RunStateNext]_runStateVars => RunStateInv'
<1> SUFFICES ASSUME RunStateInv, [RunStateNext]_runStateVars PROVE RunStateInv'
    OBVIOUS
<1>1. CASE UNCHANGED runStateVars
    BY <1>1 DEF RunStateInv, RunStateTypeOK, OneFile, HoldersLock, RecordIsTheHolders, ReadersShare, Remembered,
       StopHasTarget, runStateVars, record, server, launchd
<1>2. ASSUME NEW p \in Servers, ServerStep(p) PROVE RunStateInv'
    BY <1>2, LaunchdStartsStep, UserStartsStep, LocksStep, TriesAgainStep, RefusedStep, TruncatesStep, RecordsStep,
       FailsStep, InterruptedStep, ClosesStep, EmptiesStep, UnlocksStep, QuitsStep, CrashesStep, ReplacedStep
       DEF ServerStep
<1>3. ASSUME NEW c \in Clients, ClientStep(c) PROVE RunStateInv'
    BY <1>3, BeginsStep, ProbesStep, LetsGoStep, ReadsStep, ActingSteps, TimesOutStep DEF ClientStep
<1> QED BY <1>1, <1>2, <1>3 DEF RunStateNext

\* The invariant holds in every reachable state, however many servers are
\* started, refused, crash or are replaced, and whatever commands read meanwhile.
THEOREM RunStateInvariant == RunStateSpec => []RunStateInv
<1> QED BY InitInv, NextInv, PTL DEF RunStateSpec

\* The state is always well typed; in particular no server tries more often than Attempts.
THEOREM RunStateTypes == RunStateSpec => []RunStateTypeOK
<1>1. RunStateInv => RunStateTypeOK
    BY DEF RunStateInv
<1> QED BY <1>1, RunStateInvariant, PTL

\* Never do two servers both believe that they are the one.
THEOREM OneServerAlways == RunStateSpec => []OneServer
<1>1. RunStateInv => OneServer
    BY DEF RunStateInv, HoldersLock, Holding, OneServer
<1> QED BY <1>1, RunStateInvariant, PTL

\* What is read while the lock is held was written by its holder.
THEOREM RecordAlwaysTheHolders == RunStateSpec => []RecordIsTheHolders
<1>1. RunStateInv => RecordIsTheHolders
    BY DEF RunStateInv
<1> QED BY <1>1, RunStateInvariant, PTL

\* A stop that is done waiting got the answer "not running", and its target is gone or leaves.
LEMMA StopEnds ==
    ASSUME RunStateInv, [RunStateNext]_runStateVars, NEW c \in Clients,
           client[c].part = "wait", client[c].doing = "stop",
           client[c].at \in {"sharing", "reading"}, client'[c] = Idle
    PROVE  phase[client[c].target] \in {"none", "leaving"}
<1>0. client \in [Clients -> Command]
    BY DEF RunStateInv, RunStateTypeOK, Command
<1>1. client'[c] # client[c]
    BY DEF Idle
<1>2. LetsGo(c) \/ Reads(c)
    <2>1. ASSUME NEW p \in Servers, ServerStep(p) PROVE client' = client
        BY <2>1 DEF ServerStep, LaunchdStarts, UserStarts, Born, Locks, TriesAgain, Refused, Truncates, Records,
           Fails, Interrupted, Closes, Empties, Unlocks, Quits, Crashes, Replaced
    <2>2. ASSUME NEW d \in Clients, ClientStep(d), d # c PROVE client'[c] = client[c]
        BY <1>0, <2>2 DEF ClientStep, Begins, Probes, LetsGo, Reads, Hears, Kills, Starts, Restarts, Waits, TimesOut,
           Installs, SetsUp, Skips
    <2>3. ASSUME ClientStep(c) PROVE LetsGo(c) \/ Reads(c)
        <3>1. ~(\E what \in Commands : Begins(c, what)) /\ ~Probes(c) /\ ~TimesOut(c)
            <4>1. client[c].at # "idle" /\ client[c].at # "probe"
                OBVIOUS
            <4>2. client[c] # Idle
                BY <4>1 DEF Idle
            <4> QED BY <4>1, <4>2 DEF Begins, Probes, TimesOut
        <3>2. ~Kills(c) /\ ~Starts(c) /\ ~Restarts(c) /\ ~Installs(c) /\ ~SetsUp(c) /\ ~Skips(c)
            BY DEF Kills, Starts, Restarts, Installs, SetsUp, Skips
        <3> QED BY <2>3, <3>1, <3>2 DEF ClientStep
    <2> QED BY <1>1, <2>1, <2>2, <2>3 DEF RunStateNext, runStateVars
<1>3. CASE LetsGo(c)
    <2>1. excl[file] = Nobody /\ client[c].target \in Servers /\ phase[client[c].target] # "trying"
        BY <1>3 DEF LetsGo, RunStateInv, RunStateTypeOK, ReadersShare, StopHasTarget, Remembered
    <2>2. phase[client[c].target] \notin Holding
        BY <2>1, Constants DEF RunStateInv, HoldersLock
    <2> QED BY <2>1, <2>2 DEF RunStateInv, RunStateTypeOK, Holding
<1>4. CASE Reads(c)
    <2> DEFINE answer == IF text[file] = Nobody THEN "unknown" ELSE text[file]
    <2>1. Hears(c, answer) /\ answer # "not running"
        BY <1>4, Constants DEF Reads, RunStateInv, RunStateTypeOK
    <2>2. ~Enough(c, answer)
        BY <2>1 DEF Enough, HasStopped, Settled
    <2>3. client'[c].part = "wait"
        BY <1>0, <2>1, <2>2, ZenonT(60) DEF Hears, Command
    <2> QED BY <2>3 DEF Idle
<1> QED BY <1>2, <1>3, <1>4

\* `daemon stop` reports a stop only when the server that it signalled is gone,
\* or has nothing left to do but to exit.
THEOREM StopsMeanGone == RunStateSpec => StopMeansGone
<1>1. RunStateInv /\ [RunStateNext]_runStateVars =>
        [\A c \in Clients : client[c].part = "wait" /\ client[c].doing = "stop"
                             /\ client[c].at \in {"sharing", "reading"} /\ client'[c] = Idle
                             => phase[client[c].target] \in {"none", "leaving"}]_runStateVars
    BY StopEnds
<1> QED BY <1>1, RunStateInvariant, PTL DEF RunStateSpec, StopMeansGone

==============================================================================
