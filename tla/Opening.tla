------------------------------ MODULE Opening ------------------------------
(***************************************************************************)
(* What happens before a command can use its database: the data directory  *)
(* of the old prx is moved, its database renamed with the WAL, the schema  *)
(* migrated.  Every command does all of it by itself, several at once, and *)
(* may die between any two steps; nothing but the single statements and    *)
(* transactions of SQLite and the renames of the file system is atomic.    *)
(***************************************************************************)
EXTENDS Integers, FiniteSets

CONSTANTS Processes,    \* commands that open the default database
          Setups,       \* those of them that are `nnx setup`
          Migrations,   \* the versions of migrations/*.sql
          Rebuilds,     \* versions whose body only rebuilds tables, so that it can run twice
          Places,       \* where the data may lie when the first new build runs
          Databases,    \* [recorded, applied]: what an old database may hold
          MaxCrashes,   \* bound on crashes
          MaxOldBuilds  \* bound on runs of a build that knows fewer versions

hostMigration == 2
taskStatusMigration == 3
publicIDsMigration == 5
kindMigration == 11        \* drops tasks.kind, which the body of version 3 reads
vocabularyMigration == 12  \* the vocabulary that old builds do not recognize

\* An old release leaves no gap but a lost record of the version that another command may repair, and
\* takes the versions in their order.
ASSUME OpeningAssumption ==
  /\ Setups \subseteq Processes
  /\ Migrations \subseteq Nat /\ IsFiniteSet(Migrations)
  /\ {hostMigration, taskStatusMigration, publicIDsMigration, kindMigration, vocabularyMigration} \subseteq Migrations
  /\ Rebuilds \subseteq Migrations \ {publicIDsMigration}
  /\ Places \subseteq {"nothing", "legacy", "current", "both", "configured", "half"}
  /\ \A database \in Databases :
       /\ database.recorded \subseteq Migrations /\ database.applied \subseteq Migrations
       /\ vocabularyMigration \in database.applied => kindMigration \in database.applied
       /\ database.recorded \subseteq database.applied =>
            /\ database.applied \ database.recorded \subseteq {taskStatusMigration, publicIDsMigration}
            /\ taskStatusMigration \in database.applied \ database.recorded => kindMigration \in database.applied
  /\ MaxCrashes \in Nat /\ MaxOldBuilds \in Nat

Dirs == {"prx", "nnx"}
Names == {"prx.db", "prx.db-wal", "nnx.db", "nnx.db-wal"}
Contents == {"absent", "work", "other", "created"}

Steps == {"lstat", "legacy", "rename", "target", "named", "wal", "main", "stat",
          "metadata", "records", "host", "vocabulary", "ids", "repair", "check", "apply"}

Using == {"records", "host", "vocabulary", "ids", "repair", "check", "apply", "open", "project", "graph"}

VARIABLES dirs,      \* the directories that exist
          disk,      \* what each file in them holds
          recorded,  \* rows of schema_migrations of the database at nnx.db
          applied,   \* versions whose schema that database has
          pc,        \* the next step of each process
          view,      \* what it has read: records, schema, versions left, file created
          samples,   \* how far each process got with the sample data
          start,     \* where the data lay at first
          branch,    \* versions recorded at first for the schema of another branch
          again,     \* versions that were applied to a schema that had them
          crashes, oldBuilds

openingVars == <<dirs, disk, recorded, applied, pc, view, samples, start, branch, again, crashes, oldBuilds>>

files == <<dirs, disk>>
schema == <<recorded, applied, again>>
history == <<start, branch>>
bounds == <<crashes, oldBuilds>>

NoView == [seen |-> {}, host |-> FALSE, vocabulary |-> FALSE, ids |-> FALSE, idsRecorded |-> FALSE,
           todo |-> {}, created |-> FALSE]

----------------------------------------------------------------------------

Empty == [name \in Names |-> "absent"]

Work(main, wal) == [Empty EXCEPT ![main] = "work", ![wal] = "work"]

\* The data directory as each start leaves it: nothing yet, prx's directory alone, the new one, both,
\* a new one that holds only a configuration beside prx's, and a move that stopped half-way.
DirsAt(s) == CASE s = "nothing" -> {}
               [] s = "legacy" -> {"prx"}
               [] s = "current" \/ s = "half" -> {"nnx"}
               [] s = "both" \/ s = "configured" -> {"prx", "nnx"}

DiskAt(s) == [dir \in Dirs |->
  CASE dir = "prx" /\ s = "legacy" -> Work("prx.db", "prx.db-wal")
    [] dir = "prx" /\ s \in {"both", "configured"} -> [Empty EXCEPT !["prx.db"] = "other"]
    [] dir = "nnx" /\ s \in {"current", "both"} -> Work("nnx.db", "nnx.db-wal")
    [] dir = "nnx" /\ s = "half" -> Work("prx.db", "nnx.db-wal")
    [] OTHER -> Empty]

Created(s) == s \in {"nothing", "configured"}

OpeningInit ==
  /\ start \in Places
  /\ dirs = DirsAt(start)
  /\ disk = DiskAt(start)
  /\ \E database \in IF Created(start) THEN {[recorded |-> {}, applied |-> {}]} ELSE Databases :
       /\ recorded = database.recorded
       /\ applied = database.applied
       /\ branch = database.recorded \ database.applied
  /\ pc = [p \in Processes |-> "idle"]
  /\ view = [p \in Processes |-> NoView]
  /\ samples = [p \in Processes |-> "none"]
  /\ again = {}
  /\ crashes = 0
  /\ oldBuilds = 0

At(p, step) == pc[p] = step
Goes(p, step) == pc' = [pc EXCEPT ![p] = step]
Sees(p, field, value) == view' = [view EXCEPT ![p][field] = value]
Ends(p) == Goes(p, "idle") /\ view' = [view EXCEPT ![p] = NoView]
Exists(dir, name) == dir \in dirs /\ disk[dir][name] # "absent"

----------------------------------------------------------------------------
(* datadir: the directory, then the name of the database in it.            *)

Begin(p) ==
  /\ At(p, "idle")
  /\ Goes(p, "lstat")
  /\ UNCHANGED <<files, schema, view, samples, history, bounds>>

LstatNew(p) ==
  /\ At(p, "lstat")
  /\ Goes(p, IF "nnx" \in dirs THEN "target" ELSE "legacy")
  /\ UNCHANGED <<files, schema, view, samples, history, bounds>>

LstatLegacy(p) ==
  /\ At(p, "legacy")
  /\ Goes(p, IF "prx" \in dirs THEN "rename" ELSE "target")
  /\ UNCHANGED <<files, schema, view, samples, history, bounds>>

\* A rename that fails because another process was faster is no failure.
RenameDir(p) ==
  /\ At(p, "rename")
  /\ \/ /\ "prx" \in dirs /\ "nnx" \notin dirs
        /\ dirs' = {"nnx"}
        /\ disk' = [disk EXCEPT !["nnx"] = disk["prx"], !["prx"] = Empty]
        /\ Goes(p, "target")
     \/ /\ "nnx" \in dirs
        /\ Goes(p, "target")
        /\ UNCHANGED files
  /\ UNCHANGED <<schema, view, samples, history, bounds>>

FindTarget(p) ==
  /\ At(p, "target")
  /\ Goes(p, IF Exists("nnx", "nnx.db") THEN "stat" ELSE "named")
  /\ UNCHANGED <<files, schema, view, samples, history, bounds>>

\* The order in which the files are renamed: the WAL before the database itself.
MainFirst == <<"main", "wal">>      \* slip: the database before its WAL
RenameOrder == <<"wal", "main">>

FindLegacy(p) ==
  /\ At(p, "named")
  /\ Goes(p, IF Exists("nnx", "prx.db") THEN RenameOrder[1] ELSE "stat")
  /\ UNCHANGED <<files, schema, view, samples, history, bounds>>

\* os.Rename of one file; one that another process has renamed already is skipped.
Renamed(from, to) ==
  disk' = IF Exists("nnx", from)
          THEN [disk EXCEPT !["nnx"][to] = disk["nnx"][from], !["nnx"][from] = "absent"]
          ELSE disk

RenameFile(p) ==
  /\ \/ At(p, "wal") /\ Renamed("prx.db-wal", "nnx.db-wal")
     \/ At(p, "main") /\ Renamed("prx.db", "nnx.db")
  /\ Goes(p, IF At(p, RenameOrder[1]) THEN RenameOrder[2] ELSE "stat")
  /\ UNCHANGED <<dirs, schema, view, samples, history, bounds>>

----------------------------------------------------------------------------
(* Open: whether the file is there is asked before SQLite creates it.      *)

Stat(p) ==
  /\ At(p, "stat")
  /\ dirs' = dirs \union {"nnx"}
  /\ Sees(p, "created", ~Exists("nnx", "nnx.db"))
  /\ Goes(p, "metadata")
  /\ UNCHANGED <<disk, schema, samples, history, bounds>>

CreateMetadata(p) ==
  /\ At(p, "metadata")
  /\ disk' = IF Exists("nnx", "nnx.db") THEN disk ELSE [disk EXCEPT !["nnx"]["nnx.db"] = "created"]
  /\ Goes(p, "records")
  /\ UNCHANGED <<dirs, schema, view, samples, history, bounds>>

(* Repair: five reads outside the transaction that acts on them.           *)

ReadRecords(p) ==
  /\ At(p, "records")
  /\ Sees(p, "seen", recorded \intersect {hostMigration, taskStatusMigration})
  /\ Goes(p, "host")
  /\ UNCHANGED <<files, schema, samples, history, bounds>>

ReadHost(p) ==
  /\ At(p, "host")
  /\ Sees(p, "host", hostMigration \in applied)
  /\ Goes(p, "vocabulary")
  /\ UNCHANGED <<files, schema, samples, history, bounds>>

ReadVocabulary(p) ==
  /\ At(p, "vocabulary")
  /\ Sees(p, "vocabulary", taskStatusMigration \in applied)
  /\ Goes(p, "ids")
  /\ UNCHANGED <<files, schema, samples, history, bounds>>

Stale(seen) ==
  {v \in seen.seen : (v = hostMigration /\ ~seen.host) \/ (v = taskStatusMigration /\ ~seen.vocabulary)}

NothingMissing(seen) == {}          \* slip: records that were lost stay lost
Missing(seen) ==
  {v \in {taskStatusMigration} : v \notin seen.seen /\ seen.vocabulary}
    \union {v \in {publicIDsMigration} : seen.ids /\ ~seen.idsRecorded}

\* What is left of the reads when the loop over the migrations begins.
Loop(seen) == [NoView EXCEPT !.created = seen.created, !.todo = Migrations]

ReadPublicIDs(p) ==
  /\ At(p, "ids")
  /\ LET seen == [view[p] EXCEPT !.ids = publicIDsMigration \in applied,
                                 !.idsRecorded = publicIDsMigration \in recorded]
         quiet == Stale(seen) = {} /\ Missing(seen) = {}
     IN  /\ view' = [view EXCEPT ![p] = IF quiet THEN Loop(seen) ELSE seen]
         /\ Goes(p, IF quiet THEN "check" ELSE "repair")
  /\ UNCHANGED <<files, schema, samples, history, bounds>>

\* An INSERT of a record that is there already fails, and the transaction with it.
OrIgnored(records, more) == {records \union more}   \* slip: INSERT OR IGNORE
Inserted(records, more) == IF records \intersect more = {} THEN {records \union more} ELSE {}

RepairCommits(p) ==
  /\ At(p, "repair")
  /\ \E result \in Inserted(recorded \ Stale(view[p]), Missing(view[p])) : recorded' = result
  /\ Goes(p, "check")
  /\ view' = [view EXCEPT ![p] = Loop(view[p])]
  /\ UNCHANGED <<files, applied, again, samples, history, bounds>>

RepairFails(p) ==
  /\ At(p, "repair")
  /\ Inserted(recorded \ Stale(view[p]), Missing(view[p])) = {}
  /\ Ends(p)
  /\ UNCHANGED <<files, schema, samples, history, bounds>>

----------------------------------------------------------------------------
(* Migrations in order: a look at the record, then body and record in one  *)
(* transaction.                                                            *)

IsNext(p, v) == v \in view[p].todo /\ \A w \in view[p].todo : v <= w

CheckVersion(p) ==
  /\ At(p, "check")
  /\ \E v \in Migrations :
       /\ IsNext(p, v)
       /\ IF v \in recorded
          THEN Sees(p, "todo", view[p].todo \ {v}) /\ UNCHANGED pc
          ELSE Goes(p, "apply") /\ UNCHANGED view
  /\ UNCHANGED <<files, schema, samples, history, bounds>>

\* Whether SQLite accepts the body: a second time only if it rebuilds what is there.
BodyRuns(v) ==
  \/ v \notin applied
  \/ v \in Rebuilds /\ (v = taskStatusMigration => kindMigration \notin applied)

Apply(p) ==
  /\ At(p, "apply")
  /\ \E v \in Migrations :
       /\ IsNext(p, v)
       /\ BodyRuns(v)
       /\ \E result \in Inserted(recorded, {v}) : recorded' = result
       /\ applied' = applied \union {v}
       /\ again' = again \union ({v} \intersect applied)
       /\ Sees(p, "todo", view[p].todo \ {v})
  /\ Goes(p, "check")
  /\ UNCHANGED <<files, samples, history, bounds>>

ApplyFails(p) ==
  /\ At(p, "apply")
  /\ \E v \in Migrations : IsNext(p, v) /\ (BodyRuns(v) => Inserted(recorded, {v}) = {})
  /\ Ends(p)
  /\ UNCHANGED <<files, schema, samples, history, bounds>>

Opened(p) ==
  /\ At(p, "check")
  /\ view[p].todo = {}
  /\ Goes(p, "open")
  /\ UNCHANGED <<files, schema, view, samples, history, bounds>>

----------------------------------------------------------------------------
(* `nnx setup` pours sample data into a database that its own Open made,   *)
(* in several transactions, and takes the project back when one fails.     *)

EnsureSampleData(p) ==
  /\ At(p, "open")
  /\ p \in Setups
  /\ view[p].created
  /\ samples[p] = "none"
  /\ samples' = [samples EXCEPT ![p] = "partial"]
  /\ Goes(p, "graph")
  /\ UNCHANGED <<files, schema, view, history, bounds>>

SeedSampleGraph(p) ==
  /\ At(p, "graph")
  /\ \E result \in {"whole", "none"} : samples' = [samples EXCEPT ![p] = result]
  /\ Ends(p)
  /\ UNCHANGED <<files, schema, history, bounds>>

Close(p) ==
  /\ At(p, "open")
  /\ Ends(p)
  /\ UNCHANGED <<files, schema, samples, history, bounds>>

Crash(p) ==
  /\ crashes < MaxCrashes
  /\ pc[p] # "idle"
  /\ crashes' = crashes + 1
  /\ Ends(p)
  /\ UNCHANGED <<files, schema, samples, history, oldBuilds>>

\* A build from before vocabularyMigration takes the task status vocabulary for another branch's.
OldBuild ==
  /\ oldBuilds < MaxOldBuilds
  /\ Exists("nnx", "nnx.db")
  /\ vocabularyMigration \in applied
  /\ taskStatusMigration \in recorded
  /\ oldBuilds' = oldBuilds + 1
  /\ recorded' = recorded \ {taskStatusMigration}
  /\ UNCHANGED <<files, applied, again, pc, view, samples, history, crashes>>

Proceed(p) ==
  \/ LstatNew(p) \/ LstatLegacy(p) \/ RenameDir(p) \/ FindTarget(p) \/ FindLegacy(p) \/ RenameFile(p)
  \/ Stat(p) \/ CreateMetadata(p)
  \/ ReadRecords(p) \/ ReadHost(p) \/ ReadVocabulary(p) \/ ReadPublicIDs(p)
  \/ RepairCommits(p) \/ RepairFails(p)
  \/ CheckVersion(p) \/ Apply(p) \/ ApplyFails(p) \/ Opened(p)
  \/ SeedSampleGraph(p)

OpeningNext ==
  \/ OldBuild
  \/ \E p \in Processes : Begin(p) \/ Proceed(p) \/ EnsureSampleData(p) \/ Close(p) \/ Crash(p)

\* A command that was started goes on, and somebody starts the next one.
OpeningFairness ==
  \A p \in Processes : WF_openingVars(Proceed(p)) /\ WF_openingVars(Begin(p)) /\ WF_openingVars(Close(p))

OpeningSpec == OpeningInit /\ [][OpeningNext]_openingVars /\ OpeningFairness

----------------------------------------------------------------------------
(* Properties.                                                             *)

\* Every file, record and process is in a state that the code knows.
OpeningTypeOK ==
  /\ dirs \subseteq Dirs
  /\ disk \in [Dirs -> [Names -> Contents]]
  /\ recorded \subseteq Migrations /\ applied \subseteq Migrations /\ again \subseteq Migrations
  /\ pc \in [Processes -> Steps \union {"idle", "open", "graph"}]
  /\ samples \in [Processes -> {"none", "partial", "whole"}]
  /\ \A p \in Processes : view[p].todo \subseteq Migrations

\* Whoever uses the database uses the one the user worked with, with the commits of its WAL, however
\* many processes move it at once and wherever one of them died; prx's own directory is left alone
\* when there are two; and sample data is only ever in a database that was not there before.
WorkIsKept ==
  /\ \A p \in Processes : pc[p] \in Using =>
       disk["nnx"]["nnx.db"] = IF Created(start) THEN "created" ELSE "work"
  /\ disk["nnx"]["nnx.db"] = "work" => disk["nnx"]["nnx.db-wal"] = "work"
  /\ start \in {"both", "configured"} => disk["prx"] = DiskAt(start)["prx"]
  /\ ~Created(start) => \A p \in Processes : samples[p] = "none"

\* docs/design/persistence.md: no migration is applied again to a schema that has gone past it,
\* whichever processes find it missing at once; for databases without another branch's records.
AppliedOnce == branch = {} => again = {}

\* The same for every database.  Refuted: a process that has found a record stale deletes it after
\* another one has repaired and migrated, and applies the version a second time.
NeverReapplied == again = {}

\* Everybody who goes on trying opens the database: no crash, race or older build shuts it for good.
Opens == branch = {} => \A p \in Processes : []<>(pc[p] = "open")
============================================================================
