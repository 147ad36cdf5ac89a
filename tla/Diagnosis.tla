------------------------------ MODULE Diagnosis ------------------------------
(***************************************************************************)
(* The diagnostic report of `nnx debug` and its RPC                        *)
(* (internal/app/debug.go, internal/cli/debug_command.go,                  *)
(* internal/domain/debug.go).  It reads one section after another, the     *)
(* LaunchAgent and the run state, the configuration, the database file,    *)
(* the records, the last run of the GitHub refresh, and names the problems *)
(* it detects in them.  The machine goes on meanwhile.  Each section fails *)
(* by itself and then says so, and what is read from it is not known: of a *)
(* database that cannot be opened nothing is.                              *)
(*                                                                         *)
(* The texts, the counts and the limits of the lists are left out.         *)
(***************************************************************************)
EXTENDS Naturals, Sequences, FiniteSets

CONSTANTS
    Hosts,          \* the hosts of GitHub
    MaxChanges      \* bounds what happens on the machine

ASSUME DiagnosisAssumption == MaxChanges \in Nat

VARIABLES
    database,   \* opens, the schema is newer than this binary, writable, in order, what cannot be read
    settings,   \* the configuration file: parses, private, has unknown fields, its hosts
    pulls,      \* the hosts with pull requests, and those whose pull requests are stale
    run,        \* the refreshes: when one last completed, and whether it failed
    agent,      \* the LaunchAgent, the server that runs and whether launchd runs it, the run state
    section,    \* the next section that the report reads; 0 when none is made
    report,     \* the sections read
    enduring,   \* what has been wrong ever since the report was begun
    changes

machineVars == <<database, settings, pulls, run, agent>>
diagnosisVars == <<machineVars, section, report, enduring, changes>>

------------------------------------------------------------------------------
\* What can be wrong

\* What the sections ask of an open database, each of which may fail: the migrations
\* applied, a snapshot, the state of the refreshes, the credentials that worked last.
DatabaseReads == {"schema", "tables", "refreshes", "cache"}
Unreadable(read) == read \in database.unread

\* The database opens, or the process that makes the report has it open: that one reads
\* on when the file is locked away.
Reachable == database.opens \/ (section # 0 /\ report.available)

Loads == settings.parses /\ settings.private

\* The hosts with credentials to try. Without a list GitHub.com has its defaults,
\* and the report leaves it to them.
Covered == IF settings.hosts = {} THEN Hosts ELSE settings.hosts
Uncovered == pulls.hosts \ Covered

Installed == agent.plist \in {"current", "stale"}

\* A problem has a code, and one of a host names the host; evidence and advice are left out.
Problem(code, wrong) == IF wrong THEN {[code |-> code, host |-> ""]} ELSE {}
NoAuthMethod(hosts) == {[code |-> "no_auth_method_for_host", host |-> h] : h \in hosts}

\* Each problem that the report can name, by itself.
Wrong ==
    Problem("storage_unavailable", ~Reachable \/ Unreadable("schema"))
    \cup Problem("schema_version_ahead_of_binary", database.ahead)
    \cup Problem("database_not_writable", ~database.writable)
    \cup Problem("database_integrity_errors", database.broken \/ Unreadable("tables"))
    \cup Problem("pull_requests_stale", pulls.stale # {})
    \cup Problem("config_unreadable", ~Loads)
    \cup Problem("config_permissions_too_open", ~settings.private)
    \cup Problem("config_unknown_fields", settings.unknown)
    \cup NoAuthMethod(Uncovered)
    \cup Problem("github_sync_run_error", run.failed \/ ~Loads)
    \cup Problem("github_sync_never_completed", pulls.hosts # {} /\ run.completed = "never")
    \cup Problem("github_sync_overdue", pulls.hosts # {} /\ run.completed = "long_ago")
    \cup Problem("daemon_plist_stale", agent.plist = "stale")
    \cup Problem("daemon_not_running", Installed /\ agent.server = "none")
    \cup Problem("daemon_binary_outdated", Installed /\ agent.server = "older")

------------------------------------------------------------------------------
\* The machine goes on

Alters(change) == /\ changes < MaxChanges /\ changes' = changes + 1 /\ change
                  /\ UNCHANGED <<section, report>>
                  /\ enduring' = enduring \cap Wrong'

\* The file is locked away, replaced, or migrated by a newer version; a table of it is
\* lost, or found again.
DatabaseChanges ==
    /\ \/ database' = [database EXCEPT !.opens = ~@]
       \/ database' = [database EXCEPT !.writable = ~@]
       \/ database' = [database EXCEPT !.broken = ~@]
       \/ database' = [database EXCEPT !.ahead = TRUE]
       \/ \E read \in DatabaseReads :
             database' = [database EXCEPT !.unread = IF Unreadable(read) THEN @ \ {read} ELSE @ \cup {read}]
    /\ UNCHANGED <<settings, pulls, run, agent>>

\* A hand edits the file.
SettingsChange ==
    /\ \/ settings' = [settings EXCEPT !.parses = ~@]
       \/ settings' = [settings EXCEPT !.private = ~@]
       \/ settings' = [settings EXCEPT !.unknown = ~@]
       \/ \E hosts \in SUBSET Hosts : settings' = [settings EXCEPT !.hosts = hosts]
    /\ UNCHANGED <<database, pulls, run, agent>>

\* Attaching refreshes the pull request, which may fail.
PullRequestsChange ==
    /\ \/ \E h \in Hosts, failed \in BOOLEAN :
             pulls' = [hosts |-> pulls.hosts \cup {h},
                       stale |-> IF failed THEN pulls.stale \cup {h} ELSE pulls.stale]
       \/ \E h \in pulls.hosts :
             pulls' = [hosts |-> pulls.hosts \ {h}, stale |-> pulls.stale \ {h}]
    /\ UNCHANGED <<database, settings, run, agent>>

\* A whole refresh completes: with an error and nothing done when the
\* configuration does not load.
RefreshCompletes ==
    /\ \E failed \in BOOLEAN, stale \in SUBSET pulls.hosts :
          /\ ~Loads => failed /\ stale = pulls.stale
          /\ run' = [completed |-> "recently", failed |-> failed]
          /\ pulls' = [pulls EXCEPT !.stale = stale]
    /\ UNCHANGED <<database, settings, agent>>

TimePasses == /\ run.completed = "recently"
              /\ run' = [run EXCEPT !.completed = "long_ago"]
              /\ UNCHANGED <<database, settings, pulls, agent>>

\* The job that was registered goes with its server; the new one starts a server at
\* once, which ends when one outside launchd holds the run state.
Bootstrapped(booted) ==
    LET outside == agent.server # "none" /\ ~agent.managed
    IN  [agent EXCEPT !.plist = "current", !.registered = booted,
                      !.server = IF outside THEN @ ELSE IF booted THEN "same" ELSE "none",
                      !.managed = booted /\ ~outside]

\* What else is at the path of the plist is left alone (writeAtomically).
Install == \E booted \in BOOLEAN :
              agent' = IF agent.plist = "unsafe" THEN agent ELSE Bootstrapped(booted)

Uninstall == agent' = [agent EXCEPT !.plist = "absent", !.registered = FALSE, !.managed = FALSE,
                                    !.server = IF agent.managed THEN "none" ELSE @]

\* `daemon start` asks launchd only when no server is found to run.
Start == /\ agent.registered /\ agent.server = "none"
         /\ agent' = [agent EXCEPT !.server = "same", !.managed = TRUE]

\* `daemon restart` replaces what launchd runs, and nothing else.
Restart == /\ agent.registered /\ agent.server # "none"
           /\ agent' = IF agent.managed THEN [agent EXCEPT !.server = "same"] ELSE agent

\* `nnx serve` by hand, and the end of any server.
Serve == agent.server = "none" /\ agent' = [agent EXCEPT !.server = "same", !.managed = FALSE]
ServerEnds == agent.server # "none" /\ agent' = [agent EXCEPT !.server = "none", !.managed = FALSE]

\* The binary is replaced, at its path or at another than the plist names.
BinaryReplaced ==
    \E moved \in BOOLEAN :
          agent' = [agent EXCEPT !.plist = IF moved /\ @ = "current" THEN "stale" ELSE @,
                                 !.server = IF @ = "same" THEN "older" ELSE @]

\* A symlink at the path of the plist; a run state that cannot be read.
Tampered == \/ agent' = [agent EXCEPT !.plist = "unsafe"]
            \/ agent' = [agent EXCEPT !.readable = ~@]

AgentChanges ==
    /\ Install \/ Uninstall \/ Start \/ Restart \/ Serve \/ ServerEnds \/ BinaryReplaced \/ Tampered
    /\ UNCHANGED <<database, settings, pulls, run>>

MachineChanges == Alters(DatabaseChanges \/ SettingsChange \/ PullRequestsChange
                         \/ RefreshCompletes \/ TimePasses \/ AgentChanges)

------------------------------------------------------------------------------
\* The sections

\* Status.Error takes the failure to read the run state, and then nothing runs as far
\* as the report knows, or the plist: one that is unsafe is not installed.
PlistStatus == IF Installed THEN agent.plist ELSE "unknown"

Inspect == [installed |-> Installed, plist |-> PlistStatus,
            running |-> agent.readable /\ agent.server # "none",
            matches |-> agent.readable => agent.server # "older",
            error   |-> ~agent.readable \/ agent.plist = "unsafe"]

\* What the path says of the file was read before the file itself.
NewDebugConfig == [valid |-> Loads, permissions |-> report.config.permissions,
                   warnings |-> Loads /\ settings.unknown,
                   methods |-> IF Loads THEN settings.hosts ELSE {}]

\* Validate takes a snapshot too, and lists its failure.
NewDebugStorage == [error |-> Unreadable("schema"),
                    ahead |-> ~Unreadable("schema") /\ database.ahead,
                    writable |-> database.writable,
                    broken |-> database.broken \/ Unreadable("tables")]

UnavailableStorage == [error |-> TRUE, ahead |-> FALSE, writable |-> FALSE, broken |-> FALSE]

\* Without a snapshot there are no pull requests, for the section after it neither.
UnavailableData == [error |-> TRUE, hosts |-> {}, stale |-> FALSE]
NewDebugData == IF Unreadable("tables") THEN UnavailableData
                ELSE [error |-> FALSE, hosts |-> pulls.hosts, stale |-> pulls.stale # {}]

\* The configuration is loaded once more, for the interval. Of a state that cannot be
\* read the zero value is left: no refresh ever completed.
UnavailableStatus == [error |-> TRUE, completed |-> "never", runError |-> FALSE]
SyncStatus == IF Unreadable("refreshes") THEN UnavailableStatus
              ELSE [error |-> Unreadable("cache"), completed |-> run.completed,
                    runError |-> run.failed \/ ~Loads]

NoReport == [available |-> FALSE, begun |-> 0, daemon |-> [installed |-> FALSE],
             config |-> [valid |-> FALSE, permissions |-> TRUE, warnings |-> FALSE, methods |-> {}],
             storage |-> UnavailableStorage, records |-> UnavailableData,
             sync |-> UnavailableStatus]

------------------------------------------------------------------------------
\* DetectDebugProblems

StorageProblems(r) ==
    IF r.storage.error THEN Problem("storage_unavailable", TRUE)
    ELSE Problem("schema_version_ahead_of_binary", r.storage.ahead)
         \cup Problem("database_not_writable", ~r.storage.writable)
         \cup Problem("database_integrity_errors", r.storage.broken)
         \cup Problem("pull_requests_stale", r.records.hosts # {} /\ r.records.stale)

HostsWithoutCredentials(r) == IF ~r.config.valid \/ r.config.methods = {} THEN {}
                              ELSE r.records.hosts \ r.config.methods

ConfigProblems(r) ==
    Problem("config_unreadable", ~r.config.valid)
    \cup Problem("config_permissions_too_open", ~r.config.permissions)
    \cup Problem("config_unknown_fields", r.config.warnings)
    \cup NoAuthMethod(HostsWithoutCredentials(r))

\* A slip one could make: the reader is told of the first problem only.
FirstSyncProblem(r) ==
    IF r.sync.runError THEN Problem("github_sync_run_error", TRUE)
    ELSE Problem("github_sync_overdue", r.records.hosts # {} /\ r.sync.completed = "long_ago")

SyncProblems(r) ==
    Problem("github_sync_run_error", r.sync.runError)
    \cup Problem("github_sync_never_completed", r.records.hosts # {} /\ r.sync.completed = "never")
    \cup Problem("github_sync_overdue", r.records.hosts # {} /\ r.sync.completed = "long_ago")

DaemonProblems(r) ==
    IF ~r.daemon.installed THEN {}
    ELSE Problem("daemon_plist_stale", r.daemon.plist = "stale")
         \cup IF ~r.daemon.running THEN Problem("daemon_not_running", TRUE)
              ELSE Problem("daemon_binary_outdated", ~r.daemon.matches)

DetectDebugProblems(r) == StorageProblems(r) \cup ConfigProblems(r) \cup SyncProblems(r)
                          \cup DaemonProblems(r)

------------------------------------------------------------------------------
\* Service.Debug, and what the command reports when the service cannot be opened

Sections == IF report.available
            THEN <<"daemon", "permissions", "config", "storage", "records", "sync">>
            ELSE <<"permissions", "config", "daemon">>

Reads(what, next) == /\ section \in DOMAIN Sections /\ Sections[section] = what
                     /\ report' = next
                     /\ section' = section + 1
                     /\ UNCHANGED <<machineVars, enduring, changes>>

DebugReport == /\ section = 0
               /\ report' = [NoReport EXCEPT !.available = database.opens, !.begun = changes]
               /\ section' = 1
               /\ enduring' = Wrong
               /\ UNCHANGED <<machineVars, changes>>

ReadDaemon == Reads("daemon", [report EXCEPT !.daemon = Inspect])
ReadPermissions == Reads("permissions", [report EXCEPT !.config.permissions = settings.private])
ReadConfig == Reads("config", [report EXCEPT !.config = NewDebugConfig])
ReadStorage == Reads("storage", [report EXCEPT !.storage = NewDebugStorage])
ReadRecords == Reads("records", [report EXCEPT !.records = NewDebugData])
ReadSync == Reads("sync", [report EXCEPT !.sync = SyncStatus])

WriteReport == /\ section = Len(Sections) + 1
               /\ section' = 0
               /\ report' = NoReport /\ enduring' = {}
               /\ UNCHANGED <<machineVars, changes>>

Problems == DetectDebugProblems(report)

------------------------------------------------------------------------------
\* All is well, and no report is made: nnx is new on the machine, or set up, with
\* credentials for one host, and pull requests on the others that no refresh has reached.
DiagnosisIdle ==
    /\ database = [opens |-> TRUE, ahead |-> FALSE, writable |-> TRUE, broken |-> FALSE, unread |-> {}]
    /\ \/ /\ settings = [parses |-> TRUE, private |-> TRUE, unknown |-> FALSE, hosts |-> {}]
          /\ pulls = [hosts |-> {}, stale |-> {}]
          /\ agent = [plist |-> "absent", registered |-> FALSE, server |-> "none", managed |-> FALSE,
                      readable |-> TRUE]
       \/ \E h \in Hosts :
          /\ settings = [parses |-> TRUE, private |-> TRUE, unknown |-> FALSE, hosts |-> {h}]
          /\ pulls = [hosts |-> Hosts \ {h}, stale |-> {}]
          /\ agent = [plist |-> "current", registered |-> TRUE, server |-> "same", managed |-> TRUE,
                      readable |-> TRUE]
    /\ run = [completed |-> "never", failed |-> FALSE]
    /\ section = 0 /\ report = NoReport
    /\ enduring = {} /\ changes = 0

DiagnosisNext == MachineChanges \/ DebugReport \/ ReadDaemon \/ ReadPermissions \/ ReadConfig
                 \/ ReadStorage \/ ReadRecords \/ ReadSync \/ WriteReport

DiagnosisSpec == DiagnosisIdle /\ [][DiagnosisNext]_diagnosisVars

------------------------------------------------------------------------------
\* Properties

\* The sections say that what the problem is read from could not be read. A storage
\* section that fails keeps the stale pull requests too from being named, and the
\* refreshes of pull requests that are not known are never due.
Unknown(code) ==
    \/ report.storage.error /\ code \in {"schema_version_ahead_of_binary", "database_not_writable",
                                        "database_integrity_errors", "pull_requests_stale"}
    \/ report.records.error /\ code \in {"pull_requests_stale", "github_sync_never_completed",
                                        "github_sync_overdue", "no_auth_method_for_host"}
    \/ report.sync.error /\ code \in {"github_sync_run_error", "github_sync_overdue"}
    \/ ~report.config.valid /\ code \in {"config_unknown_fields", "no_auth_method_for_host"}
    \/ report.daemon.error /\ code = "daemon_binary_outdated"

\* What a report may name of a machine that is in order: a server whose run state could
\* not be read is taken for one that does not run, and refreshes whose state could not
\* be read for ones that never completed. The section says so in both cases.
TakenFor(code) == \/ report.daemon.error /\ code = "daemon_not_running"
                  \/ report.sync.error /\ code = "github_sync_never_completed"

\* However the machine changes while the report is made, and whichever of its reads
\* fail: what was wrong all the while is named, or the report says that the section
\* it is read from could not be read.  And a report of a machine that stands still
\* names nothing that is in order but what it could not read.
ReportTellsTheTruth ==
    [][WriteReport =>
         /\ \A problem \in enduring : problem \in Problems \/ Unknown(problem.code)
         /\ report.begun = changes => \A problem \in Problems \ Wrong : TakenFor(problem.code)
      ]_diagnosisVars

\* What the evidence of github_sync_never_completed says, "no completed run": it is named
\* only when there was none. Not so: a state of the refreshes that cannot be read is
\* taken for one without (internal/domain/debug.go, detectDebugSyncProblems).
NeverMeansNever ==
    [][WriteReport /\ report.begun = changes =>
         \A problem \in Problems : problem.code = "github_sync_never_completed" => run.completed = "never"
      ]_diagnosisVars

==============================================================================
