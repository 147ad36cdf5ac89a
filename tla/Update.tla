------------------------------- MODULE Update -------------------------------
(***************************************************************************)
(* The check for new releases and their installation.  Tabs ask the server *)
(* for the update status; one of them at a time goes to GitHub, at most    *)
(* once in an interval, and the answer is kept in one row.  A tab or the   *)
(* command `nnx update` runs the installer of a release, which replaces    *)
(* the binary under the running server; a managed server notices and has   *)
(* launchd restart it.  Releases are numbered in the order of semver.      *)
(* The LaunchAgent is neither installed nor removed meanwhile.             *)
(***************************************************************************)
EXTENDS Integers, FiniteSets

CONSTANTS Tabs,               \* callers of GetUpdateStatus
          Installers,         \* runs of install.sh
          MaxVersion,         \* bound on the releases that are published
          MaxUpdateReleases,  \* how many releases a check keeps
          MaxFailures,        \* bound on checks that fail, callers that leave and servers that die
          MaxInstalls         \* bound on replacements of the binary

ASSUME UpdateAssumption ==
  /\ MaxVersion \in Nat \ {0} /\ MaxFailures \in Nat /\ MaxInstalls \in Nat
  /\ MaxUpdateReleases \in Nat \ {0}

Versions == 1 .. MaxVersion
None == 0

VARIABLES published,  \* the newest release; all older ones are in the feed too
          row,        \* update_check_state: interval over, error, releases
          skipped,    \* update.skipped_version of the configuration
          server,     \* up, managed by launchd, version, file it runs, file its watcher started from,
                      \* and agent: whether the plist of a LaunchAgent is on the disk
          installed,  \* the binary on disk: version and file (a number per replacement)
          tab,        \* step of each tab's request, what its request holds
          shown,      \* the newest release each tab's notice names, None without a notice
          install,    \* step of each installer, its release, the file it made, its result
          failures

vars == <<published, row, skipped, server, installed, tab, shown, install, failures>>

----------------------------------------------------------------------------
(* The rules of domain/update.go.                                          *)

OldestFirst(current, candidates) ==       \* slip: sorted the other way before the cut
  LET newer == {v \in candidates : v > current}
  IN  {v \in newer : Cardinality({w \in newer : w < v}) < MaxUpdateReleases}
\* The newest releases above the current version, as many as are kept.
NewerReleases(current, candidates) ==
  LET newer == {v \in candidates : v > current}
  IN  {v \in newer : Cardinality({w \in newer : w > v}) < MaxUpdateReleases}

Latest(releases) == IF releases = {} THEN None ELSE CHOOSE v \in releases : \A w \in releases : v >= w

ShouldNotify(latest, skip) == latest # None /\ latest > skip

\* What a status names to its reader.
Notice(current, releases, skip) ==
  LET latest == Latest(NewerReleases(current, releases))
  IN  IF ShouldNotify(latest, skip) THEN latest ELSE None

\* A server that runs is taken for the one of a LaunchAgent whose plist is on the disk.
RestartRequired == server.up /\ ~server.agent

----------------------------------------------------------------------------

Idle == [step |-> "idle", releases |-> {}, failed |-> FALSE, gone |-> FALSE]
NotRun == [step |-> "idle", version |-> None, file |-> None, result |-> "none"]

Init ==
  /\ published = 1
  /\ row = [due |-> TRUE, error |-> FALSE, releases |-> {}]
  /\ skipped = None
  /\ server \in [up : {TRUE}, managed : BOOLEAN, agent : BOOLEAN, version : {1}, file : {0}, baseline : {0}]
  /\ server.managed => server.agent
  /\ installed = [version |-> 1, file |-> 0]
  /\ tab = [t \in Tabs |-> Idle]
  /\ shown = [t \in Tabs |-> None]
  /\ install = [i \in Installers |-> NotRun]
  /\ failures = 0

Publish ==
  /\ published < MaxVersion
  /\ published' = published + 1
  /\ UNCHANGED <<row, skipped, server, installed, tab, shown, install, failures>>

Checking(t) == tab[t].step \in {"fetch", "previous", "complete"}

\* The interval of 24 hours is over; a check takes seconds.
IntervalOver ==
  /\ \A t \in Tabs : ~Checking(t)
  /\ row' = [row EXCEPT !.due = TRUE]
  /\ UNCHANGED <<published, skipped, server, installed, tab, shown, install, failures>>

----------------------------------------------------------------------------
(* GetUpdateStatus.                                                        *)

AnyTime == TRUE                           \* slip: without the condition
\* The conditional UPDATE that judges the interval and takes the check in one statement.
Acquired == row.due

AcquireUpdateCheck(t) ==
  /\ server.up
  /\ tab[t].step = "idle"
  /\ IF Acquired
     THEN /\ row' = [row EXCEPT !.due = FALSE]
          /\ tab' = [tab EXCEPT ![t].step = "fetch"]
     ELSE /\ tab' = [tab EXCEPT ![t].step = "read"]
          /\ UNCHANGED row
  /\ UNCHANGED <<published, skipped, server, installed, shown, install, failures>>

CheckReleases(t) ==
  /\ tab[t].step = "fetch"
  /\ ~tab[t].gone
  /\ tab' = [tab EXCEPT ![t].step = "previous",
                        ![t].releases = NewerReleases(server.version, 1 .. published)]
  /\ UNCHANGED <<published, row, skipped, server, installed, shown, install, failures>>

\* No network, a refusal, 20 seconds over.
CheckFails(t) ==
  /\ tab[t].step = "fetch"
  /\ \/ tab[t].gone /\ UNCHANGED failures
     \/ ~tab[t].gone /\ failures < MaxFailures /\ failures' = failures + 1
  /\ tab' = [tab EXCEPT ![t].step = "previous", ![t].failed = TRUE]
  /\ UNCHANGED <<published, row, skipped, server, installed, shown, install>>

\* The request's context ends with the tab.
TabLeaves(t) ==
  /\ tab[t].step \in {"fetch", "previous"}
  /\ ~tab[t].gone
  /\ failures < MaxFailures
  /\ failures' = failures + 1
  /\ tab' = [tab EXCEPT ![t].gone = TRUE]
  /\ UNCHANGED <<published, row, skipped, server, installed, shown, install>>

\* The list that a failed check keeps; it is read with the request's context, so that a tab that has
\* left ends a failed check without a record of it.
ReadPrevious(t) ==
  /\ tab[t].step = "previous"
  /\ tab' = [tab EXCEPT ![t] =
       IF tab[t].failed /\ tab[t].gone THEN Idle
       ELSE IF tab[t].failed THEN [tab[t] EXCEPT !.step = "complete", !.releases = row.releases]
       ELSE [tab[t] EXCEPT !.step = "complete"]]
  /\ UNCHANGED <<published, row, skipped, server, installed, shown, install, failures>>

CompleteUpdateCheck(t) ==
  /\ tab[t].step = "complete"
  /\ row' = [due |-> FALSE, error |-> tab[t].failed, releases |-> tab[t].releases]
  /\ tab' = [tab EXCEPT ![t] = [Idle EXCEPT !.step = "read", !.gone = tab[t].gone]]
  /\ UNCHANGED <<published, skipped, server, installed, shown, install, failures>>

StoredUpdateStatus(t) ==
  /\ tab[t].step = "read"
  /\ tab' = [tab EXCEPT ![t] = Idle]
  /\ shown' = [shown EXCEPT ![t] = IF tab[t].gone THEN @ ELSE Notice(server.version, row.releases, skipped)]
  /\ UNCHANGED <<published, row, skipped, server, installed, install, failures>>

\* "Skip this version" in the dialog, which asks for the status again.
SkipUpdateVersion(t) ==
  /\ server.up
  /\ shown[t] # None
  /\ tab[t].step = "idle"
  /\ skipped' = shown[t]
  /\ tab' = [tab EXCEPT ![t].step = "read"]
  /\ UNCHANGED <<published, row, server, installed, shown, install, failures>>

----------------------------------------------------------------------------
(* Installation: of the release a dialog names, or by the command line.    *)

Starts(i, version) == install' = [install EXCEPT ![i] = [NotRun EXCEPT !.step = "run", !.version = version]]

ApplyUpdate(i, t) ==
  /\ server.up
  /\ install[i].step = "idle"
  /\ NewerReleases(server.version, {shown[t]}) # {}
  /\ Starts(i, shown[t])
  /\ UNCHANGED <<published, row, skipped, server, installed, tab, shown, failures>>

RunUpdate(i) ==
  /\ install[i].step = "idle"
  /\ NewerReleases(installed.version, 1 .. published) # {}
  /\ Starts(i, Latest(NewerReleases(installed.version, 1 .. published)))
  /\ UNCHANGED <<published, row, skipped, server, installed, tab, shown, failures>>

\* mv of the verified binary over the old one.
Replace(i) ==
  /\ install[i].step = "run"
  /\ install[i].file = None
  /\ installed.file < MaxInstalls
  /\ installed' = [version |-> install[i].version, file |-> installed.file + 1]
  /\ install' = [install EXCEPT ![i].file = installed.file + 1]
  /\ UNCHANGED <<published, row, skipped, server, tab, shown, failures>>

\* How a script ends: with its report, silently, with an error, or killed when its time is over.
ResultsOf(i) == IF install[i].file # None THEN {"report", "error"} ELSE {"silent", "error"}

ExitCodeOnly(how) == how # "error"        \* slip: whatever the script has printed
\* Only the report of the script makes an installation succeed.
Succeeds(how) == how = "report"

Reports(i, result) == install' = [install EXCEPT ![i].step = "done", ![i].result = result]

\* The inspection may fail to read the run state, and then no server runs as far as it knows: what is
\* reported is what is reported without a server, though here it has a name of its own.
ApplyResult(i) ==
  /\ install[i].step = "run"
  /\ \E how \in ResultsOf(i) :
       \/ /\ Reports(i, IF ~Succeeds(how) THEN "failed" ELSE IF RestartRequired THEN "restart" ELSE "installed")
          /\ UNCHANGED failures
       \/ /\ Succeeds(how)
          /\ Reports(i, "unseen")
          /\ failures < MaxFailures /\ failures' = failures + 1
  /\ UNCHANGED <<published, row, skipped, server, installed, tab, shown>>

\* The dialog is closed, the command has ended.
Dismiss(i) ==
  /\ install[i].step = "done"
  /\ install' = [install EXCEPT ![i] = NotRun]
  /\ UNCHANGED <<published, row, skipped, server, installed, tab, shown, failures>>

----------------------------------------------------------------------------
(* The server: its watcher compares the file with the one it found first.  *)

NewServer == [server EXCEPT !.up = TRUE, !.version = installed.version, !.file = installed.file, !.baseline = -1]

TakeBaseline ==
  /\ server.up /\ server.baseline = -1
  /\ server' = [server EXCEPT !.baseline = installed.file]
  /\ UNCHANGED <<published, row, skipped, installed, tab, shown, install, failures>>

WatchExecutable ==
  /\ server.up /\ server.managed /\ server.baseline \notin {-1, installed.file}
  /\ server' = NewServer
  /\ tab' = [t \in Tabs |-> Idle]
  /\ UNCHANGED <<published, row, skipped, installed, shown, install, failures>>

ServerDies ==
  /\ server.up
  /\ failures < MaxFailures
  /\ failures' = failures + 1
  /\ server' = [server EXCEPT !.up = FALSE]
  /\ tab' = [t \in Tabs |-> Idle]
  /\ UNCHANGED <<published, row, skipped, installed, shown, install>>

\* launchd starts its server again, unless a user was faster with one of their own.
ServerStarts ==
  /\ ~server.up
  /\ \E managed \in BOOLEAN : /\ managed => server.agent
                             /\ server' = [NewServer EXCEPT !.managed = managed]
  /\ UNCHANGED <<published, row, skipped, installed, tab, shown, install, failures>>

Request(t) ==
  \/ CheckReleases(t) \/ CheckFails(t) \/ ReadPrevious(t) \/ CompleteUpdateCheck(t) \/ StoredUpdateStatus(t)

Next ==
  \/ Publish \/ IntervalOver \/ TakeBaseline \/ WatchExecutable \/ ServerDies \/ ServerStarts
  \/ \E t \in Tabs : AcquireUpdateCheck(t) \/ Request(t) \/ TabLeaves(t) \/ SkipUpdateVersion(t)
  \/ \E i \in Installers : RunUpdate(i) \/ Replace(i) \/ ApplyResult(i) \/ Dismiss(i)
  \/ \E i \in Installers, t \in Tabs : ApplyUpdate(i, t)

\* Time goes on, a tab that comes to the front asks again, requests and servers run.
UpdateFairness ==
  /\ WF_vars(IntervalOver) /\ WF_vars(TakeBaseline) /\ WF_vars(WatchExecutable) /\ WF_vars(ServerStarts)
  /\ \A t \in Tabs : WF_vars(AcquireUpdateCheck(t)) /\ WF_vars(Request(t))
  /\ \A i \in Installers : WF_vars(ApplyResult(i)) /\ WF_vars(Dismiss(i))

UpdateSpec == Init /\ [][Next]_vars /\ UpdateFairness

----------------------------------------------------------------------------
(* Properties.                                                             *)

Rows == [due : BOOLEAN, error : BOOLEAN, releases : SUBSET Versions]
Servers == [up : BOOLEAN, managed : BOOLEAN, agent : BOOLEAN, version : Versions, file : 0 .. MaxInstalls, baseline : -1 .. MaxInstalls]
Binaries == [version : Versions, file : 0 .. MaxInstalls]
RequestStates == [step : {"idle", "fetch", "previous", "complete", "read"},
                  releases : SUBSET Versions, failed : BOOLEAN, gone : BOOLEAN]
InstallStates == [step : {"idle", "run", "done"}, version : Versions \union {None},
                  file : 0 .. MaxInstalls, result : {"none", "failed", "installed", "restart", "unseen"}]

UpdateTypeOK ==
  /\ published \in Versions /\ skipped \in Versions \union {None}
  /\ row \in Rows /\ server \in Servers /\ installed \in Binaries
  /\ tab \in [Tabs -> RequestStates]
  /\ shown \in [Tabs -> Versions \union {None}]
  /\ install \in [Installers -> InstallStates]

\* The unconditional write at the end of a check never overtakes another one: one request goes to
\* GitHub at a time, and what a failed check writes is the list that is still in the row.
OneCheckAtATime ==
  /\ \A s, t \in Tabs : Checking(s) /\ Checking(t) => s = t
  /\ \A t \in Tabs : tab[t].step = "complete" /\ tab[t].failed => tab[t].releases = row.releases

\* A release that stays the newest comes to a tab's notice, is skipped, or runs already: failed checks,
\* tabs that leave, restarts and a long list of releases only delay it.
UpdateArrives ==
  [](published = MaxVersion =>
       <>(\/ \E t \in Tabs : shown[t] = MaxVersion
          \/ skipped = MaxVersion
          \/ server.version = MaxVersion))

\* An installation that is reported as done has replaced the binary.  Whatever restarts since, a server
\* that is older than an installation whose report says nothing of a restart is one of two: a LaunchAgent is
\* installed, and the server is taken for its own; or the run state could not be read.
ReportsAreTrue ==
  \A i \in Installers :
    /\ install[i].result \in {"installed", "restart", "unseen"} => install[i].file # None
    /\ install[i].result = "installed" /\ server.up /\ server.file < install[i].file => server.agent

\* docs/design/updates.md: who runs `nnx serve` outside the LaunchAgent is told that a restart is required,
\* since only launchd's server notices the replacement.  Refuted: the plist on the disk is taken for a server
\* that launchd runs, also when a user's own server holds the run state.
OthersAreTold ==
  \A i \in Installers :
    install[i].result = "installed" /\ server.up /\ server.file < install[i].file => server.managed

\* docs/design/updates.md: a failed check is recorded.  Refuted: when the tab has left, the list to keep
\* cannot be read with its context, and the check ends without a record, the interval taken.
FailuresAreRecorded ==
  [][\A t \in Tabs : tab[t].step = "previous" /\ tab[t].failed /\ server' = server => tab'[t].step # "idle"]_vars
============================================================================
