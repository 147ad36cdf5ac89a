----------------------------- MODULE ShownProofs ------------------------------
(***************************************************************************)
(* Theorems about what the user is shown, each for any values of the       *)
(* constants.  Of Update: the types, that checks for a release do not      *)
(* overlap, and that what an installer reports is so.  Of Prompts: a       *)
(* prompt is made of what stood while it was being read.  Of Labels: a     *)
(* label that is typed means the status that it is shown for.  Of          *)
(* Diagnosis: a report tells what was wrong while it was made, and of a    *)
(* machine that stands still nothing that is in order.  Of                 *)
(* PullRequestFacts: both routes to GitHub show the same, and a request    *)
(* for changes that stands is not taken back.  Of Snapshot: a snapshot     *)
(* that mixes several databases shows nothing that was wrong all the while *)
(* it was read.                                                            *)
(***************************************************************************)
EXTENDS Update, Prompts, Labels, Diagnosis, PullRequestFacts, Snapshot, FiniteSetTheorems, WellFoundedInduction, TLAPS

------------------------------------------------------------------------------
\* Updates

\* Natural numbers of any kind have a least one; it is the induction of this module.
LEMMA LeastOf ==
  ASSUME NEW S, S \subseteq Nat, S # {}
  PROVE  \E n \in S : \A m \in S : n <= m
<1>1. IsWellFoundedOn(OpToRel(<, Nat), Nat)
  BY NatLessThanWellFounded
<1>2. PICK n \in S : \A m \in S : <<m, n>> \notin OpToRel(<, Nat)
  BY <1>1, WFMin
<1>3. \A m \in S : ~(m < n)
  BY <1>2 DEF OpToRel
<1> QED BY <1>3

\* An installer that runs has a release.
RunsRelease == \A i \in Installers : install[i].step = "run" => install[i].version # None

UpdateTypeInv == UpdateTypeOK /\ RunsRelease

\* Latest is a member of the releases that it is applied to.
LEMMA LatestExists ==
  ASSUME NEW S, S \subseteq Versions, S # {}
  PROVE  Latest(S) \in S
<1>1. /\ MaxVersion \in Nat
      /\ \A v \in S : v \in Nat /\ v <= MaxVersion
  BY UpdateAssumption DEF Versions
<1> DEFINE T == {n \in Nat : \E v \in S : n = MaxVersion - v}
<1>2. T \subseteq Nat /\ T # {}
  <2>1. PICK v : v \in S
    OBVIOUS
  <2>2. MaxVersion - v \in T
    BY <1>1, <2>1
  <2> QED BY <2>2
<1>3. PICK n \in T : \A m \in T : n <= m
  <2> HIDE DEF T
  <2> QED BY <1>2, LeastOf
<1>4. PICK v \in S : n = MaxVersion - v
  BY <1>3
<1>5. \A w \in S : MaxVersion - w \in T
  BY <1>1
<1>6. \A w \in S : v >= w
  BY <1>1, <1>3, <1>4, <1>5
<1> QED BY <1>6 DEF Latest

\* The newer of some releases are releases.
LEMMA NewerAreReleases ==
  ASSUME NEW current, NEW candidates, candidates \subseteq Versions
  PROVE  NewerReleases(current, candidates) \subseteq Versions
BY DEF NewerReleases

\* The values that the steps begin from have the types they are given.
LEMMA Constructed ==
  /\ Idle \in RequestStates /\ Idle.step = "idle"
  /\ NotRun \in InstallStates /\ NotRun.step = "idle"
  /\ None \notin Versions /\ 1 \in Versions /\ 0 \in 0 .. MaxInstalls
<1> USE UpdateAssumption
<1>1. Idle \in RequestStates /\ Idle.step = "idle"
  BY DEF Idle, RequestStates
<1>2. 0 \in 0 .. MaxInstalls /\ None \notin Versions /\ 1 \in Versions
  BY DEF None, Versions
<1>3. NotRun \in InstallStates /\ NotRun.step = "idle"
  BY <1>2 DEF NotRun, InstallStates, None
<1> QED BY <1>1, <1>2, <1>3

\* At first nothing is checked or installed.
LEMMA UpdateTypeInitial == Init => UpdateTypeInv
<1> SUFFICES ASSUME Init PROVE UpdateTypeInv
  OBVIOUS
<1>1. tab \in [Tabs -> RequestStates] /\ install \in [Installers -> InstallStates] /\ RunsRelease
  BY Constructed DEF Init, RunsRelease
<1>2. /\ published \in Versions /\ skipped \in Versions \union {None} /\ row \in Rows
      /\ installed \in Binaries /\ shown \in [Tabs -> Versions \union {None}]
  BY Constructed DEF Init, Rows, Binaries
<1>3. server \in Servers
  <2>1. 0 \in -1 .. MaxInstalls
    BY UpdateAssumption
  <2> QED BY <2>1, Constructed DEF Init, Servers
<1> QED BY <1>1, <1>2, <1>3 DEF UpdateTypeInv, UpdateTypeOK

\* A step of a request changes its own state, the row or what its tab shows.
LEMMA TabTypes ==
  ASSUME UpdateTypeInv, NEW t \in Tabs,
         AcquireUpdateCheck(t) \/ Request(t) \/ TabLeaves(t) \/ SkipUpdateVersion(t)
  PROVE  UpdateTypeInv'
<1> DEFINE Keeps == UNCHANGED <<published, server, installed, install>>
<1>1. tab[t] \in RequestStates /\ row \in Rows
  BY DEF UpdateTypeInv, UpdateTypeOK
<1>2. ASSUME NEW state \in RequestStates, tab' = [tab EXCEPT ![t] = state],
             row' \in Rows, skipped' \in Versions \union {None}, shown' \in [Tabs -> Versions \union {None}], Keeps
      PROVE  UpdateTypeInv'
  BY <1>2 DEF UpdateTypeInv, UpdateTypeOK, RunsRelease
<1>3. UNCHANGED row => row' \in Rows
  BY <1>1
<1>4. UNCHANGED skipped => skipped' \in Versions \union {None}
  BY DEF UpdateTypeInv, UpdateTypeOK
<1>5. UNCHANGED shown => shown' \in [Tabs -> Versions \union {None}]
  BY DEF UpdateTypeInv, UpdateTypeOK
<1>6. CASE AcquireUpdateCheck(t)
  <2>1. [tab[t] EXCEPT !.step = "fetch"] \in RequestStates /\ [tab[t] EXCEPT !.step = "read"] \in RequestStates
    BY <1>1 DEF RequestStates
  <2>2. [row EXCEPT !.due = FALSE] \in Rows
    BY <1>1 DEF Rows
  <2> QED BY <1>2, <1>3, <1>4, <1>5, <1>6, <2>1, <2>2 DEF AcquireUpdateCheck
<1>7. CASE CheckReleases(t)
  <2>1. NewerReleases(server.version, 1 .. published) \subseteq Versions
    BY NewerAreReleases, UpdateAssumption DEF Versions, UpdateTypeInv, UpdateTypeOK
  <2> DEFINE found == [[tab[t] EXCEPT !.step = "previous"] EXCEPT !.releases = NewerReleases(server.version, 1 .. published)]
  <2>2. found \in RequestStates
    BY <1>1, <2>1 DEF RequestStates
  <2>3. tab' = [tab EXCEPT ![t] = found]
    BY <1>7 DEF CheckReleases, UpdateTypeInv, UpdateTypeOK
  <2> QED BY <1>2, <1>3, <1>4, <1>5, <1>7, <2>2, <2>3 DEF CheckReleases
<1>8. CASE CheckFails(t) \/ TabLeaves(t)
  <2>1. PICK state \in RequestStates : tab' = [tab EXCEPT ![t] = state]
    <3>1. CASE CheckFails(t)
      <4>1. [[tab[t] EXCEPT !.step = "previous"] EXCEPT !.failed = TRUE] \in RequestStates
        BY <1>1 DEF RequestStates
      <4>2. tab' = [tab EXCEPT ![t] = [[tab[t] EXCEPT !.step = "previous"] EXCEPT !.failed = TRUE]]
        BY <3>1 DEF CheckFails, UpdateTypeInv, UpdateTypeOK
      <4> QED BY <4>1, <4>2
    <3>2. CASE TabLeaves(t)
      <4>1. [tab[t] EXCEPT !.gone = TRUE] \in RequestStates
        BY <1>1 DEF RequestStates
      <4> QED BY <3>2, <4>1 DEF TabLeaves
    <3> QED BY <1>8, <3>1, <3>2
  <2> QED BY <1>2, <1>3, <1>4, <1>5, <1>8, <2>1 DEF CheckFails, TabLeaves
<1>9. CASE ReadPrevious(t)
  <2>1. /\ [[tab[t] EXCEPT !.step = "complete"] EXCEPT !.releases = row.releases] \in RequestStates
        /\ [tab[t] EXCEPT !.step = "complete"] \in RequestStates
    BY <1>1 DEF RequestStates, Rows
  <2> QED BY <1>2, <1>3, <1>4, <1>5, <1>9, <2>1, Constructed DEF ReadPrevious
<1>10. CASE CompleteUpdateCheck(t)
  <2>1. [Idle EXCEPT !.step = "read", !.gone = tab[t].gone] \in RequestStates
    BY <1>1 DEF RequestStates, Idle
  <2>2. [due |-> FALSE, error |-> tab[t].failed, releases |-> tab[t].releases] \in Rows
    BY <1>1 DEF RequestStates, Rows
  <2> QED BY <1>2, <1>4, <1>5, <1>10, <2>1, <2>2 DEF CompleteUpdateCheck
<1>11. CASE StoredUpdateStatus(t)
  <2>1. row.releases \subseteq Versions
    BY <1>1 DEF Rows
  <2>2. Notice(server.version, row.releases, skipped) \in Versions \union {None}
    <3> DEFINE newer == NewerReleases(server.version, row.releases)
    <3>1. newer \subseteq Versions
      BY <2>1, NewerAreReleases
    <3>2. Latest(newer) \in Versions \union {None}
      <4>1. CASE newer = {}
        BY <4>1 DEF Latest
      <4>2. CASE newer # {}
        <5> HIDE DEF newer
        <5> QED BY <3>1, <4>2, LatestExists
      <4> QED BY <4>1, <4>2
    <3> QED BY <3>2 DEF Notice
  <2>3. shown' \in [Tabs -> Versions \union {None}]
    BY <1>11, <2>2 DEF StoredUpdateStatus, UpdateTypeInv, UpdateTypeOK
  <2> QED BY <1>2, <1>3, <1>4, <1>11, <2>3, Constructed DEF StoredUpdateStatus
<1>12. CASE SkipUpdateVersion(t)
  <2>1. [tab[t] EXCEPT !.step = "read"] \in RequestStates
    BY <1>1 DEF RequestStates
  <2>2. skipped' \in Versions \union {None}
    BY <1>12 DEF SkipUpdateVersion, UpdateTypeInv, UpdateTypeOK
  <2> QED BY <1>2, <1>3, <1>5, <1>12, <2>1, <2>2 DEF SkipUpdateVersion
<1> QED BY <1>6, <1>7, <1>8, <1>9, <1>10, <1>11, <1>12 DEF Request

\* A step of an installer starts it at a release, replaces the file or ends it.
LEMMA InstallerTypes ==
  ASSUME UpdateTypeInv, NEW i \in Installers,
         RunUpdate(i) \/ Replace(i) \/ ApplyResult(i) \/ Dismiss(i) \/ \E t \in Tabs : ApplyUpdate(i, t)
  PROVE  UpdateTypeInv'
<1>1. install[i] \in InstallStates /\ installed \in Binaries /\ install \in [Installers -> InstallStates]
  BY DEF UpdateTypeInv, UpdateTypeOK
<1>2. ASSUME NEW state \in InstallStates, install' = [install EXCEPT ![i] = state],
             state.step = "run" => state.version # None, installed' \in Binaries,
             UNCHANGED <<published, row, skipped, server, tab, shown>>
      PROVE  UpdateTypeInv'
  BY <1>1, <1>2 DEF UpdateTypeInv, UpdateTypeOK, RunsRelease
<1>3. CASE RunUpdate(i) \/ \E t \in Tabs : ApplyUpdate(i, t)
  <2>1. PICK version \in Versions : Starts(i, version)
    <3>1. CASE RunUpdate(i)
      <4>1. NewerReleases(installed.version, 1 .. published) \subseteq Versions
        BY NewerAreReleases, UpdateAssumption DEF Versions, UpdateTypeInv, UpdateTypeOK
      <4> QED BY <3>1, <4>1, LatestExists DEF RunUpdate
    <3>2. CASE \E t \in Tabs : ApplyUpdate(i, t)
      <4>1. PICK t \in Tabs : ApplyUpdate(i, t)
        BY <3>2
      <4>2. shown[t] > server.version
        BY <4>1 DEF ApplyUpdate, NewerReleases
      <4>3. server.version \in Versions /\ shown[t] \in Versions \union {None}
        BY DEF UpdateTypeInv, UpdateTypeOK, Servers
      <4>4. shown[t] \in Versions
        BY <4>2, <4>3, UpdateAssumption DEF Versions, None
      <4> QED BY <4>1, <4>4 DEF ApplyUpdate
    <3> QED BY <1>3, <3>1, <3>2
  <2> DEFINE started == [[NotRun EXCEPT !.step = "run"] EXCEPT !.version = version]
  <2>2. started \in InstallStates /\ started.version = version
    BY Constructed DEF InstallStates
  <2>3. UNCHANGED <<published, row, skipped, server, installed, tab, shown>>
    BY <1>3 DEF RunUpdate, ApplyUpdate
  <2>4. version # None
    BY Constructed
  <2>5. install' = [install EXCEPT ![i] = started]
    BY <2>1 DEF Starts
  <2> HIDE DEF started
  <2> QED BY <1>1, <1>2, <2>2, <2>3, <2>4, <2>5
<1>4. CASE Replace(i)
  <2>1. installed.file + 1 \in 0 .. MaxInstalls
    BY <1>1, <1>4, UpdateAssumption DEF Replace, Binaries
  <2>2. [install[i] EXCEPT !.file = installed.file + 1] \in InstallStates
    BY <1>1, <2>1 DEF InstallStates
  <2>3. install[i].version \in Versions /\ install[i].version # None
    BY <1>1, <1>4 DEF Replace, InstallStates, UpdateTypeInv, RunsRelease
  <2>4. installed' \in Binaries
    BY <1>4, <2>1, <2>3 DEF Replace, Binaries
  <2>5. [install[i] EXCEPT !.file = installed.file + 1].version # None
    BY <1>1, <2>3 DEF InstallStates
  <2> QED BY <1>2, <1>4, <2>2, <2>4, <2>5 DEF Replace
<1>5. CASE ApplyResult(i)
  <2>1. PICK result \in {"none", "failed", "installed", "restart", "unseen"} :
             Reports(i, result)
    BY <1>5 DEF ApplyResult
  <2> DEFINE ended == [[install[i] EXCEPT !.step = "done"] EXCEPT !.result = result]
  <2>2. ended \in InstallStates /\ ended.step = "done"
    BY <1>1 DEF InstallStates
  <2>3. install' = [install EXCEPT ![i] = ended]
    BY <1>1, <2>1 DEF Reports
  <2> HIDE DEF ended
  <2>4. installed' \in Binaries /\ UNCHANGED <<published, row, skipped, server, tab, shown>>
    BY <1>1, <1>5 DEF ApplyResult
  <2>5. ended.step # "run"
    BY <2>2
  <2> QED BY <1>2, <2>2, <2>3, <2>4, <2>5
<1>6. CASE Dismiss(i)
  BY <1>1, <1>2, <1>6, Constructed DEF Dismiss
<1> QED BY <1>3, <1>4, <1>5, <1>6

\* Every step keeps the types.
LEMMA UpdateTypesKept ==
  ASSUME UpdateTypeInv, [Next]_vars PROVE UpdateTypeInv'
<1> USE DEF UpdateTypeInv, UpdateTypeOK, RunsRelease
<1>1. CASE Publish
  BY <1>1, UpdateAssumption DEF Publish, Versions
<1>2. CASE IntervalOver
  BY <1>2 DEF IntervalOver, Rows
<1>3. CASE TakeBaseline
  <2>1. installed.file \in -1 .. MaxInstalls
    BY UpdateAssumption DEF Binaries
  <2> QED BY <1>3, <2>1 DEF TakeBaseline, Servers
<1>4. CASE WatchExecutable \/ ServerStarts
  <2>1. server' \in Servers
    <3>1. -1 \in -1 .. MaxInstalls
      BY UpdateAssumption
    <3>2. installed.version \in Versions /\ installed.file \in 0 .. MaxInstalls
      BY DEF Binaries
    <3>3. NewServer \in Servers
      BY <3>1, <3>2 DEF NewServer, Servers
    <3>4. \A managed \in BOOLEAN : [NewServer EXCEPT !.managed = managed] \in Servers
      BY <3>3 DEF Servers
    <3> QED BY <1>4, <3>3, <3>4 DEF WatchExecutable, ServerStarts
  <2>2. tab' \in [Tabs -> RequestStates]
    BY <1>4, Constructed DEF WatchExecutable, ServerStarts
  <2>3. UNCHANGED <<published, row, skipped, installed, shown, install>>
    BY <1>4 DEF WatchExecutable, ServerStarts
  <2> QED BY <2>1, <2>2, <2>3
<1>5. CASE ServerDies
  BY <1>5, Constructed DEF ServerDies, Servers
<1>6. CASE UNCHANGED vars
  BY <1>6 DEF vars
<1> QED BY <1>1, <1>2, <1>3, <1>4, <1>5, <1>6, TabTypes, InstallerTypes DEF Next

------------------------------------------------------------------------------
\* Who goes to GitHub has taken the interval.
CheckTakesInterval == \A t \in Tabs : Checking(t) => ~row.due

CheckInv == CheckTakesInterval /\ OneCheckAtATime

\* At first nobody checks.
LEMMA CheckInitial == Init => CheckInv
BY DEF Init, CheckInv, CheckTakesInterval, OneCheckAtATime, Checking, Idle

\* A request goes to GitHub only by taking the interval, which the row then no longer offers.
LEMMA CheckStep ==
  ASSUME UpdateTypeInv, CheckInv, NEW t \in Tabs,
         AcquireUpdateCheck(t) \/ Request(t) \/ TabLeaves(t) \/ SkipUpdateVersion(t)
  PROVE  CheckInv'
<1> USE DEF UpdateTypeInv, UpdateTypeOK, Rows, RequestStates, CheckInv, CheckTakesInterval, OneCheckAtATime, Checking
<1>1. CASE AcquireUpdateCheck(t)
  <2>1. CASE row.due
    <3>1. row' = [row EXCEPT !.due = FALSE] /\ tab' = [tab EXCEPT ![t].step = "fetch"] /\ UNCHANGED server
      BY <1>1, <2>1 DEF AcquireUpdateCheck, Acquired
    <3>2. ~row'.due
      BY <3>1
    <3>3. \A s \in Tabs : ~Checking(s)
      BY <2>1
    <3> QED BY <3>1, <3>2, <3>3
  <2>2. CASE ~row.due
    <3>1. tab' = [tab EXCEPT ![t].step = "read"] /\ UNCHANGED <<row, server>>
      BY <1>1, <2>2 DEF AcquireUpdateCheck, Acquired
    <3> QED BY <3>1
  <2> QED BY <2>1, <2>2
<1>2. CASE CheckReleases(t)
  BY <1>2 DEF CheckReleases
<1>3. CASE CheckFails(t)
  BY <1>3 DEF CheckFails
<1>4. CASE TabLeaves(t)
  BY <1>4 DEF TabLeaves
<1>5. CASE ReadPrevious(t)
  BY <1>5 DEF ReadPrevious, Idle
<1>6. CASE CompleteUpdateCheck(t)
  BY <1>6 DEF CompleteUpdateCheck, Idle
<1>7. CASE StoredUpdateStatus(t)
  BY <1>7 DEF StoredUpdateStatus, Idle
<1>8. CASE SkipUpdateVersion(t)
  BY <1>8 DEF SkipUpdateVersion
<1> QED BY <1>1, <1>2, <1>3, <1>4, <1>5, <1>6, <1>7, <1>8 DEF Request

\* The interval is over only when no check is under way, and a restart ends those there are.
LEMMA CheckKept ==
  ASSUME UpdateTypeInv, CheckInv, [Next]_vars PROVE CheckInv'
<1> USE DEF UpdateTypeInv, UpdateTypeOK, Rows, RequestStates, CheckInv, CheckTakesInterval, OneCheckAtATime, Checking
<1>1. CASE IntervalOver
  BY <1>1 DEF IntervalOver
<1>2. CASE WatchExecutable \/ ServerDies
  BY <1>2 DEF WatchExecutable, ServerDies, Idle
<1>3. CASE Publish \/ TakeBaseline \/ ServerStarts \/ UNCHANGED vars
  BY <1>3 DEF Publish, TakeBaseline, ServerStarts, vars
<1>4. CASE \E i \in Installers : \/ RunUpdate(i) \/ Replace(i) \/ ApplyResult(i) \/ Dismiss(i)
                                 \/ \E t \in Tabs : ApplyUpdate(i, t)
  <2>1. UNCHANGED <<row, tab>>
    BY <1>4 DEF RunUpdate, Replace, ApplyResult, Dismiss, ApplyUpdate
  <2> QED BY <2>1
<1> QED BY <1>1, <1>2, <1>3, <1>4, CheckStep DEF Next

------------------------------------------------------------------------------
\* The numbers of files only grow, and an installer has no result before its end.
FilesGrow == server.file <= installed.file /\ \A i \in Installers : install[i].file <= installed.file
ResultsAtEnd == \A i \in Installers : install[i].step # "done" => install[i].result = "none"

InstallInv == FilesGrow /\ ResultsAtEnd /\ ReportsAreTrue

\* At first nothing is installed.
LEMMA InstallInitial == Init => InstallInv
BY DEF Init, InstallInv, FilesGrow, ResultsAtEnd, ReportsAreTrue, NotRun, None

\* An installer reports a release only once it has replaced the file.
LEMMA InstallStep ==
  ASSUME UpdateTypeInv, InstallInv, NEW i \in Installers,
         RunUpdate(i) \/ Replace(i) \/ ApplyResult(i) \/ Dismiss(i) \/ \E t \in Tabs : ApplyUpdate(i, t)
  PROVE  InstallInv'
<1> USE DEF UpdateTypeInv, UpdateTypeOK, Servers, Binaries, InstallStates,
            InstallInv, FilesGrow, ResultsAtEnd, ReportsAreTrue, None
<1>1. CASE RunUpdate(i) \/ \E t \in Tabs : ApplyUpdate(i, t)
  <2>1. PICK version : Starts(i, version)
    BY <1>1 DEF RunUpdate, ApplyUpdate
  <2>2. UNCHANGED <<server, installed>>
    BY <1>1 DEF RunUpdate, ApplyUpdate
  <2> QED BY <2>1, <2>2 DEF Starts, NotRun
<1>2. CASE Replace(i)
  BY <1>2 DEF Replace
<1>3. CASE ApplyResult(i)
  <2>1. PICK result \in {"none", "failed", "installed", "restart", "unseen"} :
             /\ Reports(i, result)
             /\ result \in {"installed", "restart", "unseen"} => install[i].file # None
             /\ result = "installed" => ~server.up \/ server.agent
    BY <1>3 DEF ApplyResult, ResultsOf, Succeeds, RestartRequired
  <2>2. UNCHANGED <<server, installed>>
    BY <1>3 DEF ApplyResult
  <2>3. /\ install'[i].step = "done" /\ install'[i].file = install[i].file /\ install'[i].result = result
        /\ \A j \in Installers \ {i} : install'[j] = install[j]
    BY <2>1 DEF Reports
  <2> QED BY <2>1, <2>2, <2>3
<1>4. CASE Dismiss(i)
  BY <1>4 DEF Dismiss, NotRun
<1> QED BY <1>1, <1>2, <1>3, <1>4

\* A server that starts runs the file that is there.
LEMMA InstallKept ==
  ASSUME UpdateTypeInv, InstallInv, [Next]_vars PROVE InstallInv'
<1> USE DEF UpdateTypeInv, UpdateTypeOK, Servers, Binaries, InstallStates,
            InstallInv, FilesGrow, ResultsAtEnd, ReportsAreTrue
<1>1. CASE TakeBaseline
  BY <1>1 DEF TakeBaseline
<1>2. CASE WatchExecutable \/ ServerStarts
  <2>1. server'.agent = server.agent /\ server'.file = installed.file /\ UNCHANGED <<installed, install>>
    <3>1. \A managed \in BOOLEAN : LET new == [NewServer EXCEPT !.managed = managed]
                                  IN  new.agent = server.agent /\ new.file = installed.file
      BY DEF NewServer
    <3>2. NewServer.agent = server.agent /\ NewServer.file = installed.file
      BY DEF NewServer
    <3> QED BY <1>2, <3>1, <3>2 DEF WatchExecutable, ServerStarts
  <2> QED BY <2>1
<1>3. CASE ServerDies
  BY <1>3 DEF ServerDies
<1>4. CASE Publish \/ IntervalOver \/ UNCHANGED vars
  BY <1>4 DEF Publish, IntervalOver, vars
<1>5. CASE \E t \in Tabs : AcquireUpdateCheck(t) \/ Request(t) \/ TabLeaves(t) \/ SkipUpdateVersion(t)
  <2>1. UNCHANGED <<server, installed, install>>
    BY <1>5 DEF AcquireUpdateCheck, Request, TabLeaves, SkipUpdateVersion, CheckReleases, CheckFails,
                ReadPrevious, CompleteUpdateCheck, StoredUpdateStatus
  <2> QED BY <2>1
<1> QED BY <1>1, <1>2, <1>3, <1>4, <1>5, InstallStep DEF Next

\* Whatever is published, checked, skipped, installed and restarted, the stored row, what
\* a tab shows and what an installer works on stay releases or nothing, and a Latest is
\* only taken of releases that there are (internal/update, internal/app).
THEOREM UpdateTypes == UpdateSpec => []UpdateTypeOK
<1>1. UpdateTypeInv => UpdateTypeOK
  BY DEF UpdateTypeInv
<1> QED BY <1>1, UpdateTypeInitial, UpdateTypesKept, PTL DEF UpdateSpec

\* However many tabs ask at once and leave, and however often the server restarts, one check
\* at a time is under way in an interval, and a failed one writes back the list that is there.
THEOREM ChecksNeverOverlap == UpdateSpec => []OneCheckAtATime
<1>1. CheckInv => OneCheckAtATime
  BY DEF CheckInv
<1> QED BY <1>1, UpdateTypeInitial, UpdateTypesKept, CheckInitial, CheckKept, PTL DEF UpdateSpec

\* An installation that is reported as done has replaced the binary, and an older server of whose restart
\* the report says nothing is one beside which a LaunchAgent is installed, whatever restarts since
\* (internal/update/update.go, applyResult; internal/domain/update.go, UpdateRestartRequired).
THEOREM ReportsStayTrue == UpdateSpec => []ReportsAreTrue
<1>1. InstallInv => ReportsAreTrue
  BY DEF InstallInv
<1> QED BY <1>1, UpdateTypeInitial, UpdateTypesKept, InstallInitial, InstallKept, PTL DEF UpdateSpec

------------------------------------------------------------------------------
\* Prompts

Overriding == Homes \cup {"F-1"}

\* An override is valid from the moment it is accepted, the file need not be.
OverridesStayValid == \A scope \in Overriding : OverridesValid(templates[scope])

\* What stands belongs to what has stood.
HadGrows ==
    UnderWay => /\ \A scope \in TemplateScopes : templates[scope] \in had.templates[scope]
                /\ language \in had.languages /\ home \in had.homes /\ planned \in had.plans

PromptShapes ==
    /\ DOMAIN templates = TemplateScopes /\ \A scope \in TemplateScopes : DOMAIN templates[scope] = TemplateKinds
    /\ home \in Homes /\ ("task" \in undeleted => "F-1" \in undeleted)
    /\ {"asked", "templates", "languages", "homes", "plans"} \subseteq DOMAIN had
    /\ DOMAIN had.templates = TemplateScopes /\ had.homes \subseteq Homes

\* The kind of the prompt is the one asked for, or the one that a plan asked for.
KindAsked(kind) ==
    /\ kind \in TemplateKinds
    /\ kind \in IF kind \in BatchKinds THEN {BatchPromptKind(had.asked)}
                ELSE IF had.asked = "derived" THEN {KindFor(plan) : plan \in had.plans}
                ELSE {had.asked}

\* What a request has read by each of its steps.
RequestHolds ==
    /\ request.pc \in {"idle", "task", "batch", "feature", "tasks", "config", "project", "given", "refused"}
    /\ request.pc = "task" => request.kind = had.asked /\ had.asked \in ParseTaskPromptKind
    /\ request.pc \in {"batch", "feature", "tasks", "config", "project"} => KindAsked(request.kind)
    /\ request.pc = "batch" => request.kind \in BatchKinds
    /\ request.pc = "feature" => request.kind \in TaskKinds
    /\ request.pc \in {"tasks", "config", "project"} =>
         /\ {"pc", "kind", "feature", "project"} \subseteq DOMAIN request
         /\ request.feature \in had.templates["F-1"] /\ OverridesValid(request.feature)
         /\ request.project \in had.homes
    /\ request.pc = "project" =>
         /\ AllValid(request.global)
         /\ \E saved \in had.templates["config"], lang \in had.languages :
               request.global = NormalizedTemplates(lang, saved)

PromptInv == PromptShapes /\ OverridesStayValid /\ HadGrows /\ RequestHolds /\ PromptsAreWhatStood

------------------------------------------------------------------------------
\* The built-in templates of either language are valid, and none is empty.
LEMMA BuiltInValid ==
    \A lang : \A kind \in TemplateKinds : /\ ValidateTemplate(kind, TemplatesBuiltIn(lang)[kind])
                                         /\ ~TemplatesBuiltIn(lang)[kind].empty
<1> SUFFICES ASSUME NEW lang, NEW kind \in TemplateKinds
             PROVE  /\ ValidateTemplate(kind, TemplatesBuiltIn(lang)[kind])
                    /\ ~TemplatesBuiltIn(lang)[kind].empty
    OBVIOUS
<1>1. BuiltInUses(lang)[kind] = IF kind \in BatchKinds THEN OfBatch ELSE OfTask
    BY DEF BuiltInUses, TemplateKinds, TaskKinds, BatchKinds, defaultDesignTemplate, defaultImplementationTemplate,
           defaultBatchTemplate, defaultBatchDesignTemplate, japaneseDesignTemplate, japaneseImplementationTemplate,
           japaneseBatchTemplate, japaneseBatchDesignTemplate
<1>2. TemplatesBuiltIn(lang)[kind] = [by |-> lang, uses |-> BuiltInUses(lang)[kind], empty |-> FALSE]
    BY DEF TemplatesBuiltIn
<1> QED BY <1>1, <1>2 DEF ValidateTemplate, Placeholders, TaskVocabulary, OfTask, OfBatch

\* A file that does not load holds a template of somebody's that is not valid.
LEMMA InvalidFile ==
    ASSUME NEW lang, NEW saved, ~AllValid(NormalizedTemplates(lang, saved))
    PROVE  \E kind \in TemplateKinds : ~saved[kind].empty /\ ~ValidateTemplate(kind, saved[kind])
BY BuiltInValid DEF AllValid, NormalizedTemplates

\* What the file leaves empty is filled with what is built in.
LEMMA NormalizedFull ==
    ASSUME NEW lang, NEW saved, NEW kind \in TemplateKinds
    PROVE  ~NormalizedTemplates(lang, saved)[kind].empty
BY BuiltInValid DEF NormalizedTemplates

\* Overrides that were accepted leave a valid set of templates valid.
LEMMA ResolvedValid ==
    ASSUME NEW base, NEW project, NEW feature, AllValid(base), OverridesValid(project), OverridesValid(feature)
    PROVE  AllValid(ResolveTemplates(base, project, feature))
BY DEF AllValid, OverridesValid, ValidateOverride, ResolveTemplates, ApplyOverride

------------------------------------------------------------------------------
\* The edits: what has stood grows, and a request keeps what it has read.

HadFields == {"asked", "templates", "languages", "homes", "plans"}

\* An edit adds to what has stood while a request is under way, and changes nothing
\* of a request that has ended.
LEMMA EditGrows ==
    ASSUME PromptInv, Edited, home' \in Homes
    PROVE  /\ request' = request /\ UnderWay' = UnderWay
           /\ HadFields \subseteq DOMAIN had' /\ DOMAIN had'.templates = TemplateScopes
           /\ had'.homes \subseteq Homes /\ had'.asked = had.asked
           /\ ~UnderWay => had' = had
           /\ \A scope \in TemplateScopes : had.templates[scope] \subseteq had'.templates[scope]
           /\ had.languages \subseteq had'.languages /\ had.homes \subseteq had'.homes
           /\ had.plans \subseteq had'.plans
           /\ UnderWay => /\ \A scope \in TemplateScopes : templates'[scope] \in had'.templates[scope]
                          /\ language' \in had'.languages /\ home' \in had'.homes
                          /\ planned' \in had'.plans
<1>1. HadFields \subseteq DOMAIN had /\ DOMAIN had.templates = TemplateScopes /\ had.homes \subseteq Homes
    BY DEF PromptInv, PromptShapes, HadFields
<1>2. request' = request /\ UnderWay' = UnderWay
    BY DEF Edited, UnderWay
<1>3. CASE ~UnderWay
    BY <1>1, <1>2, <1>3 DEF Edited
<1>4. CASE UnderWay
  <2>1. had' = [had EXCEPT !.templates = [scope \in TemplateScopes |-> @[scope] \cup {templates'[scope]}],
                           !.languages = @ \cup {language'},
                           !.homes = @ \cup {home'},
                           !.plans = @ \cup {planned'}]
    BY <1>4 DEF Edited
  <2>2. /\ had'.templates = [scope \in TemplateScopes |-> had.templates[scope] \cup {templates'[scope]}]
        /\ had'.languages = had.languages \cup {language'}
        /\ had'.homes = had.homes \cup {home'}
        /\ had'.plans = had.plans \cup {planned'}
        /\ had'.asked = had.asked
        /\ DOMAIN had' = DOMAIN had
    BY <2>1, <1>1 DEF HadFields
  <2> QED BY <2>2, <1>1, <1>2, <1>4
<1> QED BY <1>3, <1>4

\* An edit that keeps the overrides valid keeps the invariant.
LEMMA EditsKept ==
    ASSUME PromptInv, Edited, home' \in Homes, DOMAIN templates' = TemplateScopes,
           \A scope \in TemplateScopes : DOMAIN templates'[scope] = TemplateKinds, OverridesStayValid',
           undeleted' \subseteq undeleted, "task" \in undeleted' => "F-1" \in undeleted'
    PROVE  PromptInv'
<1>1. PromptShapes'
    BY EditGrows DEF PromptShapes, HadFields
<1>2. HadGrows'
    BY EditGrows DEF HadGrows
<1>3. ASSUME NEW kind, KindAsked(kind) PROVE KindAsked(kind)'
  <2>1. had'.asked = had.asked /\ had.plans \subseteq had'.plans
    BY EditGrows
  <2>2. {KindFor(plan) : plan \in had.plans} \subseteq {KindFor(plan) : plan \in had'.plans}
    BY <2>1
  <2> QED BY <1>3, <2>1, <2>2 DEF KindAsked
<1>4. RequestHolds'
    BY <1>3, EditGrows DEF RequestHolds, PromptInv, TemplateScopes
<1>5. PromptsAreWhatStood'
  <2>1. CASE UnderWay
    BY <2>1, EditGrows DEF PromptsAreWhatStood, UnderWay
  <2>2. CASE ~UnderWay
    BY <2>2, EditGrows DEF PromptsAreWhatStood, PromptInv, Stood, HadEmpty
  <2> QED BY <2>1, <2>2
<1> QED BY <1>1, <1>2, <1>4, <1>5 DEF PromptInv

\* Every edit, move and deletion does: the overrides are validated, the file need not be.
LEMMA EditStepsKept ==
    ASSUME PromptInv,
           OverridePrompt \/ UpdatePromptTemplates \/ EditFile \/ LanguageChanges \/ MoveFeature \/ SetPlan \/ Deleted
    PROVE  PromptInv'
<1> USE DEF PromptInv, PromptShapes
<1>1. CASE OverridePrompt
  <2>0. PICK scope \in Homes \cup {"F-1"} : \E update : ApplyPromptOverrides(scope, update)
    BY <1>1 DEF OverridePrompt
  <2>1. PICK update :
                /\ \A kind \in DOMAIN update : ValidateOverride(kind, update[kind])
                /\ templates' = [templates EXCEPT ![scope] =
                       [kind \in TemplateKinds |-> IF kind \in DOMAIN update THEN update[kind] ELSE @[kind]]]
                /\ home' = home /\ undeleted' = undeleted /\ Edited
    BY <2>0 DEF ApplyPromptOverrides
  <2>2. OverridesStayValid'
    BY <2>1 DEF OverridesStayValid, OverridesValid, Overriding, TemplateScopes
  <2> QED BY <2>1, <2>2, EditsKept
<1>2. CASE UpdatePromptTemplates
  <2>1. PICK update : /\ DOMAIN update = TemplateKinds
                      /\ templates' = [templates EXCEPT !["config"] = update]
                      /\ home' = home /\ undeleted' = undeleted /\ Edited
    BY <1>2 DEF UpdatePromptTemplates, TemplateScopes
  <2>2. OverridesStayValid'
    BY <2>1 DEF OverridesStayValid, OverridesValid, Overriding, TemplateScopes, Homes
  <2> QED BY <2>1, <2>2, EditsKept
<1>3. CASE EditFile
  <2>1. PICK kind \in TemplateKinds :
                \E template : /\ templates' = [templates EXCEPT !["config"][kind] = template]
                              /\ home' = home /\ undeleted' = undeleted /\ Edited
    BY <1>3 DEF EditFile
  <2>2. /\ DOMAIN templates' = TemplateScopes
        /\ \A scope \in TemplateScopes : DOMAIN templates'[scope] = TemplateKinds
    BY <2>1
  <2>3. OverridesStayValid'
    BY <2>1 DEF OverridesStayValid, OverridesValid, Overriding, TemplateScopes, Homes
  <2> QED BY <2>1, <2>2, <2>3, EditsKept
<1>4. ASSUME templates' = templates, home' \in Homes, Edited,
             undeleted' \subseteq undeleted, "task" \in undeleted' => "F-1" \in undeleted'
      PROVE  PromptInv'
    BY <1>4, EditsKept DEF OverridesStayValid
<1>5. CASE LanguageChanges
    BY <1>5, <1>4 DEF LanguageChanges
<1>6. CASE MoveFeature
    BY <1>6, <1>4 DEF MoveFeature
<1>7. CASE SetPlan
    BY <1>7, <1>4 DEF SetPlan
<1>8. CASE Deleted
  <2>1. PICK gone \in {{"task"}, {"task", "F-1"}, {"task", "F-1", home}} \cup {{p} : p \in Homes \ {home}} :
                undeleted' = undeleted \ gone
    BY <1>8 DEF Deleted
  <2>2. templates' = templates /\ home' = home /\ Edited
    BY <1>8 DEF Deleted
  <2>3. "F-1" \in gone => "task" \in gone
    BY DEF Homes
  <2> QED BY <2>1, <2>2, <2>3, <1>4
<1> QED BY <1>1, <1>2, <1>3, <1>5, <1>6, <1>7, <1>8

------------------------------------------------------------------------------
\* The requests: each step keeps what stands and what has stood.

\* A step of a request keeps the invariant if what it has read then is right.
LEMMA ReadsKept ==
    ASSUME PromptInv, NEW next, Proceeds(next), RequestHolds', PromptsAreWhatStood',
           next.pc \notin {"idle", "given", "refused"} => UnderWay
    PROVE  PromptInv'
BY DEF PromptInv, Proceeds, PromptShapes, OverridesStayValid, HadGrows, UnderWay

\* Nothing of the prompt asked for is known, or what stood, before the first read.
LEMMA AskPromptKept == ASSUME PromptInv, AskPrompt PROVE PromptInv'
<1>1. PICK asked \in ParseTaskPromptKind :
        /\ \/ request' = [pc |-> "task", kind |-> asked]
           \/ request' = [pc |-> "batch", kind |-> BatchPromptKind(asked)]
        /\ had' = StandsNow(asked)
    BY DEF AskPrompt
<1>2. /\ had'.asked = asked /\ had'.templates = [scope \in TemplateScopes |-> {templates[scope]}]
      /\ had'.languages = {language} /\ had'.homes = {home} /\ had'.plans = {planned}
      /\ HadFields \subseteq DOMAIN had'
    BY <1>1 DEF StandsNow, HadFields
<1>4. UNCHANGED <<templates, language, home, planned, undeleted>>
    BY DEF AskPrompt
<1>5. PromptShapes' /\ OverridesStayValid' /\ HadGrows'
    BY <1>2, <1>4 DEF PromptInv, PromptShapes, OverridesStayValid, HadGrows, HadFields
<1>6. BatchPromptKind(asked) \in BatchKinds /\ BatchKinds \subseteq TemplateKinds
    BY DEF BatchPromptKind, BatchKinds, TemplateKinds
<1>7. RequestHolds'
    BY <1>1, <1>2, <1>6 DEF RequestHolds, KindAsked
<1>8. PromptsAreWhatStood'
    BY <1>1 DEF PromptsAreWhatStood
<1> QED BY <1>5, <1>7, <1>8 DEF PromptInv

\* A step that finds the task deleted, or a project that its feature was in.
LEMMA NotFoundKept ==
    ASSUME PromptInv, UnderWay, Proceeds(Refusal("not_found")),
           NEW x \in {"task"} \cup had.homes, x \notin undeleted
    PROVE  PromptInv'
<1>1. /\ had' = had /\ undeleted' = undeleted /\ request'.pc = "refused" /\ request'.why = "not_found"
      /\ \E y \in {"task"} \cup had'.homes : y \notin undeleted'
    BY DEF Proceeds, Refusal
<1> QED BY <1>1, ReadsKept DEF RequestHolds, PromptsAreWhatStood, Refusal

\* The kind of prompt that is derived is derived from a plan that the task had.
LEMMA ReadTaskKept == ASSUME PromptInv, ReadTask PROVE PromptInv'
<1> DEFINE kind == IF request.kind = "derived" THEN KindFor(planned) ELSE request.kind
<1>1. /\ request.pc = "task" /\ request.kind = had.asked /\ had.asked \in ParseTaskPromptKind
      /\ planned \in had.plans /\ UnderWay
    BY DEF ReadTask, PromptInv, RequestHolds, HadGrows, UnderWay
<1>2. CASE "task" \notin undeleted
  <2>1. Proceeds(Refusal("not_found"))
    BY <1>2 DEF ReadTask
  <2> QED BY <2>1, <1>1, <1>2, NotFoundKept
<1>3. CASE "task" \in undeleted
  <2>1. Proceeds([pc |-> "feature", kind |-> kind])
    BY <1>3 DEF ReadTask
  <2>2. had' = had /\ request'.pc = "feature" /\ request'.kind = kind
    BY <2>1 DEF Proceeds
  <2>3. kind \in TaskKinds /\ kind \notin BatchKinds /\ TaskKinds \subseteq TemplateKinds
    BY <1>1 DEF ParseTaskPromptKind, TaskKinds, BatchKinds, KindFor, TemplateKinds
  <2>4. KindAsked(kind)
    BY <2>3, <1>1 DEF KindAsked, ParseTaskPromptKind, TaskKinds
  <2>5. RequestHolds'
    BY <2>2, <2>3, <2>4 DEF RequestHolds, KindAsked
  <2> QED BY <2>1, <2>2, <2>5, <1>1, ReadsKept DEF PromptsAreWhatStood, UnderWay
<1> QED BY <1>2, <1>3

\* The feature is read with its overrides and the project it is in at that moment.
LEMMA ReadFeatureKept ==
    ASSUME PromptInv, NEW next \in {"config", "tasks"}, request.pc \in {"feature", "batch"}, Proceeds(FeatureRead(next))
    PROVE  PromptInv'
<1>0. UnderWay
    BY DEF UnderWay
<1>1. CASE "F-1" \notin undeleted
  <2>1. Proceeds(Refusal("not_found"))
    BY <1>1 DEF FeatureRead
  <2>2. "task" \notin undeleted
    BY <1>1 DEF PromptInv, PromptShapes
  <2> QED BY <1>0, <2>1, <2>2, NotFoundKept
<1>2. CASE "F-1" \in undeleted
  <2> DEFINE reads == [pc |-> next, kind |-> request.kind, feature |-> templates["F-1"], project |-> home]
  <2>1. Proceeds(reads)
    BY <1>2 DEF FeatureRead
  <2>2. /\ had' = had /\ request'.pc = next /\ request'.kind = request.kind
        /\ request'.feature = templates["F-1"] /\ request'.project = home
        /\ {"pc", "kind", "feature", "project"} \subseteq DOMAIN request'
    BY <2>1 DEF Proceeds
  <2>3. /\ templates["F-1"] \in had.templates["F-1"] /\ home \in had.homes /\ OverridesValid(templates["F-1"])
        /\ KindAsked(request.kind)
    BY <1>0 DEF PromptInv, HadGrows, OverridesStayValid, Overriding, TemplateScopes, RequestHolds
  <2>4. RequestHolds'
    BY <2>2, <2>3 DEF RequestHolds, KindAsked
  <2> QED BY <2>1, <2>2, <2>4, <1>0, ReadsKept DEF PromptsAreWhatStood
<1> QED BY <1>1, <1>2

\* A batch prompt reads the tasks between its feature and the configuration.
LEMMA ReadTasksKept == ASSUME PromptInv, ReadTasks PROVE PromptInv'
<1>0. UnderWay /\ request.pc = "tasks"
    BY DEF UnderWay, ReadTasks
<1>1. CASE "task" \notin undeleted
    BY <1>0, <1>1, NotFoundKept DEF ReadTasks
<1>2. CASE "task" \in undeleted
  <2>1. Proceeds([request EXCEPT !.pc = "config"])
    BY <1>2 DEF ReadTasks
  <2>2. /\ {"pc", "kind", "feature", "project"} \subseteq DOMAIN request /\ KindAsked(request.kind)
        /\ request.feature \in had.templates["F-1"] /\ OverridesValid(request.feature)
        /\ request.project \in had.homes
    BY <1>0 DEF PromptInv, RequestHolds
  <2>3. /\ had' = had /\ request'.pc = "config" /\ request'.kind = request.kind
        /\ request'.feature = request.feature /\ request'.project = request.project
        /\ DOMAIN request' = DOMAIN request
    BY <2>1, <2>2 DEF Proceeds
  <2>4. RequestHolds'
    BY <2>2, <2>3 DEF RequestHolds, KindAsked
  <2> QED BY <2>1, <2>3, <2>4, <1>0, ReadsKept DEF PromptsAreWhatStood
<1> QED BY <1>1, <1>2

\* A configuration that loads is valid in every template; one that does not holds one that is not.
LEMMA ReadConfigurationKept == ASSUME PromptInv, ReadConfiguration PROVE PromptInv'
<1> DEFINE global == NormalizedTemplates(language, templates["config"])
<1>0. UnderWay /\ request.pc = "config"
    BY DEF UnderWay, ReadConfiguration
<1>1. templates["config"] \in had.templates["config"] /\ language \in had.languages
    BY <1>0 DEF PromptInv, HadGrows, TemplateScopes
<1>2. CASE ~AllValid(global)
  <2>1. Proceeds(Refusal("invalid_config"))
    BY <1>2 DEF ReadConfiguration
  <2>2. had' = had /\ request'.pc = "refused" /\ request'.why = "invalid_config"
    BY <2>1 DEF Proceeds, Refusal
  <2>3. \E kind \in TemplateKinds :
            ~templates["config"][kind].empty /\ ~ValidateTemplate(kind, templates["config"][kind])
    BY <1>2, InvalidFile
  <2>4. PromptsAreWhatStood'
    BY <2>2, <2>3, <1>1 DEF PromptsAreWhatStood
  <2> QED BY <2>1, <2>2, <2>4, <1>0, ReadsKept DEF RequestHolds, Refusal
<1>3. CASE AllValid(global)
  <2> HIDE DEF global
  <2>1. Proceeds([pc |-> "project", kind |-> request.kind, feature |-> request.feature,
                  project |-> request.project, global |-> global])
    BY <1>3 DEF ReadConfiguration, global
  <2>2. /\ {"pc", "kind", "feature", "project"} \subseteq DOMAIN request /\ KindAsked(request.kind)
        /\ request.feature \in had.templates["F-1"] /\ OverridesValid(request.feature)
        /\ request.project \in had.homes
    BY <1>0 DEF PromptInv, RequestHolds
  <2>3. /\ had' = had /\ request'.pc = "project" /\ request'.kind = request.kind
        /\ request'.feature = request.feature /\ request'.project = request.project
        /\ request'.global = global
        /\ {"pc", "kind", "feature", "project"} \subseteq DOMAIN request'
    BY <2>1 DEF Proceeds
  <2>4. \E saved \in had.templates["config"], lang \in had.languages : global = NormalizedTemplates(lang, saved)
    BY <1>1 DEF global
  <2>5. RequestHolds'
    BY <2>2, <2>3, <2>4, <1>3 DEF RequestHolds, KindAsked
  <2> QED BY <2>1, <2>3, <2>5, <1>0, ReadsKept DEF PromptsAreWhatStood
<1> QED BY <1>2, <1>3

\* The project of the feature read is one of those it had, so a template is passed over
\* for the next scope's only where it was without one; overrides, valid since they were
\* accepted, leave the result valid.
LEMMA ReadProjectKept == ASSUME PromptInv, ReadProject PROVE PromptInv'
<1> DEFINE project == templates[request.project]
           feature == request.feature
           resolved == ResolveTemplates(request.global, project, feature)
           body == resolved[request.kind]
<1>0. UnderWay /\ request.pc = "project"
    BY DEF UnderWay, ReadProject
<1>1. /\ KindAsked(request.kind) /\ feature \in had.templates["F-1"] /\ OverridesValid(feature)
      /\ request.project \in had.homes /\ AllValid(request.global)
    BY <1>0 DEF PromptInv, RequestHolds
<1>2. PICK saved \in had.templates["config"], lang \in had.languages :
          request.global = NormalizedTemplates(lang, saved)
    BY <1>0 DEF PromptInv, RequestHolds
<1>3. request.project \in Homes
    BY <1>1 DEF PromptInv, PromptShapes
<1>4. project \in had.templates[request.project] /\ OverridesValid(project)
    BY <1>0, <1>3 DEF PromptInv, HadGrows, OverridesStayValid, Overriding, TemplateScopes
<1>5. AllValid(resolved)
    BY <1>1, <1>4, ResolvedValid
<1>6. CASE request.project \notin undeleted
  <2>1. Proceeds(Refusal("not_found"))
    BY <1>6 DEF ReadProject
  <2> QED BY <2>1, <1>0, <1>1, <1>6, NotFoundKept
<1>7. CASE request.project \in undeleted
  <2>1. Proceeds([pc |-> "given", kind |-> request.kind, body |-> body])
    BY <1>1, <1>4, <1>5, <1>7 DEF ReadProject
  <2>2. had' = had /\ request'.pc = "given" /\ request'.kind = request.kind /\ request'.body = body
    BY <2>1 DEF Proceeds
  <2>3. request.kind \in TemplateKinds
    BY <1>1 DEF KindAsked
  <2>4. body = IF ~feature[request.kind].empty THEN feature[request.kind]
               ELSE IF ~project[request.kind].empty THEN project[request.kind]
               ELSE NormalizedTemplates(lang, saved)[request.kind]
    BY <2>3, <1>2 DEF ResolveTemplates, ApplyOverride
  <2>5. ~body.empty
    BY <2>3, <2>4, NormalizedFull
  <2>6. ValidateTemplate(request.kind, body)
    BY <2>3, <1>5 DEF AllValid
  <2>7. Stood(body, request.kind)
    <3>1. CASE ~feature[request.kind].empty
        BY <2>4, <3>1, <1>1 DEF Stood
    <3>2. CASE feature[request.kind].empty
      <4>1. HadEmpty("F-1")
        BY <3>2, <1>1 DEF HadEmpty
      <4>2. CASE ~project[request.kind].empty
        <5>1. body = project[request.kind]
            BY <2>4, <3>2, <4>2
        <5> QED BY <5>1, <4>1, <1>1, <1>4 DEF Stood
      <4>3. CASE project[request.kind].empty
        <5>1. body = NormalizedTemplates(lang, saved)[request.kind]
            BY <2>4, <3>2, <4>3
        <5>2. HadEmpty(request.project)
            BY <4>3, <1>4 DEF HadEmpty
        <5> QED BY <5>1, <5>2, <4>1, <1>1, <1>2 DEF Stood
      <4> QED BY <4>2, <4>3
    <3> QED BY <3>1, <3>2
  <2> HIDE DEF body, resolved, project, feature
  <2>8. PromptsAreWhatStood'
    <3>1. /\ body.uses \subseteq (IF request.kind \in BatchKinds THEN OfBatch ELSE OfTask)
          /\ (IF request.kind \in BatchKinds THEN "task_list" ELSE "task_id") \in body.uses
        BY <2>6 DEF ValidateTemplate, Placeholders, TaskVocabulary
    <3>2. Stood(request.body, request.kind)'
        BY <2>2, <2>7 DEF Stood, HadEmpty
    <3>3. request.kind \in IF request.kind \in BatchKinds THEN {BatchPromptKind(had.asked)}
                           ELSE IF had.asked = "derived" THEN {KindFor(plan) : plan \in had.plans}
                           ELSE {had.asked}
        BY <1>1 DEF KindAsked
    <3> QED BY <2>2, <2>5, <3>1, <3>2, <3>3 DEF PromptsAreWhatStood
  <2>9. RequestHolds'
    BY <2>2 DEF RequestHolds
  <2> QED BY <2>1, <2>8, <2>9, ReadsKept
<1> QED BY <1>6, <1>7

\* At first no request is under way and no override is stored.
LEMMA PromptsIdleInv == ASSUME PromptsIdle PROVE PromptInv
<1>1. request.pc = "idle"
    BY DEF PromptsIdle, NoPrompt
<1>2. RequestHolds /\ PromptsAreWhatStood /\ HadGrows
    BY <1>1 DEF RequestHolds, PromptsAreWhatStood, HadGrows, UnderWay
<1>3. OverridesStayValid
    BY DEF PromptsIdle, OverridesStayValid, OverridesValid, ValidateOverride, Overriding, TemplateScopes, Empty
<1>4. PromptShapes
    BY DEF PromptsIdle, PromptShapes, StandsNow, Homes
<1> QED BY <1>2, <1>3, <1>4 DEF PromptInv

\* A prompt handed out is the nearest of the templates that stood while its request ran,
\* of the kind asked for, names its tasks and leaves no placeholder in place, however
\* edits, moves and deletions fall between its reads; an override that was accepted
\* never has it refused (GetTaskPrompt, GetBatchPrompt, applyPromptOverrides).
THEOREM PromptsStood == PromptsSpec => []PromptsAreWhatStood
<1>1. PromptInv /\ [PromptsNext]_promptVars => PromptInv'
  <2> SUFFICES ASSUME PromptInv, [PromptsNext]_promptVars PROVE PromptInv'
      OBVIOUS
  <2>1. CASE UNCHANGED promptVars
    <3>1. /\ templates' = templates /\ language' = language /\ home' = home /\ planned' = planned
          /\ undeleted' = undeleted /\ request' = request /\ had' = had
        BY <2>1 DEF promptVars
    <3> QED BY <3>1 DEF PromptInv, PromptShapes, OverridesStayValid, HadGrows, UnderWay, RequestHolds, KindAsked,
                        PromptsAreWhatStood, Stood, HadEmpty
  <2>2. CASE ReadFeatureOfTask
    BY <2>2, ReadFeatureKept DEF ReadFeatureOfTask
  <2>3. CASE ReadFeatureOfBatch
    BY <2>3, ReadFeatureKept DEF ReadFeatureOfBatch
  <2> QED BY <2>1, <2>2, <2>3, EditStepsKept, AskPromptKept, ReadTaskKept, ReadTasksKept, ReadConfigurationKept,
             ReadProjectKept DEF PromptsNext
<1>2. PromptInv => PromptsAreWhatStood
    BY DEF PromptInv
<1> QED BY PromptsIdleInv, <1>1, <1>2, PTL DEF PromptsSpec

------------------------------------------------------------------------------
\* Task labels

Parts == {"text", "color"}

\* What a scope stores is what was last asked for.
StoredIsWanted ==
    \A scope \in ScopeNames, key \in Keys, part \in Parts :
        Override(overrides[scope], key)[part] = wanted[scope][key][part]

LabelInv == DOMAIN overrides = ScopeNames /\ DOMAIN wanted = ScopeNames /\ StoredIsWanted

\* An entry that is not stored reads like one that is stored with neither part.
LEMMA OverrideAfter ==
    ASSUME NEW saved, NEW update, NEW key
    PROVE  Override(AppliedOverrides(saved, update), key)
             = IF key \in DOMAIN update THEN Applied(Override(saved, key), update[key])
                                        ELSE Override(saved, key)
<1> DEFINE value == [k \in DOMAIN saved \cup DOMAIN update |->
                        IF k \in DOMAIN update THEN Applied(Override(saved, k), update[k]) ELSE saved[k]]
           kept == {k \in DOMAIN value : value[k] # NoOverride}
<1>1. AppliedOverrides(saved, update) = [k \in kept |-> value[k]]
    BY DEF AppliedOverrides
<1>2. Override(AppliedOverrides(saved, update), key) = IF key \in kept THEN value[key] ELSE NoOverride
    BY <1>1 DEF Override
<1>3. CASE key \in DOMAIN update
    BY <1>2, <1>3
<1>4. CASE key \notin DOMAIN update /\ key \in DOMAIN saved
    BY <1>2, <1>4 DEF Override
<1>5. CASE key \notin DOMAIN update /\ key \notin DOMAIN saved
    BY <1>2, <1>5 DEF Override
<1> QED BY <1>3, <1>4, <1>5

\* An update of the labels of one scope stores what it asks for, part by part, or is refused.
LEMMA UpdateKeeps ==
    ASSUME LabelInv, NEW scope \in ScopeNames, NEW update, UpdateLabels(scope, update)
    PROVE  LabelInv'
<1> DEFINE valid == \A k \in DOMAIN update : Normalizes(update[k])
           asked == [key \in Keys |-> [part \in {"text", "color"} |->
                        IF valid /\ key \in DOMAIN update /\ update[key][part] # Keep
                        THEN update[key][part] ELSE wanted[scope][key][part]]]
           saved == IF valid THEN AppliedOverrides(overrides[scope], update) ELSE overrides[scope]
<1>1. wanted' = [wanted EXCEPT ![scope] = asked]
    BY DEF UpdateLabels
<1>2. overrides' = IF valid THEN [overrides EXCEPT ![scope] = AppliedOverrides(overrides[scope], update)] ELSE overrides
    BY DEF UpdateLabels
<1>3. \A key \in Keys, part \in Parts : Override(saved, key)[part] = asked[key][part]
    <2> SUFFICES ASSUME NEW key \in Keys, NEW part \in Parts
                 PROVE  Override(saved, key)[part] = asked[key][part]
        OBVIOUS
    <2>1. Override(overrides[scope], key)[part] = wanted[scope][key][part]
        BY DEF LabelInv, StoredIsWanted
    <2>2. CASE valid /\ key \in DOMAIN update
        BY <2>1, <2>2, OverrideAfter DEF Applied, Parts
    <2>3. CASE ~(valid /\ key \in DOMAIN update)
        BY <2>1, <2>3, OverrideAfter DEF Parts
    <2> QED BY <2>2, <2>3
<1>4. DOMAIN overrides' = ScopeNames /\ DOMAIN wanted' = ScopeNames
    BY <1>1, <1>2 DEF LabelInv
<1>5. overrides'[scope] = saved /\ wanted'[scope] = asked
    BY <1>1, <1>2 DEF LabelInv
<1>6. \A other \in ScopeNames \ {scope} : overrides'[other] = overrides[other] /\ wanted'[other] = wanted[other]
    BY <1>1, <1>2 DEF LabelInv
<1> HIDE DEF saved, asked
<1>7. StoredIsWanted'
    BY <1>3, <1>5, <1>6 DEF LabelInv, StoredIsWanted
<1> QED BY <1>4, <1>7 DEF LabelInv

\* The nearest scope that gives a part is the one that was asked for one.
LEMMA NearestIsLast ==
    ASSUME LabelInv, NEW key \in Keys, NEW part \in Parts
    PROVE  Appearance(key)[part] = LastWanted(key, part)
<1> DEFINE given == Given(key, part)
           last == CHOOSE i \in given : \A j \in given : j <= i
<1>1. Scopes[1] = "global" /\ Scopes[2] = "project" /\ Scopes[3] = "feature" /\ Len(Scopes) = 3
    BY DEF Scopes
<1>2. /\ Override(overrides["global"], key)[part] = wanted["global"][key][part]
      /\ Override(overrides["project"], key)[part] = wanted["project"][key][part]
      /\ Override(overrides["feature"], key)[part] = wanted["feature"][key][part]
    BY DEF LabelInv, StoredIsWanted, ScopeNames
<1>3. /\ given \subseteq 1..3
      /\ 1 \in given <=> wanted["global"][key][part] # Unset
      /\ 2 \in given <=> wanted["project"][key][part] # Unset
      /\ 3 \in given <=> wanted["feature"][key][part] # Unset
    BY <1>1, <1>2 DEF Given
<1>4. \A i \in given : overrides[Scopes[i]][key][part] = wanted[Scopes[i]][key][part]
    <2> SUFFICES ASSUME NEW i \in given
                 PROVE  overrides[Scopes[i]][key][part] = wanted[Scopes[i]][key][part]
        OBVIOUS
    <2>1. Override(overrides[Scopes[i]], key)[part] # Unset
        BY DEF Given
    <2>2. NoOverride[part] = Unset
        BY DEF NoOverride, Parts
    <2>3. Override(overrides[Scopes[i]], key) = overrides[Scopes[i]][key]
        BY <2>1, <2>2 DEF Override
    <2>4. Scopes[i] \in ScopeNames
        BY <1>1, <1>3 DEF ScopeNames
    <2> QED BY <2>3, <2>4 DEF LabelInv, StoredIsWanted
<1>5. Appearance(key)[part] = Nearest(key, part)
    BY DEF Appearance, Parts
<1>6. CASE given = {}
    BY <1>3, <1>5, <1>6 DEF Nearest, LastWanted
<1>7. CASE given # {}
    <2>1. \E i \in given : \A j \in given : j <= i
        BY <1>3, <1>7
    <2>2. last \in given /\ \A j \in given : j <= last
        <3> HIDE DEF given
        <3> QED BY <2>1
    <2>3. Nearest(key, part) = wanted[Scopes[last]][key][part]
        BY <1>4, <1>7, <2>2 DEF Nearest
    <2> HIDE DEF last, given
    <2>4. CASE last = 3
        BY <1>1, <1>3, <1>5, <2>2, <2>3, <2>4 DEF LastWanted
    <2>5. CASE last = 2
        BY <1>1, <1>3, <1>5, <2>2, <2>3, <2>5 DEF LastWanted
    <2>6. CASE last = 1
        BY <1>1, <1>3, <1>5, <2>2, <2>3, <2>6 DEF LastWanted
    <2> QED BY <1>3, <2>2, <2>4, <2>5, <2>6
<1> QED BY <1>6, <1>7

\* A text that only one status shows means that status.
LEMMA TypedMeansShown ==
    ASSUME NEW key \in Stable
    PROVE  ResolveTaskStatusInput(Appearance(key).text) \in {key, Appearance(key).text, "refused"}
<1> DEFINE typed == Appearance(key).text
<1>1. key \in Matches(typed)
    BY DEF Matches
<1>2. IsFiniteSet(Matches(typed))
    BY FS_Subset, LabelsAssumption DEF Matches
<1>3. CASE Cardinality(Matches(typed)) = 1
    <2>1. PICK x : Matches(typed) = {x}
        BY <1>2, <1>3, FS_Singleton
    <2>2. (CHOOSE k \in Matches(typed) : TRUE) = key
        BY <1>1, <2>1
    <2> QED BY <1>3, <2>2 DEF ResolveTaskStatusInput
<1>4. CASE Cardinality(Matches(typed)) # 1
    BY <1>4 DEF ResolveTaskStatusInput
<1> QED BY <1>3, <1>4

\* What a scope stores being what was asked for, the labels shown mean what they show.
LEMMA LabelsMean == LabelInv => LabelsMeanWhatTheyShow
BY NearestIsLast, TypedMeansShown, LabelsAssumption DEF LabelsMeanWhatTheyShow, Parts

\* Through any updates of any parts of any labels in any scopes, accepted or refused, each
\* part that is shown is the one last asked for in the nearest scope that was asked for one,
\* and to type what a status shows never sets another, unless it is that one's very name.
THEOREM LabelsAlwaysMean == LabelsSpec => []LabelsMeanWhatTheyShow
<1>1. LabelsIdle => LabelInv
    BY DEF LabelsIdle, LabelInv, StoredIsWanted, Override, ScopeNames
<1>2. LabelInv /\ [LabelsNext]_labelsVars => LabelInv'
    <2>1. ASSUME LabelInv, LabelUpdate PROVE LabelInv'
        BY <2>1, UpdateKeeps DEF LabelUpdate
    <2>2. ASSUME LabelInv, UNCHANGED labelsVars PROVE LabelInv'
        BY <2>2 DEF labelsVars, LabelInv, StoredIsWanted
    <2> QED BY <2>1, <2>2 DEF LabelsNext
<1> QED BY <1>1, <1>2, LabelsMean, PTL DEF LabelsSpec

------------------------------------------------------------------------------
\* Diagnosis

\* The problems of the report that are of no host, and their codes.
Is(code) == [code |-> code, host |-> ""]
MissingFor(h) == [code |-> "no_auth_method_for_host", host |-> h]
Codes == {"storage_unavailable", "schema_version_ahead_of_binary", "database_not_writable",
          "database_integrity_errors", "pull_requests_stale", "config_unreadable",
          "config_permissions_too_open", "config_unknown_fields", "github_sync_run_error",
          "github_sync_never_completed", "github_sync_overdue", "daemon_plist_stale",
          "daemon_not_running", "daemon_binary_outdated"}

Endures(code) == Is(code) \in enduring

\* The sections read so far.
SectionRead(what) == \E i \in 1..(section - 1) : i \in DOMAIN Sections /\ Sections[i] = what

\* A report has all of its sections from the start, empty ones.
ReportShape ==
    /\ section \in 0..(Len(Sections) + 1) /\ changes \in Nat
    /\ DOMAIN report = {"available", "begun", "daemon", "config", "storage", "records", "sync"}
    /\ DOMAIN report.config = {"valid", "permissions", "warnings", "methods"}

\* What has been wrong so far is wrong, and each section read says so, or that it could
\* not be read.
EnduringTold ==
    /\ enduring \subseteq Wrong
    /\ ~report.available => /\ report.storage = UnavailableStorage
                            /\ report.records = UnavailableData /\ report.sync = UnavailableStatus
    /\ SectionRead("daemon") =>
          /\ Endures("daemon_plist_stale") => report.daemon.installed /\ report.daemon.plist = "stale"
          /\ Endures("daemon_not_running") => report.daemon.installed /\ ~report.daemon.running
          /\ Endures("daemon_binary_outdated") =>
                report.daemon.installed /\ (report.daemon.error \/ (report.daemon.running /\ ~report.daemon.matches))
    /\ SectionRead("permissions") => (Endures("config_permissions_too_open") => ~report.config.permissions)
    /\ SectionRead("config") =>
          /\ Endures("config_unreadable") => ~report.config.valid
          /\ Endures("config_unknown_fields") => report.config.warnings \/ ~report.config.valid
          /\ \A h : MissingFor(h) \in enduring =>
                ~report.config.valid \/ (report.config.methods # {} /\ h \notin report.config.methods)
    /\ SectionRead("storage") =>
          /\ Endures("storage_unavailable") => report.storage.error
          /\ Endures("schema_version_ahead_of_binary") => report.storage.ahead \/ report.storage.error
          /\ Endures("database_not_writable") => ~report.storage.writable
          /\ Endures("database_integrity_errors") => report.storage.broken
    /\ SectionRead("records") => report.records.error \/
          /\ Endures("pull_requests_stale") => report.records.hosts # {} /\ report.records.stale
          /\ Endures("github_sync_never_completed") => report.records.hosts # {}
          /\ Endures("github_sync_overdue") => report.records.hosts # {}
          /\ \A h : MissingFor(h) \in enduring => h \in report.records.hosts
    /\ SectionRead("sync") =>
          /\ Endures("github_sync_run_error") => report.sync.runError \/ report.sync.error
          /\ Endures("github_sync_never_completed") => report.sync.completed = "never"
          /\ Endures("github_sync_overdue") => report.sync.completed = "long_ago" \/ report.sync.error

\* While nothing has changed, what was read is what is there.
ReportCurrent ==
    section # 0 =>
        /\ report.begun \in Nat /\ report.begun <= changes
        /\ report.begun = changes =>
              /\ report.available = database.opens
              /\ SectionRead("daemon") => report.daemon = Inspect
              /\ SectionRead("permissions") => report.config.permissions = settings.private
              /\ SectionRead("config") => /\ report.config.valid = Loads
                                          /\ report.config.warnings = (Loads /\ settings.unknown)
                                          /\ report.config.methods = IF Loads THEN settings.hosts ELSE {}
              /\ SectionRead("storage") => report.storage = NewDebugStorage
              /\ SectionRead("records") => report.records = NewDebugData
              /\ SectionRead("sync") => report.sync = SyncStatus

\* A pull request is stale on a host that has one.
StaleOnHosts == pulls.stale \subseteq pulls.hosts /\ pulls.hosts \subseteq Hosts

DiagnosisInv == ReportShape /\ EnduringTold /\ ReportCurrent /\ StaleOnHosts

\* What is wrong, problem by problem.
LEMMA WrongMeans ==
    /\ Is("storage_unavailable") \in Wrong <=> ~Reachable \/ Unreadable("schema")
    /\ Is("schema_version_ahead_of_binary") \in Wrong <=> database.ahead
    /\ Is("database_not_writable") \in Wrong <=> ~database.writable
    /\ Is("database_integrity_errors") \in Wrong <=> database.broken \/ Unreadable("tables")
    /\ Is("pull_requests_stale") \in Wrong <=> pulls.stale # {}
    /\ Is("config_unreadable") \in Wrong <=> ~Loads
    /\ Is("config_permissions_too_open") \in Wrong <=> ~settings.private
    /\ Is("config_unknown_fields") \in Wrong <=> settings.unknown
    /\ Is("github_sync_run_error") \in Wrong <=> run.failed \/ ~Loads
    /\ Is("github_sync_never_completed") \in Wrong <=> pulls.hosts # {} /\ run.completed = "never"
    /\ Is("github_sync_overdue") \in Wrong <=> pulls.hosts # {} /\ run.completed = "long_ago"
    /\ Is("daemon_plist_stale") \in Wrong <=> agent.plist = "stale"
    /\ Is("daemon_not_running") \in Wrong <=> Installed /\ agent.server = "none"
    /\ Is("daemon_binary_outdated") \in Wrong <=> Installed /\ agent.server = "older"
    /\ \A h : MissingFor(h) \in Wrong <=> h \in Uncovered
    /\ \A p \in Wrong : (\E c \in Codes : p = Is(c)) \/ (\E h \in Uncovered : p = MissingFor(h))
<1>1. \A c, d : Is(c) = [code |-> d, host |-> ""] <=> c = d
    BY DEF Is
<1>2. \A c, h : c # "no_auth_method_for_host" =>
          Is(c) # MissingFor(h) /\ \A d : MissingFor(h) = [code |-> d, host |-> ""] => d # c
    BY DEF Is, MissingFor
<1>3. \A h, k : MissingFor(h) = MissingFor(k) <=> h = k
    BY DEF MissingFor
<1>4. \A p : p \in Wrong <=>
          \/ p = Is("storage_unavailable") /\ (~Reachable \/ Unreadable("schema"))
          \/ p = Is("schema_version_ahead_of_binary") /\ database.ahead
          \/ p = Is("database_not_writable") /\ ~database.writable
          \/ p = Is("database_integrity_errors") /\ (database.broken \/ Unreadable("tables"))
          \/ p = Is("pull_requests_stale") /\ pulls.stale # {}
          \/ p = Is("config_unreadable") /\ ~Loads
          \/ p = Is("config_permissions_too_open") /\ ~settings.private
          \/ p = Is("config_unknown_fields") /\ settings.unknown
          \/ \E h \in Uncovered : p = MissingFor(h)
          \/ p = Is("github_sync_run_error") /\ (run.failed \/ ~Loads)
          \/ p = Is("github_sync_never_completed") /\ (pulls.hosts # {} /\ run.completed = "never")
          \/ p = Is("github_sync_overdue") /\ (pulls.hosts # {} /\ run.completed = "long_ago")
          \/ p = Is("daemon_plist_stale") /\ agent.plist = "stale"
          \/ p = Is("daemon_not_running") /\ (Installed /\ agent.server = "none")
          \/ p = Is("daemon_binary_outdated") /\ (Installed /\ agent.server = "older")
    <2>2. \A p : p \in NoAuthMethod(Uncovered) <=> \E h \in Uncovered : p = MissingFor(h)
        BY DEF NoAuthMethod, MissingFor
    <2>3. \A p : p \in Problem("storage_unavailable", ~Reachable \/ Unreadable("schema")) <=>
              p = Is("storage_unavailable") /\ (~Reachable \/ Unreadable("schema"))
        BY DEF Problem, Is
    <2>4. \A p : p \in Problem("schema_version_ahead_of_binary", database.ahead) <=> p = Is("schema_version_ahead_of_binary") /\ (database.ahead)
        BY DEF Problem, Is
    <2>5. \A p : p \in Problem("database_not_writable", ~database.writable) <=> p = Is("database_not_writable") /\ (~database.writable)
        BY DEF Problem, Is
    <2>6. \A p : p \in Problem("database_integrity_errors", database.broken \/ Unreadable("tables")) <=>
              p = Is("database_integrity_errors") /\ (database.broken \/ Unreadable("tables"))
        BY DEF Problem, Is
    <2>7. \A p : p \in Problem("pull_requests_stale", pulls.stale # {}) <=> p = Is("pull_requests_stale") /\ (pulls.stale # {})
        BY DEF Problem, Is
    <2>8. \A p : p \in Problem("config_unreadable", ~Loads) <=> p = Is("config_unreadable") /\ (~Loads)
        BY DEF Problem, Is
    <2>9. \A p : p \in Problem("config_permissions_too_open", ~settings.private) <=> p = Is("config_permissions_too_open") /\ (~settings.private)
        BY DEF Problem, Is
    <2>10. \A p : p \in Problem("config_unknown_fields", settings.unknown) <=> p = Is("config_unknown_fields") /\ (settings.unknown)
        BY DEF Problem, Is
    <2>11. \A p : p \in Problem("github_sync_run_error", run.failed \/ ~Loads) <=> p = Is("github_sync_run_error") /\ (run.failed \/ ~Loads)
        BY DEF Problem, Is
    <2>12. \A p : p \in Problem("github_sync_never_completed", pulls.hosts # {} /\ run.completed = "never") <=> p = Is("github_sync_never_completed") /\ (pulls.hosts # {} /\ run.completed = "never")
        BY DEF Problem, Is
    <2>13. \A p : p \in Problem("github_sync_overdue", pulls.hosts # {} /\ run.completed = "long_ago") <=> p = Is("github_sync_overdue") /\ (pulls.hosts # {} /\ run.completed = "long_ago")
        BY DEF Problem, Is
    <2>14. \A p : p \in Problem("daemon_plist_stale", agent.plist = "stale") <=> p = Is("daemon_plist_stale") /\ (agent.plist = "stale")
        BY DEF Problem, Is
    <2>15. \A p : p \in Problem("daemon_not_running", Installed /\ agent.server = "none") <=> p = Is("daemon_not_running") /\ (Installed /\ agent.server = "none")
        BY DEF Problem, Is
    <2>16. \A p : p \in Problem("daemon_binary_outdated", Installed /\ agent.server = "older") <=> p = Is("daemon_binary_outdated") /\ (Installed /\ agent.server = "older")
        BY DEF Problem, Is
    <2> QED BY <2>2, <2>3, <2>4, <2>5, <2>6, <2>7, <2>8, <2>9, <2>10, <2>11, <2>12, <2>13, <2>14, <2>15, <2>16 DEF Wrong
<1>5. \A c, d : Is(c) = Is(d) <=> c = d
    BY <1>1 DEF Is
<1>6. \A c, h : c \in Codes => Is(c) # MissingFor(h)
    BY <1>2 DEF Codes
<1> HIDE DEF Is, MissingFor
<1>7. \A p \in Wrong : (\E c \in Codes : p = Is(c)) \/ (\E h \in Uncovered : p = MissingFor(h))
    BY <1>4 DEF Codes
<1>8. \A h : MissingFor(h) \in Wrong <=> h \in Uncovered
    BY <1>3, <1>4, <1>6 DEF Codes
<1> QED BY <1>4, <1>5, <1>6, <1>7, <1>8 DEF Codes

\* What is reported, problem by problem.
LEMMA ReportedMeans ==
    ASSUME NEW r
    PROVE  /\ Is("storage_unavailable") \in DetectDebugProblems(r) <=> r.storage.error
           /\ Is("schema_version_ahead_of_binary") \in DetectDebugProblems(r) <=> ~r.storage.error /\ r.storage.ahead
           /\ Is("database_not_writable") \in DetectDebugProblems(r) <=> ~r.storage.error /\ ~r.storage.writable
           /\ Is("database_integrity_errors") \in DetectDebugProblems(r) <=> ~r.storage.error /\ r.storage.broken
           /\ Is("pull_requests_stale") \in DetectDebugProblems(r) <=>
                 ~r.storage.error /\ r.records.hosts # {} /\ r.records.stale
           /\ Is("config_unreadable") \in DetectDebugProblems(r) <=> ~r.config.valid
           /\ Is("config_permissions_too_open") \in DetectDebugProblems(r) <=> ~r.config.permissions
           /\ Is("config_unknown_fields") \in DetectDebugProblems(r) <=> r.config.warnings
           /\ Is("github_sync_run_error") \in DetectDebugProblems(r) <=> r.sync.runError
           /\ Is("github_sync_never_completed") \in DetectDebugProblems(r) <=>
                 r.records.hosts # {} /\ r.sync.completed = "never"
           /\ Is("github_sync_overdue") \in DetectDebugProblems(r) <=>
                 r.records.hosts # {} /\ r.sync.completed = "long_ago"
           /\ Is("daemon_plist_stale") \in DetectDebugProblems(r) <=> r.daemon.installed /\ r.daemon.plist = "stale"
           /\ Is("daemon_not_running") \in DetectDebugProblems(r) <=> r.daemon.installed /\ ~r.daemon.running
           /\ Is("daemon_binary_outdated") \in DetectDebugProblems(r) <=>
                 r.daemon.installed /\ r.daemon.running /\ ~r.daemon.matches
           /\ \A h : MissingFor(h) \in DetectDebugProblems(r) <=> h \in HostsWithoutCredentials(r)
           /\ \A p \in DetectDebugProblems(r) :
                 (\E c \in Codes : p = Is(c)) \/ (\E h \in HostsWithoutCredentials(r) : p = MissingFor(h))
<1>3. \A h, k : MissingFor(h) = MissingFor(k) <=> h = k
    BY DEF MissingFor
<1>4. \A p : p \in DetectDebugProblems(r) <=>
          \/ p = Is("storage_unavailable") /\ r.storage.error
          \/ p = Is("schema_version_ahead_of_binary") /\ ~r.storage.error /\ r.storage.ahead
          \/ p = Is("database_not_writable") /\ ~r.storage.error /\ ~r.storage.writable
          \/ p = Is("database_integrity_errors") /\ ~r.storage.error /\ r.storage.broken
          \/ p = Is("pull_requests_stale") /\ ~r.storage.error /\ r.records.hosts # {} /\ r.records.stale
          \/ p = Is("config_unreadable") /\ ~r.config.valid
          \/ p = Is("config_permissions_too_open") /\ ~r.config.permissions
          \/ p = Is("config_unknown_fields") /\ r.config.warnings
          \/ \E h \in HostsWithoutCredentials(r) : p = MissingFor(h)
          \/ p = Is("github_sync_run_error") /\ r.sync.runError
          \/ p = Is("github_sync_never_completed") /\ r.records.hosts # {} /\ r.sync.completed = "never"
          \/ p = Is("github_sync_overdue") /\ r.records.hosts # {} /\ r.sync.completed = "long_ago"
          \/ p = Is("daemon_plist_stale") /\ r.daemon.installed /\ r.daemon.plist = "stale"
          \/ p = Is("daemon_not_running") /\ r.daemon.installed /\ ~r.daemon.running
          \/ p = Is("daemon_binary_outdated") /\ r.daemon.installed /\ r.daemon.running /\ ~r.daemon.matches
    <2>2. \A p : p \in NoAuthMethod(HostsWithoutCredentials(r)) <=>
              \E h \in HostsWithoutCredentials(r) : p = MissingFor(h)
        BY DEF NoAuthMethod, MissingFor
    <2>3. \A p : p \in Problem("storage_unavailable", TRUE) <=> p = Is("storage_unavailable")
        BY DEF Problem, Is
    <2>4. \A p : p \in Problem("schema_version_ahead_of_binary", r.storage.ahead) <=> p = Is("schema_version_ahead_of_binary") /\ (r.storage.ahead)
        BY DEF Problem, Is
    <2>5. \A p : p \in Problem("database_not_writable", ~r.storage.writable) <=> p = Is("database_not_writable") /\ (~r.storage.writable)
        BY DEF Problem, Is
    <2>6. \A p : p \in Problem("database_integrity_errors", r.storage.broken) <=> p = Is("database_integrity_errors") /\ (r.storage.broken)
        BY DEF Problem, Is
    <2>7. \A p : p \in Problem("pull_requests_stale", r.records.hosts # {} /\ r.records.stale) <=> p = Is("pull_requests_stale") /\ (r.records.hosts # {} /\ r.records.stale)
        BY DEF Problem, Is
    <2>8. \A p : p \in Problem("config_unreadable", ~r.config.valid) <=> p = Is("config_unreadable") /\ (~r.config.valid)
        BY DEF Problem, Is
    <2>9. \A p : p \in Problem("config_permissions_too_open", ~r.config.permissions) <=> p = Is("config_permissions_too_open") /\ (~r.config.permissions)
        BY DEF Problem, Is
    <2>10. \A p : p \in Problem("config_unknown_fields", r.config.warnings) <=> p = Is("config_unknown_fields") /\ (r.config.warnings)
        BY DEF Problem, Is
    <2>11. \A p : p \in Problem("github_sync_run_error", r.sync.runError) <=> p = Is("github_sync_run_error") /\ (r.sync.runError)
        BY DEF Problem, Is
    <2>12. \A p : p \in Problem("github_sync_never_completed", r.records.hosts # {} /\ r.sync.completed = "never") <=> p = Is("github_sync_never_completed") /\ (r.records.hosts # {} /\ r.sync.completed = "never")
        BY DEF Problem, Is
    <2>13. \A p : p \in Problem("github_sync_overdue", r.records.hosts # {} /\ r.sync.completed = "long_ago") <=> p = Is("github_sync_overdue") /\ (r.records.hosts # {} /\ r.sync.completed = "long_ago")
        BY DEF Problem, Is
    <2>14. \A p : p \in Problem("daemon_plist_stale", r.daemon.plist = "stale") <=> p = Is("daemon_plist_stale") /\ (r.daemon.plist = "stale")
        BY DEF Problem, Is
    <2>15. \A p : p \in Problem("daemon_not_running", TRUE) <=> p = Is("daemon_not_running")
        BY DEF Problem, Is
    <2>16. \A p : p \in Problem("daemon_binary_outdated", ~r.daemon.matches) <=> p = Is("daemon_binary_outdated") /\ (~r.daemon.matches)
        BY DEF Problem, Is
    <2>17. \A p : p \in StorageProblems(r) <=>
              \/ p = Is("storage_unavailable") /\ r.storage.error
              \/ p = Is("schema_version_ahead_of_binary") /\ ~r.storage.error /\ r.storage.ahead
              \/ p = Is("database_not_writable") /\ ~r.storage.error /\ ~r.storage.writable
              \/ p = Is("database_integrity_errors") /\ ~r.storage.error /\ r.storage.broken
              \/ p = Is("pull_requests_stale") /\ ~r.storage.error /\ r.records.hosts # {} /\ r.records.stale
        <3>1. CASE r.storage.error
            BY <2>3, <3>1 DEF StorageProblems
        <3>2. CASE ~r.storage.error
            <4>1. StorageProblems(r) =
                    Problem("schema_version_ahead_of_binary", r.storage.ahead)
                    \cup Problem("database_not_writable", ~r.storage.writable)
                    \cup Problem("database_integrity_errors", r.storage.broken)
                    \cup Problem("pull_requests_stale", r.records.hosts # {} /\ r.records.stale)
                BY <3>2 DEF StorageProblems
            <4> QED BY <2>4, <2>5, <2>6, <2>7, <3>2, <4>1
        <3> QED BY <3>1, <3>2
    <2>18. \A p : p \in DaemonProblems(r) <=>
              \/ p = Is("daemon_plist_stale") /\ r.daemon.installed /\ r.daemon.plist = "stale"
              \/ p = Is("daemon_not_running") /\ r.daemon.installed /\ ~r.daemon.running
              \/ p = Is("daemon_binary_outdated") /\ r.daemon.installed /\ r.daemon.running /\ ~r.daemon.matches
        <3>1. CASE ~r.daemon.installed
            BY <3>1 DEF DaemonProblems
        <3>2. CASE r.daemon.installed
            <4>1. DaemonProblems(r) = Problem("daemon_plist_stale", r.daemon.plist = "stale")
                    \cup IF ~r.daemon.running THEN Problem("daemon_not_running", TRUE)
                         ELSE Problem("daemon_binary_outdated", ~r.daemon.matches)
                BY <3>2 DEF DaemonProblems
            <4> QED BY <2>14, <2>15, <2>16, <3>2, <4>1
        <3> QED BY <3>1, <3>2
    <2> QED BY <2>2, <2>8, <2>9, <2>10, <2>11, <2>12, <2>13, <2>17, <2>18
            DEF DetectDebugProblems, ConfigProblems, SyncProblems
<1>5. \A c, d : Is(c) = Is(d) <=> c = d
    BY DEF Is
<1>6. \A c, h : c \in Codes => Is(c) # MissingFor(h)
    BY DEF Codes, Is, MissingFor
<1> HIDE DEF Is, MissingFor
<1>7. \A p \in DetectDebugProblems(r) :
          (\E c \in Codes : p = Is(c)) \/ (\E h \in HostsWithoutCredentials(r) : p = MissingFor(h))
    BY <1>4 DEF Codes
<1>8. \A h : MissingFor(h) \in DetectDebugProblems(r) <=> h \in HostsWithoutCredentials(r)
    BY <1>3, <1>4, <1>6 DEF Codes
<1> QED BY <1>4, <1>5, <1>6, <1>7, <1>8 DEF Codes

\* A section that is read is the next one, and changes nothing on the machine.
LEMMA ReadsOn ==
    ASSUME ReportShape, NEW what, NEW next, Reads(what, next), next.available = report.available
    PROVE  /\ report' = next /\ UNCHANGED <<database, settings, pulls, run, agent, enduring, changes>>
           /\ section # 0 /\ section' # 0 /\ section' \in 0..(Len(Sections') + 1) /\ Reachable' = Reachable
           /\ \A x : SectionRead(x)' <=> SectionRead(x) \/ x = what
<1>1. /\ section \in DOMAIN Sections /\ Sections[section] = what
      /\ report' = next /\ section' = section + 1
      /\ UNCHANGED <<database, settings, pulls, run, agent, enduring, changes>>
    BY DEF Reads, machineVars
<1>2. Sections' = Sections
    BY <1>1 DEF Sections
<1>3. /\ DOMAIN Sections = 1..Len(Sections) /\ Len(Sections) \in Nat
    <2>1. CASE report.available
        BY <2>1 DEF Sections
    <2>2. CASE ~report.available
        BY <2>2 DEF Sections
    <2> QED BY <2>1, <2>2
<1>4. section \in 1..Len(Sections) /\ section \in Nat
    BY <1>1, <1>3
<1>5. ASSUME NEW x PROVE SectionRead(x)' <=> SectionRead(x) \/ x = what
    BY <1>1, <1>2, <1>4 DEF SectionRead
<1>6. Reachable' = Reachable
    <2>1. section # 0 /\ section' # 0 /\ report'.available = report.available /\ database' = database
        BY <1>1, <1>4
    <2> QED BY <2>1 DEF Reachable
<1> QED BY <1>1, <1>2, <1>3, <1>4, <1>5, <1>6

\* What is read of the machine as it is says what endures, and is current.
LEMMA Untouched ==
    ASSUME UNCHANGED <<database, settings, pulls, run, agent>>, Reachable' = Reachable
    PROVE  /\ Wrong' = Wrong /\ Inspect' = Inspect /\ Loads' = Loads
           /\ NewDebugStorage' = NewDebugStorage /\ NewDebugData' = NewDebugData /\ SyncStatus' = SyncStatus
BY DEF Wrong, Inspect, NewDebugStorage, NewDebugData, SyncStatus, Loads, Installed, PlistStatus,
       Uncovered, Covered, Problem, NoAuthMethod, Unreadable, UnavailableData, UnavailableStatus

\* What the section of the database file says.
LEMMA StorageMeans ==
    /\ NewDebugStorage.error <=> Unreadable("schema")
    /\ ~NewDebugStorage.error => (NewDebugStorage.ahead <=> database.ahead)
    /\ NewDebugStorage.writable = database.writable
    /\ NewDebugStorage.broken <=> database.broken \/ Unreadable("tables")
<1> DEFINE Ahead == ~Unreadable("schema") /\ database.ahead
           Broken == database.broken \/ Unreadable("tables")
<1>1. /\ NewDebugStorage.error = Unreadable("schema") /\ NewDebugStorage.writable = database.writable
      /\ NewDebugStorage.ahead = Ahead /\ NewDebugStorage.broken = Broken
    BY DEF NewDebugStorage
<1> QED BY <1>1, Zenon

\* What the section of the records says.
LEMMA RecordsMean ==
    \/ NewDebugData = UnavailableData /\ NewDebugData.error /\ NewDebugData.hosts = {}
    \/ /\ ~NewDebugData.error /\ NewDebugData.hosts = pulls.hosts
       /\ NewDebugData.stale <=> pulls.stale # {}
<1>1. CASE Unreadable("tables")
    BY <1>1 DEF NewDebugData, UnavailableData
<1>2. CASE ~Unreadable("tables")
    <2>1. NewDebugData = [error |-> FALSE, hosts |-> pulls.hosts, stale |-> pulls.stale # {}]
        BY <1>2 DEF NewDebugData
    <2>2. NewDebugData.error = FALSE /\ NewDebugData.hosts = pulls.hosts
        BY <2>1
    <2>3. NewDebugData.stale = (pulls.stale # {})
        BY <2>1, Zenon
    <2> QED BY <2>2, <2>3, Zenon
<1> QED BY <1>1, <1>2

\* What the section of the refreshes says.
LEMMA SyncMeans ==
    \/ SyncStatus.error /\ SyncStatus.completed = "never" /\ ~SyncStatus.runError
    \/ SyncStatus.completed = run.completed /\ (SyncStatus.runError <=> run.failed \/ ~Loads)
<1>1. CASE Unreadable("refreshes")
    BY <1>1 DEF SyncStatus, UnavailableStatus
<1>2. CASE ~Unreadable("refreshes")
    <2> DEFINE Fails == run.failed \/ ~Loads
    <2>1. SyncStatus = [error |-> Unreadable("cache"), completed |-> run.completed, runError |-> Fails]
        BY <1>2 DEF SyncStatus
    <2>2. SyncStatus.completed = run.completed /\ SyncStatus.runError = Fails
        BY <2>1
    <2> QED BY <2>2, Zenon
<1> QED BY <1>1, <1>2

\* Each section that is read holds what is so then, and with it what has been wrong
\* all along: here of the LaunchAgent and the run state.
LEMMA ReadDaemonKept == ASSUME DiagnosisInv, ReadDaemon PROVE DiagnosisInv'
<1> DEFINE next == [report EXCEPT !.daemon = Inspect]
<1>1. PICK r : r = next
    OBVIOUS
<1>2. /\ DOMAIN r = DOMAIN report /\ r.daemon = Inspect
      /\ \A x \in {"available", "begun", "config", "storage", "records", "sync"} : r[x] = report[x]
    BY <1>1 DEF DiagnosisInv, ReportShape
<1>3. Reads("daemon", r) /\ r.available = report.available
    BY <1>1, <1>2 DEF ReadDaemon
<1>4. /\ report' = r /\ UNCHANGED <<database, settings, pulls, run, agent, enduring, changes>>
      /\ section # 0 /\ section' # 0 /\ section' \in 0..(Len(Sections') + 1) /\ Reachable' = Reachable
      /\ \A x : SectionRead(x)' <=> SectionRead(x) \/ x = "daemon"
    BY <1>3, ReadsOn DEF DiagnosisInv
<1>5. ReportShape' /\ StaleOnHosts'
    BY <1>2, <1>4 DEF DiagnosisInv, ReportShape, StaleOnHosts
<1>6. EnduringTold'
    <2>1. /\ Endures("daemon_plist_stale") => Inspect.installed /\ Inspect.plist = "stale"
          /\ Endures("daemon_not_running") => Inspect.installed /\ ~Inspect.running
          /\ Endures("daemon_binary_outdated") =>
                Inspect.installed /\ (Inspect.error \/ (Inspect.running /\ ~Inspect.matches))
        BY WrongMeans DEF DiagnosisInv, EnduringTold, Endures, Inspect, Installed, PlistStatus
    <2> QED BY <1>2, <1>4, <2>1, Untouched DEF DiagnosisInv, EnduringTold, Endures
<1>7. ReportCurrent'
    BY <1>2, <1>4, Untouched DEF DiagnosisInv, ReportCurrent
<1> QED BY <1>5, <1>6, <1>7 DEF DiagnosisInv

\* The sections of the database are read only when it could be opened.
LEMMA OnlyIfOpen ==
    ASSUME NEW what \in {"storage", "records", "sync"}, NEW next, Reads(what, next)
    PROVE  report.available
<1> SUFFICES ASSUME ~report.available PROVE FALSE
    OBVIOUS
<1>1. Sections = <<"permissions", "config", "daemon">>
    BY DEF Sections
<1>2. section \in 1..3 /\ Sections[section] = what
    BY <1>1 DEF Reads
<1> QED BY <1>1, <1>2

\* The same of the permissions of the configuration.
LEMMA ReadPermissionsKept == ASSUME DiagnosisInv, ReadPermissions PROVE DiagnosisInv'
<1> DEFINE next == [report EXCEPT !.config.permissions = settings.private]
<1>1. PICK r : r = next
    OBVIOUS
<1>2. /\ DOMAIN r = DOMAIN report /\ DOMAIN r.config = DOMAIN report.config
      /\ r.config.permissions = settings.private
      /\ \A x \in {"valid", "warnings", "methods"} : r.config[x] = report.config[x]
      /\ \A x \in {"available", "begun", "daemon", "storage", "records", "sync"} : r[x] = report[x]
    BY <1>1 DEF DiagnosisInv, ReportShape
<1>3. Reads("permissions", r) /\ r.available = report.available
    BY <1>1, <1>2 DEF ReadPermissions
<1>4. /\ report' = r /\ UNCHANGED <<database, settings, pulls, run, agent, enduring, changes>>
      /\ section # 0 /\ section' # 0 /\ section' \in 0..(Len(Sections') + 1) /\ Reachable' = Reachable
      /\ \A x : SectionRead(x)' <=> SectionRead(x) \/ x = "permissions"
    BY <1>3, ReadsOn DEF DiagnosisInv
<1>5. ReportShape' /\ StaleOnHosts'
    BY <1>2, <1>4 DEF DiagnosisInv, ReportShape, StaleOnHosts
<1>6. EnduringTold'
    <2>1. Endures("config_permissions_too_open") => ~settings.private
        BY WrongMeans DEF DiagnosisInv, EnduringTold, Endures
    <2> QED BY <1>2, <1>4, <2>1, Untouched DEF DiagnosisInv, EnduringTold, Endures
<1>7. ReportCurrent'
    BY <1>2, <1>4, Untouched DEF DiagnosisInv, ReportCurrent
<1> QED BY <1>5, <1>6, <1>7 DEF DiagnosisInv

\* The same of what the configuration says.
LEMMA ReadConfigKept == ASSUME DiagnosisInv, ReadConfig PROVE DiagnosisInv'
<1> DEFINE next == [report EXCEPT !.config = NewDebugConfig]
<1>1. PICK r : r = next
    OBVIOUS
<1>2. /\ DOMAIN r = DOMAIN report /\ r.config = NewDebugConfig
      /\ \A x \in {"available", "begun", "daemon", "storage", "records", "sync"} : r[x] = report[x]
    BY <1>1 DEF DiagnosisInv, ReportShape
<1>3. /\ DOMAIN r.config = {"valid", "permissions", "warnings", "methods"}
      /\ r.config.valid = Loads /\ r.config.permissions = report.config.permissions
      /\ r.config.warnings = (Loads /\ settings.unknown)
      /\ r.config.methods = IF Loads THEN settings.hosts ELSE {}
    BY <1>2 DEF NewDebugConfig
<1>4. Reads("config", r) /\ r.available = report.available
    BY <1>1, <1>2 DEF ReadConfig
<1>5. /\ report' = r /\ UNCHANGED <<database, settings, pulls, run, agent, enduring, changes>>
      /\ section # 0 /\ section' # 0 /\ section' \in 0..(Len(Sections') + 1) /\ Reachable' = Reachable
      /\ \A x : SectionRead(x)' <=> SectionRead(x) \/ x = "config"
    BY <1>4, ReadsOn DEF DiagnosisInv
<1>6. ReportShape' /\ StaleOnHosts'
    BY <1>2, <1>3, <1>5 DEF DiagnosisInv, ReportShape, StaleOnHosts
<1>7. EnduringTold'
    <2>1. /\ Endures("config_unreadable") => ~Loads
          /\ Endures("config_unknown_fields") => settings.unknown
          /\ \A h : MissingFor(h) \in enduring => h \in Uncovered
        BY WrongMeans DEF DiagnosisInv, EnduringTold, Endures
    <2>2. \A h \in Uncovered : settings.hosts # {} /\ h \notin settings.hosts
        BY DEF Uncovered, Covered, DiagnosisInv, StaleOnHosts
    <2>3. /\ Endures("config_unreadable") => ~r.config.valid
          /\ Endures("config_unknown_fields") => r.config.warnings \/ ~r.config.valid
          /\ \A h : MissingFor(h) \in enduring =>
                ~r.config.valid \/ (r.config.methods # {} /\ h \notin r.config.methods)
        BY <1>3, <2>1, <2>2
    <2> QED BY <1>2, <1>3, <1>5, <2>3, Untouched DEF DiagnosisInv, EnduringTold, Endures
<1>8. ReportCurrent'
    BY <1>2, <1>3, <1>5, Untouched DEF DiagnosisInv, ReportCurrent
<1> QED BY <1>6, <1>7, <1>8 DEF DiagnosisInv

\* The same of the database file.
LEMMA ReadStorageKept == ASSUME DiagnosisInv, ReadStorage PROVE DiagnosisInv'
<1> DEFINE next == [report EXCEPT !.storage = NewDebugStorage]
<1>1. PICK r : r = next
    OBVIOUS
<1>2. /\ DOMAIN r = DOMAIN report /\ r.storage = NewDebugStorage
      /\ \A x \in {"available", "begun", "daemon", "config", "records", "sync"} : r[x] = report[x]
    BY <1>1 DEF DiagnosisInv, ReportShape
<1>3. Reads("storage", r) /\ r.available = report.available
    BY <1>1, <1>2 DEF ReadStorage
<1>4. /\ report' = r /\ UNCHANGED <<database, settings, pulls, run, agent, enduring, changes>>
      /\ section # 0 /\ section' # 0 /\ section' \in 0..(Len(Sections') + 1) /\ Reachable' = Reachable
      /\ \A x : SectionRead(x)' <=> SectionRead(x) \/ x = "storage"
    BY <1>3, ReadsOn DEF DiagnosisInv
<1>5. ReportShape' /\ StaleOnHosts'
    BY <1>2, <1>4 DEF DiagnosisInv, ReportShape, StaleOnHosts
<1>6. report.available
    BY <1>3, OnlyIfOpen
<1>7. EnduringTold'
    <2>1. Reachable
        BY <1>4, <1>6 DEF Reachable
    <2>2. /\ Endures("storage_unavailable") => NewDebugStorage.error
          /\ Endures("schema_version_ahead_of_binary") => NewDebugStorage.ahead \/ NewDebugStorage.error
          /\ Endures("database_not_writable") => ~NewDebugStorage.writable
          /\ Endures("database_integrity_errors") => NewDebugStorage.broken
        BY <2>1, StorageMeans, WrongMeans DEF DiagnosisInv, EnduringTold, Endures
    <2> QED BY <1>2, <1>4, <1>6, <2>2, Untouched DEF DiagnosisInv, EnduringTold, Endures
<1>8. ReportCurrent'
    BY <1>2, <1>4, Untouched DEF DiagnosisInv, ReportCurrent
<1> QED BY <1>5, <1>7, <1>8 DEF DiagnosisInv

\* The same of the records.
LEMMA ReadRecordsKept == ASSUME DiagnosisInv, ReadRecords PROVE DiagnosisInv'
<1> DEFINE next == [report EXCEPT !.records = NewDebugData]
<1>1. PICK r : r = next
    OBVIOUS
<1>2. /\ DOMAIN r = DOMAIN report /\ r.records = NewDebugData
      /\ \A x \in {"available", "begun", "daemon", "config", "storage", "sync"} : r[x] = report[x]
    BY <1>1 DEF DiagnosisInv, ReportShape
<1>3. Reads("records", r) /\ r.available = report.available
    BY <1>1, <1>2 DEF ReadRecords
<1>4. /\ report' = r /\ UNCHANGED <<database, settings, pulls, run, agent, enduring, changes>>
      /\ section # 0 /\ section' # 0 /\ section' \in 0..(Len(Sections') + 1) /\ Reachable' = Reachable
      /\ \A x : SectionRead(x)' <=> SectionRead(x) \/ x = "records"
    BY <1>3, ReadsOn DEF DiagnosisInv
<1>5. ReportShape' /\ StaleOnHosts'
    BY <1>2, <1>4 DEF DiagnosisInv, ReportShape, StaleOnHosts
<1>6. report.available
    BY <1>3, OnlyIfOpen
<1>7. EnduringTold'
    <2>1. NewDebugData.error \/
          /\ Endures("pull_requests_stale") => NewDebugData.hosts # {} /\ NewDebugData.stale
          /\ Endures("github_sync_never_completed") => NewDebugData.hosts # {}
          /\ Endures("github_sync_overdue") => NewDebugData.hosts # {}
          /\ \A h : MissingFor(h) \in enduring => h \in NewDebugData.hosts
        BY RecordsMean, WrongMeans DEF DiagnosisInv, EnduringTold, Endures, StaleOnHosts, Uncovered
    <2> QED BY <1>2, <1>4, <1>6, <2>1, Untouched DEF DiagnosisInv, EnduringTold, Endures
<1>8. ReportCurrent'
    BY <1>2, <1>4, Untouched DEF DiagnosisInv, ReportCurrent
<1> QED BY <1>5, <1>7, <1>8 DEF DiagnosisInv

\* The same of the last refresh.
LEMMA ReadSyncKept == ASSUME DiagnosisInv, ReadSync PROVE DiagnosisInv'
<1> DEFINE next == [report EXCEPT !.sync = SyncStatus]
<1>1. PICK r : r = next
    OBVIOUS
<1>2. /\ DOMAIN r = DOMAIN report /\ r.sync = SyncStatus
      /\ \A x \in {"available", "begun", "daemon", "config", "storage", "records"} : r[x] = report[x]
    BY <1>1 DEF DiagnosisInv, ReportShape
<1>3. Reads("sync", r) /\ r.available = report.available
    BY <1>1, <1>2 DEF ReadSync
<1>4. /\ report' = r /\ UNCHANGED <<database, settings, pulls, run, agent, enduring, changes>>
      /\ section # 0 /\ section' # 0 /\ section' \in 0..(Len(Sections') + 1) /\ Reachable' = Reachable
      /\ \A x : SectionRead(x)' <=> SectionRead(x) \/ x = "sync"
    BY <1>3, ReadsOn DEF DiagnosisInv
<1>5. ReportShape' /\ StaleOnHosts'
    BY <1>2, <1>4 DEF DiagnosisInv, ReportShape, StaleOnHosts
<1>6. report.available
    BY <1>3, OnlyIfOpen
<1>7. EnduringTold'
    <2>1. /\ Endures("github_sync_run_error") => SyncStatus.runError \/ SyncStatus.error
          /\ Endures("github_sync_never_completed") => SyncStatus.completed = "never"
          /\ Endures("github_sync_overdue") => SyncStatus.completed = "long_ago" \/ SyncStatus.error
        BY SyncMeans, WrongMeans DEF DiagnosisInv, EnduringTold, Endures
    <2> QED BY <1>2, <1>4, <1>6, <2>1, Untouched DEF DiagnosisInv, EnduringTold, Endures
<1>8. ReportCurrent'
    BY <1>2, <1>4, Untouched DEF DiagnosisInv, ReportCurrent
<1> QED BY <1>5, <1>7, <1>8 DEF DiagnosisInv

\* A report that is begun has read nothing yet.
LEMMA DebugReportKept == ASSUME DiagnosisInv, DebugReport PROVE DiagnosisInv'
<1>1. /\ section = 0 /\ section' = 1 /\ enduring' = Wrong
      /\ UNCHANGED <<database, settings, pulls, run, agent, changes>>
    BY DEF DebugReport, machineVars
<1>2. PICK r : r = [NoReport EXCEPT !.available = database.opens, !.begun = changes]
    OBVIOUS
<1>3. /\ DOMAIN r = {"available", "begun", "daemon", "config", "storage", "records", "sync"}
      /\ r.available = database.opens /\ r.begun = changes
      /\ r.config = NoReport.config /\ r.storage = UnavailableStorage
      /\ r.records = UnavailableData /\ r.sync = UnavailableStatus
    BY <1>2 DEF NoReport
<1>4. report' = r
    BY <1>2 DEF DebugReport
<1>5. \A x : ~SectionRead(x)'
    BY <1>1 DEF SectionRead
<1>6. Len(Sections') \in Nat
    <2>1. CASE report'.available
        BY <2>1 DEF Sections
    <2>2. CASE ~report'.available
        BY <2>2 DEF Sections
    <2> QED BY <2>1, <2>2
<1>7. ReportShape' /\ StaleOnHosts'
    <2>1. DOMAIN NoReport.config = {"valid", "permissions", "warnings", "methods"}
        BY DEF NoReport
    <2>2. 1 \in 0..(Len(Sections') + 1)
        BY <1>6
    <2> QED BY <1>1, <1>3, <1>4, <2>1, <2>2 DEF DiagnosisInv, ReportShape, StaleOnHosts
<1>8. EnduringTold'
    <2>1. Reachable' = Reachable
        BY <1>1, <1>3, <1>4 DEF Reachable
    <2>2. enduring' = Wrong'
        BY <1>1, <2>1, Untouched
    <2> QED BY <1>3, <1>4, <1>5, <2>2 DEF EnduringTold
<1>9. ReportCurrent'
    BY <1>1, <1>3, <1>4, <1>5 DEF ReportCurrent, DiagnosisInv, ReportShape
<1> QED BY <1>7, <1>8, <1>9 DEF DiagnosisInv

\* No report is made.
NoneMade == report = NoReport /\ section = 0 /\ enduring = {} /\ changes \in Nat

\* Of no report there is nothing to say.
LEMMA EmptyReport == NoneMade => ReportShape /\ EnduringTold /\ ReportCurrent
<1> SUFFICES ASSUME NoneMade PROVE ReportShape /\ EnduringTold /\ ReportCurrent
    OBVIOUS
<1> USE DEF NoneMade
<1>1. /\ DOMAIN report = {"available", "begun", "daemon", "config", "storage", "records", "sync"}
      /\ DOMAIN report.config = {"valid", "permissions", "warnings", "methods"}
      /\ report.storage = UnavailableStorage /\ report.records = UnavailableData
      /\ report.sync = UnavailableStatus /\ report.available = FALSE
    BY DEF NoReport
<1>2. Sections = <<"permissions", "config", "daemon">>
    BY <1>1 DEF Sections
<1>3. \A x : ~SectionRead(x)
    BY DEF SectionRead
<1> QED BY <1>1, <1>2, <1>3 DEF ReportShape, EnduringTold, ReportCurrent, Endures

\* With the report written none is made.
LEMMA WriteReportKept == ASSUME DiagnosisInv, WriteReport PROVE DiagnosisInv'
<1>1. /\ report' = NoReport /\ section' = 0 /\ enduring' = {}
      /\ UNCHANGED <<database, settings, pulls, run, agent, changes>>
    BY DEF WriteReport, machineVars
<1>2. StaleOnHosts' /\ changes' \in Nat
    BY <1>1 DEF DiagnosisInv, StaleOnHosts, ReportShape
<1>3. (ReportShape /\ EnduringTold /\ ReportCurrent)'
    <2>1. NoneMade'
        BY <1>1, <1>2 DEF NoneMade
    <2> QED BY <2>1, EmptyReport, PTL
<1> QED BY <1>2, <1>3 DEF DiagnosisInv

\* Where a pull request is stale stays known, whatever changes on the machine.
LEMMA HostsStayKnown ==
    ASSUME StaleOnHosts, DatabaseChanges \/ SettingsChange \/ PullRequestsChange \/ RefreshCompletes
                         \/ TimePasses \/ AgentChanges
    PROVE  StaleOnHosts'
<1>1. CASE DatabaseChanges \/ SettingsChange \/ TimePasses \/ AgentChanges
    BY <1>1 DEF DatabaseChanges, SettingsChange, TimePasses, AgentChanges, StaleOnHosts
<1>2. CASE PullRequestsChange
    BY <1>2 DEF PullRequestsChange, StaleOnHosts
<1>3. CASE RefreshCompletes
    <2>1. PICK stale \in SUBSET pulls.hosts : pulls' = [pulls EXCEPT !.stale = stale]
        BY <1>3 DEF RefreshCompletes
    <2> QED BY <2>1 DEF StaleOnHosts
<1> QED BY <1>1, <1>2, <1>3

\* A change of the machine leaves what was read, and what endures is still wrong.
LEMMA MachineChangesKept == ASSUME DiagnosisInv, MachineChanges PROVE DiagnosisInv'
<1>1. /\ changes' = changes + 1 /\ enduring' = enduring \cap Wrong' /\ UNCHANGED <<section, report>>
      /\ \/ DatabaseChanges \/ SettingsChange \/ PullRequestsChange \/ RefreshCompletes
         \/ TimePasses \/ AgentChanges
    BY DEF MachineChanges, Alters
<1>2. Sections' = Sections /\ \A x : SectionRead(x)' <=> SectionRead(x)
    BY <1>1 DEF Sections, SectionRead
<1>3. StaleOnHosts'
    BY <1>1, HostsStayKnown DEF DiagnosisInv
<1>4. ReportShape'
    BY <1>1, <1>2 DEF DiagnosisInv, ReportShape
<1>5. EnduringTold'
    BY <1>1, <1>2 DEF DiagnosisInv, EnduringTold, Endures
<1>6. ReportCurrent'
    BY <1>1 DEF DiagnosisInv, ReportCurrent, ReportShape
<1> QED BY <1>3, <1>4, <1>5, <1>6 DEF DiagnosisInv

\* No report is made at the start.
LEMMA DiagnosisStart == DiagnosisIdle => DiagnosisInv
<1> SUFFICES ASSUME DiagnosisIdle PROVE DiagnosisInv
    OBVIOUS
<1>1. StaleOnHosts
    BY DEF DiagnosisIdle, StaleOnHosts
<1>2. NoneMade
    BY DEF DiagnosisIdle, NoneMade
<1> QED BY <1>1, <1>2, EmptyReport DEF DiagnosisInv

\* Every step keeps what a report in the making says.
LEMMA DiagnosisStep == DiagnosisInv /\ [DiagnosisNext]_diagnosisVars => DiagnosisInv'
<1> SUFFICES ASSUME DiagnosisInv, [DiagnosisNext]_diagnosisVars PROVE DiagnosisInv'
    OBVIOUS
<1>1. CASE UNCHANGED diagnosisVars
    <2>1. UNCHANGED <<database, settings, pulls, run, agent, section, report, enduring, changes>>
        BY <1>1 DEF diagnosisVars, machineVars
    <2>2. Sections' = Sections /\ \A x : SectionRead(x)' <=> SectionRead(x)
        BY <2>1 DEF Sections, SectionRead
    <2>3. Reachable' = Reachable
        BY <2>1 DEF Reachable
    <2> QED BY <2>1, <2>2, <2>3, Untouched DEF DiagnosisInv, ReportShape, EnduringTold, Endures, ReportCurrent, StaleOnHosts
<1>2. CASE MachineChanges \/ DebugReport \/ WriteReport
    BY <1>2, MachineChangesKept, DebugReportKept, WriteReportKept
<1>3. CASE ReadDaemon \/ ReadPermissions \/ ReadConfig
    BY <1>3, ReadDaemonKept, ReadPermissionsKept, ReadConfigKept
<1>4. CASE ReadStorage \/ ReadRecords \/ ReadSync
    BY <1>4, ReadStorageKept, ReadRecordsKept, ReadSyncKept
<1> QED BY <1>1, <1>2, <1>3, <1>4 DEF DiagnosisNext

\* The inductive invariant of the report: the sections read hold what endures,
\* and, while nothing changes, what is there.
THEOREM DiagnosisInvariant == DiagnosisSpec => []DiagnosisInv
BY DiagnosisStart, DiagnosisStep, PTL DEF DiagnosisSpec

------------------------------------------------------------------------------

\* A report that is complete has read all of its sections.
LEMMA AllRead ==
    ASSUME section = Len(Sections) + 1
    PROVE  /\ SectionRead("daemon") /\ SectionRead("permissions") /\ SectionRead("config")
           /\ report.available => SectionRead("storage") /\ SectionRead("records") /\ SectionRead("sync")
<1>1. CASE report.available
    <2>1. Sections = <<"daemon", "permissions", "config", "storage", "records", "sync">> /\ section = 7
        BY <1>1 DEF Sections
    <2>2. \A i \in 1..6 : SectionRead(Sections[i])
        BY <2>1 DEF SectionRead
    <2> QED BY <2>1, <2>2
<1>2. CASE ~report.available
    <2>1. Sections = <<"permissions", "config", "daemon">> /\ section = 4
        BY <1>2 DEF Sections
    <2>2. \A i \in 1..3 : SectionRead(Sections[i])
        BY <2>1 DEF SectionRead
    <2> QED BY <1>2, <2>1, <2>2
<1> QED BY <1>1, <1>2

\* What endures is named, or its section says that it could not be read.
LEMMA EnduringNamed ==
    ASSUME DiagnosisInv, section = Len(Sections) + 1, NEW problem \in enduring
    PROVE  problem \in Problems \/ Unknown(problem.code)
<1>1. PICK r : r = report
    OBVIOUS
<1>2. Problems = DetectDebugProblems(r)
    BY <1>1 DEF Problems
<1>3. \A c : Is(c).code = c
    BY DEF Is
<1>4. ~r.available => /\ r.storage.error /\ r.records.error /\ r.sync.error
    BY <1>1 DEF DiagnosisInv, EnduringTold, UnavailableStorage, UnavailableData, UnavailableStatus
<1>5. CASE \E h : problem = MissingFor(h)
    <2>1. PICK h : problem = MissingFor(h)
        BY <1>5
    <2>2. problem.code = "no_auth_method_for_host"
        BY <2>1 DEF MissingFor
    <2>3. CASE ~r.config.valid \/ r.records.error
        BY <1>1, <2>2, <2>3 DEF Unknown
    <2>4. CASE r.config.valid /\ ~r.records.error
        <3>1. r.config.methods # {} /\ h \notin r.config.methods /\ h \in r.records.hosts
            BY <1>1, <1>4, <2>1, <2>4, AllRead DEF DiagnosisInv, EnduringTold
        <3>2. h \in HostsWithoutCredentials(r)
            BY <2>4, <3>1 DEF HostsWithoutCredentials
        <3> QED BY <1>2, <2>1, <3>2, ReportedMeans
    <2> QED BY <2>3, <2>4
<1>6. CASE \E c \in Codes : problem = Is(c)
    <2>1. PICK c \in Codes : problem = Is(c)
        BY <1>6
    <2>2. problem.code = c /\ Endures(c)
        BY <1>3, <2>1 DEF Endures
    <2>3. CASE c \in {"daemon_plist_stale", "daemon_not_running"}
        BY <1>1, <1>2, <2>1, <2>2, <2>3, AllRead, ReportedMeans DEF DiagnosisInv, EnduringTold
    <2>4. CASE c = "daemon_binary_outdated"
        <3>1. r.daemon.error \/ Is(c) \in Problems
            BY <1>1, <1>2, <2>2, <2>4, AllRead, ReportedMeans DEF DiagnosisInv, EnduringTold
        <3> QED BY <1>1, <2>1, <2>2, <2>4, <3>1 DEF Unknown
    <2>5. CASE c \in {"config_permissions_too_open", "config_unreadable"}
        BY <1>1, <1>2, <2>1, <2>2, <2>5, AllRead, ReportedMeans DEF DiagnosisInv, EnduringTold
    <2>6. CASE c = "config_unknown_fields"
        <3>1. r.config.warnings \/ ~r.config.valid
            BY <1>1, <2>2, <2>6, AllRead DEF DiagnosisInv, EnduringTold
        <3> QED BY <1>1, <1>2, <2>1, <2>2, <2>6, <3>1, ReportedMeans DEF Unknown
    <2>7. CASE c = "storage_unavailable"
        <3>1. r.storage.error
            BY <1>1, <1>4, <2>2, <2>7, AllRead DEF DiagnosisInv, EnduringTold
        <3> QED BY <1>2, <2>1, <2>7, <3>1, ReportedMeans
    <2>8. CASE c \in {"schema_version_ahead_of_binary", "database_not_writable", "database_integrity_errors"}
        <3>1. r.storage.error \/ Is(c) \in Problems
            BY <1>1, <1>2, <1>4, <2>2, <2>8, AllRead, ReportedMeans DEF DiagnosisInv, EnduringTold
        <3> QED BY <1>1, <2>1, <2>2, <2>8, <3>1 DEF Unknown
    <2>9. CASE c = "pull_requests_stale"
        <3>1. r.storage.error \/ r.records.error \/ Is(c) \in Problems
            BY <1>1, <1>2, <1>4, <2>2, <2>9, AllRead, ReportedMeans DEF DiagnosisInv, EnduringTold
        <3> QED BY <1>1, <2>1, <2>2, <2>9, <3>1 DEF Unknown
    <2>10. CASE c = "github_sync_run_error"
        <3>1. r.sync.error \/ Is(c) \in Problems
            BY <1>1, <1>2, <1>4, <2>2, <2>10, AllRead, ReportedMeans DEF DiagnosisInv, EnduringTold
        <3> QED BY <1>1, <2>1, <2>2, <2>10, <3>1 DEF Unknown
    <2>11. CASE c = "github_sync_never_completed"
        <3>1. r.records.error \/ Is(c) \in Problems
            BY <1>1, <1>2, <1>4, <2>2, <2>11, AllRead, ReportedMeans DEF DiagnosisInv, EnduringTold
        <3> QED BY <1>1, <2>1, <2>2, <2>11, <3>1 DEF Unknown
    <2>12. CASE c = "github_sync_overdue"
        <3>1. r.records.error \/ r.sync.error \/ Is(c) \in Problems
            BY <1>1, <1>2, <1>4, <2>2, <2>12, AllRead, ReportedMeans DEF DiagnosisInv, EnduringTold
        <3> QED BY <1>1, <2>1, <2>2, <2>12, <3>1 DEF Unknown
    <2> QED BY <2>3, <2>4, <2>5, <2>6, <2>7, <2>8, <2>9, <2>10, <2>11, <2>12 DEF Codes
<1> QED BY <1>5, <1>6, WrongMeans DEF DiagnosisInv, EnduringTold

\* What a report of a still machine names is so, but for what it could not read.
LEMMA NamedIsWrong ==
    ASSUME DiagnosisInv, section = Len(Sections) + 1, report.begun = changes, NEW problem \in Problems \ Wrong
    PROVE  TakenFor(problem.code)
<1>1. PICK r : r = report
    OBVIOUS
<1>2. Problems = DetectDebugProblems(r)
    BY <1>1 DEF Problems
<1>3. /\ section # 0
      /\ r.available = database.opens /\ r.daemon = Inspect /\ r.config.permissions = settings.private
      /\ r.config.valid = Loads /\ r.config.warnings = (Loads /\ settings.unknown)
      /\ r.config.methods = IF Loads THEN settings.hosts ELSE {}
      /\ r.available => r.storage = NewDebugStorage /\ r.records = NewDebugData /\ r.sync = SyncStatus
    <2>1. section # 0
        BY DEF DiagnosisInv, ReportShape, Sections
    <2> QED BY <1>1, <2>1, AllRead DEF DiagnosisInv, ReportCurrent
<1>4. ~r.available => r.storage = UnavailableStorage /\ r.records = UnavailableData /\ r.sync = UnavailableStatus
    BY <1>1 DEF DiagnosisInv, EnduringTold
<1>5. r.available => /\ r.storage.error <=> Unreadable("schema")
                     /\ ~r.storage.error => (r.storage.ahead <=> database.ahead)
                     /\ r.storage.writable = database.writable
                     /\ r.storage.broken <=> database.broken \/ Unreadable("tables")
    BY <1>3, StorageMeans
<1>6. r.available => \/ r.records.hosts = {}
                     \/ r.records.hosts = pulls.hosts /\ (r.records.stale <=> pulls.stale # {})
    BY <1>3, RecordsMean
<1>7. r.available => \/ r.sync.error /\ r.sync.completed = "never" /\ ~r.sync.runError
                     \/ r.sync.completed = run.completed /\ (r.sync.runError <=> run.failed \/ ~Loads)
    BY <1>3, SyncMeans
<1>8. /\ r.daemon.installed <=> Installed
      /\ r.daemon.matches <=> (agent.readable => agent.server # "older")
      /\ r.daemon.running <=> agent.readable /\ agent.server # "none"
      /\ r.daemon.error <=> ~agent.readable \/ agent.plist = "unsafe"
      /\ r.daemon.plist = PlistStatus
    <2>1. /\ Inspect.installed = Installed
          /\ Inspect.plist = PlistStatus
        BY Zenon DEF Inspect
    <2>2. Inspect.matches = (agent.readable => agent.server # "older")
        BY Zenon DEF Inspect
    <2>3. Inspect.running = (agent.readable /\ agent.server # "none")
        BY Zenon DEF Inspect
    <2>4. Inspect.error = (~agent.readable \/ agent.plist = "unsafe")
        BY Zenon DEF Inspect
    <2> QED BY <1>3, <2>1, <2>2, <2>3, <2>4, Zenon
<1>9. CASE \E h \in HostsWithoutCredentials(r) : problem = MissingFor(h)
    <2>1. PICK h \in HostsWithoutCredentials(r) : problem = MissingFor(h)
        BY <1>9
    <2>2. r.config.valid /\ r.config.methods # {} /\ h \in r.records.hosts /\ h \notin r.config.methods
        BY DEF HostsWithoutCredentials
    <2>3. r.available
        BY <1>4, <2>2 DEF UnavailableData
    <2>4. h \in Uncovered
        BY <1>3, <1>6, <2>2, <2>3 DEF Uncovered, Covered
    <2> QED BY <2>1, <2>4, WrongMeans
<1>10. CASE \E c \in Codes : problem = Is(c)
    <2>1. PICK c \in Codes : problem = Is(c)
        BY <1>10
    <2>2. Is(c) \in DetectDebugProblems(r) /\ Is(c) \notin Wrong
        BY <1>2, <2>1
    <2>3. c \notin {"storage_unavailable", "schema_version_ahead_of_binary", "database_not_writable",
                    "database_integrity_errors", "pull_requests_stale"}
        <3>1. CASE r.available
            BY <1>3, <1>5, <1>6, <2>2, <3>1, ReportedMeans, WrongMeans
        <3>2. CASE ~r.available
            <4>1. ~Reachable
                BY <1>1, <1>3, <3>2 DEF Reachable
            <4> QED BY <1>4, <2>2, <3>2, <4>1, ReportedMeans, WrongMeans DEF UnavailableStorage
        <3> QED BY <3>1, <3>2
    <2>4. c \notin {"config_unreadable", "config_permissions_too_open", "config_unknown_fields"}
        BY <1>3, <2>2, ReportedMeans, WrongMeans
    <2>5. c \notin {"github_sync_run_error", "github_sync_overdue"}
        <3>1. CASE r.available
            BY <1>6, <1>7, <2>2, <3>1, ReportedMeans, WrongMeans
        <3>2. CASE ~r.available
            BY <1>4, <2>2, <3>2, ReportedMeans DEF UnavailableData, UnavailableStatus
        <3> QED BY <3>1, <3>2
    <2>6. CASE c = "daemon_plist_stale"
        BY <1>3, <2>2, <2>6, ReportedMeans, WrongMeans DEF Inspect, PlistStatus
    <2>7. CASE c = "daemon_binary_outdated"
        BY <1>8, <2>2, <2>7, ReportedMeans, WrongMeans
    <2>8. CASE c = "daemon_not_running"
        <3>1. Installed /\ ~(agent.readable /\ agent.server # "none")
            BY <1>8, <2>2, <2>8, ReportedMeans
        <3>2. ~agent.readable
            BY <2>2, <2>8, <3>1, WrongMeans
        <3>3. r.daemon.error
            BY <1>8, <3>2
        <3> QED BY <1>1, <2>1, <2>8, <3>3 DEF Is, TakenFor
    <2>9. CASE c = "github_sync_never_completed"
        <3>1. r.sync.error
            <4>1. CASE r.available
                BY <1>6, <1>7, <2>2, <2>9, <4>1, ReportedMeans, WrongMeans
            <4>2. CASE ~r.available
                BY <1>4, <4>2 DEF UnavailableStatus
            <4> QED BY <4>1, <4>2
        <3> QED BY <1>1, <2>1, <2>9, <3>1 DEF Is, TakenFor
    <2> QED BY <2>3, <2>4, <2>5, <2>6, <2>7, <2>8, <2>9 DEF Codes
<1> QED BY <1>2, <1>9, <1>10, ReportedMeans

\* A report tells the truth, for any hosts, however much changes while it is made and
\* whichever of its reads fail: what was wrong all the while is named, or its section
\* says that it could not be read, and what a report of a still machine names is so,
\* but for what it says it could not read.
THEOREM ReportsTellTheTruth == DiagnosisSpec => ReportTellsTheTruth
<1>1. DiagnosisInv =>
        [WriteReport =>
            /\ \A problem \in enduring : problem \in Problems \/ Unknown(problem.code)
            /\ report.begun = changes => \A problem \in Problems \ Wrong : TakenFor(problem.code)]_diagnosisVars
    BY EnduringNamed, NamedIsWrong DEF WriteReport
<1> QED BY <1>1, DiagnosisInvariant, PTL DEF ReportTellsTheTruth

------------------------------------------------------------------------------
\* Pull requests

Review == [by : Reviewers, verdict : Verdicts \cup {"approved", "changes", "dismissed"}, at : Nat]
CheckStates == {"none", "failure", "pending", "success", "unknown"}
PullRequestRow == [state : {"open", "closed", "merged", "unknown"}, shape : {"ready", "draft", "conflict"},
                   review : {"none", "required", "approved", "changes_requested", "unknown"},
                   pending : BOOLEAN, changesAt : Nat, pushedAt : Nat, checks : CheckStates, stale : BOOLEAN]
OnGitHub == [state : {"open", "closed", "merged"}, shape : {"ready", "draft", "conflict"},
             reviews : SUBSET Review, requested : BOOLEAN, pushed : Nat,
             checks : CheckResults \cup {[status |-> "absent", runs |-> <<>>]}]
Fetches == [route : {"none", "get", "reviews", "commit", "checks", "graphql", "pages"},
            value : PullRequestRow, reviews : SUBSET Review, read : SUBSET Reviewers, sha : Nat, since : Nat]

FactsTypeOK == truth \in OnGitHub /\ stored \in PullRequestRow /\ fetch \in Fetches /\ events \in Nat

\* No two reviews are submitted at once.
Timed == /\ \A v \in truth.reviews : v.at <= events
         /\ \A v, w \in truth.reviews : v.at = w.at => v = w

\* What the refresh has read of the requests for changes: nothing yet, and it would leave the time
\* that is stored; or no less than those that have stood since; or those of the first page.
HeldSoFar ==
    /\ standing \subseteq StandingChanges
    /\ fetch.route \in {"get", "reviews", "pages"} => fetch.value.changesAt = stored.changesAt
    /\ fetch.route \in {"commit", "checks"} => \A moment \in standing : moment <= fetch.value.changesAt
    /\ fetch.route = "pages" =>
          /\ fetch.read = FirstPage
          /\ \A v \in fetch.reviews : v.at <= events
          /\ \A v \in truth.reviews :
                v.at \in standing /\ v.by \in FirstPage =>
                   \E w \in fetch.reviews : w.at = v.at /\ w.verdict = "changes"

\* While nothing happens, what the refresh has read is so.
FetchFresh ==
    /\ fetch.since <= events
    /\ fetch.since = events =>
          /\ fetch.route \in {"reviews", "commit", "checks", "pages"} =>
                ~Finished(truth.state) /\ fetch.value.state = truth.state /\ fetch.value.shape = truth.shape
          /\ fetch.route \in {"commit", "checks"} =>
                /\ fetch.value.review = ReviewState(Verdict(RESTReviews), truth.requested)
                /\ fetch.value.changesAt = ChangesRequestedAt(RESTReviews)
          /\ fetch.route \in {"commit", "checks", "pages"} => fetch.value.pending = truth.requested
          /\ fetch.route = "checks" => fetch.sha = truth.pushed
          /\ fetch.route \in {"checks", "pages"} => fetch.value.pushedAt = truth.pushed
          /\ fetch.route = "pages" => /\ fetch.reviews = LatestReviews(FirstPage)
                                      /\ fetch.value.checks = Rollup(truth.checks)

FactsInv == FactsTypeOK /\ Timed /\ HeldSoFar /\ FetchFresh

\* The greatest of some bounded numbers is one of them, if there are any.
LEMMA MaxOfBounded ==
    ASSUME NEW n \in Nat, NEW S, S \subseteq Nat, \A m \in S : m <= n
    PROVE  MaxOf(S) \in Nat /\ (\A m \in S : m <= MaxOf(S)) /\ (S # {} => MaxOf(S) \in S)
<1>1. CASE S = {}
    BY <1>1 DEF MaxOf
<1>2. CASE S # {}
    <2> DEFINE T == {n - m : m \in S}
    <2>1. T \subseteq Nat /\ T # {}
        <3>1. \A m \in S : n - m \in Nat
            OBVIOUS
        <3>2. \E m \in S : n - m \in T
            BY <1>2
        <3> QED BY <3>1, <3>2
    <2> HIDE DEF T
    <2>2. PICK k \in T : \A l \in T : k <= l
        BY <2>1, LeastOf
    <2>3. PICK top \in S : k = n - top
        BY <2>2 DEF T
    <2>4. \A m \in S : m <= top
        <3> SUFFICES ASSUME NEW m \in S PROVE m <= top
            OBVIOUS
        <3>1. n - m \in T
            BY DEF T
        <3> QED BY <2>2, <2>3, <3>1
    <2> QED BY <1>2, <2>4 DEF MaxOf
<1> QED BY <1>1, <1>2

\* The newest of some reviews is one of them.
LEMMA NewestIs ==
    ASSUME FactsInv
    PROVE  \A R \in SUBSET truth.reviews : R # {} => Newest(R) \in R /\ \A v \in R : v.at <= Newest(R).at
<1> SUFFICES ASSUME NEW R \in SUBSET truth.reviews, R # {}
             PROVE  Newest(R) \in R /\ \A v \in R : v.at <= Newest(R).at
    OBVIOUS
<1>1. events \in Nat /\ \A v \in R : v.at \in Nat /\ v.at <= events
    BY DEF FactsInv, FactsTypeOK, OnGitHub, Review, Timed
<1>2. PICK n : n = events
    OBVIOUS
<1> DEFINE T == {n - v.at : v \in R}
<1>3. T \subseteq Nat /\ T # {}
    BY <1>1, <1>2
<1> HIDE DEF T
<1>4. PICK k \in T : \A l \in T : k <= l
    BY <1>3, LeastOf
<1>5. PICK top \in R : k = n - top.at
    BY <1>4 DEF T
<1>6. \A v \in R : v.at <= top.at
    <2> SUFFICES ASSUME NEW v \in R PROVE v.at <= top.at
        OBVIOUS
    <2>1. n - v.at \in T
        BY DEF T
    <2> QED BY <1>1, <1>2, <1>4, <1>5, <2>1
<1> QED BY <1>6 DEF Newest

\* There is only one newest review, as no two are submitted at once.
LEMMA OnlyNewest ==
    ASSUME FactsInv
    PROVE  \A R \in SUBSET truth.reviews : \A v \in R : (\A w \in R : w.at <= v.at) => Newest(R) = v
<1> SUFFICES ASSUME NEW R \in SUBSET truth.reviews, NEW v \in R, \A w \in R : w.at <= v.at
             PROVE  Newest(R) = v
    OBVIOUS
<1>1. Newest(R) \in R /\ v.at <= Newest(R).at /\ Newest(R).at <= v.at
    BY NewestIs
<1>2. v.at \in Nat /\ Newest(R).at \in Nat
    BY <1>1 DEF FactsInv, FactsTypeOK, OnGitHub, Review
<1> QED BY <1>1, <1>2 DEF FactsInv, Timed

\* A reviewer's last review that is an opinion is their last opinion.
LEMMA LastOpinion ==
    ASSUME FactsInv
    PROVE  \A r \in Reviewed : LastReview(r) \in Opinions(r) => Newest(Opinions(r)) = LastReview(r)
<1> SUFFICES ASSUME NEW r \in Reviewed, LastReview(r) \in Opinions(r)
             PROVE  Newest(Opinions(r)) = LastReview(r)
    OBVIOUS
<1>1. Reviews(r) \in SUBSET truth.reviews /\ Opinions(r) \in SUBSET Reviews(r) /\ Reviews(r) # {}
    BY DEF Reviews, Opinions, Reviewed
<1>2. \A v \in Opinions(r) : v.at <= LastReview(r).at
    BY <1>1, NewestIs DEF LastReview
<1> QED BY <1>1, <1>2, OnlyNewest

\* What stands was requested by somebody's last review.
LEMMA StandingIs ==
    ASSUME FactsInv
    PROVE  \A moment \in StandingChanges : \E r \in Reviewed :
              /\ LastReview(r) \in truth.reviews /\ LastReview(r) \in Opinions(r)
              /\ LastReview(r).by = r /\ LastReview(r).verdict = "changes" /\ LastReview(r).at = moment
<1> SUFFICES ASSUME NEW moment \in StandingChanges
             PROVE  \E r \in Reviewed :
                       /\ LastReview(r) \in truth.reviews /\ LastReview(r) \in Opinions(r)
                       /\ LastReview(r).by = r /\ LastReview(r).verdict = "changes" /\ LastReview(r).at = moment
    OBVIOUS
<1>1. PICK r \in Reviewed : LastReview(r).verdict = "changes" /\ LastReview(r).at = moment
    BY DEF StandingChanges
<1>2. Reviews(r) \in SUBSET truth.reviews /\ Reviews(r) # {}
    BY DEF Reviews, Reviewed
<1>3. LastReview(r) \in Reviews(r)
    BY <1>2, NewestIs DEF LastReview
<1> QED BY <1>1, <1>2, <1>3 DEF Reviews, Opinions

\* The reviews that REST and GraphQL answer with are reviews of the pull request.
LEMMA AnswersAreReviews ==
    ASSUME FactsInv
    PROVE  /\ RESTReviews \subseteq truth.reviews
           /\ \A of : LatestReviews(of) \subseteq truth.reviews
           /\ \A r \in Reviewed : LastReview(r) \in Reviews(r)
<1>1. \A r : Reviews(r) \in SUBSET truth.reviews /\ Opinions(r) \in SUBSET Reviews(r)
    BY DEF Reviews, Opinions
<1>2. \A r \in Reviewed : LastReview(r) \in Reviews(r)
    BY <1>1, NewestIs DEF Reviewed, LastReview
<1>3. \A r : Opinions(r) # {} => Newest(Opinions(r)) \in Opinions(r)
    BY <1>1, NewestIs
<1> QED BY <1>1, <1>2, <1>3 DEF RESTReviews, LatestReviews

\* REST misses no request for changes that stands.
LEMMA RESTSeesStanding ==
    ASSUME FactsInv
    PROVE  \A moment \in StandingChanges : \E v \in RESTReviews : v.verdict = "changes" /\ v.at = moment
<1> SUFFICES ASSUME NEW moment \in StandingChanges
             PROVE  \E v \in RESTReviews : v.verdict = "changes" /\ v.at = moment
    OBVIOUS
<1>1. PICK r \in Reviewed : /\ LastReview(r) \in Opinions(r)
                            /\ LastReview(r).verdict = "changes" /\ LastReview(r).at = moment
    BY StandingIs
<1>2. Newest(Opinions(r)) = LastReview(r) /\ Opinions(r) # {}
    BY <1>1, LastOpinion
<1> QED BY <1>1, <1>2 DEF RESTReviews, Reviewed

\* At first nothing is read.
LEMMA FactsStart == FactsIdle => FactsInv
<1> SUFFICES ASSUME FactsIdle PROVE FactsInv
    OBVIOUS
<1>1. FactsTypeOK
    BY DEF FactsIdle, FactsTypeOK, OnGitHub, PullRequestRow, Fetches, CheckStates, NoFetch
<1>2. Timed
    BY DEF FactsIdle, Timed
<1>3. HeldSoFar
    BY DEF FactsIdle, HeldSoFar, NoFetch
<1>4. FetchFresh
    BY DEF FactsIdle, FetchFresh, NoFetch
<1> QED BY <1>1, <1>2, <1>3, <1>4 DEF FactsInv

\* A refresh that has stored what it read holds nothing.
LEMMA StoringKeeps ==
    ASSUME FactsInv, UNCHANGED <<truth, events>>, standing' = {}, stored' \in PullRequestRow,
           fetch' = [NoFetch EXCEPT !.value = stored']
    PROVE  FactsInv'
<1>1. /\ fetch'.route = "none" /\ fetch'.since = 0 /\ fetch' \in Fetches
    BY DEF NoFetch, Fetches, FactsInv, FactsTypeOK
<1>2. FactsTypeOK'
    BY <1>1 DEF FactsInv, FactsTypeOK
<1>3. Timed'
    BY DEF FactsInv, Timed
<1>4. HeldSoFar'
    BY <1>1 DEF HeldSoFar
<1>5. FetchFresh'
    BY <1>1 DEF FactsInv, FactsTypeOK, FetchFresh
<1> QED BY <1>2, <1>3, <1>4, <1>5 DEF FactsInv

\* What happens to a pull request changes its reviews only by a new one, or by what an old one says.
LEMMA EventIs ==
    ASSUME FactsInv, Event
    PROVE  /\ truth' \in OnGitHub /\ events' = events + 1 /\ UNCHANGED <<stored, fetch, fetches>>
           /\ standing' = standing \cap StandingChanges'
           /\ \A w \in truth'.reviews :
                 \/ w.at = events + 1 /\ w \notin truth.reviews /\ \A u \in truth'.reviews : u.at = events + 1 => u = w
                 \/ \E v \in truth.reviews : /\ v.at = w.at /\ v.by = w.by
                                             /\ \A u \in truth'.reviews : u.at = w.at => u = w
<1>0. /\ truth \in OnGitHub /\ events \in Nat
      /\ \A v \in truth.reviews : v.at \in Nat /\ v.at <= events /\ v \in Review
      /\ \A v, w \in truth.reviews : v.at = w.at => v = w
    BY DEF FactsInv, FactsTypeOK, Timed, OnGitHub, Review
<1> DEFINE Kept(change) == change \in OnGitHub /\ change.reviews = truth.reviews /\ Happens(change)
<1>1. CASE \E change : Kept(change)
    BY <1>0, <1>1 DEF Happens
<1> HIDE DEF Kept
<1>2. CASE \E r \in Reviewers, verdict \in Verdicts :
          Happens([truth EXCEPT !.requested = FALSE,
                     !.reviews = @ \cup {[by |-> r, verdict |-> verdict, at |-> Now]}])
    <2>1. PICK r \in Reviewers, verdict \in Verdicts :
              Happens([truth EXCEPT !.requested = FALSE,
                         !.reviews = @ \cup {[by |-> r, verdict |-> verdict, at |-> Now]}])
        BY <1>2
    <2>2. PICK new : new = [by |-> r, verdict |-> verdict, at |-> Now]
        OBVIOUS
    <2>3. new \in Review /\ new.at = events + 1 /\ new \notin truth.reviews
        BY <1>0, <2>2 DEF Review, Now
    <2>4. truth' = [truth EXCEPT !.requested = FALSE, !.reviews = @ \cup {new}]
        BY <2>1, <2>2 DEF Happens
    <2>5. truth' \in OnGitHub /\ truth'.reviews = truth.reviews \cup {new}
        BY <1>0, <2>3, <2>4 DEF OnGitHub
    <2>6. \A v \in truth.reviews : v.at # events + 1
        BY <1>0
    <2> QED BY <1>0, <2>1, <2>3, <2>5, <2>6 DEF Happens
<1>3. CASE \E r \in Reviewers : \E review \in Opinions(r) :
          Happens([truth EXCEPT !.reviews = (@ \ {review}) \cup {[review EXCEPT !.verdict = "dismissed"]}])
    <2>1. PICK review \in UNION {Opinions(r) : r \in Reviewers} :
              Happens([truth EXCEPT !.reviews = (@ \ {review}) \cup {[review EXCEPT !.verdict = "dismissed"]}])
        BY <1>3
    <2>2. PICK new : new = [review EXCEPT !.verdict = "dismissed"]
        OBVIOUS
    <2>3. review \in truth.reviews
        BY <2>1 DEF Opinions, Reviews
    <2>4. new \in Review /\ new.at = review.at /\ new.by = review.by
        BY <1>0, <2>2, <2>3 DEF Review
    <2>5. truth' = [truth EXCEPT !.reviews = (@ \ {review}) \cup {new}]
        BY <2>1, <2>2 DEF Happens
    <2>6. truth' \in OnGitHub /\ truth'.reviews = (truth.reviews \ {review}) \cup {new}
        BY <1>0, <2>4, <2>5 DEF OnGitHub
    <2>7. \A w \in truth'.reviews : \E v \in truth.reviews :
              v.at = w.at /\ v.by = w.by /\ \A u \in truth'.reviews : u.at = w.at => u = w
        BY <1>0, <2>3, <2>4, <2>6
    <2> QED BY <2>1, <2>6, <2>7 DEF Happens
<1>4. CASE Happens([truth EXCEPT !.requested = TRUE])
    <2>1. Kept([truth EXCEPT !.requested = TRUE])
        BY <1>0, <1>4 DEF OnGitHub, Kept
    <2> QED BY <1>1, <2>1
<1>5. CASE \E checks \in CheckResults : Happens([truth EXCEPT !.pushed = Now, !.checks = checks])
    <2>1. PICK checks \in CheckResults : Happens([truth EXCEPT !.pushed = Now, !.checks = checks])
        BY <1>5
    <2>2. Now \in Nat
        BY <1>0 DEF Now
    <2>3. PICK change : change = [truth EXCEPT !.pushed = Now, !.checks = checks]
        OBVIOUS
    <2>4. change \in OnGitHub /\ change.reviews = truth.reviews
        BY <1>0, <2>2, <2>3 DEF OnGitHub
    <2>5. Kept(change)
        BY <2>1, <2>3, <2>4 DEF Kept
    <2> QED BY <1>1, <2>5
<1>6. CASE \E checks \in CheckResults : Happens([truth EXCEPT !.checks = checks])
    <2>1. PICK checks \in CheckResults : Happens([truth EXCEPT !.checks = checks])
        BY <1>6
    <2>2. Kept([truth EXCEPT !.checks = checks])
        BY <1>0, <2>1 DEF OnGitHub, Kept
    <2> QED BY <1>1, <2>2
<1>7. CASE \E shape \in {"ready", "draft", "conflict"} : Happens([truth EXCEPT !.shape = shape])
    <2>1. PICK shape \in {"ready", "draft", "conflict"} : Happens([truth EXCEPT !.shape = shape])
        BY <1>7
    <2>2. Kept([truth EXCEPT !.shape = shape])
        BY <1>0, <2>1 DEF OnGitHub, Kept
    <2> QED BY <1>1, <2>2
<1>8. CASE \E state \in {"open", "closed", "merged"} : Happens([truth EXCEPT !.state = state])
    <2>1. PICK state \in {"open", "closed", "merged"} : Happens([truth EXCEPT !.state = state])
        BY <1>8
    <2>2. Kept([truth EXCEPT !.state = state])
        BY <1>0, <2>1 DEF OnGitHub, Kept
    <2> QED BY <1>1, <2>2
<1> QED BY <1>2, <1>3, <1>4, <1>5, <1>6, <1>7, <1>8 DEF Event

\* What happens meanwhile leaves a refresh with what it has read, which is no longer fresh.
LEMMA EventKeeps == ASSUME FactsInv, Event PROVE FactsInv'
<1>1. /\ events \in Nat /\ \A v \in truth.reviews : v.at \in Nat /\ v.at <= events
    BY DEF FactsInv, FactsTypeOK, OnGitHub, Review, Timed
<1>2. FactsTypeOK'
    BY EventIs DEF FactsInv, FactsTypeOK
<1>3. Timed'
    BY <1>1, EventIs DEF Timed
<1>4. HeldSoFar'
    <2>1. standing' \subseteq standing /\ standing' \subseteq StandingChanges'
        BY EventIs
    <2>2. \A moment \in standing' : moment <= events
        BY <1>1, <2>1, StandingIs DEF FactsInv, HeldSoFar
    <2>3. \A v \in truth'.reviews :
              v.at \in standing' /\ v.by \in FirstPage =>
                 \E w \in truth.reviews : w.at = v.at /\ w.by = v.by
        BY <1>1, <2>2, EventIs
    <2>4. FirstPage' = FirstPage
        BY DEF FirstPage
    <2>5. fetch' = fetch /\ stored' = stored /\ events' = events + 1
        BY EventIs
    <2>6. \A v \in fetch.reviews : v.at \in Nat
        BY DEF FactsInv, FactsTypeOK, Fetches, Review
    <2> QED BY <1>1, <2>1, <2>3, <2>4, <2>5, <2>6 DEF FactsInv, HeldSoFar
<1>5. FetchFresh'
    <2>1. fetch' = fetch /\ events' = events + 1 /\ fetch.since \in Nat
        BY EventIs DEF FactsInv, FactsTypeOK, Fetches
    <2> QED BY <1>1, <2>1 DEF FactsInv, FetchFresh
<1> QED BY <1>2, <1>3, <1>4, <1>5 DEF FactsInv

------------------------------------------------------------------------------
\* What is folded

\* The folds and the derived rows are of their types.
LEMMA FoldTypes ==
    /\ \A results : CheckFold(results) \in CheckStates
    /\ \A verdicts, q : ReviewState(verdicts, q) \in {"none", "required", "approved", "changes_requested", "unknown"}
    /\ \A pr \in PullRequestRow : ClearFinished(pr) \in PullRequestRow
<1>1. \A results : CheckFold(results) \in CheckStates
    BY DEF CheckFold, CheckStates
<1>2. \A verdicts, q : ReviewState(verdicts, q) \in {"none", "required", "approved", "changes_requested", "unknown"}
    BY DEF ReviewState
<1>3. \A pr \in PullRequestRow : ClearFinished(pr) \in PullRequestRow
    <2> SUFFICES ASSUME NEW pr \in PullRequestRow PROVE ClearFinished(pr) \in PullRequestRow
        OBVIOUS
    <2>1. [pr EXCEPT !.pending = FALSE, !.changesAt = 0, !.pushedAt = 0, !.checks = "unknown"] \in PullRequestRow
        BY DEF PullRequestRow, CheckStates
    <2> QED BY <2>1 DEF ClearFinished
<1> QED BY <1>1, <1>2, <1>3

\* The time of the last request for changes is one, and as late as any.
LEMMA ChangesAt ==
    ASSUME FactsInv
    PROVE  \A reviews \in SUBSET Review : (\A v \in reviews : v.at <= events) =>
              /\ ChangesRequestedAt(reviews) \in Nat
              /\ \A v \in reviews : v.verdict = "changes" => v.at <= ChangesRequestedAt(reviews)
<1> SUFFICES ASSUME NEW reviews \in SUBSET Review, \A v \in reviews : v.at <= events
             PROVE  /\ ChangesRequestedAt(reviews) \in Nat
                    /\ \A v \in reviews : v.verdict = "changes" => v.at <= ChangesRequestedAt(reviews)
    OBVIOUS
<1>1. PICK S : S = {review.at : review \in {r \in reviews : r.verdict = "changes"}}
    OBVIOUS
<1>2. PICK n : n = events
    OBVIOUS
<1>3. n \in Nat /\ S \subseteq Nat /\ \A m \in S : m <= n
    BY <1>1, <1>2 DEF FactsInv, FactsTypeOK, Review
<1>4. MaxOf(S) \in Nat /\ \A m \in S : m <= MaxOf(S)
    BY <1>3, MaxOfBounded
<1>5. \A v \in reviews : v.verdict = "changes" => v.at \in S
    BY <1>1
<1> QED BY <1>1, <1>4, <1>5 DEF ChangesRequestedAt

\* What GraphQL answers is stored as a row.
LEMMA FromGraphQLType ==
    ASSUME FactsInv, NEW current \in PullRequestRow, NEW answer,
           answer.state \in {"open", "closed", "merged", "unknown"}, answer.shape \in {"ready", "draft", "conflict"},
           answer.reviews \in SUBSET Review, \A v \in answer.reviews : v.at <= events,
           answer.requested \in BOOLEAN, answer.pushed \in Nat, answer.checks \in CheckStates
    PROVE  /\ FromGraphQL(current, answer) \in PullRequestRow
           /\ CoreFromGraphQL(current, answer) \in PullRequestRow
           /\ FromGraphQL(current, answer).state = answer.state
           /\ CoreFromGraphQL(current, answer).state = answer.state
           /\ ~Finished(answer.state) =>
                 FromGraphQL(current, answer) =
                    [state |-> answer.state, shape |-> answer.shape,
                     review |-> ReviewState(Verdict(answer.reviews), answer.requested),
                     pending |-> answer.requested, changesAt |-> ChangesFromGraphQL(current, answer),
                     pushedAt |-> answer.pushed, checks |-> answer.checks, stale |-> current.stale]
<1>1. ChangesFromGraphQL(current, answer) \in Nat
    BY ChangesAt DEF ChangesFromGraphQL, PullRequestRow
<1>2. PICK entry : entry = [state |-> answer.state, shape |-> answer.shape,
                        review |-> ReviewState(Verdict(answer.reviews), answer.requested),
                        pending |-> answer.requested, changesAt |-> ChangesFromGraphQL(current, answer),
                        pushedAt |-> answer.pushed, checks |-> answer.checks, stale |-> current.stale]
    OBVIOUS
<1>3. entry \in PullRequestRow
    BY <1>1, <1>2, FoldTypes DEF PullRequestRow
<1>4. FromGraphQL(current, answer) = ClearFinished(entry)
    BY <1>2 DEF FromGraphQL
<1>5. ClearFinished(entry).state = answer.state
    BY <1>2, <1>3 DEF ClearFinished, PullRequestRow
<1>6. FromGraphQL(current, answer) \in PullRequestRow
    BY <1>3, <1>4, FoldTypes
<1>7. CoreFromGraphQL(current, answer) \in PullRequestRow /\ CoreFromGraphQL(current, answer).state = answer.state
    BY <1>4, <1>5, <1>6 DEF CoreFromGraphQL, PullRequestRow
<1>8. ~Finished(answer.state) => ClearFinished(entry) = entry
    BY <1>2 DEF ClearFinished
<1> QED BY <1>2, <1>4, <1>5, <1>6, <1>7, <1>8

\* What is read and then stored, as a row.
LEMMA StoringARow ==
    ASSUME FactsInv, NEW value \in PullRequestRow, NEW failed \in BOOLEAN, StoresPR(value, failed)
    PROVE  FactsInv'
<1>1. stored' \in PullRequestRow
    BY DEF StoresPR, PullRequestRow
<1> QED BY <1>1, StoringKeeps DEF StoresPR

\* A refresh begins with nothing read, and with what stands then.
LEMMA BeginKeeps == ASSUME FactsInv, BeginRefresh PROVE FactsInv'
<1>1. PICK route \in {"get", "graphql"} : fetch' = [NoFetch EXCEPT !.route = route, !.since = events]
    BY DEF BeginRefresh
<1>2. /\ fetch'.route = route /\ fetch'.value = stored /\ fetch'.since = events /\ fetch' \in Fetches
    BY <1>1 DEF NoFetch, Fetches, FactsInv, FactsTypeOK
<1>3. /\ UNCHANGED <<truth, stored, events>> /\ standing' = StandingChanges
      /\ StandingChanges' = StandingChanges
    BY DEF BeginRefresh, StandingChanges, LastReview, Reviewed, Reviews
<1>4. FactsTypeOK'
    BY <1>2, <1>3 DEF FactsInv, FactsTypeOK
<1>5. Timed'
    BY <1>3 DEF FactsInv, Timed
<1>6. HeldSoFar'
    BY <1>2, <1>3 DEF HeldSoFar
<1>7. FetchFresh'
    BY <1>2, <1>3, <1>4 DEF FetchFresh, FactsTypeOK
<1> QED BY <1>4, <1>5, <1>6, <1>7 DEF FactsInv

\* A refresh that reads on leaves the pull request, and what stands, as they are.
LEMMA ReadingOn ==
    ASSUME FactsInv, NEW next, Continues(next)
    PROVE  /\ fetch' = next /\ UNCHANGED <<truth, stored, standing, events>>
           /\ StandingChanges' = StandingChanges /\ RESTReviews' = RESTReviews
           /\ LatestReviews(FirstPage)' = LatestReviews(FirstPage) /\ FirstPage' = FirstPage
           /\ Timed' /\ (next \in Fetches => FactsTypeOK')
<1>1. fetch' = next /\ UNCHANGED <<truth, stored, standing, events>>
    BY DEF Continues
<1>2. /\ StandingChanges' = StandingChanges /\ RESTReviews' = RESTReviews
      /\ LatestReviews(FirstPage)' = LatestReviews(FirstPage) /\ FirstPage' = FirstPage
    BY <1>1 DEF StandingChanges, LastReview, Reviewed, Reviews, Opinions, RESTReviews, LatestReviews, FirstPage
<1> QED BY <1>1, <1>2 DEF FactsInv, FactsTypeOK, Timed

\* The pull request is read by REST.
LEMMA RESTGetKeeps == ASSUME FactsInv, RESTGet PROVE FactsInv'
<1>1. PICK basis : basis = [stored EXCEPT !.state = truth.state, !.shape = truth.shape]
    OBVIOUS
<1>2. /\ basis \in PullRequestRow /\ basis.state = truth.state /\ basis.shape = truth.shape
      /\ basis.changesAt = stored.changesAt
    BY <1>1 DEF FactsInv, FactsTypeOK, OnGitHub, PullRequestRow
<1>3. CASE Finished(basis.state)
    <2>1. StoresPR(ClearFinished(basis), FALSE)
        BY <1>1, <1>3 DEF RESTGet
    <2> QED BY <1>2, <2>1, FoldTypes, StoringARow
<1>4. CASE ~Finished(basis.state)
    <2>1. PICK next : next = [fetch EXCEPT !.route = "reviews", !.value = basis]
        OBVIOUS
    <2>2. Continues(next)
        BY <1>1, <1>4, <2>1 DEF RESTGet
    <2>3. next \in Fetches /\ next.route = "reviews" /\ next.value = basis /\ next.since = fetch.since
        BY <1>2, <2>1 DEF FactsInv, FactsTypeOK, Fetches
    <2>4. HeldSoFar'
        BY <1>2, <2>2, <2>3, ReadingOn DEF FactsInv, HeldSoFar
    <2>5. FetchFresh'
        BY <1>2, <1>4, <2>2, <2>3, ReadingOn DEF FactsInv, FetchFresh
    <2> QED BY <2>2, <2>3, <2>4, <2>5, ReadingOn DEF FactsInv
<1> QED BY <1>3, <1>4

\* Its reviews are read by REST.
LEMMA RESTSummaryKeeps == ASSUME FactsInv, RESTSummary PROVE FactsInv'
<1>1. PICK value : value = [fetch.value EXCEPT
                              !.review = ReviewState(Verdict(RESTReviews), truth.requested),
                              !.pending = truth.requested,
                              !.changesAt = ChangesRequestedAt(RESTReviews)]
    OBVIOUS
<1>2. PICK next : next = [fetch EXCEPT !.route = "commit", !.value = value]
    OBVIOUS
<1>3. fetch \in Fetches /\ fetch.value \in PullRequestRow /\ truth.requested \in BOOLEAN /\ truth.reviews \subseteq Review
    BY DEF FactsInv, FactsTypeOK, Fetches, OnGitHub
<1>4. fetch.route = "reviews" /\ Continues(next)
    <2>1. next = [fetch EXCEPT !.route = "commit",
                               !.value.review = ReviewState(Verdict(RESTReviews), truth.requested),
                               !.value.pending = truth.requested,
                               !.value.changesAt = ChangesRequestedAt(RESTReviews)]
        BY <1>1, <1>2, <1>3 DEF Fetches, PullRequestRow
    <2> QED BY <2>1 DEF RESTSummary
<1>5. /\ ChangesRequestedAt(RESTReviews) \in Nat
      /\ \A v \in RESTReviews : v.verdict = "changes" => v.at <= ChangesRequestedAt(RESTReviews)
    BY <1>3, ChangesAt, AnswersAreReviews DEF FactsInv, Timed
<1>6. /\ value \in PullRequestRow /\ value.changesAt = ChangesRequestedAt(RESTReviews)
      /\ value.review = ReviewState(Verdict(RESTReviews), truth.requested)
      /\ value.pending = truth.requested /\ value.state = fetch.value.state /\ value.shape = fetch.value.shape
    BY <1>1, <1>3, <1>5, FoldTypes DEF PullRequestRow
<1>7. next \in Fetches /\ next.route = "commit" /\ next.value = value /\ next.since = fetch.since
    BY <1>2, <1>3, <1>6 DEF Fetches
<1>8. \A moment \in standing : moment <= ChangesRequestedAt(RESTReviews)
    BY <1>5, RESTSeesStanding DEF FactsInv, HeldSoFar
<1>9. HeldSoFar'
    BY <1>4, <1>6, <1>7, <1>8, ReadingOn DEF FactsInv, HeldSoFar
<1>10. FetchFresh'
    BY <1>4, <1>6, <1>7, ReadingOn DEF FactsInv, FetchFresh
<1> QED BY <1>4, <1>7, <1>9, <1>10, ReadingOn DEF FactsInv

\* Its last commit is read by REST.
LEMMA RESTCommitKeeps == ASSUME FactsInv, RESTCommit PROVE FactsInv'
<1>1. PICK value : value = [fetch.value EXCEPT !.pushedAt = truth.pushed]
    OBVIOUS
<1>2. PICK next : next = [fetch EXCEPT !.route = "checks", !.sha = truth.pushed, !.value = value]
    OBVIOUS
<1>3. fetch \in Fetches /\ fetch.value \in PullRequestRow /\ truth.pushed \in Nat
    BY DEF FactsInv, FactsTypeOK, Fetches, OnGitHub
<1>4. fetch.route = "commit" /\ Continues(next)
    <2>1. next = [fetch EXCEPT !.route = "checks", !.sha = truth.pushed, !.value.pushedAt = truth.pushed]
        BY <1>1, <1>2, <1>3 DEF Fetches, PullRequestRow
    <2> QED BY <2>1 DEF RESTCommit
<1>5. /\ value \in PullRequestRow /\ value.pushedAt = truth.pushed
      /\ value.changesAt = fetch.value.changesAt /\ value.review = fetch.value.review
      /\ value.pending = fetch.value.pending /\ value.state = fetch.value.state /\ value.shape = fetch.value.shape
    BY <1>1, <1>3 DEF PullRequestRow
<1>6. next \in Fetches /\ next.route = "checks" /\ next.value = value /\ next.since = fetch.since /\ next.sha = truth.pushed
    BY <1>2, <1>3, <1>5 DEF Fetches
<1>7. HeldSoFar'
    BY <1>4, <1>5, <1>6, ReadingOn DEF FactsInv, HeldSoFar
<1>8. FetchFresh'
    BY <1>4, <1>5, <1>6, ReadingOn DEF FactsInv, FetchFresh
<1> QED BY <1>4, <1>6, <1>7, <1>8, ReadingOn DEF FactsInv

\* The checks of that commit are read by REST, and all of it is stored.
LEMMA RESTChecksKeeps == ASSUME FactsInv, RESTChecks PROVE FactsInv'
<1>1. PICK checks : StoresPR([fetch.value EXCEPT !.checks = FoldRESTCheckState(checks)], FALSE)
    BY DEF RESTChecks
<1>2. PICK value : value = [fetch.value EXCEPT !.checks = FoldRESTCheckState(checks)]
    OBVIOUS
<1>3. fetch.value \in PullRequestRow /\ FoldRESTCheckState(checks) \in CheckStates
    BY FoldTypes DEF FactsInv, FactsTypeOK, Fetches, FoldRESTCheckState
<1>4. value \in PullRequestRow
    BY <1>2, <1>3 DEF PullRequestRow
<1> QED BY <1>1, <1>2, <1>4, StoringARow

\* What GraphQL answers is of its types.
LEMMA AnswerTypes ==
    ASSUME FactsInv, NEW nulled, NEW answer, answer = GraphQLAnswer(nulled)
    PROVE  /\ answer.state = truth.state /\ answer.shape = truth.shape /\ answer.pushed = truth.pushed
           /\ answer.state \in {"open", "closed", "merged"} /\ answer.shape \in {"ready", "draft", "conflict"}
           /\ answer.reviews \in SUBSET Review /\ \A v \in answer.reviews : v.at <= events
           /\ answer.requested \in BOOLEAN /\ answer.pushed \in Nat /\ answer.checks \in CheckStates
           /\ "reviews" \notin nulled => answer.reviews = LatestReviews(FirstPage)
<1>1. /\ truth.state \in {"open", "closed", "merged"} /\ truth.shape \in {"ready", "draft", "conflict"}
      /\ truth.reviews \in SUBSET Review /\ truth.requested \in BOOLEAN /\ truth.pushed \in Nat
    BY DEF FactsInv, FactsTypeOK, OnGitHub
<1>2. LatestReviews(FirstPage) \in SUBSET Review /\ \A v \in LatestReviews(FirstPage) : v.at <= events
    BY <1>1, AnswersAreReviews DEF FactsInv, Timed
<1>3. Rollup(truth.checks) \in CheckStates /\ "none" \in CheckStates
    BY FoldTypes DEF Rollup, CheckStates
<1>4. /\ answer.state = truth.state /\ answer.shape = truth.shape /\ answer.pushed = truth.pushed
      /\ answer.reviews = IF "reviews" \in nulled THEN {} ELSE LatestReviews(FirstPage)
      /\ answer.checks = IF "checks" \in nulled THEN "none" ELSE Rollup(truth.checks)
    BY DEF GraphQLAnswer
<1>5. answer.requested \in BOOLEAN
    BY <1>1 DEF GraphQLAnswer
<1> QED BY <1>1, <1>2, <1>3, <1>4, <1>5

\* The query of GraphQL is answered: the answer is stored, unless there are more reviews.
LEMMA GraphQLMainKeeps == ASSUME FactsInv, GraphQLMain PROVE FactsInv'
<1>1. PICK nulled \in SUBSET Nullable : AnswersWithout(nulled)
    BY DEF GraphQLMain
<1>2. PICK answer : answer = GraphQLAnswer(nulled)
    OBVIOUS
<1>3. PICK current : current = stored
    OBVIOUS
<1>4. PICK value : value = FromGraphQL(current, answer)
    OBVIOUS
<1>5. current \in PullRequestRow
    BY <1>3 DEF FactsInv, FactsTypeOK
<1>6. value \in PullRequestRow /\ CoreFromGraphQL(current, answer) \in PullRequestRow
    BY <1>2, <1>4, <1>5, AnswerTypes, FromGraphQLType
<1>7. \/ StoresPR(CoreFromGraphQL(current, answer), FALSE) \/ StoresPR(value, TRUE) \/ StoresPR(value, FALSE)
      \/ /\ nulled = {} /\ answer.more /\ ~Finished(answer.state) /\ fetch.route = "graphql"
         /\ Continues([fetch EXCEPT !.route = "pages", !.value = value, !.read = FirstPage,
                                    !.reviews = answer.reviews])
    BY <1>1, <1>2, <1>3, <1>4 DEF AnswersWithout
<1>8. CASE StoresPR(CoreFromGraphQL(current, answer), FALSE) \/ StoresPR(value, TRUE) \/ StoresPR(value, FALSE)
    BY <1>6, <1>8, StoringARow
<1>9. CASE /\ nulled = {} /\ answer.more /\ ~Finished(answer.state) /\ fetch.route = "graphql"
           /\ Continues([fetch EXCEPT !.route = "pages", !.value = value, !.read = FirstPage,
                                      !.reviews = answer.reviews])
    <2>1. PICK next : next = [fetch EXCEPT !.route = "pages", !.value = value, !.read = FirstPage,
                                           !.reviews = answer.reviews]
        OBVIOUS
    <2>2. Continues(next)
        BY <1>9, <2>1
    <2>3. /\ answer.reviews \in SUBSET Review /\ answer.reviews = LatestReviews(FirstPage)
          /\ \A v \in answer.reviews : v.at <= events
        BY <1>2, <1>9, AnswerTypes
    <2>4. FirstPage \in SUBSET Reviewers
        BY DEF FirstPage
    <2>5. /\ next \in Fetches /\ next.route = "pages" /\ next.value = value /\ next.since = fetch.since
          /\ next.read = FirstPage /\ next.reviews = LatestReviews(FirstPage)
        BY <1>6, <2>1, <2>3, <2>4 DEF FactsInv, FactsTypeOK, Fetches
    <2>6. /\ value.state = truth.state /\ value.shape = truth.shape /\ value.pending = answer.requested
          /\ value.pushedAt = truth.pushed /\ value.checks = answer.checks /\ ~Finished(truth.state)
          /\ value.changesAt = ChangesFromGraphQL(current, answer)
        BY <1>2, <1>4, <1>5, <1>9, AnswerTypes, FromGraphQLType
    <2>11. value.changesAt = stored.changesAt
        BY <1>3, <1>9, <2>6 DEF ChangesFromGraphQL
    <2>7. answer.requested = truth.requested /\ answer.checks = Rollup(truth.checks)
        BY <1>2, <1>9, FoldTypes DEF GraphQLAnswer, FactsInv, FactsTypeOK, OnGitHub
    <2>8. \A v \in truth.reviews :
              v.at \in standing /\ v.by \in FirstPage =>
                 \E w \in LatestReviews(FirstPage) : w.at = v.at /\ w.verdict = "changes"
        <3> SUFFICES ASSUME NEW v \in truth.reviews, v.at \in standing, v.by \in FirstPage
                     PROVE  \E w \in LatestReviews(FirstPage) : w.at = v.at /\ w.verdict = "changes"
            OBVIOUS
        <3>1. v.at \in StandingChanges
            BY DEF FactsInv, HeldSoFar
        <3>2. PICK r \in Reviewed : /\ LastReview(r) \in truth.reviews /\ LastReview(r).by = r
                                    /\ LastReview(r).verdict = "changes" /\ LastReview(r).at = v.at
            BY <3>1, StandingIs
        <3>3. LastReview(r) = v
            BY <3>2 DEF FactsInv, Timed
        <3> QED BY <3>2, <3>3 DEF LatestReviews
    <2>9. HeldSoFar'
        BY <2>2, <2>3, <2>5, <2>8, <2>11, ReadingOn DEF FactsInv, HeldSoFar
    <2>10. FetchFresh'
        <3>1. Rollup(truth.checks)' = Rollup(truth.checks)
            BY <2>2, ReadingOn DEF Rollup, StatusOf
        <3> QED BY <2>2, <2>5, <2>6, <2>7, <3>1, ReadingOn DEF FactsInv, FetchFresh
    <2> QED BY <2>2, <2>5, <2>9, <2>10, ReadingOn DEF FactsInv
<1> QED BY <1>7, <1>8, <1>9

\* What is stored after the reviews past the first page: all that the answer said, with the reviews of both.
LEMMA PagesAre ==
    ASSUME FactsInv, GraphQLPages
    PROVE  \E reviews \in SUBSET Review :
              /\ fetch.route = "pages"
              /\ reviews = fetch.reviews \cup LatestReviews(Reviewers \ FirstPage)
              /\ (\A v \in reviews : v.at <= events)
              /\ LET value == FromGraphQL(stored,
                                 [state |-> fetch.value.state, shape |-> fetch.value.shape,
                                  pushed |-> fetch.value.pushedAt, reviews |-> reviews, more |-> FALSE,
                                  requested |-> fetch.value.pending, checks |-> fetch.value.checks])
                 IN  StoresPR(value, FALSE) /\ value \in PullRequestRow
<1>1. PICK reviews : reviews = fetch.reviews \cup LatestReviews(Unread(fetch))
    OBVIOUS
<1>2. fetch.route = "pages" /\ fetch.read = FirstPage
    BY DEF GraphQLPages, FactsInv, HeldSoFar
<1>3. reviews = fetch.reviews \cup LatestReviews(Reviewers \ FirstPage)
    BY <1>1, <1>2 DEF Unread
<1>4. reviews \in SUBSET Review /\ \A v \in reviews : v.at <= events
    BY <1>2, <1>3, AnswersAreReviews DEF FactsInv, FactsTypeOK, Fetches, OnGitHub, Timed, HeldSoFar
<1>5. PICK answer : answer = [state |-> fetch.value.state, shape |-> fetch.value.shape,
                              pushed |-> fetch.value.pushedAt, reviews |-> reviews, more |-> FALSE,
                              requested |-> fetch.value.pending, checks |-> fetch.value.checks]
    OBVIOUS
<1>6. StoresPR(FromGraphQL(stored, answer), FALSE)
    BY <1>1, <1>5 DEF GraphQLPages
<1>7. PICK current : current = stored
    OBVIOUS
<1>8. current \in PullRequestRow /\ fetch.value \in PullRequestRow
    BY <1>7 DEF FactsInv, FactsTypeOK, Fetches
<1>9. FromGraphQL(current, answer) \in PullRequestRow
    <2>1. /\ answer.state = fetch.value.state /\ answer.shape = fetch.value.shape /\ answer.pushed = fetch.value.pushedAt
          /\ answer.reviews = reviews /\ answer.requested = fetch.value.pending /\ answer.checks = fetch.value.checks
        BY <1>5
    <2>2. /\ answer.state \in {"open", "closed", "merged", "unknown"} /\ answer.shape \in {"ready", "draft", "conflict"}
          /\ answer.requested \in BOOLEAN /\ answer.pushed \in Nat /\ answer.checks \in CheckStates
        BY <1>8, <2>1 DEF PullRequestRow
    <2> QED BY <1>4, <1>8, <2>1, <2>2, FromGraphQLType
<1> QED BY <1>2, <1>3, <1>4, <1>5, <1>6, <1>7, <1>9

\* The reviews past the first page are read, and all of it is stored.
LEMMA GraphQLPagesKeeps == ASSUME FactsInv, GraphQLPages PROVE FactsInv'
    BY PagesAre, StoringKeeps DEF StoresPR, PullRequestRow

\* Every step keeps what a refresh in progress has read.
LEMMA FactsStep == FactsInv /\ [FactsNext]_factsVars => FactsInv'
<1> SUFFICES ASSUME FactsInv, [FactsNext]_factsVars PROVE FactsInv'
    OBVIOUS
<1>1. CASE Breaks
    <2>1. PICK value : value = fetch.value
        OBVIOUS
    <2> QED BY <1>1, <2>1, StoringARow DEF Breaks, FactsInv, FactsTypeOK, Fetches
<1>2. CASE RefusesQuery
    <2>1. PICK value : value = stored
        OBVIOUS
    <2> QED BY <1>2, <2>1, StoringARow DEF RefusesQuery, FactsInv, FactsTypeOK
<1>3. CASE UNCHANGED factsVars
    <2> USE <1>3 DEF factsVars
    <2>1. FactsTypeOK'
        BY DEF FactsInv, FactsTypeOK
    <2>2. Timed'
        BY DEF FactsInv, Timed
    <2>3. /\ StandingChanges' = StandingChanges /\ RESTReviews' = RESTReviews /\ FirstPage' = FirstPage
          /\ LatestReviews(FirstPage)' = LatestReviews(FirstPage) /\ Rollup(truth.checks)' = Rollup(truth.checks)
        BY DEF StandingChanges, LastReview, Reviewed, Reviews, Opinions, RESTReviews, LatestReviews, FirstPage,
               Rollup, StatusOf
    <2>4. HeldSoFar'
        BY <2>3 DEF FactsInv, HeldSoFar
    <2>5. FetchFresh'
        BY <2>3 DEF FactsInv, FetchFresh
    <2> QED BY <2>1, <2>2, <2>4, <2>5 DEF FactsInv
<1> QED BY <1>1, <1>2, <1>3, EventKeeps, BeginKeeps, RESTGetKeeps, RESTSummaryKeeps, RESTCommitKeeps,
           RESTChecksKeeps, GraphQLMainKeeps, GraphQLPagesKeeps DEF FactsNext

\* The inductive invariant of a refresh: what it has read leaves no standing request for changes
\* behind, and, while nothing happens, is so.
THEOREM FactsInvariant == FactsSpec => []FactsInv
<1> QED BY FactsStart, FactsStep, PTL DEF FactsSpec

------------------------------------------------------------------------------

\* The times stored after a step: those before it, or no less than any request that stands.
LEMMA ChangesStand ==
    ASSUME "reviews" \notin Nullable, FactsInv, FactsNext
    PROVE  \/ stored'.changesAt = stored.changesAt
           \/ Finished(stored'.state)
           \/ \A moment \in standing : moment <= stored'.changesAt
<1>1. stored \in PullRequestRow /\ fetch.value \in PullRequestRow /\ truth \in OnGitHub
    BY DEF FactsInv, FactsTypeOK, Fetches
<1>2. CASE Event \/ BeginRefresh \/ RESTSummary \/ RESTCommit
    BY <1>2, EventIs DEF BeginRefresh, RESTSummary, RESTCommit, Continues
<1>3. CASE Breaks
    <2>1. stored' = [fetch.value EXCEPT !.stale = TRUE]
        BY <1>3 DEF Breaks, StoresPR
    <2>2. stored'.changesAt = fetch.value.changesAt
        BY <1>1, <2>1 DEF PullRequestRow
    <2>3. fetch.route \in {"get", "reviews", "pages", "commit", "checks"}
        BY <1>3 DEF Breaks, FactsInv, FactsTypeOK, Fetches
    <2> QED BY <2>2, <2>3 DEF FactsInv, HeldSoFar
<1>4. CASE RefusesQuery
    BY <1>1, <1>4 DEF RefusesQuery, StoresPR, PullRequestRow
<1>5. CASE RESTGet
    <2>1. PICK basis : basis = [stored EXCEPT !.state = truth.state, !.shape = truth.shape]
        OBVIOUS
    <2>5. basis \in PullRequestRow
        BY <1>1, <2>1 DEF OnGitHub, PullRequestRow
    <2>2. ClearFinished(basis) \in PullRequestRow
        BY <2>5, FoldTypes
    <2>3. ClearFinished(basis).state = basis.state
        BY <2>5 DEF ClearFinished, PullRequestRow
    <2>4. \/ stored' = stored
          \/ Finished(basis.state) /\ stored' = [ClearFinished(basis) EXCEPT !.stale = FALSE]
        BY <1>5, <2>1 DEF RESTGet, Continues, StoresPR
    <2> QED BY <2>2, <2>3, <2>4 DEF PullRequestRow
<1>6. CASE RESTChecks
    <2>1. PICK checks : stored' = [[fetch.value EXCEPT !.checks = FoldRESTCheckState(checks)] EXCEPT !.stale = FALSE]
        BY <1>6 DEF RESTChecks, StoresPR
    <2>2. stored'.changesAt = fetch.value.changesAt
        BY <1>1, <2>1 DEF PullRequestRow
    <2> QED BY <1>6, <2>2 DEF RESTChecks, FactsInv, HeldSoFar
<1>7. CASE GraphQLMain
    <2>1. PICK nulled \in SUBSET Nullable : AnswersWithout(nulled)
        BY <1>7 DEF GraphQLMain
    <2>2. PICK answer : answer = GraphQLAnswer(nulled)
        OBVIOUS
    <2>3. PICK current : current = stored
        OBVIOUS
    <2>4. /\ FromGraphQL(current, answer) \in PullRequestRow /\ CoreFromGraphQL(current, answer) \in PullRequestRow
          /\ FromGraphQL(current, answer).state = answer.state /\ CoreFromGraphQL(current, answer).state = answer.state
          /\ ~Finished(answer.state) =>
                FromGraphQL(current, answer).changesAt = ChangesFromGraphQL(current, answer)
        <3>1. /\ answer.state \in {"open", "closed", "merged"} /\ answer.shape \in {"ready", "draft", "conflict"}
              /\ answer.reviews \in SUBSET Review /\ \A v \in answer.reviews : v.at <= events
              /\ answer.requested \in BOOLEAN /\ answer.pushed \in Nat /\ answer.checks \in CheckStates
            BY <2>2, AnswerTypes
        <3>2. answer.state \in {"open", "closed", "merged", "unknown"} /\ current \in PullRequestRow
            BY <1>1, <2>3, <3>1
        <3> QED BY <3>1, <3>2, FromGraphQLType
    <2>5. \/ UNCHANGED stored
          \/ /\ Finished(answer.state)
             /\ stored' = [CoreFromGraphQL(current, answer) EXCEPT !.stale = FALSE]
          \/ stored' = [FromGraphQL(current, answer) EXCEPT !.stale = TRUE]
          \/ stored' = [FromGraphQL(current, answer) EXCEPT !.stale = FALSE]
        BY <2>1, <2>2, <2>3 DEF AnswersWithout, StoresPR, Continues
    <2>6. CASE Finished(answer.state)
        BY <2>4, <2>5, <2>6 DEF PullRequestRow
    <2>7. CASE ~Finished(answer.state) /\ answer.more
        BY <2>3, <2>4, <2>5, <2>7 DEF PullRequestRow, ChangesFromGraphQL
    <2>8. CASE ~Finished(answer.state) /\ ~answer.more
        <3>1. answer.reviews = LatestReviews(FirstPage) /\ Reviewed \ FirstPage = {}
            BY <2>1, <2>2, <2>8, AnswerTypes DEF GraphQLAnswer
        <3>2. \A moment \in StandingChanges : \E v \in answer.reviews : v.verdict = "changes" /\ v.at = moment
            BY <3>1, StandingIs DEF LatestReviews
        <3>3. \A moment \in StandingChanges : moment <= ChangesRequestedAt(answer.reviews)
            BY <2>2, <3>2, AnswerTypes, ChangesAt
        <3>4. ChangesFromGraphQL(current, answer) = ChangesRequestedAt(answer.reviews)
            BY <2>8 DEF ChangesFromGraphQL
        <3>5. stored' = stored \/ stored'.changesAt = ChangesRequestedAt(answer.reviews)
            BY <2>4, <2>5, <2>8, <3>4 DEF PullRequestRow
        <3> QED BY <3>3, <3>5 DEF FactsInv, HeldSoFar
    <2> QED BY <2>6, <2>7, <2>8
<1>8. CASE GraphQLPages
    <2>1. PICK reviews \in SUBSET Review :
              /\ fetch.route = "pages"
              /\ reviews = fetch.reviews \cup LatestReviews(Reviewers \ FirstPage)
              /\ (\A v \in reviews : v.at <= events)
              /\ LET value == FromGraphQL(stored,
                                 [state |-> fetch.value.state, shape |-> fetch.value.shape,
                                  pushed |-> fetch.value.pushedAt, reviews |-> reviews, more |-> FALSE,
                                  requested |-> fetch.value.pending, checks |-> fetch.value.checks])
                 IN  StoresPR(value, FALSE) /\ value \in PullRequestRow
        BY <1>8, PagesAre
    <2>2. PICK answer : answer = [state |-> fetch.value.state, shape |-> fetch.value.shape,
                                  pushed |-> fetch.value.pushedAt, reviews |-> reviews, more |-> FALSE,
                                  requested |-> fetch.value.pending, checks |-> fetch.value.checks]
        OBVIOUS
    <2>3. PICK current : current = stored
        OBVIOUS
    <2>4. stored' = [FromGraphQL(current, answer) EXCEPT !.stale = FALSE] /\ FromGraphQL(current, answer) \in PullRequestRow
        BY <2>1, <2>2, <2>3 DEF StoresPR
    <2>5. /\ answer.state = fetch.value.state /\ answer.shape = fetch.value.shape /\ answer.pushed = fetch.value.pushedAt
          /\ answer.reviews = reviews /\ answer.requested = fetch.value.pending /\ answer.checks = fetch.value.checks
          /\ ~answer.more
        BY <2>2
    <2>6. /\ FromGraphQL(current, answer).state = answer.state
          /\ ~Finished(answer.state) =>
                FromGraphQL(current, answer).changesAt = ChangesFromGraphQL(current, answer)
        <3>1. /\ answer.state \in {"open", "closed", "merged", "unknown"} /\ answer.shape \in {"ready", "draft", "conflict"}
              /\ answer.requested \in BOOLEAN /\ answer.pushed \in Nat /\ answer.checks \in CheckStates
            BY <1>1, <2>5 DEF PullRequestRow
        <3>2. current \in PullRequestRow /\ answer.reviews \in SUBSET Review /\ \A v \in answer.reviews : v.at <= events
            BY <1>1, <2>1, <2>3, <2>5
        <3> QED BY <3>1, <3>2, FromGraphQLType
    <2>7. \A moment \in standing : \E v \in reviews : v.verdict = "changes" /\ v.at = moment
        <3> SUFFICES ASSUME NEW moment \in standing PROVE \E v \in reviews : v.verdict = "changes" /\ v.at = moment
            OBVIOUS
        <3>1. PICK r \in Reviewed : /\ LastReview(r) \in truth.reviews /\ LastReview(r).by = r
                                    /\ LastReview(r).verdict = "changes" /\ LastReview(r).at = moment
            BY StandingIs DEF FactsInv, HeldSoFar
        <3>2. CASE r \in FirstPage
            BY <2>1, <3>1, <3>2 DEF FactsInv, HeldSoFar
        <3>3. CASE r \notin FirstPage
            BY <2>1, <3>1, <3>3 DEF LatestReviews, Reviewed
        <3> QED BY <3>2, <3>3
    <2>8. \A moment \in standing : moment <= ChangesRequestedAt(reviews)
        <3>1. \A v \in reviews : v.at <= events
            BY <2>1
        <3>2. \A v \in reviews : v.verdict = "changes" => v.at <= ChangesRequestedAt(reviews)
            BY <3>1, ChangesAt
        <3> QED BY <2>7, <3>2
    <2>9. Finished(stored'.state) \/ stored'.changesAt = ChangesRequestedAt(reviews)
        BY <2>4, <2>5, <2>6 DEF PullRequestRow, ChangesFromGraphQL
    <2> QED BY <2>8, <2>9
<1> QED BY <1>2, <1>3, <1>4, <1>5, <1>6, <1>7, <1>8 DEF FactsNext

\* A request for changes that stood all through a refresh is not taken back, however the refresh goes
\* and wherever it breaks off, if GraphQL does not leave out the reviews.
THEOREM ChangeRequestsAlwaysStand ==
    ASSUME "reviews" \notin Nullable
    PROVE  FactsSpec => ChangeRequestsStand
<1> DEFINE Stands == \/ stored'.changesAt = stored.changesAt
                     \/ Finished(stored'.state)
                     \/ \A moment \in standing : moment <= stored'.changesAt
<1>1. FactsInv /\ [FactsNext]_factsVars => [Stands]_factsVars
    BY ChangesStand
<1>2. ChangeRequestsStand <=> [][Stands]_factsVars
    BY DEF ChangeRequestsStand
<1> HIDE DEF Stands
<1> QED BY <1>1, <1>2, FactsInvariant, PTL DEF FactsSpec

------------------------------------------------------------------------------

\* Where nobody has taken an opinion back or commented on it, REST sees the opinions that GraphQL lists.
LEMMA OpinionsAlike ==
    ASSUME FactsInv, ReadAlike
    PROVE  /\ \A q : ReviewState(Verdict(RESTReviews), q) = ReviewState(Verdict(LatestReviews(Reviewers)), q)
           /\ ChangesRequestedAt(RESTReviews) = MaxOf(StandingChanges)
<1>1. \A r \in Reviewed : LastReview(r) \in Reviews(r) /\ LastReview(r) \in truth.reviews
    BY AnswersAreReviews DEF Reviews
<1>2. \A r \in Reviewed : Opinions(r) # {} => LastReview(r) \in Opinions(r)
    BY <1>1 DEF ReadAlike, Opinions
<1>3. \A r \in Reviewers : Opinions(r) # {} => r \in Reviewed
    BY DEF Opinions, Reviewed
<1>4. \A v : v \in RESTReviews <=> v \in LatestReviews(Reviewers) /\ v.verdict \in {"approved", "changes"}
    <2>1. ASSUME NEW v \in RESTReviews PROVE v \in LatestReviews(Reviewers) /\ v.verdict \in {"approved", "changes"}
        <3>1. PICK r \in Reviewers : Opinions(r) # {} /\ v = Newest(Opinions(r))
            BY DEF RESTReviews
        <3>2. r \in Reviewed /\ LastReview(r) \in Opinions(r) /\ v = LastReview(r)
            BY <1>2, <1>3, <3>1, LastOpinion
        <3> QED BY <3>2 DEF LatestReviews, Opinions
    <2>2. ASSUME NEW v \in LatestReviews(Reviewers), v.verdict \in {"approved", "changes"} PROVE v \in RESTReviews
        <3>1. PICK r \in Reviewed : v = LastReview(r)
            BY DEF LatestReviews
        <3>2. v \in Opinions(r) /\ r \in Reviewers
            BY <1>1, <2>2, <3>1 DEF Opinions, Reviewed
        <3>3. v = Newest(Opinions(r))
            BY <3>1, <3>2, LastOpinion
        <3> QED BY <3>2, <3>3 DEF RESTReviews
    <2> QED BY <2>1, <2>2
<1>5. \A x \in {"approved", "changes"} : x \in Verdict(RESTReviews) <=> x \in Verdict(LatestReviews(Reviewers))
    BY <1>4 DEF Verdict
<1>6. \A q : ReviewState(Verdict(RESTReviews), q) = ReviewState(Verdict(LatestReviews(Reviewers)), q)
    BY <1>5 DEF ReviewState
<1>7. {review.at : review \in {v \in RESTReviews : v.verdict = "changes"}} = StandingChanges
    <2>1. {v \in RESTReviews : v.verdict = "changes"} = {v \in LatestReviews(Reviewers) : v.verdict = "changes"}
        BY <1>4
    <2>2. {v \in LatestReviews(Reviewers) : v.verdict = "changes"}
              = {LastReview(r) : r \in {q \in Reviewed : LastReview(q).verdict = "changes"}}
        BY DEF LatestReviews, Reviewed
    <2> QED BY <2>1, <2>2 DEF StandingChanges
<1> QED BY <1>6, <1>7 DEF ChangesRequestedAt

\* The time GraphQL's reviews give is that of the last request that stands.
LEMMA LatestChanges == ChangesRequestedAt(LatestReviews(Reviewers)) = MaxOf(StandingChanges)
<1>1. {review.at : review \in {v \in LatestReviews(Reviewers) : v.verdict = "changes"}} = StandingChanges
    BY DEF LatestReviews, Reviewed, StandingChanges
<1> QED BY <1>1 DEF ChangesRequestedAt

\* Check runs that fit the page of REST are all read.
LEMMA ChecksAlike ==
    ASSUME FactsInv, ReadAlike
    PROVE  FoldRESTCheckState(truth.checks) = Rollup(truth.checks)
<1>1. truth.checks.runs \in Seq({"success", "pending", "failure"})
    <2>1. truth.checks \in CheckResults \/ truth.checks.runs = <<>>
        BY DEF FactsInv, FactsTypeOK, OnGitHub
    <2>2. <<>> \in Seq({"success", "pending", "failure"})
        OBVIOUS
    <2>3. CASE truth.checks \in CheckResults
        BY <2>3, FactsAssumption
    <2> QED BY <2>1, <2>2, <2>3
<1>2. Len(truth.checks.runs) \in Nat /\ Len(truth.checks.runs) <= RunsPage /\ RunsPage \in Nat
    BY <1>1, FactsAssumption DEF ReadAlike
<1>3. (1..Len(truth.checks.runs)) \cap (1..RunsPage) = 1..Len(truth.checks.runs)
    BY <1>2
<1> QED BY <1>3 DEF FoldRESTCheckState, RunsRead, Rollup

\* What a refresh has stored when it succeeds and nothing happened: the pull request as it is.
StoredAsIs ==
    /\ stored'.state = truth.state
    /\ ~Finished(truth.state) =>
          /\ stored'.shape = truth.shape
          /\ stored'.review = ReviewState(Verdict(LatestReviews(Reviewers)), truth.requested)
          /\ stored'.pending = truth.requested /\ stored'.changesAt = MaxOf(StandingChanges)
          /\ stored'.pushedAt = truth.pushed /\ stored'.checks = Rollup(truth.checks)

\* Either route stores the pull request as it is.
LEMMA SucceedsAsIs ==
    ASSUME FactsInv, FactsNext, fetch.route # "none", fetch'.route = "none", ~stored'.stale, fetch.since = events,
           ReadAlike
    PROVE  StoredAsIs /\ UNCHANGED truth
<1>1. stored \in PullRequestRow /\ fetch.value \in PullRequestRow /\ fetch \in Fetches /\ truth \in OnGitHub
    BY DEF FactsInv, FactsTypeOK, Fetches
<1>2. /\ fetch.value.state = truth.state \/ fetch.route \in {"get", "graphql"}
      /\ fetch.route \in {"checks", "pages"} =>
            /\ ~Finished(truth.state) /\ fetch.value.shape = truth.shape
            /\ fetch.value.pending = truth.requested /\ fetch.value.pushedAt = truth.pushed
    BY <1>1 DEF FactsInv, FetchFresh, Fetches
<1>3. CASE Event \/ BeginRefresh \/ RESTSummary \/ RESTCommit
    <2>1. CASE Event
        BY <2>1, EventIs
    <2>2. CASE BeginRefresh
        BY <2>2 DEF BeginRefresh
    <2>3. CASE RESTSummary \/ RESTCommit
        BY <1>1, <2>3 DEF RESTSummary, RESTCommit, Continues, Fetches
    <2> QED BY <1>3, <2>1, <2>2, <2>3
<1>4. CASE Breaks \/ RefusesQuery
    BY <1>1, <1>4 DEF Breaks, RefusesQuery, StoresPR, PullRequestRow
<1>5. CASE RESTGet
    <2>1. PICK basis : basis = [stored EXCEPT !.state = truth.state, !.shape = truth.shape]
        OBVIOUS
    <2>2. basis \in PullRequestRow /\ basis.state = truth.state
        BY <1>1, <2>1 DEF OnGitHub, PullRequestRow
    <2>3. Finished(basis.state) /\ StoresPR(ClearFinished(basis), FALSE)
        BY <1>1, <1>5, <2>1 DEF RESTGet, Continues, Fetches
    <2>4. ClearFinished(basis) \in PullRequestRow
        BY <2>2, FoldTypes
    <2>5. ClearFinished(basis).state = truth.state
        BY <2>2 DEF ClearFinished, PullRequestRow
    <2> QED BY <2>2, <2>3, <2>4, <2>5 DEF StoresPR, StoredAsIs, PullRequestRow
<1>6. CASE RESTChecks
    <2>1. fetch.sha = truth.pushed /\ fetch.route = "checks"
        BY <1>6 DEF RESTChecks, FactsInv, FetchFresh
    <2>2. PICK value : value = [fetch.value EXCEPT !.checks = FoldRESTCheckState(truth.checks)]
        OBVIOUS
    <2>3. StoresPR(value, FALSE)
        BY <1>6, <2>1, <2>2 DEF RESTChecks
    <2>4. /\ stored'.state = truth.state /\ stored'.shape = truth.shape /\ stored'.pending = truth.requested
          /\ stored'.pushedAt = truth.pushed /\ stored'.checks = FoldRESTCheckState(truth.checks)
          /\ stored'.review = fetch.value.review /\ stored'.changesAt = fetch.value.changesAt
        BY <1>1, <1>2, <2>1, <2>2, <2>3 DEF StoresPR, PullRequestRow
    <2>5. /\ fetch.value.review = ReviewState(Verdict(RESTReviews), truth.requested)
          /\ fetch.value.changesAt = ChangesRequestedAt(RESTReviews)
        BY <2>1 DEF FactsInv, FetchFresh
    <2> QED BY <2>3, <2>4, <2>5, OpinionsAlike, ChecksAlike DEF StoresPR, StoredAsIs
<1>7. CASE GraphQLMain
    <2>1. PICK nulled \in SUBSET Nullable : AnswersWithout(nulled)
        BY <1>7 DEF GraphQLMain
    <2>2. PICK answer : answer = GraphQLAnswer(nulled)
        OBVIOUS
    <2>3. PICK current : current = stored
        OBVIOUS
    <2>4. PICK value : value = FromGraphQL(current, answer)
        OBVIOUS
    <2>5. PICK core : core = CoreFromGraphQL(current, answer)
        OBVIOUS
    <2>6. /\ value \in PullRequestRow /\ core \in PullRequestRow
          /\ value.state = truth.state /\ core.state = truth.state /\ answer.state = truth.state
          /\ ~Finished(answer.state) =>
                value = [state |-> answer.state, shape |-> answer.shape,
                         review |-> ReviewState(Verdict(answer.reviews), answer.requested),
                         pending |-> answer.requested, changesAt |-> ChangesFromGraphQL(current, answer),
                         pushedAt |-> answer.pushed, checks |-> answer.checks, stale |-> current.stale]
        <3>1. /\ answer.state = truth.state
              /\ answer.state \in {"open", "closed", "merged", "unknown"} /\ answer.shape \in {"ready", "draft", "conflict"}
              /\ answer.reviews \in SUBSET Review /\ \A v \in answer.reviews : v.at <= events
              /\ answer.requested \in BOOLEAN /\ answer.pushed \in Nat /\ answer.checks \in CheckStates
            BY <2>2, AnswerTypes
        <3>2. current \in PullRequestRow
            BY <1>1, <2>3
        <3>3. /\ FromGraphQL(current, answer) \in PullRequestRow /\ CoreFromGraphQL(current, answer) \in PullRequestRow
              /\ FromGraphQL(current, answer).state = answer.state /\ CoreFromGraphQL(current, answer).state = answer.state
            BY <3>1, <3>2, FromGraphQLType
        <3>4. ~Finished(answer.state) =>
                FromGraphQL(current, answer) =
                   [state |-> answer.state, shape |-> answer.shape,
                    review |-> ReviewState(Verdict(answer.reviews), answer.requested),
                    pending |-> answer.requested, changesAt |-> ChangesFromGraphQL(current, answer),
                    pushedAt |-> answer.pushed, checks |-> answer.checks, stale |-> current.stale]
            BY <3>1, <3>2, FromGraphQLType
        <3> QED BY <2>4, <2>5, <3>1, <3>3, <3>4
    <2>7. ~StoresPR(value, TRUE)
        BY <2>6 DEF StoresPR, PullRequestRow
    <2>8. \A next : Continues(next) => next.route = "none"
        BY DEF Continues
    <2>9. [fetch EXCEPT !.route = "pages", !.value = value, !.read = FirstPage,
                        !.reviews = answer.reviews].route = "pages"
        BY <1>1 DEF Fetches
    <2>10. \/ Finished(answer.state) /\ (StoresPR(core, FALSE) \/ StoresPR(value, FALSE))
           \/ nulled = {} /\ ~Finished(answer.state) /\ ~answer.more /\ StoresPR(value, FALSE)
        BY <2>1, <2>2, <2>3, <2>4, <2>5, <2>7, <2>8, <2>9 DEF AnswersWithout
    <2>11. CASE Finished(answer.state)
        BY <2>6, <2>10, <2>11 DEF StoresPR, StoredAsIs, PullRequestRow
    <2>12. CASE nulled = {} /\ ~Finished(answer.state) /\ ~answer.more /\ StoresPR(value, FALSE)
        <3>1. /\ answer.shape = truth.shape /\ answer.pushed = truth.pushed
              /\ answer.reviews = LatestReviews(FirstPage) /\ Reviewed \ FirstPage = {}
              /\ answer.requested = truth.requested /\ answer.checks = Rollup(truth.checks)
            BY <1>1, <2>2, <2>12 DEF GraphQLAnswer, OnGitHub
        <3>2. LatestReviews(FirstPage) = LatestReviews(Reviewers)
            BY <3>1 DEF LatestReviews, Reviewed
        <3>3. ChangesFromGraphQL(current, answer) = MaxOf(StandingChanges)
            BY <2>12, <3>1, <3>2, LatestChanges DEF ChangesFromGraphQL
        <3>4. /\ value.shape = truth.shape /\ value.pending = truth.requested /\ value.pushedAt = truth.pushed
              /\ value.review = ReviewState(Verdict(LatestReviews(Reviewers)), truth.requested)
              /\ value.changesAt = MaxOf(StandingChanges) /\ value.checks = Rollup(truth.checks)
            BY <2>6, <2>12, <3>1, <3>2, <3>3
        <3> QED BY <2>6, <2>12, <3>4 DEF StoresPR, StoredAsIs, PullRequestRow
    <2> QED BY <2>10, <2>11, <2>12
<1>8. CASE GraphQLPages
    <2>1. PICK reviews \in SUBSET Review :
              /\ fetch.route = "pages"
              /\ reviews = fetch.reviews \cup LatestReviews(Reviewers \ FirstPage)
              /\ (\A v \in reviews : v.at <= events)
              /\ LET value == FromGraphQL(stored,
                                 [state |-> fetch.value.state, shape |-> fetch.value.shape,
                                  pushed |-> fetch.value.pushedAt, reviews |-> reviews, more |-> FALSE,
                                  requested |-> fetch.value.pending, checks |-> fetch.value.checks])
                 IN  StoresPR(value, FALSE) /\ value \in PullRequestRow
        BY <1>8, PagesAre
    <2>2. PICK answer : answer = [state |-> fetch.value.state, shape |-> fetch.value.shape,
                                  pushed |-> fetch.value.pushedAt, reviews |-> reviews, more |-> FALSE,
                                  requested |-> fetch.value.pending, checks |-> fetch.value.checks]
        OBVIOUS
    <2>3. PICK current : current = stored
        OBVIOUS
    <2>4. PICK value : value = FromGraphQL(current, answer)
        OBVIOUS
    <2>5. value \in PullRequestRow /\ StoresPR(value, FALSE)
        BY <2>1, <2>2, <2>3, <2>4
    <2>6. reviews = LatestReviews(Reviewers)
        <3>1. fetch.reviews = LatestReviews(FirstPage) /\ FirstPage \subseteq Reviewers
            BY <2>1 DEF FactsInv, FetchFresh, FirstPage
        <3> QED BY <2>1, <3>1 DEF LatestReviews
    <2>7. fetch.value.checks = Rollup(truth.checks)
        BY <2>1 DEF FactsInv, FetchFresh
    <2>8. /\ answer.state = truth.state /\ answer.shape = truth.shape /\ answer.pushed = truth.pushed
          /\ answer.reviews = LatestReviews(Reviewers) /\ answer.requested = truth.requested
          /\ answer.checks = Rollup(truth.checks) /\ ~answer.more /\ ~Finished(answer.state)
        BY <1>2, <2>1, <2>2, <2>6, <2>7
    <2>9. /\ answer.state \in {"open", "closed", "merged", "unknown"} /\ answer.shape \in {"ready", "draft", "conflict"}
          /\ answer.requested \in BOOLEAN /\ answer.pushed \in Nat /\ answer.checks \in CheckStates
        BY <1>1, <2>8, FoldTypes DEF OnGitHub, Rollup
    <2>10. current \in PullRequestRow /\ answer.reviews \in SUBSET Review /\ \A v \in answer.reviews : v.at <= events
        BY <1>1, <2>1, <2>3, <2>6, <2>8
    <2>11. value = [state |-> answer.state, shape |-> answer.shape,
                    review |-> ReviewState(Verdict(answer.reviews), answer.requested),
                    pending |-> answer.requested, changesAt |-> ChangesFromGraphQL(current, answer),
                    pushedAt |-> answer.pushed, checks |-> answer.checks, stale |-> current.stale]
        BY <2>4, <2>8, <2>9, <2>10, FromGraphQLType
    <2>12. ChangesFromGraphQL(current, answer) = MaxOf(StandingChanges)
        BY <2>8, LatestChanges DEF ChangesFromGraphQL
    <2>13. /\ value.state = truth.state /\ value.shape = truth.shape /\ value.pending = truth.requested
           /\ value.review = ReviewState(Verdict(LatestReviews(Reviewers)), truth.requested)
           /\ value.changesAt = MaxOf(StandingChanges) /\ value.checks = Rollup(truth.checks)
           /\ value.pushedAt = truth.pushed
        BY <2>8, <2>11, <2>12
    <2> QED BY <2>5, <2>13 DEF StoresPR, StoredAsIs, PullRequestRow
<1> QED BY <1>3, <1>4, <1>5, <1>6, <1>7, <1>8 DEF FactsNext

\* What is shown depends on the fields that are as they are.
LEMMA ShownAsIs ==
    ASSUME FactsInv, StoredAsIs, stored' \in PullRequestRow
    PROVE  Shown(stored') = Shown(Reference)
<1>1. PICK entry : entry = [state |-> truth.state, shape |-> truth.shape,
                        review |-> ReviewState(Verdict(LatestReviews(Reviewers)), truth.requested),
                        pending |-> truth.requested, changesAt |-> MaxOf(StandingChanges),
                        pushedAt |-> truth.pushed, checks |-> Rollup(truth.checks), stale |-> FALSE]
    OBVIOUS
<1>2. PICK reference : reference = ClearFinished(entry)
    OBVIOUS
<1>3. Reference = reference
    BY <1>1, <1>2 DEF Reference
<1>4. PICK pr : pr = stored'
    OBVIOUS
<1>5. reference.state = truth.state
    BY <1>1, <1>2 DEF ClearFinished
<1>6. CASE Finished(truth.state)
    <2>1. \A p : Finished(p.state) => Shown(p) = [pullRequest |-> p.state, task |-> p.state, labels |-> {}]
        BY DEF Shown, PRDisplayState, TaskDisplayState
    <2> QED BY <1>3, <1>4, <1>5, <1>6, <2>1 DEF StoredAsIs
<1>7. CASE ~Finished(truth.state)
    <2>1. reference = entry
        BY <1>1, <1>2, <1>7 DEF ClearFinished
    <2>2. /\ pr.state = entry.state /\ pr.shape = entry.shape /\ pr.review = entry.review /\ pr.pending = entry.pending
          /\ pr.changesAt = entry.changesAt /\ pr.pushedAt = entry.pushedAt /\ pr.checks = entry.checks
        BY <1>1, <1>4, <1>7 DEF StoredAsIs
    <2>3. Shown(pr) = Shown(entry)
        BY <2>2 DEF Shown, PRDisplayState, TaskDisplayState, PRBlockLabels, RespondedAfterReview
    <2> QED BY <1>3, <1>4, <2>1, <2>3
<1> QED BY <1>6, <1>7

\* By REST or by GraphQL, for any reviewers and checks and whatever was stored before: a refresh that
\* succeeds while nothing happens shows the pull request as it is, where the routes read alike.
THEOREM RoutesAlwaysAgree == FactsSpec => RoutesAgree
<1>1. FactsInv /\ FactsInv' /\ [FactsNext]_factsVars =>
          [(fetch.route # "none" /\ fetch'.route = "none" /\ ~stored'.stale
               /\ fetch.since = events /\ ReadAlike) => Shown(stored') = Shown(Reference)]_factsVars
    BY SucceedsAsIs, ShownAsIs DEF FactsInv, FactsTypeOK
<1> QED BY <1>1, FactsInvariant, PTL DEF FactsSpec, RoutesAgree

------------------------------------------------------------------------------
\* Snapshots

\* Pull requests are of tasks, and a task has a status of its own.
StoreAsUsual == /\ DOMAIN pullRequests \subseteq DOMAIN tasks
                /\ \A t \in DOMAIN tasks : tasks[t].body \in TaskStatuses

SnapshotSpec == StoreAsUsual /\ SnapshotIdle /\ [][SnapshotNext]_snapshotVars

\* A reader holds the answers to the queries before its next one.
Answered(r) == {Queries[i] : i \in 1..(at[r] - 1)}

ReadersOK ==
    /\ at \in [Readers -> 0..8]
    /\ DOMAIN got = Readers /\ DOMAIN lasting = Readers
    /\ \A r \in Readers : DOMAIN lasting[r] = {"unfinished", "waiting"}
    /\ \A r \in Readers : at[r] # 0 => DOMAIN got[r] = Answered(r)

\* What has lasted is so now.
StillSo == \A r \in Readers : Reading(r) => /\ lasting[r].unfinished \subseteq Facts.unfinished
                                            /\ lasting[r].waiting \subseteq Facts.waiting

\* What has lasted is so in each answer by itself.
AnswersTell ==
    \A r \in Readers : at[r] # 0 =>
        /\ \A e \in lasting[r].waiting : e[2] \in lasting[r].unfinished
        /\ "tasks" \in Answered(r) =>
              /\ \A t \in lasting[r].unfinished :
                    t \in DOMAIN got[r].tasks /\ got[r].tasks[t].body \in TaskStatuses \ Settled
              /\ \A e \in lasting[r].waiting :
                    e[1] \in DOMAIN got[r].tasks => got[r].tasks[e[1]].body \notin Settled
        /\ "dependencies" \in Answered(r) => lasting[r].waiting \subseteq got[r].dependencies
        /\ "pullRequests" \in Answered(r) =>
              /\ \A t \in lasting[r].unfinished :
                    t \in DOMAIN got[r].pullRequests =>
                       got[r].pullRequests[t].state \notin {"merged", "closed"}
              /\ \A e \in lasting[r].waiting :
                    e[1] \in DOMAIN got[r].pullRequests =>
                       got[r].pullRequests[e[1]].state \notin {"open", "closed", "merged"}

SnapshotInv == StoreAsUsual /\ ReadersOK /\ StillSo /\ AnswersTell

\* What is so of the database, in terms of its tables.
LEMMA FactsAre ==
    ASSUME StoreAsUsual
    PROVE  /\ \A t \in Facts.unfinished :
                 /\ t \in DOMAIN tasks /\ tasks[t].body \in TaskStatuses \ Settled
                 /\ t \in DOMAIN pullRequests => pullRequests[t].state \notin {"merged", "closed"}
           /\ \A e \in Facts.waiting :
                 /\ e \in dependencies /\ e[2] \in Facts.unfinished
                 /\ e[1] \in DOMAIN tasks => tasks[e[1]].body \notin Settled
                 /\ e[1] \in DOMAIN pullRequests => pullRequests[e[1]].state \notin {"open", "closed", "merged"}
<1>1. PICK now : now = Tables
    OBVIOUS
<1>2. now.tasks = tasks /\ now.dependencies = dependencies /\ now.pullRequests = pullRequests
    BY <1>1 DEF Tables, ListTasks, ListDependencies, ListPullRequests
<1>3. /\ Facts.unfinished = {t \in DOMAIN now.tasks : ~IsTaskFinished(DisplayState(now, t))}
      /\ Facts.waiting = {e \in now.dependencies : e[2] \in Facts.unfinished /\ Unresolved(now, e[1])}
    BY <1>1 DEF Facts
<1>4. ASSUME NEW t \in Facts.unfinished
      PROVE  /\ t \in DOMAIN tasks /\ tasks[t].body \in TaskStatuses \ Settled
             /\ t \in DOMAIN pullRequests => pullRequests[t].state \notin {"merged", "closed"}
    <2>1. t \in DOMAIN tasks /\ ~IsTaskFinished(DisplayState(now, t))
        BY <1>2, <1>3
    <2>2. tasks[t].body \notin Settled
        BY <1>2, <2>1 DEF DisplayState, IsTaskFinished, FinishedStates, Settled
    <2>3. t \in DOMAIN pullRequests => pullRequests[t].state \notin {"merged", "closed"}
        BY <1>2, <2>1, <2>2 DEF DisplayState, HasPR, TaskDisplayStateFromPR, IsTaskFinished, FinishedStates
    <2> QED BY <2>1, <2>2, <2>3 DEF StoreAsUsual
<1>5. ASSUME NEW e \in Facts.waiting
      PROVE  /\ e \in dependencies /\ e[2] \in Facts.unfinished
             /\ e[1] \in DOMAIN tasks => tasks[e[1]].body \notin Settled
             /\ e[1] \in DOMAIN pullRequests => pullRequests[e[1]].state \notin {"open", "closed", "merged"}
    <2>1. e \in dependencies /\ e[2] \in Facts.unfinished /\ Unresolved(now, e[1])
        BY <1>2, <1>3
    <2>2. e[1] \in DOMAIN tasks => ~IsSatisfied(now, e[1])
        BY <1>2, <2>1 DEF Unresolved
    <2>3. e[1] \in DOMAIN pullRequests => e[1] \in DOMAIN tasks
        BY DEF StoreAsUsual
    <2> QED BY <1>2, <2>1, <2>2, <2>3 DEF IsSatisfied, HasPR
<1> QED BY <1>4, <1>5

\* Every write leaves such a database.
LEMMA WriteKeeps == ASSUME StoreAsUsual, Write PROVE StoreAsUsual'
<1> USE DEF StoreAsUsual
<1>1. CASE UNCHANGED <<tasks, pullRequests>>
    BY <1>1
<1>2. CASE \E f \in DOMAIN features : CreateTask(f, "not_started")
    BY <1>2 DEF CreateTask, Put, TaskStatuses
<1>3. CASE \E t \in DOMAIN tasks : \E status \in Statuses : UpdateTask(t, status)
    BY <1>3, SnapshotAssumption DEF UpdateTask, Put
<1>4. ASSUME NEW fs, NEW extra, DeleteFeatureContents(fs, extra) PROVE StoreAsUsual'
    <2>1. PICK gone : gone = TasksOf(fs)
        OBVIOUS
    <2>2. pullRequests' = Erase(pullRequests, gone) /\ tasks' = Erase(tasks, gone)
        BY <1>4, <2>1 DEF DeleteFeatureContents
    <2> QED BY <2>2 DEF Erase, Restrict
<1>5. CASE \E p \in DOMAIN projects : DeleteProject(p, TRUE)
    <2>1. PICK p \in DOMAIN projects : DeleteProject(p, TRUE)
        BY <1>5
    <2>2. PICK held : held = FeaturesOf(p)
        OBVIOUS
    <2> QED BY <1>4, <2>1, <2>2 DEF DeleteProject
<1>6. CASE \E f \in DOMAIN features : DeleteFeature(f, TRUE)
    BY <1>4, <1>6 DEF DeleteFeature
<1>7. CASE \E t \in DOMAIN tasks : DeleteTask(t, TRUE)
    BY <1>7 DEF DeleteTask, Erase, Restrict
<1>8. CASE \E t \in DOMAIN tasks : \E pr \in PullRequests : UpsertPullRequest(t, pr)
    BY <1>8 DEF UpsertPullRequest, Put
<1>9. CASE \E t \in DOMAIN tasks : DeletePullRequest(t)
    BY <1>9 DEF DeletePullRequest, Erase, Restrict
<1>10. ASSUME NEW t, UpsertImplementationPlan(t, "auto", "auto") PROVE UNCHANGED <<tasks, pullRequests>>
    BY <1>10 DEF UpsertImplementationPlan, UpdateDocument, CreateDocument
<1> QED BY <1>1, <1>2, <1>3, <1>5, <1>6, <1>7, <1>8, <1>9, <1>10
        DEF Write, CreateFeature, UpdateProject, UpdateFeature, AddDependency, RemoveDependency,
            DeleteImplementationPlan

\* A dependency waits for a task that is unfinished.
LEMMA WaitingIsUnfinished == \A e \in Facts.waiting : e[2] \in Facts.unfinished
<1>1. PICK now : now = Tables
    OBVIOUS
<1>2. /\ Facts.unfinished = {t \in DOMAIN now.tasks : ~IsTaskFinished(DisplayState(now, t))}
      /\ Facts.waiting = {e \in now.dependencies : e[2] \in Facts.unfinished /\ Unresolved(now, e[1])}
    BY <1>1 DEF Facts
<1> QED BY <1>2

\* The answers a reader holds, by its next query.
LEMMA AnsweredAre ==
    ASSUME NEW n \in 1..8
    PROVE  LET answers == {Queries[i] : i \in 1..(n - 1)}
           IN  /\ "tasks" \in answers <=> n > 3
               /\ "dependencies" \in answers <=> n > 4
               /\ "pullRequests" \in answers <=> n > 5
               /\ n < 8 => {Queries[i] : i \in 1..n} = answers \cup {Queries[n]}
<1>1. /\ Queries[1] = "projects" /\ Queries[2] = "features" /\ Queries[3] = "tasks"
      /\ Queries[4] = "dependencies" /\ Queries[5] = "pullRequests"
      /\ Queries[6] = "plans" /\ Queries[7] = "documents"
    BY DEF Queries
<1>2. n \in {1, 2, 3, 4, 5, 6, 7, 8}
    OBVIOUS
<1>3. /\ "tasks" \in {Queries[i] : i \in 1..(n - 1)} <=> 3 \in 1..(n - 1)
      /\ "dependencies" \in {Queries[i] : i \in 1..(n - 1)} <=> 4 \in 1..(n - 1)
      /\ "pullRequests" \in {Queries[i] : i \in 1..(n - 1)} <=> 5 \in 1..(n - 1)
    <2>1. ASSUME NEW i \in 1..(n - 1)
          PROVE  /\ Queries[i] = "tasks" => i = 3
                 /\ Queries[i] = "dependencies" => i = 4
                 /\ Queries[i] = "pullRequests" => i = 5
        <3>1. i \in {1, 2, 3, 4, 5, 6, 7}
            OBVIOUS
        <3> QED BY <1>1, <3>1
    <2>2. /\ 3 \in 1..(n - 1) => Queries[3] = "tasks"
          /\ 4 \in 1..(n - 1) => Queries[4] = "dependencies"
          /\ 5 \in 1..(n - 1) => Queries[5] = "pullRequests"
        BY <1>1
    <2> QED BY <2>1, <2>2
<1>4. {Queries[i] : i \in 1..n} = {Queries[i] : i \in 1..(n - 1)} \cup {Queries[n]}
    <2>1. 1..n = (1..(n - 1)) \cup {n}
        OBVIOUS
    <2> QED BY <2>1
<1> QED BY <1>3, <1>4

\* The first queries are yet to come.
LEMMA SnapshotStart == StoreAsUsual /\ SnapshotIdle => SnapshotInv
<1> SUFFICES ASSUME StoreAsUsual, SnapshotIdle PROVE SnapshotInv
    OBVIOUS
<1>1. ReadersOK
    BY DEF SnapshotIdle, ReadersOK, NoFacts
<1>2. \A r \in Readers : at[r] = 0
    BY DEF SnapshotIdle
<1> QED BY <1>1, <1>2 DEF SnapshotInv, StillSo, Reading, AnswersTell

\* A commit keeps the answers and takes from what has lasted.
LEMMA CommitKeeps == ASSUME SnapshotInv, Commit PROVE SnapshotInv'
<1> USE DEF SnapshotInv
<1>1. StoreAsUsual'
    BY WriteKeeps DEF Commit
<1>2. at' = at /\ got' = got
    BY DEF Commit
<1>3. \A e \in Facts'.waiting : e[2] \in Facts'.unfinished
    <2>1. (\A e \in Facts.waiting : e[2] \in Facts.unfinished)'
        BY WaitingIsUnfinished, PTL
    <2> QED BY <2>1
<1>4. PICK facts : facts = Facts'
    OBVIOUS
<1>5. lasting' = [r \in Readers |-> IF Reading(r) THEN Both(lasting[r], facts) ELSE lasting[r]]
    BY <1>4 DEF Commit
<1>6. ASSUME NEW r \in Readers
      PROVE  /\ DOMAIN lasting'[r] = {"unfinished", "waiting"}
             /\ Reading(r) => /\ lasting'[r].unfinished = lasting[r].unfinished \cap facts.unfinished
                              /\ lasting'[r].waiting = lasting[r].waiting \cap facts.waiting
             /\ ~Reading(r) => lasting'[r] = lasting[r]
    BY <1>5 DEF ReadersOK, Both
<1>7. \A r \in Readers : Reading(r)' <=> Reading(r)
    BY <1>2 DEF Reading
<1>8. \A r \in Readers : Answered(r)' = Answered(r)
    BY <1>2 DEF Answered
<1>9. ReadersOK'
    BY <1>2, <1>5, <1>6, <1>8 DEF ReadersOK
<1>10. StillSo'
    BY <1>4, <1>6, <1>7 DEF StillSo
<1>11. AnswersTell'
    <2> SUFFICES ASSUME NEW r \in Readers, at[r] # 0
                 PROVE  /\ \A e \in lasting'[r].waiting : e[2] \in lasting'[r].unfinished
                        /\ lasting'[r].waiting \subseteq lasting[r].waiting
                        /\ lasting'[r].unfinished \subseteq lasting[r].unfinished
        BY <1>2, <1>8 DEF AnswersTell
    <2>1. \A e \in lasting[r].waiting : e[2] \in lasting[r].unfinished
        BY DEF AnswersTell
    <2> QED BY <1>3, <1>4, <1>6, <2>1
<1> QED BY <1>1, <1>9, <1>10, <1>11


\* Who leaves the database alone leaves what is so of it.
LEMMA FactsStay == UNCHANGED storeVars => Facts' = Facts
<1> SUFFICES ASSUME UNCHANGED storeVars PROVE Facts' = Facts
    OBVIOUS
<1>1. \A t \in DOMAIN tasks : PlansOf(t)' = PlansOf(t)
    BY DEF storeVars, tables, PlansOf, DocumentsOf
<1>2. Tables' = Tables
    BY <1>1 DEF storeVars, tables, Tables, ListProjects, ListFeatures, ListTasks, ListDependencies,
           ListPullRequests, ListImplementationPlanTaskIDs, ListDocuments
<1> QED BY <1>2 DEF Facts

\* A query is answered with a table as it is now: what has lasted is so of it.
LEMMA QueryKeeps == ASSUME SnapshotInv, NEW r \in Readers, Query(r) PROVE SnapshotInv'
<1> USE DEF SnapshotInv
<1>1. PICK n : n = at[r]
    OBVIOUS
<1>2. n \in 1..7
    <2>1. Len(Queries) = 7
        BY DEF Queries
    <2> QED BY <1>1, <2>1 DEF Query, Reading
<1>3. PICK table : table = Queries[n]
    OBVIOUS
<1>4. PICK answer : answer = Tables[table]
    OBVIOUS
<1>5. /\ at' = [at EXCEPT ![r] = n + 1]
      /\ got' = [got EXCEPT ![r] = Put(got[r], table, answer)]
      /\ lasting' = lasting /\ UNCHANGED storeVars
    BY <1>1, <1>3, <1>4 DEF Query
<1>6. StoreAsUsual'
    BY <1>5 DEF storeVars, tables, StoreAsUsual
<1>7. Facts' = Facts
    BY <1>5, FactsStay
<1>8. at'[r] = n + 1 /\ n + 1 \in 1..8 /\ \A o \in Readers \ {r} : at'[o] = at[o] /\ got'[o] = got[o]
    BY <1>2, <1>5 DEF ReadersOK
<1>9. Answered(r)' = Answered(r) \cup {table}
    <2>1. Answered(r) = {Queries[i] : i \in 1..(n - 1)}
        BY <1>1 DEF Answered
    <2>2. Answered(r)' = {Queries[i] : i \in 1..n}
        <3>1. PICK m : m = at'[r]
            OBVIOUS
        <3>2. Answered(r)' = {Queries[i] : i \in 1..(m - 1)}
            BY <3>1 DEF Answered
        <3>3. m - 1 = n
            BY <1>2, <1>8, <3>1
        <3> QED BY <3>2, <3>3
    <2>3. n \in 1..8 /\ n < 8
        BY <1>2
    <2> QED BY <1>3, <2>1, <2>2, <2>3, AnsweredAre
<1>10. /\ DOMAIN got'[r] = DOMAIN got[r] \cup {table}
       /\ got'[r][table] = answer
       /\ \A other \in DOMAIN got[r] \ {table} : got'[r][other] = got[r][other]
    BY <1>5 DEF ReadersOK, Put
<1>11. \A o \in Readers \ {r} : Answered(o)' = Answered(o) /\ (Reading(o)' <=> Reading(o))
    BY <1>8 DEF Answered, Reading
<1>12. ReadersOK'
    <2>1. at' \in [Readers -> 0..8]
        BY <1>2, <1>5 DEF ReadersOK
    <2>2. DOMAIN got' = Readers /\ lasting' = lasting
        BY <1>5 DEF ReadersOK
    <2>3. ASSUME NEW o \in Readers PROVE at'[o] # 0 => DOMAIN got'[o] = Answered(o)'
        <3>1. CASE o = r
            <4>1. DOMAIN got[r] = Answered(r)
                BY <1>1, <1>2 DEF ReadersOK
            <4> QED BY <1>9, <1>10, <3>1, <4>1
        <3>2. CASE o # r
            BY <1>8, <1>11, <3>2 DEF ReadersOK
        <3> QED BY <3>1, <3>2
    <2> QED BY <2>1, <2>2, <2>3 DEF ReadersOK
<1>13. Reading(r)
    BY DEF Query
<1>14. StillSo'
    BY <1>5, <1>7, <1>11, <1>13 DEF StillSo
<1>15. PICK lasted : lasted = lasting[r]
    OBVIOUS
<1>16. lasted.unfinished \subseteq Facts.unfinished /\ lasted.waiting \subseteq Facts.waiting
    BY <1>13, <1>15 DEF StillSo
<1>17. table = "tasks" => answer = tasks
    BY <1>4 DEF Tables, ListTasks
<1>18. table = "dependencies" => answer = dependencies
    BY <1>4 DEF Tables, ListDependencies
<1>19. table = "pullRequests" => answer = pullRequests
    BY <1>4 DEF Tables, ListPullRequests
<1>20. PICK answered : answered = Answered(r)
    OBVIOUS
<1>21. DOMAIN got[r] = answered /\ at[r] # 0
    BY <1>1, <1>2, <1>20 DEF ReadersOK
<1>22. PICK held, holds : held = got[r] /\ holds = got'[r]
    OBVIOUS
<1>23. /\ \A e \in lasted.waiting : e[2] \in lasted.unfinished
       /\ "tasks" \in answered \cup {table} =>
              /\ \A t \in lasted.unfinished :
                    t \in DOMAIN holds.tasks /\ holds.tasks[t].body \in TaskStatuses \ Settled
              /\ \A e \in lasted.waiting :
                    e[1] \in DOMAIN holds.tasks => holds.tasks[e[1]].body \notin Settled
       /\ "dependencies" \in answered \cup {table} => lasted.waiting \subseteq holds.dependencies
       /\ "pullRequests" \in answered \cup {table} =>
              /\ \A t \in lasted.unfinished :
                    t \in DOMAIN holds.pullRequests =>
                       holds.pullRequests[t].state \notin {"merged", "closed"}
              /\ \A e \in lasted.waiting :
                    e[1] \in DOMAIN holds.pullRequests =>
                       holds.pullRequests[e[1]].state \notin {"open", "closed", "merged"}
    <2>1. /\ \A t \in lasted.unfinished :
                 /\ t \in DOMAIN tasks /\ tasks[t].body \in TaskStatuses \ Settled
                 /\ t \in DOMAIN pullRequests => pullRequests[t].state \notin {"merged", "closed"}
          /\ \A e \in lasted.waiting :
                 /\ e \in dependencies
                 /\ e[1] \in DOMAIN tasks => tasks[e[1]].body \notin Settled
                 /\ e[1] \in DOMAIN pullRequests => pullRequests[e[1]].state \notin {"open", "closed", "merged"}
        BY <1>16, FactsAre
    <2>2. holds[table] = answer /\ \A other \in answered \ {table} : holds[other] = held[other]
        BY <1>10, <1>21, <1>22
    <2>3. /\ \A e \in lasted.waiting : e[2] \in lasted.unfinished
          /\ "tasks" \in answered =>
                /\ \A t \in lasted.unfinished :
                      t \in DOMAIN held.tasks /\ held.tasks[t].body \in TaskStatuses \ Settled
                /\ \A e \in lasted.waiting :
                      e[1] \in DOMAIN held.tasks => held.tasks[e[1]].body \notin Settled
          /\ "dependencies" \in answered => lasted.waiting \subseteq held.dependencies
          /\ "pullRequests" \in answered =>
                /\ \A t \in lasted.unfinished :
                      t \in DOMAIN held.pullRequests =>
                         held.pullRequests[t].state \notin {"merged", "closed"}
                /\ \A e \in lasted.waiting :
                      e[1] \in DOMAIN held.pullRequests =>
                         held.pullRequests[e[1]].state \notin {"open", "closed", "merged"}
        BY <1>15, <1>20, <1>21, <1>22 DEF AnswersTell
    <2>4. ASSUME "tasks" \in answered \cup {table}
          PROVE  /\ \A t \in lasted.unfinished :
                      t \in DOMAIN holds.tasks /\ holds.tasks[t].body \in TaskStatuses \ Settled
                 /\ \A e \in lasted.waiting :
                      e[1] \in DOMAIN holds.tasks => holds.tasks[e[1]].body \notin Settled
        <3>1. CASE table = "tasks"
            <4>1. holds.tasks = tasks
                BY <1>17, <2>2, <3>1
            <4> QED BY <2>1, <4>1
        <3>2. CASE table # "tasks"
            <4>1. "tasks" \in answered /\ holds.tasks = held.tasks
                BY <2>2, <2>4, <3>2
            <4> QED BY <2>3, <4>1
        <3> QED BY <3>1, <3>2
    <2>5. ASSUME "dependencies" \in answered \cup {table}
          PROVE  lasted.waiting \subseteq holds.dependencies
        <3>1. CASE table = "dependencies"
            <4>1. holds.dependencies = dependencies
                BY <1>18, <2>2, <3>1
            <4> QED BY <2>1, <4>1
        <3>2. CASE table # "dependencies"
            <4>1. "dependencies" \in answered /\ holds.dependencies = held.dependencies
                BY <2>2, <2>5, <3>2
            <4> QED BY <2>3, <4>1
        <3> QED BY <3>1, <3>2
    <2>6. ASSUME "pullRequests" \in answered \cup {table}
          PROVE  /\ \A t \in lasted.unfinished :
                      t \in DOMAIN holds.pullRequests =>
                         holds.pullRequests[t].state \notin {"merged", "closed"}
                 /\ \A e \in lasted.waiting :
                      e[1] \in DOMAIN holds.pullRequests =>
                         holds.pullRequests[e[1]].state \notin {"open", "closed", "merged"}
        <3>1. CASE table = "pullRequests"
            <4>1. holds.pullRequests = pullRequests
                BY <1>19, <2>2, <3>1
            <4> QED BY <2>1, <4>1
        <3>2. CASE table # "pullRequests"
            <4>1. "pullRequests" \in answered /\ holds.pullRequests = held.pullRequests
                BY <2>2, <2>6, <3>2
            <4> QED BY <2>3, <4>1
        <3> QED BY <3>1, <3>2
    <2> QED BY <2>3, <2>4, <2>5, <2>6
<1>24. AnswersTell'
    <2>1. ASSUME NEW o \in Readers, o # r, at'[o] # 0
          PROVE  at[o] # 0 /\ lasting'[o] = lasting[o] /\ got'[o] = got[o] /\ Answered(o)' = Answered(o)
        BY <1>5, <1>8, <1>11, <2>1
    <2>2. lasting'[r] = lasted /\ got'[r] = holds /\ Answered(r)' = answered \cup {table}
        BY <1>5, <1>9, <1>15, <1>20, <1>22
    <2> QED BY <1>23, <2>1, <2>2 DEF AnswersTell
<1> QED BY <1>6, <1>12, <1>14, <1>24

\* A reader that begins holds no answer, and the facts of the moment.
LEMMA ReaderBegins ==
    ASSUME SnapshotInv, NEW r \in Readers, Begin(r), UNCHANGED storeVars PROVE SnapshotInv'
<1> USE DEF SnapshotInv
<1>1. StoreAsUsual'
    BY DEF storeVars, tables, StoreAsUsual
<1>2. Facts' = Facts
    BY FactsStay
<1>3. PICK facts : facts = Facts
    OBVIOUS
<1>4. /\ at' = [at EXCEPT ![r] = 1] /\ got' = [got EXCEPT ![r] = <<>>]
      /\ lasting' = [lasting EXCEPT ![r] = facts]
    BY <1>3 DEF Begin
<1>5. /\ at'[r] = 1 /\ got'[r] = <<>> /\ lasting'[r] = facts
      /\ \A o \in Readers \ {r} : at'[o] = at[o] /\ got'[o] = got[o] /\ lasting'[o] = lasting[o]
    BY <1>4 DEF ReadersOK
<1>6. Answered(r)' = {} /\ \A o \in Readers \ {r} : Answered(o)' = Answered(o) /\ (Reading(o)' <=> Reading(o))
    BY <1>5 DEF Answered, Reading
<1>7. DOMAIN facts = {"unfinished", "waiting"} /\ \A e \in facts.waiting : e[2] \in facts.unfinished
    BY <1>3, WaitingIsUnfinished DEF Facts
<1>8. ReadersOK'
    BY <1>4, <1>5, <1>6, <1>7 DEF ReadersOK
<1>9. StillSo'
    BY <1>2, <1>3, <1>5, <1>6 DEF StillSo
<1>10. AnswersTell'
    BY <1>5, <1>6, <1>7 DEF AnswersTell
<1> QED BY <1>1, <1>8, <1>9, <1>10

\* A reader that leaves holds nothing.
LEMMA ReaderLeaves ==
    ASSUME SnapshotInv, NEW r \in Readers, Leaves(r), UNCHANGED storeVars PROVE SnapshotInv'
<1> USE DEF SnapshotInv
<1>1. StoreAsUsual'
    BY DEF storeVars, tables, StoreAsUsual
<1>2. Facts' = Facts
    BY FactsStay
<1>3. /\ at'[r] = 0 /\ DOMAIN lasting'[r] = {"unfinished", "waiting"}
      /\ \A o \in Readers \ {r} : at'[o] = at[o] /\ got'[o] = got[o] /\ lasting'[o] = lasting[o]
    BY DEF ReadersOK, Leaves, NoFacts
<1>4. ~Reading(r)' /\ \A o \in Readers \ {r} : Answered(o)' = Answered(o) /\ (Reading(o)' <=> Reading(o))
    BY <1>3 DEF Answered, Reading
<1>5. ReadersOK'
    BY <1>3, <1>4 DEF ReadersOK, Leaves
<1>6. StillSo'
    BY <1>2, <1>3, <1>4 DEF StillSo
<1>7. AnswersTell'
    BY <1>3, <1>4 DEF AnswersTell
<1> QED BY <1>1, <1>5, <1>6, <1>7

\* Every step keeps what the readers hold in order.
LEMMA SnapshotKeeps == ASSUME SnapshotInv, [SnapshotNext]_snapshotVars PROVE SnapshotInv'
<1>1. CASE UNCHANGED snapshotVars
    <2>1. UNCHANGED <<storeVars, at, got, lasting>>
        BY <1>1 DEF snapshotVars, readVars
    <2>2. Facts' = Facts
        BY <2>1, FactsStay
    <2>3. \A r \in Readers : Answered(r)' = Answered(r) /\ (Reading(r)' <=> Reading(r))
        BY <2>1 DEF Answered, Reading
    <2>4. StoreAsUsual'
        BY <2>1 DEF SnapshotInv, StoreAsUsual, storeVars, tables
    <2>5. ReadersOK'
        BY <2>1, <2>3 DEF SnapshotInv, ReadersOK
    <2>6. StillSo'
        BY <2>1, <2>2, <2>3 DEF SnapshotInv, StillSo
    <2>7. AnswersTell'
        BY <2>1, <2>3 DEF SnapshotInv, AnswersTell
    <2> QED BY <2>4, <2>5, <2>6, <2>7 DEF SnapshotInv
<1>2. CASE Hear
    <2>1. Begin("tab") /\ UNCHANGED storeVars
        BY <1>2 DEF Hear, Restarts
    <2> QED BY <2>1, ReaderBegins DEF Readers
<1>3. CASE Show
    BY <1>3, ReaderLeaves DEF Show, Readers
<1>4. CASE Ask
    BY <1>4, ReaderBegins DEF Ask, Readers
<1>5. CASE Render \/ Refuse
    BY <1>5, ReaderLeaves DEF Render, Refuse, Readers
<1> QED BY <1>1, <1>2, <1>3, <1>4, <1>5, CommitKeeps, QueryKeeps DEF SnapshotNext

\* What has lasted while a reader reads is so in every answer it holds.
THEOREM SnapshotInvariant == SnapshotSpec => []SnapshotInv
<1>1. StoreAsUsual /\ SnapshotIdle => SnapshotInv
    BY SnapshotStart
<1>2. SnapshotInv /\ [SnapshotNext]_snapshotVars => SnapshotInv'
    BY SnapshotKeeps
<1> QED BY <1>1, <1>2, PTL DEF SnapshotSpec


\* A reader that has every answer finds what has lasted in them: the tasks are
\* unfinished, and wait for their blockers.
LEMMA ReadTells ==
    ASSUME SnapshotInv, NEW r \in Readers, HasRead(r)
    PROVE  \A s \in {got[r]} :
              /\ \A t \in lasting[r].unfinished :
                    t \in DOMAIN s.tasks /\ ~IsTaskFinished(DisplayState(s, t))
              /\ \A e \in lasting[r].waiting :
                    e[2] \in lasting[r].unfinished /\ e[1] \in PendingBlockers(s, e[2])
<1> USE DEF SnapshotInv
<1>1. PICK s : s = got[r]
    OBVIOUS
<1>2. PICK n : n = at[r]
    OBVIOUS
<1>3. n = 8
    <2>1. Len(Queries) = 7
        BY DEF Queries
    <2> QED BY <1>2, <2>1 DEF HasRead
<1>4. "tasks" \in Answered(r) /\ "dependencies" \in Answered(r) /\ "pullRequests" \in Answered(r)
    <2>1. n \in 1..8 /\ n > 3 /\ n > 4 /\ n > 5
        BY <1>3
    <2>2. Answered(r) = {Queries[i] : i \in 1..(n - 1)}
        BY <1>2 DEF Answered
    <2> QED BY <2>1, <2>2, AnsweredAre
<1>5. /\ \A e \in lasting[r].waiting : e[2] \in lasting[r].unfinished /\ e \in s.dependencies
      /\ \A t \in lasting[r].unfinished :
            /\ t \in DOMAIN s.tasks /\ s.tasks[t].body \in TaskStatuses \ Settled
            /\ t \in DOMAIN s.pullRequests => s.pullRequests[t].state \notin {"merged", "closed"}
      /\ \A e \in lasting[r].waiting :
            /\ e[1] \in DOMAIN s.tasks => s.tasks[e[1]].body \notin Settled
            /\ e[1] \in DOMAIN s.pullRequests =>
                  s.pullRequests[e[1]].state \notin {"open", "closed", "merged"}
    <2>1. at[r] # 0
        BY <1>2, <1>3
    <2> QED BY <1>1, <1>4, <2>1 DEF AnswersTell
<1>6. ASSUME NEW t \in lasting[r].unfinished
      PROVE  t \in DOMAIN s.tasks /\ ~IsTaskFinished(DisplayState(s, t))
    <2>1. s.tasks[t].body \in {"not_started", "designing", "in_progress"}
        BY <1>5 DEF TaskStatuses, Settled
    <2>2. CASE t \in DOMAIN s.pullRequests
        <3>1. DisplayState(s, t) = TaskDisplayStateFromPR(s.pullRequests[t])
            BY <2>1, <2>2 DEF DisplayState, HasPR, Settled
        <3>2. TaskDisplayStateFromPR(s.pullRequests[t]) \in {"approved", "in_review", "implemented", "unknown"}
            BY <1>5, <2>2 DEF TaskDisplayStateFromPR
        <3> QED BY <1>5, <3>1, <3>2 DEF IsTaskFinished, FinishedStates
    <2>3. CASE t \notin DOMAIN s.pullRequests
        <3>1. DisplayState(s, t) \in {"not_started", "designing", "in_progress", "designed"}
            BY <2>1, <2>3 DEF DisplayState, HasPR, Settled
        <3> QED BY <1>5, <3>1 DEF IsTaskFinished, FinishedStates
    <2> QED BY <2>2, <2>3
<1>7. ASSUME NEW e \in lasting[r].waiting
      PROVE  e[2] \in lasting[r].unfinished /\ e[1] \in PendingBlockers(s, e[2])
    <2>1. e[1] \in Blockers(s, e[2])
        BY <1>5 DEF Blockers
    <2>2. Unresolved(s, e[1])
        BY <1>5 DEF Unresolved, IsSatisfied, HasPR
    <2> QED BY <1>5, <2>1, <2>2 DEF PendingBlockers
<1> QED BY <1>1, <1>6, <1>7

\* What deriveSnapshot makes of a task and of a feature.
LEMMA DerivedIs ==
    ASSUME NEW s
    PROVE  /\ DOMAIN Derived(s).tasks = DOMAIN s.tasks
           /\ DOMAIN Derived(s).features = DOMAIN s.features
           /\ \A t \in DOMAIN s.tasks :
                 /\ Derived(s).tasks[t].feature = s.tasks[t].feature
                 /\ Derived(s).tasks[t].ready => PendingBlockers(s, t) = {}
                 /\ ~IsTaskFinished(DisplayState(s, t)) => Derived(s).tasks[t].pending = PendingBlockers(s, t)
           /\ \A f \in DOMAIN s.features :
                 s.features[f].body = "auto" /\ Derived(s).features[f].status = "completed"
                    => \A t \in DOMAIN s.tasks :
                          s.tasks[t].feature = f => IsTaskFinished(DisplayState(s, t))
<1>1. PICK all : all = Derived(s)
    OBVIOUS
<1> DEFINE derived == [t \in DOMAIN s.tasks |-> DerivedTask(s, t)]
           Of(f) == {t \in DOMAIN derived : derived[t].feature = f}
           Done(f) == {t \in Of(f) : IsTaskFinished(derived[t].state)}
<1>2. all.tasks = derived
    BY <1>1 DEF Derived
<1>3. /\ DOMAIN all.features = DOMAIN s.features
      /\ \A f \in DOMAIN s.features :
            all.features[f].status = FeatureDisplayStatus(s.features[f].body, Of(f), Done(f))
    BY <1>1 DEF Derived
<1>4. ASSUME NEW t \in DOMAIN s.tasks
      PROVE  /\ derived[t].feature = s.tasks[t].feature
             /\ derived[t].state = DisplayState(s, t)
             /\ derived[t].pending = IF IsTaskFinished(DisplayState(s, t)) THEN {} ELSE PendingBlockers(s, t)
    BY DEF DerivedTask
<1>5. ASSUME NEW t \in DOMAIN s.tasks PROVE derived[t].ready => PendingBlockers(s, t) = {}
    <2>1. derived[t].ready = (DisplayState(s, t) \in CandidateStates /\ PendingBlockers(s, t) = {})
        BY Zenon DEF DerivedTask
    <2> QED BY <2>1, Zenon
<1>6. ASSUME NEW f \in DOMAIN s.features, s.features[f].body = "auto", all.features[f].status = "completed",
             NEW t \in DOMAIN s.tasks, s.tasks[t].feature = f
      PROVE  IsTaskFinished(DisplayState(s, t))
    <2>1. t \in Of(f)
        BY <1>4, <1>6
    <2>2. FeatureDisplayStatus("auto", Of(f), Done(f)) = "completed"
        BY <1>3, <1>6
    <2> HIDE DEF Of, Done
    <2>3. Done(f) = Of(f)
        BY <2>2 DEF FeatureDisplayStatus, AllFinished
    <2>4. t \in Done(f)
        BY <2>1, <2>3
    <2> USE DEF Done
    <2>5. IsTaskFinished(derived[t].state)
        BY <2>4
    <2> QED BY <1>4, <2>5
<1> HIDE DEF derived
<1>7. DOMAIN derived = DOMAIN s.tasks
    BY DEF derived
<1>8. \A t \in DOMAIN s.tasks : derived[t].ready => PendingBlockers(s, t) = {}
    BY <1>5
<1>9. \A t \in DOMAIN s.tasks : all.tasks[t].ready => PendingBlockers(s, t) = {}
    BY <1>2, <1>8, Zenon
<1> QED BY <1>1, <1>2, <1>3, <1>4, <1>6, <1>7, <1>9

\* What the tab shows as ready, or as completed, was not wrong all the while it
\* was read (web/src/hooks.ts, internal/store/repository.go Snapshot).
THEOREM MixedSnapshotsMisleadNobody == SnapshotSpec => ShownWasSo
<1>1. ASSUME SnapshotInv, Show
      PROVE  LET lasted == lasting["tab"]
             IN  /\ \A e \in lasted.waiting : ~view'.tasks[e[2]].ready
                 /\ \A t \in lasted.unfinished, f \in DOMAIN view'.features :
                       got["tab"].features[f].body = "auto" /\ view'.features[f].status = "completed"
                          => view'.tasks[t].feature # f
    <2>1. PICK s : s = got["tab"]
        OBVIOUS
    <2>2. PICK display : display = Derived(s)
        OBVIOUS
    <2>3. view' = display /\ HasRead("tab")
        BY <1>1, <2>1, <2>2 DEF Show
    <2>4. /\ \A t \in lasting["tab"].unfinished :
                t \in DOMAIN s.tasks /\ ~IsTaskFinished(DisplayState(s, t))
          /\ \A e \in lasting["tab"].waiting :
                e[2] \in lasting["tab"].unfinished /\ e[1] \in PendingBlockers(s, e[2])
        BY <1>1, <2>1, <2>3, ReadTells DEF Readers
    <2>5. /\ DOMAIN display.features = DOMAIN s.features
          /\ \A t \in DOMAIN s.tasks : display.tasks[t].feature = s.tasks[t].feature
          /\ \A t \in DOMAIN s.tasks : display.tasks[t].ready => PendingBlockers(s, t) = {}
          /\ \A f \in DOMAIN s.features :
                s.features[f].body = "auto" /\ display.features[f].status = "completed"
                    => \A t \in DOMAIN s.tasks :
                          s.tasks[t].feature = f => IsTaskFinished(DisplayState(s, t))
        BY <2>2, DerivedIs
    <2>6. \A e \in lasting["tab"].waiting : ~display.tasks[e[2]].ready
        <3>1. \A t \in DOMAIN s.tasks : display.tasks[t].ready => PendingBlockers(s, t) = {}
            BY <2>5
        <3>2. \A e \in lasting["tab"].waiting : e[2] \in DOMAIN s.tasks /\ PendingBlockers(s, e[2]) # {}
            BY <2>4
        <3> QED BY <3>1, <3>2, Zenon
    <2>7. \A e \in lasting["tab"].waiting : ~view'.tasks[e[2]].ready
        BY <2>3, <2>6, Zenon
    <2>8. \A t \in lasting["tab"].unfinished, f \in DOMAIN view'.features :
              got["tab"].features[f].body = "auto" /\ view'.features[f].status = "completed"
                 => view'.tasks[t].feature # f
        BY <2>1, <2>3, <2>4, <2>5
    <2> QED BY <2>7, <2>8, Zenon
<1>2. SnapshotInv => (Show => LET lasted == lasting["tab"]
             IN  /\ \A e \in lasted.waiting : ~view'.tasks[e[2]].ready
                 /\ \A t \in lasted.unfinished, f \in DOMAIN view'.features :
                       got["tab"].features[f].body = "auto" /\ view'.features[f].status = "completed"
                          => view'.tasks[t].feature # f)
    BY <1>1
<1> QED BY <1>2, SnapshotInvariant, PTL DEF ShownWasSo

\* A prompt that GetBatchPrompt hands out holds every blocker its tasks had to
\* wait for while it was put together (internal/app/prompt.go).
THEOREM PromptsHoldTheirBlockers == SnapshotSpec => BatchesAreClosed
<1>1. ASSUME SnapshotInv, Render
      PROVE  \A e \in lasting["prompt"].waiting : e[2] \in batch.tasks => e[1] \in batch.tasks
    <2>1. PICK s : s = got["prompt"]
        OBVIOUS
    <2>2. PICK derived : derived = Derived(s)
        OBVIOUS
    <2>3. Renders(derived) /\ HasRead("prompt")
        BY <1>1, <2>1, <2>2 DEF Render
    <2>4. /\ \A t \in lasting["prompt"].unfinished :
                t \in DOMAIN s.tasks /\ ~IsTaskFinished(DisplayState(s, t))
          /\ \A e \in lasting["prompt"].waiting :
                e[2] \in lasting["prompt"].unfinished /\ e[1] \in PendingBlockers(s, e[2])
        BY <1>1, <2>1, <2>3, ReadTells DEF Readers
    <2>5. \A t \in batch.tasks : derived.tasks[t].pending \subseteq batch.tasks
        BY <2>3 DEF Renders, RequirePromptBlockers
    <2>6. \A t \in DOMAIN s.tasks :
              ~IsTaskFinished(DisplayState(s, t)) => derived.tasks[t].pending = PendingBlockers(s, t)
        BY <2>2, DerivedIs
    <2> QED BY <2>4, <2>5, <2>6
<1>2. SnapshotInv => (Render => \A e \in lasting["prompt"].waiting :
                                   e[2] \in batch.tasks => e[1] \in batch.tasks)
    BY <1>1
<1> QED BY <1>2, SnapshotInvariant, PTL DEF BatchesAreClosed

===============================================================================
