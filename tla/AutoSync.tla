------------------------------- MODULE AutoSync -------------------------------
(***************************************************************************)
(* Who refreshes the pull requests and whose result is shown: the single   *)
(* row github_sync_state, which commands, page loads and manual refreshes  *)
(* of several processes share (internal/app/github_auto_sync.go).  Times   *)
(* are kept relative to the present: the age of the last attempt, and how  *)
(* long ago a call read the clock it will write.                           *)
(***************************************************************************)
EXTENDS Naturals

CONSTANTS
    Callers,        \* calls that may be under way at once
    NoRun,          \* not a caller
    Intervals,      \* the refresh intervals that a configuration may hold
    Default,        \* DefaultAutoSyncIntervalSeconds
    MaxWait,        \* busy_timeout: how long a statement waits for the database
    MaxManual,      \* bounds the unscoped manual refreshes
    MaxFailures     \* bounds the crashes and the statements that fail

ASSUME AutoSyncAssumption ==
    /\ NoRun \notin Callers
    /\ Intervals \subseteq Nat \ {0} /\ Default \in Intervals
    /\ \E i \in Intervals : \A j \in Intervals : j <= i
    /\ {MaxWait, MaxManual, MaxFailures} \subseteq Nat

VARIABLES
    age,        \* of last_attempt_unix, at most Lapsed, which stands for NULL too
    owner,      \* the call under way whose run_id the row holds
    open,       \* whether the last run has recorded nothing
    result,     \* what the row shows: the counts recorded last, or run_error
    phase,      \* by caller: idle, acquiring, starting, syncing or recording
    wait,       \* by caller, the time since it read the clock
    due,        \* by caller, the interval it read
    outcome,    \* by caller, the result it will record
    manuals, failures  \* what may still happen

row == <<age, owner, open, result>>
calls == <<phase, wait, due, outcome>>
autoSyncVars == <<row, calls, manuals, failures>>

Lapsed == (CHOOSE i \in Intervals : \A j \in Intervals : j <= i) + MaxWait
Waiting == {p \in Callers : phase[p] \in {"acquiring", "starting"}}
Outcomes == {"succeeded", "failed", "cancelled", "config"}

Enter(p, next, what) == /\ phase' = [phase EXCEPT ![p] = next]
                        /\ outcome' = [outcome EXCEPT ![p] = what]

ReadClock(p, interval) == /\ wait' = [wait EXCEPT ![p] = 0]
                          /\ due' = [due EXCEPT ![p] = interval]

\* A call is over, and with it its variables and whatever its run_id stood for.
Leave(p) == /\ Enter(p, "idle", "none") /\ ReadClock(p, Default)
            /\ owner' = IF owner = p THEN NoRun ELSE owner

------------------------------------------------------------------------------
\* github_sync_state

\* A slip one could make: the present is passed where the due time belongs.
DueBeforeNow(p) == age >= wait[p]
\* last_attempt_unix IS NULL OR last_attempt_unix <= now - interval
IsDue(p) == age >= wait[p] + due[p]

\* SET run_id, last_attempt_unix, run_error = '': the counts stay, an error goes.
TakeRow(p) == /\ owner' = p /\ age' = wait[p] /\ open' = TRUE
              /\ result' = IF result \in {"cancelled", "config"} THEN "none" ELSE result

\* Slips one could make: the result is recorded whoever owns the row, or with
\* the context of a caller that has gone.
AnyRun(p) == TRUE
WithCallersContext(p) == owner = p /\ outcome[p] # "cancelled"
\* WHERE run_id = ?, in a context detached from the caller's
Recordable(p) == owner = p

------------------------------------------------------------------------------
\* SyncIfDue

BeginAuto(p) ==
    /\ phase[p] = "idle"
    /\ \E i \in Intervals, loaded \in BOOLEAN :
          /\ ReadClock(p, IF loaded THEN i ELSE Default)
          /\ Enter(p, "acquiring", IF loaded THEN "none" ELSE "config")
    /\ UNCHANGED <<row, manuals, failures>>

\* A slip one could make: the failure to load the configuration is forgotten.
Forgotten(p) == "none"
LoadError(p) == outcome[p]

\* Without a configuration there is nothing to refresh, only to record.
Acquire(p) ==
    /\ phase[p] = "acquiring" /\ IsDue(p)
    /\ TakeRow(p) /\ ReadClock(p, Default)
    /\ Enter(p, IF outcome[p] = "none" THEN "syncing" ELSE "recording", LoadError(p))
    /\ UNCHANGED <<manuals, failures>>

NotAcquired(p) ==
    /\ phase[p] = "acquiring" /\ ~IsDue(p)
    /\ Leave(p)
    /\ UNCHANGED <<age, open, result, manuals, failures>>

------------------------------------------------------------------------------
\* Sync: the whole, or only a feature or a task

\* A slip one could make: a refresh of one task counts as a refresh.
EveryRefresh(scoped) == TRUE
RecordsState(scoped) == ~scoped

\* A refresh that records nothing touches no row: it starts and ends here.
BeginManual(p, scoped) ==
    /\ phase[p] = "idle"
    /\ scoped \/ manuals > 0
    /\ manuals' = IF scoped THEN manuals ELSE manuals - 1
    /\ Enter(p, IF RecordsState(scoped) THEN "starting" ELSE "idle", "none")
    /\ ReadClock(p, Default)
    /\ UNCHANGED <<row, failures>>

Start(p) ==
    /\ phase[p] = "starting"
    /\ TakeRow(p) /\ ReadClock(p, Default)
    /\ Enter(p, "syncing", "none")
    /\ UNCHANGED <<manuals, failures>>

------------------------------------------------------------------------------
\* Both

\* syncSelected ends, well or not, or because its caller has gone.
SyncEnds(p) ==
    /\ phase[p] = "syncing"
    /\ \E o \in {"succeeded", "failed", "cancelled"} : Enter(p, "recording", o)
    /\ UNCHANGED <<row, wait, due, manuals, failures>>

Record(p) ==
    /\ phase[p] = "recording"
    /\ IF Recordable(p) THEN open' = FALSE /\ result' = outcome[p]
                        ELSE UNCHANGED <<open, result>>
    /\ Leave(p)
    /\ UNCHANGED <<age, manuals, failures>>

\* A statement fails, or the process of the call dies.
Fail(p) ==
    /\ phase[p] # "idle" /\ failures > 0
    /\ failures' = failures - 1
    /\ Leave(p)
    /\ UNCHANGED <<age, open, result, manuals>>

\* Time passes; no statement waits for longer than MaxWait.
Tick ==
    /\ \A p \in Waiting : wait[p] < MaxWait
    /\ age' = IF age < Lapsed THEN age + 1 ELSE age
    /\ wait' = [p \in Callers |-> IF p \in Waiting THEN wait[p] + 1 ELSE wait[p]]
    /\ UNCHANGED <<owner, open, result, phase, due, outcome, manuals, failures>>

------------------------------------------------------------------------------
AutoSyncInit ==
    /\ age = Lapsed /\ owner = NoRun /\ open = FALSE /\ result = "none"
    /\ phase = [p \in Callers |-> "idle"] /\ wait = [p \in Callers |-> 0]
    /\ due = [p \in Callers |-> Default] /\ outcome = [p \in Callers |-> "none"]
    /\ manuals = MaxManual /\ failures = MaxFailures

CallStep(p) == \/ BeginAuto(p) \/ Acquire(p) \/ NotAcquired(p)
               \/ \E scoped \in BOOLEAN : BeginManual(p, scoped)
               \/ Start(p) \/ SyncEnds(p) \/ Record(p) \/ Fail(p)

AutoSyncNext == Tick \/ \E p \in Callers : CallStep(p)

\* Time passes, statements are answered, a refresh ends at its deadline, and
\* commands and the visible WebUI keep asking whether one is due.
AutoSyncFairness ==
    /\ WF_autoSyncVars(Tick)
    /\ \A p \in Callers : /\ WF_autoSyncVars(BeginAuto(p))
                          /\ WF_autoSyncVars(Acquire(p) \/ NotAcquired(p) \/ Start(p))
                          /\ WF_autoSyncVars(SyncEnds(p)) /\ WF_autoSyncVars(Record(p))

AutoSyncSpec == AutoSyncInit /\ [][AutoSyncNext]_autoSyncVars /\ AutoSyncFairness

------------------------------------------------------------------------------
\* Every variable keeps its type; a call that is about to record knows what, and
\* the row's owner is a call that took it and has not ended.
AutoSyncTypeOK ==
    /\ age \in 0..Lapsed /\ open \in BOOLEAN /\ result \in Outcomes \cup {"none"}
    /\ phase \in [Callers -> {"idle", "acquiring", "starting", "syncing", "recording"}]
    /\ wait \in [Callers -> 0..MaxWait] /\ due \in [Callers -> Intervals]
    /\ outcome \in [Callers -> Outcomes \cup {"none"}]
    /\ manuals \in 0..MaxManual /\ failures \in 0..MaxFailures
    /\ \A p \in Callers : phase[p] = "recording" => outcome[p] # "none"
    /\ owner # NoRun => owner \in Callers /\ phase[owner] \in {"syncing", "recording"}

==============================================================================
