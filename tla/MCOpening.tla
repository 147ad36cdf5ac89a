----------------------------- MODULE MCOpening -----------------------------
(* Instances of Opening: the versions that the code names and their        *)
(* neighbours, two processes, one of them `nnx setup`.                     *)
(*                                                                         *)
(* In the other part the servers of the same directory contend for its     *)
(* serve.json, of RunState.  A behaviour takes the steps of one of the two *)
(* (`part`): their states add up.                                          *)
EXTENDS Opening, RunState

MCMigrations == {2, 3, 5, 11, 12}

MCRebuilds == {3, 11, 12}

MCPlaces == {"nothing", "legacy", "current", "both", "configured", "half"}

UpTo(n) == [recorded |-> {v \in MCMigrations : v <= n}, applied |-> {v \in MCMigrations : v <= n}]

\* Databases of older releases, one whose record of public IDs was lost, and two from branches that
\* used the numbers 2 and 3 for something else.
MCDatabases ==
  {UpTo(3), [UpTo(5) EXCEPT !.recorded = {2, 3}],
   [recorded |-> {2, 3}, applied |-> {2}], [recorded |-> {2}, applied |-> {}]}

CONSTANT pid1
VARIABLE part       \* what is looked at

\* A part that is not looked at stands in a state where nothing is left that its
\* fairness asks for: a database of another branch that nobody opens, which Opens
\* is not about, and a server of launchd that serves.
NobodyOpens ==
  /\ start = "current" /\ dirs = DirsAt(start) /\ disk = DiskAt(start)
  /\ recorded = {2} /\ applied = {} /\ branch = {2} /\ again = {}
  /\ pc = [p \in Processes |-> "away"] /\ view = [p \in Processes |-> NoView]
  /\ samples = [p \in Processes |-> "none"] /\ crashes = 0 /\ oldBuilds = 0

Serves ==
  /\ file = 1 /\ failed = {} /\ signalled = {} /\ job = pid1 /\ wanted = TRUE
  /\ excl = [i \in 1..Inodes |-> IF i = 1 THEN pid1 ELSE Nobody]
  /\ text = [i \in 1..Inodes |-> IF i = 1 THEN pid1 ELSE Nobody]
  /\ shared = [i \in 1..Inodes |-> {}]
  /\ phase = [p \in Servers |-> IF p = pid1 THEN "serving" ELSE "none"]
  /\ handle = [p \in Servers |-> 1]
  /\ tries = [p \in Servers |-> 0] /\ met = [p \in Servers |-> {}]
  /\ client = [c \in Clients |-> Idle]
  /\ left = [manuals |-> 0, commands |-> 0, failures |-> 0]

MCInit ==
  \/ part = "database" /\ OpeningInit /\ Serves
  \/ part = "servers" /\ RunStateInit /\ NobodyOpens

MCNext ==
  \/ part = "database" /\ OpeningNext /\ UNCHANGED <<runStateVars, part>>
  \/ part = "servers" /\ RunStateNext /\ UNCHANGED <<openingVars, part>>

MCSpec == MCInit /\ [][MCNext]_<<openingVars, runStateVars, part>> /\ OpeningFairness /\ RunStateFairness
============================================================================
