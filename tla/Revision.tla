------------------------------- MODULE Revision -------------------------------
(***************************************************************************)
(* How a change of the database reaches an open browser tab.  The server's *)
(* Watcher polls PRAGMA data_version and turns a difference into a new     *)
(* revision; the Broadcaster hands it to the streams in channels of        *)
(* capacity one; a stream sends revisions and heartbeats; the tab refetches *)
(* on the first message of a connection and whenever the revision differs  *)
(* (internal/revision, internal/rpc/revision.go, web/src/revision-stream.ts, *)
(* web/src/hooks.ts).                                                      *)
(***************************************************************************)
EXTENDS Naturals, FiniteSets

CONSTANTS
    Tabs,
    Width,                      \* data_version counts modulo Width (2^32 in SQLite)
    MaxCommits, MaxWrites,      \* bounds on the changes
    MaxFailures                 \* bounds the drops, restarts and read faults together

ASSUME RevisionAssumption ==
    /\ {MaxCommits, MaxWrites, MaxFailures} \subseteq Nat
    /\ Width \in Nat \ {0}

VARIABLES
    db,         \* commits so far: the content of the database
    broken,     \* whether reading data_version fails
    baseline, ok, revision, watching,  \* the Watcher
    current,    \* the Broadcaster's revision
    slot,       \* by tab, the channel of its stream: 0 when empty
    handler,    \* by tab, the revision its stream last took
    wire,       \* by tab, the message under way: 0 when none
    connected,  \* the tabs whose stream is open
    seen,       \* by tab, the last revision of this connection: 0 before the first
    want,       \* by tab, whether a refetch is under way
    cached,     \* by tab, the commits its cache shows
    write,      \* by tab, its own mutation and the window after it
    left        \* what may still happen, by kind

server == <<baseline, ok, revision, watching, current>>
streams == <<slot, handler, wire, connected, seen>>
tabs == <<want, cached, write>>
revisionVars == <<db, broken, server, streams, tabs, left>>

------------------------------------------------------------------------------
\* The database

\* A slip one could make: a counter that never wraps.
Unwrapped(commits) == commits
DataVersion(commits) == commits % Width

Spend(kind) == left[kind] > 0 /\ left' = [left EXCEPT ![kind] = @ - 1]

\* Fewer than Width commits fall between two polls.
MayCommit == DataVersion(db + 1) # baseline

\* Another process, or a request of another client.
Commit == /\ Spend("commits") /\ MayCommit
          /\ db' = db + 1
          /\ UNCHANGED <<broken, server, streams, tabs>>

Break == /\ Spend("failures") /\ ~broken /\ broken' = TRUE
         /\ UNCHANGED <<db, server, streams, tabs>>
Repair == /\ broken /\ broken' = FALSE
          /\ UNCHANGED <<db, server, streams, tabs, left>>

------------------------------------------------------------------------------
\* Watcher.Run: one tick of the ticker

\* A slip one could make: a version is newer when it is greater.
Greater(version) == version > baseline
Differs(version) == version # baseline

\* A slip one could make in publish: a full channel keeps what it holds.
KeepOldest(old, new) == IF old # 0 THEN old ELSE new
LatestWins(old, new) == new

\* Nobody listens: no read, and the baseline is taken afresh later.
PollIdle == /\ connected = {}
            /\ watching' = TRUE /\ ok' = FALSE
            /\ UNCHANGED <<db, broken, baseline, revision, current, streams, tabs, left>>

PollFails == /\ connected # {} /\ broken
             /\ watching' = FALSE
             /\ UNCHANGED <<db, broken, baseline, ok, revision, current, streams, tabs, left>>

\* Without a baseline there is nothing to compare with: no revision.
PollBaseline == /\ connected # {} /\ ~broken /\ ~ok
                /\ watching' = TRUE /\ ok' = TRUE
                /\ baseline' = DataVersion(db)
                /\ UNCHANGED <<db, broken, revision, current, streams, tabs, left>>

PollSame == /\ connected # {} /\ ~broken /\ ok /\ ~Differs(DataVersion(db))
            /\ watching' = TRUE
            /\ UNCHANGED <<db, broken, baseline, ok, revision, current, streams, tabs, left>>

PollChange == /\ connected # {} /\ ~broken /\ ok /\ Differs(DataVersion(db))
              /\ watching' = TRUE
              /\ baseline' = DataVersion(db)
              /\ revision' = revision + 1 /\ current' = revision + 1
              /\ slot' = [t \in Tabs |-> IF t \in connected
                                         THEN LatestWins(slot[t], revision + 1) ELSE 0]
              /\ UNCHANGED <<db, broken, ok, handler, wire, connected, seen, tabs, left>>

Poll == PollIdle \/ PollFails \/ PollBaseline \/ PollSame \/ PollChange

------------------------------------------------------------------------------
\* A stream: WatchRevision and startRevisionStream

Close(ts) == /\ connected' = connected \ ts
             /\ slot' = [t \in Tabs |-> IF t \in ts THEN 0 ELSE slot[t]]
             /\ wire' = [t \in Tabs |-> IF t \in ts THEN 0 ELSE wire[t]]
             /\ seen' = [t \in Tabs |-> IF t \in ts THEN 0 ELSE seen[t]]
             /\ handler' = [t \in Tabs |-> IF t \in ts THEN 0 ELSE handler[t]]

\* After its backoff a tab opens a stream, which is refused while the Watcher
\* cannot read; the first message is the current revision.
Connect(t) == /\ t \notin connected /\ watching
              /\ connected' = connected \cup {t}
              /\ handler' = [handler EXCEPT ![t] = current]
              /\ wire' = [wire EXCEPT ![t] = current]
              /\ UNCHANGED <<db, broken, server, slot, seen, tabs, left>>

Send(t) == /\ slot[t] # 0 /\ wire[t] = 0
           /\ handler' = [handler EXCEPT ![t] = slot[t]]
           /\ wire' = [wire EXCEPT ![t] = slot[t]]
           /\ slot' = [slot EXCEPT ![t] = 0]
           /\ UNCHANGED <<db, broken, server, connected, seen, tabs, left>>

\* A slip one could make: heartbeats go on whether or not changes can be seen.
AlwaysAlive == TRUE
Alive == watching

\* The stream repeats its revision, or ends with an error.
Heartbeat(t) == /\ t \in connected /\ wire[t] = 0
                /\ IF Alive THEN /\ wire' = [wire EXCEPT ![t] = handler[t]]
                                 /\ UNCHANGED <<slot, handler, connected, seen>>
                            ELSE Close({t})
                /\ UNCHANGED <<db, broken, server, tabs, left>>

\* The first message of a connection always refetches; a repeated revision is
\* a heartbeat; the revision of a write of its own does not refetch either.
Receive(t) == /\ wire[t] # 0
              /\ want' = [want EXCEPT ![t] = \/ @ \/ seen[t] = 0
                                             \/ (wire[t] # seen[t] /\ write[t] = "none")]
              /\ seen' = [seen EXCEPT ![t] = wire[t]]
              /\ wire' = [wire EXCEPT ![t] = 0]
              /\ UNCHANGED <<db, broken, server, slot, handler, connected, cached, write, left>>

Drop(t) == /\ t \in connected /\ Spend("failures")
           /\ Close({t})
           /\ UNCHANGED <<db, broken, server, tabs>>

\* Another server process takes over: its Watcher reads a baseline at once.
Restart == /\ Spend("failures")
           /\ Close(Tabs)
           /\ ok' = ~broken /\ watching' = ~broken
           /\ baseline' = DataVersion(db) /\ revision' = 1 /\ current' = 1
           /\ UNCHANGED <<db, broken, tabs>>

------------------------------------------------------------------------------
\* The tab's cache and its own writes

Refetch(t) == /\ want[t]
              /\ cached' = [cached EXCEPT ![t] = db]
              /\ want' = [want EXCEPT ![t] = FALSE]
              /\ UNCHANGED <<db, broken, server, streams, write, left>>

Mutate(t) == /\ write[t] = "none" /\ Spend("writes")
             /\ write' = [write EXCEPT ![t] = "pending"]
             /\ UNCHANGED <<db, broken, server, streams, want, cached>>

CommitWrite(t) == /\ write[t] = "pending" /\ MayCommit
                  /\ db' = db + 1
                  /\ write' = [write EXCEPT ![t] = "committed"]
                  /\ UNCHANGED <<broken, server, streams, want, cached, left>>

\* On success the tab refetches; then the window localWriteRevisionWindowMs runs.
WriteSucceeds(t) == /\ write[t] = "committed"
                    /\ write' = [write EXCEPT ![t] = "window"]
                    /\ want' = [want EXCEPT ![t] = TRUE]
                    /\ UNCHANGED <<db, broken, server, streams, cached, left>>

\* The request fails, or its answer is lost.
WriteFails(t) == /\ write[t] \in {"pending", "committed"}
                 /\ write' = [write EXCEPT ![t] = "window"]
                 /\ UNCHANGED <<db, broken, server, streams, want, cached, left>>

WindowEnds(t) == /\ write[t] = "window"
                 /\ write' = [write EXCEPT ![t] = "none"]
                 /\ UNCHANGED <<db, broken, server, streams, want, cached, left>>

------------------------------------------------------------------------------
RevisionInit ==
    /\ db = 0 /\ broken = FALSE
    /\ baseline = DataVersion(0) /\ ok = TRUE /\ revision = 1 /\ watching = TRUE /\ current = 1
    /\ slot = [t \in Tabs |-> 0] /\ handler = [t \in Tabs |-> 0]
    /\ wire = [t \in Tabs |-> 0] /\ seen = [t \in Tabs |-> 0] /\ connected = {}
    /\ want = [t \in Tabs |-> TRUE] /\ cached = [t \in Tabs |-> 0]
    /\ write = [t \in Tabs |-> "none"]
    /\ left = [commits |-> MaxCommits, writes |-> MaxWrites, failures |-> MaxFailures]

RevisionNext ==
    \/ Commit \/ Break \/ Repair \/ Poll \/ Restart
    \/ \E t \in Tabs : \/ Connect(t) \/ Send(t) \/ Heartbeat(t) \/ Receive(t) \/ Drop(t)
                       \/ Refetch(t) \/ Mutate(t) \/ CommitWrite(t)
                       \/ WriteSucceeds(t) \/ WriteFails(t) \/ WindowEnds(t)

\* The ticker and the heartbeat fire, the stream's select loop and the browser's
\* event loop run, a request is answered, the backoff ends.  A select with a
\* heartbeat and a revision ready picks either, and not the heartbeat for ever;
\* a tab that keeps trying finds the Watcher reading sooner or later.
RevisionFairness ==
    /\ WF_revisionVars(Poll)
    /\ \A t \in Tabs : /\ SF_revisionVars(Connect(t))
                       /\ SF_revisionVars(Send(t)) /\ WF_revisionVars(Heartbeat(t))
                       /\ WF_revisionVars(Receive(t)) /\ WF_revisionVars(Refetch(t))

RevisionSpec == RevisionInit /\ [][RevisionNext]_revisionVars /\ RevisionFairness

------------------------------------------------------------------------------
\* Properties

Revisions == 0..(1 + MaxCommits + MaxWrites)

RevisionTypeOK ==
    /\ db \in 0..(MaxCommits + MaxWrites) /\ broken \in BOOLEAN
    /\ baseline \in 0..(Width - 1) /\ ok \in BOOLEAN /\ watching \in BOOLEAN
    /\ revision \in Revisions /\ current \in Revisions
    /\ {slot, handler, wire, seen} \subseteq [Tabs -> Revisions] /\ connected \subseteq Tabs
    /\ want \in [Tabs -> BOOLEAN] /\ cached \in [Tabs -> 0..(MaxCommits + MaxWrites)]
    /\ write \in [Tabs -> {"none", "pending", "committed", "window"}]

\* Dropping superseded values loses nothing: once the channel and the wire of a
\* stream are empty, its tab has seen the Broadcaster's current revision.
NothingPublishedIsLost ==
    \A t \in connected : slot[t] = 0 /\ wire[t] = 0 => seen[t] = current

\* A change that the Watcher has a baseline for reaches every tab, through
\* polls that fail, wrapped versions, lost connections and restarts, unless the
\* tab is in the window of a write of its own.
ChangesArrive ==
    \A t \in Tabs, v \in 1..(MaxCommits + MaxWrites) :
        (db = v /\ ok /\ baseline # DataVersion(v)) ~> (cached[t] >= v \/ write[t] # "none")

\* While changes cannot be detected no stream stays open as if nothing had
\* changed: it ends with an error instead of sending heartbeats (webui.md).
StallReported ==
    \A t \in Tabs : (broken /\ t \in connected) ~> (t \notin connected \/ ~broken)

\* Every change arrives: a connection always refetches, so that there is no
\* such thing as a missed change (webui.md, rpc/revision.go).
EverythingArrives ==
    \A t \in Tabs, v \in 1..(MaxCommits + MaxWrites) : (db >= v) ~> (cached[t] >= v)

==============================================================================
