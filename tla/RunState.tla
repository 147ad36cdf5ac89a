------------------------------- MODULE RunState -------------------------------
(***************************************************************************)
(* Which `nnx serve` runs, and how others know: the file serve.json, whose *)
(* flock says that its writer lives and whose content says where it        *)
(* listens; the servers that launchd or a user start; and the commands     *)
(* that read the file (internal/runstate, cli/serve_command.go,            *)
(* cli/daemon_command.go, cli/open_command.go).  launchd is modelled from  *)
(* the plist and the launchctl calls of internal/launchd.                  *)
(***************************************************************************)
EXTENDS Naturals, FiniteSets

CONSTANTS
    Servers,        \* process ids of servers
    Clients,        \* processes that run commands
    Nobody,         \* not a server
    Inodes,         \* files that may in turn be serve.json: 1..Inodes
    Attempts,       \* acquireAttempts
    MaxManual,      \* bounds the servers that a user starts
    MaxCommands,    \* bounds the commands
    MaxFailures     \* bounds the crashes and the failures to serve

ASSUME RunStateAssumption ==
    /\ {Nobody, "not running", "unknown"} \cap Servers = {}
    /\ {Inodes, Attempts} \subseteq Nat \ {0}
    /\ {MaxManual, MaxCommands, MaxFailures} \subseteq Nat

VARIABLES
    file,                   \* the inode at the path
    excl, shared, text,     \* by inode: its flock, and whose record it holds
    phase, handle, tries,   \* by server: where it is, its inode, its attempts
    met,                    \* by server, the readers its last attempt met
    failed, signalled,      \* servers that failed to serve; that got SIGTERM
    job, wanted,            \* launchd: the server it runs, whether it will start one
    client,                 \* by client, the command it runs
    left                    \* what may still happen, by kind

record == <<file, excl, shared, text>>
server == <<phase, handle, tries, met, failed>>
launchd == <<job, wanted>>
runStateVars == <<record, server, signalled, launchd, client, left>>

Idle == [doing |-> "nothing", part |-> "first", at |-> "idle", target |-> Nobody]

Spend(kind) == left[kind] > 0 /\ left' = [left EXCEPT ![kind] = @ - 1]

Serving == \E p \in Servers : phase[p] = "serving"

------------------------------------------------------------------------------
\* A server: acquireRunLock, runServe, closeService

\* A process id is free again when nothing remembers it.
Unused(p) == /\ phase[p] = "none" /\ \A i \in 1..Inodes : text[i] # p
             /\ \A c \in Clients : client[c].target # p

Born(p) == /\ Unused(p)
           /\ phase' = [phase EXCEPT ![p] = "trying"]
           /\ handle' = [handle EXCEPT ![p] = file]
           /\ tries' = [tries EXCEPT ![p] = 0] /\ met' = [met EXCEPT ![p] = {}]
           /\ UNCHANGED <<record, failed, signalled, client>>

\* RunAtLoad, KeepAlive and kickstart; a user in a terminal.
LaunchdStarts(p) == /\ wanted /\ job = Nobody /\ Born(p)
                    /\ job' = p /\ wanted' = FALSE /\ UNCHANGED left
UserStarts(p) == Spend("manuals") /\ Born(p) /\ UNCHANGED launchd

\* launchd starts its server again unless it exited with 0.
Exits(p, clean) ==
    /\ phase' = [phase EXCEPT ![p] = "none"]
    /\ tries' = [tries EXCEPT ![p] = 0] /\ met' = [met EXCEPT ![p] = {}]
    /\ failed' = failed \ {p} /\ signalled' = signalled \ {p}
    /\ IF job = p THEN job' = Nobody /\ wanted' = (wanted \/ ~clean)
                  ELSE UNCHANGED launchd
    /\ UNCHANGED handle

Moves(p, next) == /\ phase' = [phase EXCEPT ![p] = next]
                  /\ UNCHANGED <<handle, tries, met>>

Free(i) == excl[i] = Nobody /\ shared[i] = {}

\* The readers that an attempt met let go before the next one, 20 ms later.
MayTry(p) == phase[p] = "trying" /\ shared[handle[p]] \cap met[p] = {}

Locks(p) == /\ MayTry(p) /\ Free(handle[p])
            /\ excl' = [excl EXCEPT ![handle[p]] = p]
            /\ phase' = [phase EXCEPT ![p] = "locked"] /\ met' = [met EXCEPT ![p] = {}]
            /\ UNCHANGED <<file, shared, text, handle, tries, failed, signalled, launchd, client, left>>

\* Slips one could make: one attempt is enough; one attempt too many.
AtOnce(p) == TRUE
OneMore(p) == tries[p] = Attempts
LastAttempt(p) == tries[p] + 1 = Attempts

TriesAgain(p) == /\ MayTry(p) /\ ~Free(handle[p]) /\ ~LastAttempt(p)
                 /\ tries' = [tries EXCEPT ![p] = @ + 1]
                 /\ met' = [met EXCEPT ![p] = shared[handle[p]]]
                 /\ UNCHANGED <<record, phase, handle, failed, signalled, launchd, client, left>>

\* Another server is taken to be running: exit 0.
Refused(p) == /\ MayTry(p) /\ ~Free(handle[p]) /\ LastAttempt(p)
              /\ Exits(p, TRUE)
              /\ UNCHANGED <<record, client, left>>

\* A slip one could make: what a crash left behind stays until Write.
KeepText(p) == text
Emptied(p) == [text EXCEPT ![handle[p]] = Nobody]

Truncates(p) == /\ phase[p] = "locked"
                /\ text' = Emptied(p)
                /\ Moves(p, "starting")
                /\ UNCHANGED <<file, excl, shared, failed, signalled, launchd, client, left>>

\* A slip one could make: the file is unlinked when its server ends.
Unlinked == IF file < Inodes THEN file + 1 ELSE file
Kept == file

\* After the automatic refresh, Listen and Write.
Records(p) == /\ phase[p] = "starting"
              /\ text' = [text EXCEPT ![handle[p]] = p]
              /\ Moves(p, "serving")
              /\ UNCHANGED <<file, excl, shared, failed, signalled, launchd, client, left>>

\* Storage, the port or Serve fails.  Under launchd the process waits for ten
\* seconds, unless it gets SIGTERM, and closes its service only then.
Fails(p) == /\ phase[p] \in {"starting", "serving"} /\ Spend("failures")
            /\ Moves(p, IF job = p THEN "failing" ELSE "closing")
            /\ failed' = failed \cup {p}
            /\ UNCHANGED <<record, signalled, launchd, client>>

\* SIGTERM while the server starts: Listen fails, and the command with it, without a wait.
Interrupted(p) == /\ phase[p] = "starting" /\ p \in signalled
                  /\ Moves(p, "closing")
                  /\ failed' = failed \cup {p}
                  /\ UNCHANGED <<record, signalled, launchd, client, left>>

Closes(p) == /\ \/ phase[p] = "failing"
                \/ phase[p] = "serving" /\ p \in signalled
             /\ Moves(p, "closing")
             /\ UNCHANGED <<record, failed, signalled, launchd, client, left>>

\* Release: the content is emptied, then the lock is given up; the process ends after that.
Empties(p) == /\ phase[p] = "closing"
              /\ text' = [text EXCEPT ![handle[p]] = Nobody]
              /\ Moves(p, "releasing")
              /\ UNCHANGED <<file, excl, shared, failed, signalled, launchd, client, left>>

Unlocks(p) == /\ phase[p] = "releasing"
              /\ excl' = [excl EXCEPT ![handle[p]] = Nobody]
              /\ file' = Kept
              /\ Moves(p, "leaving")
              /\ UNCHANGED <<shared, text, failed, signalled, launchd, client, left>>

Quits(p) == /\ phase[p] = "leaving"
            /\ Exits(p, p \notin failed)
            /\ UNCHANGED <<record, client, left>>

\* The kernel takes the lock from a dead process; the content stays.
Crashes(p) == /\ phase[p] # "none" /\ Spend("failures")
              /\ excl' = [i \in 1..Inodes |-> IF excl[i] = p THEN Nobody ELSE excl[i]]
              /\ Exits(p, FALSE)
              /\ UNCHANGED <<file, shared, text, client>>

\* watchExecutablePath: a server under launchd has itself replaced.
Replaced(p) == /\ phase[p] = "serving" /\ job = p /\ Spend("commands")
               /\ signalled' = signalled \cup {p} /\ wanted' = TRUE
               /\ UNCHANGED <<record, server, job, client>>

ServerStep(p) ==
    \/ LaunchdStarts(p) \/ UserStarts(p) \/ Locks(p) \/ TriesAgain(p) \/ Refused(p)
    \/ Truncates(p) \/ Records(p) \/ Fails(p) \/ Interrupted(p) \/ Closes(p)
    \/ Empties(p) \/ Unlocks(p) \/ Quits(p) \/ Crashes(p) \/ Replaced(p)

------------------------------------------------------------------------------
\* A command: runstate.Read, and what each makes of the answer

Begins(c, what) == /\ client[c] = Idle /\ Spend("commands")
                   /\ client' = [client EXCEPT ![c].doing = what, ![c].at = "probe"]
                   /\ UNCHANGED <<record, server, signalled, launchd>>

\* A server that a reader got in the way of tries again before the reader is back.
Probes(c) == /\ client[c].at = "probe" /\ \A p \in Servers : c \notin met[p]
             /\ IF excl[file] = Nobody
                   THEN /\ shared' = [shared EXCEPT ![file] = @ \cup {c}]
                        /\ client' = [client EXCEPT ![c].at = "sharing"]
                   ELSE /\ client' = [client EXCEPT ![c].at = "reading"]
                        /\ UNCHANGED shared
             /\ UNCHANGED <<file, excl, text, server, signalled, launchd, left>>

\* "install" is `daemon install`, and `nnx setup` when the plist is missing or stale; "setup" is
\* `nnx setup` with a current one.
Commands == {"open", "start", "stop", "restart", "install", "setup"}

\* A slip one could make: a record that cannot be read means a stopped server.
NotRecorded(answer) == answer \notin Servers
HasStopped(answer) == answer = "not running"

\* setup changes nothing when some server runs, wherever it listens.
Settled(c, answer) == client[c].doing = "setup" /\ client[c].part = "first" /\ answer # "not running"

\* Whether the answer, a server or "not running" or "unknown", ends the command.
Enough(c, answer) ==
    \/ client[c].doing = "open" /\ answer # "unknown"
    \/ client[c].doing = "start" /\ answer \in Servers
    \/ client[c].doing \in {"install", "setup"} /\ client[c].part = "wait" /\ answer \in Servers
    \/ Settled(c, answer)
    \/ client[c].doing = "restart" /\ client[c].part = "wait" /\ answer \in Servers \ {client[c].target}
    \/ client[c].doing = "stop" /\ client[c].part = "first" /\ answer \notin Servers
    \/ client[c].doing = "stop" /\ client[c].part = "wait" /\ HasStopped(answer)

Hears(c, answer) ==
    client' = [client EXCEPT ![c] =
        IF Enough(c, answer) THEN Idle
        ELSE IF @.part = "wait" \/ @.doing = "open" THEN [@ EXCEPT !.part = "wait", !.at = "probe"]
        ELSE [@ EXCEPT !.at = "acting", !.target = IF answer \in Servers THEN answer ELSE Nobody]]

LetsGo(c) == /\ client[c].at = "sharing"
             /\ shared' = [i \in 1..Inodes |-> shared[i] \ {c}]
             /\ Hears(c, "not running")
             /\ UNCHANGED <<file, excl, text, server, signalled, launchd, left>>

Reads(c) == /\ client[c].at = "reading"
            /\ Hears(c, IF text[file] = Nobody THEN "unknown" ELSE text[file])
            /\ UNCHANGED <<record, server, signalled, launchd, left>>

Waits(c) == client' = [client EXCEPT ![c].part = "wait", ![c].at = "probe"]

\* kill(pid, SIGTERM), which fails when there is no such process any more.
Kills(c) == /\ client[c].at = "acting" /\ client[c].doing = "stop"
            /\ IF phase[client[c].target] # "none"
                  THEN signalled' = signalled \cup {client[c].target} /\ Waits(c)
                  ELSE client' = [client EXCEPT ![c] = Idle] /\ UNCHANGED signalled
            /\ UNCHANGED <<record, server, launchd, left>>

\* launchctl kickstart
Starts(c) == /\ client[c].at = "acting" /\ client[c].doing = "start"
             /\ wanted' = (wanted \/ job = Nobody)
             /\ Waits(c)
             /\ UNCHANGED <<record, server, signalled, job, left>>

\* launchctl kickstart -k
Restarts(c) == /\ client[c].at = "acting" /\ client[c].doing = "restart"
               /\ wanted' = TRUE
               /\ signalled' = signalled \cup ({job} \cap Servers)
               /\ Waits(c)
               /\ UNCHANGED <<record, server, job, left>>

\* The user agrees, after any time, to launchctl bootout and bootstrap: bootout returns when the
\* server is gone, so that launchd does what it does for a restart.
Installs(c) == /\ client[c].at = "acting" /\ client[c].doing = "install"
               /\ wanted' = TRUE
               /\ signalled' = signalled \cup ({job} \cap Servers)
               /\ Waits(c)
               /\ UNCHANGED <<record, server, job, left>>

\* The user agrees to a kickstart, by when another server may run, or to nothing.
SetsUp(c) == /\ client[c].at = "acting" /\ client[c].doing = "setup"
             /\ wanted' = (wanted \/ job = Nobody)
             /\ Waits(c)
             /\ UNCHANGED <<record, server, signalled, job, left>>

Skips(c) == /\ client[c].at = "acting" /\ client[c].doing \in {"install", "setup"}
            /\ client' = [client EXCEPT ![c] = Idle]
            /\ UNCHANGED <<record, server, signalled, launchd, left>>

TimesOut(c) == /\ client[c].at = "probe" /\ client[c].part = "wait"
               /\ client' = [client EXCEPT ![c] = Idle]
               /\ UNCHANGED <<record, server, signalled, launchd, left>>

ClientStep(c) == \/ \E what \in Commands : Begins(c, what)
                 \/ Probes(c) \/ LetsGo(c) \/ Reads(c)
                 \/ Kills(c) \/ Starts(c) \/ Restarts(c) \/ TimesOut(c)
                 \/ Installs(c) \/ SetsUp(c) \/ Skips(c)

------------------------------------------------------------------------------
\* The LaunchAgent has just been loaded.
RunStateInit ==
    /\ file = 1
    /\ excl = [i \in 1..Inodes |-> Nobody] /\ shared = [i \in 1..Inodes |-> {}]
    /\ text = [i \in 1..Inodes |-> Nobody]
    /\ phase = [p \in Servers |-> "none"] /\ handle = [p \in Servers |-> 1]
    /\ tries = [p \in Servers |-> 0] /\ met = [p \in Servers |-> {}]
    /\ failed = {} /\ signalled = {}
    /\ job = Nobody /\ wanted = TRUE
    /\ client = [c \in Clients |-> Idle]
    /\ left = [manuals |-> MaxManual, commands |-> MaxCommands, failures |-> MaxFailures]

RunStateNext == (\E p \in Servers : ServerStep(p)) \/ (\E c \in Clients : ClientStep(c))

\* Processes run, and launchd does what it was asked to.
RunStateFairness ==
    /\ WF_runStateVars(\E p \in Servers : LaunchdStarts(p))
    /\ \A p \in Servers :
          WF_runStateVars(\/ Locks(p) \/ TriesAgain(p) \/ Refused(p) \/ Truncates(p)
                         \/ Records(p) \/ Interrupted(p) \/ Closes(p)
                         \/ Empties(p) \/ Unlocks(p) \/ Quits(p))
    /\ \A c \in Clients :
          WF_runStateVars(Probes(c) \/ LetsGo(c) \/ Reads(c) \/ Kills(c) \/ Starts(c) \/ Restarts(c))

RunStateSpec == RunStateInit /\ [][RunStateNext]_runStateVars /\ RunStateFairness

------------------------------------------------------------------------------
\* Properties

RunStateTypeOK ==
    /\ file \in 1..Inodes
    /\ excl \in [1..Inodes -> Servers \cup {Nobody}] /\ text \in [1..Inodes -> Servers \cup {Nobody}]
    /\ shared \in [1..Inodes -> SUBSET Clients]
    /\ phase \in [Servers -> {"none", "trying", "locked", "starting", "serving", "failing", "closing",
                              "releasing", "leaving"}]
    /\ handle \in [Servers -> 1..Inodes] /\ tries \in [Servers -> 0..(Attempts - 1)]
    /\ met \in [Servers -> SUBSET Clients] /\ failed \subseteq Servers /\ signalled \subseteq Servers
    /\ job \in Servers \cup {Nobody} /\ wanted \in BOOLEAN
    /\ client \in [Clients -> [doing : Commands \cup {"nothing"},
                               part : {"first", "wait"},
                               at : {"idle", "probe", "sharing", "reading", "acting"},
                               target : Servers \cup {Nobody}]]

\* Never do two servers both believe that they are the one, whatever crashes
\* and restarts there were: the reason why the file is not unlinked.
OneServer == \A p, q \in Servers : {phase[p], phase[q]} \subseteq {"starting", "serving"} => p = q

\* What is read while the lock is held was written by its holder, never by a
\* server that has died, but for the instant between lock and truncation.
RecordIsTheHolders ==
    LET holder == excl[file]
    IN  holder # Nobody /\ text[file] # Nobody /\ phase[holder] # "locked" => text[file] = holder

\* `daemon stop` reports a stop only when the server that it signalled is gone,
\* or has nothing left to do but to exit, although the record is emptied before
\* the lock is given up.
StopMeansGone ==
    [][\A c \in Clients : client[c].part = "wait" /\ client[c].doing = "stop"
                           /\ client[c].at \in {"sharing", "reading"} /\ client'[c] = Idle
                           => phase[client[c].target] \in {"none", "leaving"}]_runStateVars

\* Left to launchd, a server serves again and again, after crashes, failures,
\* restarts and replacements, and whatever commands read the file meanwhile.
ServerReturns ==
    [](left.manuals = MaxManual /\ \A c \in Clients : client[c].doing # "stop") => []<>Serving

\* A serve that is refused exits with 0, for the state asked for, one running
\* server, is there (daemon.md): its holder is about to serve, serves or ends.
RefusedOnlyByAServer ==
    [][\A p \in Servers : phase[p] = "trying" /\ phase'[p] = "none" /\ left' = left
                            => phase[excl[handle[p]]] # "failing"]_runStateVars

\* `daemon stop` reports that there was nothing to stop only when no server
\* holds the lock (daemon.md).
AlreadyStoppedIsTrue ==
    [][\A c \in Clients : client[c].part = "first" /\ client[c].doing = "stop"
                           /\ client[c].at \in {"sharing", "reading"} /\ client'[c] = Idle
                           => excl[file] = Nobody]_runStateVars

==============================================================================
