---------------------------- MODULE PullRequestSync ----------------------------
(***************************************************************************)
(* Refreshing pull requests from GitHub while they change there and while  *)
(* tasks are attached, detached and deleted (app/service.go, syncSelected; *)
(* app/github_sync.go).  A refresh reads the rows once, asks GitHub for a  *)
(* host or a repository at a time, and writes the answers row by row, each *)
(* as a whole, with no transaction around it.  Refreshes of several        *)
(* processes overlap.  Which credential answers is left out: an answer is  *)
(* whole, partial (the core fields, then an error) or none.                *)
(***************************************************************************)
EXTENDS Naturals, Functions

CONSTANTS
    Tasks,
    NoTask,         \* not a task
    PullRequests,   \* identities: host, owner, repository and number
    Refreshers,     \* calls that refresh or attach
    MaxEvents       \* bounds what happens: changes on GitHub, edits, failures

ASSUME PullRequestSyncAssumption ==
    NoTask \notin Tasks /\ MaxEvents \in Nat /\ ExistsInjection(Tasks, PullRequests)

VARIABLES
    github,     \* the state of every pull request on GitHub
    tasks,      \* the tasks there are
    rows,       \* pull_requests, by task
    sync,       \* by refresher: pc, the task attached, rows to fetch, answers to write
    left        \* how much may still happen

pullRequestVars == <<github, tasks, rows, sync, left>>

Idle == [pc |-> "idle", task |-> NoTask, work |-> <<>>, answers |-> <<>>]
Terminal(state) == state \in {"closed", "merged"}

Event == left > 0 /\ left' = left - 1

Put(t, row) == [u \in DOMAIN rows \cup {t} |-> IF u = t THEN row ELSE rows[u]]
Drop(f, keys) == Restrict(f, DOMAIN f \ keys)

\* UNIQUE(host, owner, repository, number): no other task has the pull request.
Attachable(t, pr) == \A u \in DOMAIN rows \ {t} : rows[u].pr # pr

\* UpsertPullRequest looks the task up first.  A slip one could make: it does not.
AnyTask(t, pr) == Attachable(t, pr)
Writable(t, pr) == t \in tasks /\ Attachable(t, pr)

------------------------------------------------------------------------------
\* GitHub and the users

\* A merge is final; a closed pull request may be opened again.
Happens(pr) ==
    /\ github[pr] # "merged" /\ Event
    /\ \E state \in {"open", "closed", "merged"} \ {github[pr]} :
          github' = [github EXCEPT ![pr] = state]
    /\ UNCHANGED <<tasks, rows, sync>>

\* AttachPullRequest: the row is replaced, then the task is refreshed.
Attach(p, t, pr) ==
    /\ sync[p].pc = "idle" /\ Event
    /\ Writable(t, pr)
    /\ rows' = Put(t, [pr |-> pr, state |-> "unknown", stale |-> TRUE, error |-> FALSE])
    /\ sync' = [sync EXCEPT ![p] = [Idle EXCEPT !.pc = "attached", !.task = t]]
    /\ UNCHANGED <<github, tasks>>

Detach(t) == /\ t \in DOMAIN rows /\ Event
             /\ rows' = Drop(rows, {t})
             /\ UNCHANGED <<github, tasks, sync>>

DeleteTask(t) == /\ t \in tasks /\ Event
                 /\ tasks' = tasks \ {t}
                 /\ rows' = Drop(rows, {t})
                 /\ UNCHANGED <<github, sync>>

------------------------------------------------------------------------------
\* A refresh: of one task, of the feature, or of whatever is active

\* Derive and FeatureDisplayStatus, for tasks of one feature that follow their
\* pull requests: the feature is completed once all of them have ended.
Completed == tasks # {} /\ \A t \in tasks : t \in DOMAIN rows /\ Terminal(rows[t].state)

\* A slip one could make: a pull request that has ended is not refreshed.
NotEnded(scope) == {t \in DOMAIN rows \cap scope : ~Terminal(rows[t].state)}
Eligible(scope) == DOMAIN rows \cap scope

\* Snapshot: the rows are read, and never again.
Take(p, scope) ==
    /\ Eligible(scope) # {}
    /\ sync' = [sync EXCEPT ![p] = [Idle EXCEPT !.pc = "fetch",
                                               !.work = Restrict(rows, Eligible(scope))]]
    /\ UNCHANGED <<github, tasks, rows, left>>

\* Asked for by name, a completed feature or its task is refreshed too.
Refresh(p, scope) == sync[p].pc = "idle" /\ Take(p, scope)

\* The automatic refresh, or `nnx sync`.
RefreshActive(p) == sync[p].pc = "idle" /\ ~Completed /\ Take(p, Tasks)

RefreshAttached(p) == sync[p].pc = "attached" /\ Take(p, {sync[p].task})

\* The task that was attached has no pull request any more.
Nothing(p) ==
    /\ sync[p].pc = "attached" /\ Eligible({sync[p].task}) = {}
    /\ sync' = [sync EXCEPT ![p] = Idle]
    /\ UNCHANGED <<github, tasks, rows, left>>

\* What will be written for a row read before: GitHub's answer, or what the
\* failure leaves of it.
Success(row) == [row EXCEPT !.state = github[row.pr], !.stale = FALSE, !.error = FALSE]

\* A slip one could make in syncFailureValue: an ended pull request is reported too.
Reported(state) == TRUE
Attention(state) == ~Terminal(state)
Failure(row, state) == [row EXCEPT !.state = state, !.stale = TRUE, !.error = Attention(state)]

Answer(row, how) ==
    CASE how = "whole"   -> Success(row)
      [] how = "partial" -> Failure(row, github[row.pr])
      [] how = "none"    -> Failure(row, row.state)

\* A host at once, or a repository: here, all that is left or one row.
Fetch(p) ==
    /\ sync[p].pc = "fetch" /\ sync[p].answers = <<>>
    /\ \E G \in {DOMAIN sync[p].work} \cup {{t} : t \in DOMAIN sync[p].work} :
       \E how \in [G -> {"whole", "partial", "none"}] :
          /\ IF \E t \in G : how[t] # "whole" THEN Event ELSE UNCHANGED left
          /\ sync' = [sync EXCEPT ![p].work = Drop(@, G), ![p].pc = "persist",
                                  ![p].answers = [t \in G |-> Answer(sync[p].work[t], how[t])]]
    /\ UNCHANGED <<github, tasks, rows>>

\* UpsertPullRequest of one answer.  An error ends the whole refresh.
Persist(p) ==
    /\ sync[p].pc = "persist"
    /\ \E t \in DOMAIN sync[p].answers :
          LET rest == Drop(sync[p].answers, {t})
              next == IF rest # <<>> THEN "persist"
                      ELSE IF sync[p].work # <<>> THEN "fetch" ELSE "idle"
          IN  IF Writable(t, sync[p].answers[t].pr)
              THEN /\ rows' = Put(t, sync[p].answers[t])
                   /\ sync' = [sync EXCEPT ![p] = IF next = "idle" THEN Idle
                                                  ELSE [@ EXCEPT !.answers = rest, !.pc = next]]
              ELSE /\ sync' = [sync EXCEPT ![p] = Idle]
                   /\ UNCHANGED rows
    /\ UNCHANGED <<github, tasks, left>>

\* The process dies, the deadline passes, a statement fails.
Stop(p) == /\ sync[p].pc # "idle" /\ Event
           /\ sync' = [sync EXCEPT ![p] = Idle]
           /\ UNCHANGED <<github, tasks, rows>>

------------------------------------------------------------------------------
\* Every task has a pull request; which one makes no difference.
Attached == CHOOSE f \in Injection(Tasks, PullRequests) : TRUE

PullRequestSyncInit ==
    /\ github = [pr \in PullRequests |-> "open"]
    /\ tasks = Tasks
    /\ rows = [t \in Tasks |->
                 [pr |-> Attached[t], state |-> "open", stale |-> FALSE, error |-> FALSE]]
    /\ sync = [p \in Refreshers |-> Idle]
    /\ left = MaxEvents

PullRequestSyncNext ==
    \/ \E pr \in PullRequests : Happens(pr)
    \/ \E t \in Tasks : Detach(t) \/ DeleteTask(t)
    \/ \E p \in Refreshers :
          \/ \E t \in Tasks, pr \in PullRequests : Attach(p, t, pr)
          \/ \E t \in Tasks : Refresh(p, {t})
          \/ Refresh(p, Tasks) \/ RefreshActive(p)
          \/ RefreshAttached(p) \/ Nothing(p) \/ Fetch(p) \/ Persist(p) \/ Stop(p)

\* A call runs on to its end (each has a deadline), and commands and the visible
\* WebUI start a refresh of what is active whenever the interval is over.
PullRequestSyncFairness ==
    /\ SF_pullRequestVars(\E p \in Refreshers : RefreshActive(p))
    /\ \A p \in Refreshers : WF_pullRequestVars(\/ RefreshAttached(p) \/ Nothing(p)
                                                \/ Fetch(p) \/ Persist(p))

PullRequestSyncSpec ==
    PullRequestSyncInit /\ [][PullRequestSyncNext]_pullRequestVars /\ PullRequestSyncFairness

------------------------------------------------------------------------------
\* Properties

Row == [pr : PullRequests, state : {"unknown", "open", "closed", "merged"},
        stale : BOOLEAN, error : BOOLEAN]
IsTable(f) == DOMAIN f \subseteq Tasks /\ f \in [DOMAIN f -> Row]

\* Every variable keeps its type; only a call that fetches or writes has work.
PullRequestSyncTypeOK ==
    /\ left \in 0 .. MaxEvents
    /\ github \in [PullRequests -> {"open", "closed", "merged"}]
    /\ tasks \subseteq Tasks /\ IsTable(rows) /\ DOMAIN rows \subseteq tasks
    /\ \A p \in Refreshers :
          /\ sync[p].pc \in {"idle", "attached", "fetch", "persist"}
          /\ sync[p].task \in Tasks \cup {NoTask}
          /\ IsTable(sync[p].work) /\ IsTable(sync[p].answers)
          /\ sync[p].answers # <<>> <=> sync[p].pc = "persist"

\* A pull request belongs to one task, although refreshes write rows back that
\* were read before it was attached elsewhere (an upsert that would break this
\* fails, and its refresh with it).
OneTaskEach == \A t, u \in DOMAIN rows : rows[t].pr = rows[u].pr => t = u

\* An error is shown only with a stale row whose pull request may still change,
\* whatever answers of overlapping refreshes land on it (github-sync.md).
ErrorsNeedAttention ==
    \A t \in DOMAIN rows : rows[t].error => rows[t].stale /\ ~Terminal(rows[t].state)

\* Once GitHub, the users and the network are at rest, every pull request of a
\* feature that is not completed is shown as it is, whatever overlapping, failing
\* and aborted refreshes had written: one that was closed and opened again too.
Converges ==
    <>[](Completed \/ \A t \in DOMAIN rows : /\ rows[t].state = github[rows[t].pr]
                                             /\ ~rows[t].stale)

\* A refresh takes in facts and changes no recorded intent (archive.md): it
\* attaches, detaches and exchanges nothing.
RefreshKeepsIntent ==
    [][\A p \in Refreshers : sync[p].pc = "persist" /\ sync'[p] # sync[p]
          => /\ DOMAIN rows' = DOMAIN rows
             /\ \A t \in DOMAIN rows : rows'[t].pr = rows[t].pr]_pullRequestVars

\* A refresh that fails keeps the state of a pull request that is known to be
\* closed or merged (github-sync.md).
EndedStateKept ==
    [][\A p \in Refreshers, t \in DOMAIN rows \cap DOMAIN rows' :
          /\ sync[p].pc = "persist" /\ sync'[p] # sync[p]
          /\ rows'[t].pr = rows[t].pr /\ rows'[t].stale /\ github[rows[t].pr] = "merged"
          /\ rows[t].state = "merged"
          => rows'[t].state = "merged"]_pullRequestVars

==============================================================================
