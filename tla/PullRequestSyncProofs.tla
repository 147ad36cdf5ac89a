------------------------ MODULE PullRequestSyncProofs -------------------------
(***************************************************************************)
(* Theorems about PullRequestSync, for any number of tasks, pull requests, *)
(* refreshers and events.                                                  *)
(***************************************************************************)
EXTENDS PullRequestSync, TLAPS

\* Tables of any tasks.
Tables == UNION {[S -> Row] : S \in SUBSET Tasks}
Call == [pc : {"idle", "attached", "fetch", "persist"}, task : Tasks \cup {NoTask},
         work : Tables, answers : Tables]

\* What PullRequestSyncTypeOK says, with the shape of every call; a call that
\* fetches has something to fetch, so that its answers are some.
Types ==
    /\ left \in 0..MaxEvents
    /\ github \in [PullRequests -> {"open", "closed", "merged"}]
    /\ tasks \subseteq Tasks /\ rows \in Tables /\ DOMAIN rows \subseteq tasks
    /\ sync \in [Refreshers -> Call]
    /\ \A p \in Refreshers : /\ sync[p].answers # <<>> <=> sync[p].pc = "persist"
                             /\ sync[p].pc = "fetch" => sync[p].work # <<>>

\* A row with an error is stale, and its pull request may still change.
Sound(row) == row.error => row.stale /\ ~Terminal(row.state)
AllSound(table) == \A t \in DOMAIN table : Sound(table[t])

\* A refresh carries rows that it read and answers made from them.
Carried == \A p \in Refreshers : AllSound(sync[p].work) /\ AllSound(sync[p].answers)

\* The inductive invariant.
SyncInv == Types /\ OneTaskEach /\ AllSound(rows) /\ Carried

------------------------------------------------------------------------------
\* Tables

\* The two ways of saying what a table is.
LEMMA TableIs ==
    ASSUME NEW f PROVE f \in Tables <=> IsTable(f)
BY DEF Tables, IsTable

\* The empty table is one, without rows.
LEMMA EmptyTable == <<>> \in Tables /\ DOMAIN <<>> = {}
<1>1. DOMAIN <<>> = {} /\ <<>> \in [{} -> Row]
    OBVIOUS
<1> QED BY <1>1 DEF Tables

\* It is the only one without rows.
LEMMA NoDomain ==
    ASSUME NEW f \in Tables, DOMAIN f = {} PROVE f = <<>>
BY DEF Tables

\* Put writes one row.
LEMMA PutTable ==
    ASSUME rows \in Tables, NEW t \in Tasks, NEW r \in Row
    PROVE  Put(t, r) \in Tables /\ DOMAIN Put(t, r) = DOMAIN rows \cup {t}
           /\ \A u \in DOMAIN rows \cup {t} : Put(t, r)[u] = IF u = t THEN r ELSE rows[u]
BY TableIs DEF Put, IsTable

\* A part of a table is a table.
LEMMA PartOfTable ==
    ASSUME NEW f \in Tables, NEW S \in SUBSET DOMAIN f
    PROVE  Restrict(f, S) \in Tables /\ DOMAIN Restrict(f, S) = S
           /\ \A u \in S : Restrict(f, S)[u] = f[u]
BY TableIs DEF Restrict, IsTable

\* Drop keeps the other rows.
LEMMA DropTable ==
    ASSUME NEW f \in Tables, NEW keys
    PROVE  Drop(f, keys) \in Tables /\ DOMAIN Drop(f, keys) = DOMAIN f \ keys
           /\ \A u \in DOMAIN f \ keys : Drop(f, keys)[u] = f[u]
BY PartOfTable DEF Drop

\* A call that is over carries nothing.
LEMMA IdleCall == Idle \in Call /\ Idle.pc = "idle" /\ Idle.work = <<>> /\ Idle.answers = <<>>
BY EmptyTable DEF Idle, Call

------------------------------------------------------------------------------
\* What steps have to guarantee

\* What happens is counted.
LEMMA EventCounts ==
    ASSUME Types, Event \/ UNCHANGED left PROVE left' \in 0..MaxEvents
BY PullRequestSyncAssumption DEF Types, Event

\* A step of a refresh changes its own call only.
LEMMA CallKept ==
    ASSUME SyncInv, NEW p \in Refreshers,
           sync' = [sync EXCEPT ![p] = sync'[p]], sync'[p] \in Call,
           sync'[p].answers # <<>> <=> sync'[p].pc = "persist",
           sync'[p].pc = "fetch" => sync'[p].work # <<>>,
           AllSound(sync'[p].work), AllSound(sync'[p].answers),
           left' \in 0..MaxEvents, UNCHANGED github,
           tasks' \subseteq Tasks, rows' \in Tables, DOMAIN rows' \subseteq tasks',
           OneTaskEach', AllSound(rows')
    PROVE  SyncInv'
<1>1. \A q \in Refreshers \ {p} : sync'[q] = sync[q]
    BY DEF SyncInv, Types
<1>2. sync' \in [Refreshers -> Call]
    BY DEF SyncInv, Types
<1>3. Types'
    BY <1>1, <1>2 DEF SyncInv, Types
<1>4. Carried'
    BY <1>1 DEF SyncInv, Carried, AllSound, Sound
<1>5. AllSound(rows)'
    BY DEF AllSound, Sound
<1> QED BY <1>3, <1>4, <1>5 DEF SyncInv

\* A refresh that ends carries nothing.
LEMMA CallEnds ==
    ASSUME SyncInv, NEW p \in Refreshers, sync' = [sync EXCEPT ![p] = Idle],
           left' \in 0..MaxEvents, UNCHANGED <<github, tasks, rows>>
    PROVE  SyncInv'
<1>1. sync' = [sync EXCEPT ![p] = sync'[p]] /\ sync'[p] = Idle
    BY DEF SyncInv, Types
<1>2. AllSound(<<>>)
    BY EmptyTable DEF AllSound
<1>3. /\ tasks' \subseteq Tasks /\ rows' \in Tables /\ DOMAIN rows' \subseteq tasks'
      /\ OneTaskEach' /\ AllSound(rows')
    BY DEF SyncInv, Types, OneTaskEach
<1> QED BY <1>1, <1>2, <1>3, IdleCall, CallKept

\* What GitHub, a detachment or a deletion changes is no call.
LEMMA Elsewhere ==
    ASSUME SyncInv, UNCHANGED sync, left' \in 0..MaxEvents,
           github' \in [PullRequests -> {"open", "closed", "merged"}],
           tasks' \subseteq Tasks, rows' \in Tables, DOMAIN rows' \subseteq tasks',
           OneTaskEach', AllSound(rows')
    PROVE  SyncInv'
<1>1. Types'
    BY DEF SyncInv, Types
<1>2. Carried' /\ AllSound(rows)'
    BY DEF SyncInv, Carried, AllSound, Sound
<1> QED BY <1>1, <1>2 DEF SyncInv

\* A row that is written is sound, and its pull request is attached to no other task.
LEMMA Written ==
    ASSUME SyncInv, NEW t \in Tasks, NEW r \in Row, Sound(r), Writable(t, r.pr), rows' = Put(t, r)
    PROVE  rows' \in Tables /\ DOMAIN rows' \subseteq tasks /\ OneTaskEach' /\ AllSound(rows')
<1>1. /\ rows \in Tables /\ DOMAIN rows \subseteq tasks /\ OneTaskEach /\ AllSound(rows)
      /\ t \in tasks /\ \A u \in DOMAIN rows \ {t} : rows[u].pr # r.pr
    BY DEF SyncInv, Types, Writable, Attachable
<1>2. rows' \in Tables /\ DOMAIN rows' = DOMAIN rows \cup {t}
      /\ \A u \in DOMAIN rows' : rows'[u] = IF u = t THEN r ELSE rows[u]
    <2>1. /\ Put(t, r) \in Tables /\ DOMAIN Put(t, r) = DOMAIN rows \cup {t}
          /\ \A u \in DOMAIN rows \cup {t} : Put(t, r)[u] = IF u = t THEN r ELSE rows[u]
        BY <1>1, PutTable
    <2> QED BY <2>1
<1>3. OneTaskEach'
    BY <1>1, <1>2 DEF OneTaskEach
<1>4. AllSound(rows')
    BY <1>1, <1>2 DEF AllSound
<1> QED BY <1>1, <1>2, <1>3, <1>4

\* Taking rows away breaks nothing.
LEMMA Removed ==
    ASSUME SyncInv, NEW t, rows' = Drop(rows, {t})
    PROVE  rows' \in Tables /\ DOMAIN rows' = DOMAIN rows \ {t} /\ OneTaskEach' /\ AllSound(rows')
<1>1. rows \in Tables /\ OneTaskEach /\ AllSound(rows)
    BY DEF SyncInv, Types
<1>2. rows' \in Tables /\ DOMAIN rows' = DOMAIN rows \ {t} /\ \A u \in DOMAIN rows' : rows'[u] = rows[u]
    <2>1. /\ Drop(rows, {t}) \in Tables /\ DOMAIN Drop(rows, {t}) = DOMAIN rows \ {t}
          /\ \A u \in DOMAIN rows \ {t} : Drop(rows, {t})[u] = rows[u]
        BY <1>1, DropTable
    <2> QED BY <2>1
<1>3. OneTaskEach'
    BY <1>1, <1>2 DEF OneTaskEach
<1>4. AllSound(rows')
    BY <1>1, <1>2 DEF AllSound
<1> QED BY <1>2, <1>3, <1>4

------------------------------------------------------------------------------
\* GitHub and the users

\* What happens on GitHub changes no row.
LEMMA HappensStep ==
    ASSUME SyncInv, NEW pr \in PullRequests, Happens(pr) PROVE SyncInv'
<1>1. /\ UNCHANGED <<tasks, rows, sync>> /\ left' \in 0..MaxEvents
      /\ github' \in [PullRequests -> {"open", "closed", "merged"}]
    BY EventCounts DEF SyncInv, Types, Happens
<1>2. /\ tasks' \subseteq Tasks /\ rows' \in Tables /\ DOMAIN rows' \subseteq tasks'
      /\ OneTaskEach' /\ AllSound(rows')
    BY <1>1 DEF SyncInv, Types, OneTaskEach
<1> QED BY <1>1, <1>2, Elsewhere

\* A detachment takes a row away.
LEMMA DetachStep ==
    ASSUME SyncInv, NEW t \in Tasks, Detach(t) PROVE SyncInv'
<1>1. UNCHANGED <<github, tasks, sync>> /\ left' \in 0..MaxEvents /\ rows' = Drop(rows, {t})
    BY EventCounts DEF SyncInv, Detach
<1> QED BY <1>1, Removed, Elsewhere DEF SyncInv, Types

\* A deletion takes a task and its row away.
LEMMA DeleteTaskStep ==
    ASSUME SyncInv, NEW t \in Tasks, DeleteTask(t) PROVE SyncInv'
<1>1. /\ UNCHANGED <<github, sync>> /\ left' \in 0..MaxEvents
      /\ rows' = Drop(rows, {t}) /\ tasks' = tasks \ {t}
    BY EventCounts DEF SyncInv, DeleteTask
<1>2. tasks \subseteq Tasks /\ DOMAIN rows \subseteq tasks /\ github' \in [PullRequests -> {"open", "closed", "merged"}]
    BY <1>1 DEF SyncInv, Types
<1>3. rows' \in Tables /\ DOMAIN rows' = DOMAIN rows \ {t} /\ OneTaskEach' /\ AllSound(rows')
    BY <1>1, Removed
<1>4. tasks' \subseteq Tasks /\ DOMAIN rows' \subseteq tasks'
    BY <1>1, <1>2, <1>3
<1> QED BY <1>1, <1>2, <1>3, <1>4, Elsewhere

\* An attachment writes a row without an error.
LEMMA AttachStep ==
    ASSUME SyncInv, NEW p \in Refreshers, NEW t \in Tasks, NEW pr \in PullRequests, Attach(p, t, pr)
    PROVE  SyncInv'
<1> DEFINE r == [pr |-> pr, state |-> "unknown", stale |-> TRUE, error |-> FALSE]
           call == [Idle EXCEPT !.pc = "attached", !.task = t]
<1>1. /\ UNCHANGED <<github, tasks>> /\ left' \in 0..MaxEvents
      /\ Writable(t, r.pr) /\ rows' = Put(t, r) /\ sync' = [sync EXCEPT ![p] = call]
    BY EventCounts DEF SyncInv, Attach
<1>2. r \in Row /\ Sound(r)
    BY DEF Row, Sound
<1>3. rows' \in Tables /\ DOMAIN rows' \subseteq tasks /\ OneTaskEach' /\ AllSound(rows')
    BY <1>1, <1>2, Written
<1>4. sync' = [sync EXCEPT ![p] = sync'[p]] /\ sync'[p] = call
    BY <1>1 DEF SyncInv, Types
<1>5. call \in Call /\ call.pc = "attached" /\ call.work = <<>> /\ call.answers = <<>>
    BY EmptyTable DEF Idle, Call
<1>6. AllSound(<<>>) /\ tasks' \subseteq Tasks /\ DOMAIN rows' \subseteq tasks'
    BY <1>1, <1>3, EmptyTable DEF AllSound, SyncInv, Types
<1> HIDE DEF call, r
<1> QED BY <1>1, <1>3, <1>4, <1>5, <1>6, CallKept

------------------------------------------------------------------------------
\* Refreshes

\* A refresh takes sound rows, at least one.
LEMMA TakeStep ==
    ASSUME SyncInv, NEW p \in Refreshers, NEW scope, Take(p, scope) PROVE SyncInv'
<1> DEFINE part == Restrict(rows, Eligible(scope))
           call == [Idle EXCEPT !.pc = "fetch", !.work = part]
<1>1. /\ UNCHANGED <<github, tasks, rows, left>> /\ Eligible(scope) # {}
      /\ sync' = [sync EXCEPT ![p] = call]
    BY DEF Take
<1>2. Eligible(scope) \subseteq DOMAIN rows /\ rows \in Tables /\ AllSound(rows)
    BY DEF Eligible, SyncInv, Types
<1>3. part \in Tables /\ DOMAIN part = Eligible(scope) /\ \A u \in DOMAIN part : part[u] = rows[u]
    BY <1>2, PartOfTable
<1>4. part # <<>> /\ AllSound(part)
    BY <1>1, <1>2, <1>3, EmptyTable DEF AllSound
<1>5. call \in Call /\ call.pc = "fetch" /\ call.work = part /\ call.answers = <<>>
    BY <1>3, EmptyTable DEF Idle, Call
<1>6. sync' = [sync EXCEPT ![p] = sync'[p]] /\ sync'[p] = call
    BY <1>1 DEF SyncInv, Types
<1>7. AllSound(<<>>)
    BY EmptyTable DEF AllSound
<1>8. /\ tasks' \subseteq Tasks /\ rows' \in Tables /\ DOMAIN rows' \subseteq tasks'
      /\ OneTaskEach' /\ AllSound(rows') /\ left' \in 0..MaxEvents
    BY <1>1 DEF SyncInv, Types, OneTaskEach
<1> HIDE DEF call, part
<1> QED BY <1>1, <1>4, <1>5, <1>6, <1>7, <1>8, CallKept

\* An answer is a sound row for the same pull request: a failure reports an error
\* only for one that may still change, and marks the row stale.
LEMMA AnswerSound ==
    ASSUME Types, NEW r \in Row, NEW how \in {"whole", "partial", "none"}
    PROVE  Answer(r, how) \in Row /\ Sound(Answer(r, how))
<1>1. github[r.pr] \in {"open", "closed", "merged"}
    BY DEF Types, Row
<1>2. Success(r) \in Row /\ Sound(Success(r))
    BY <1>1 DEF Success, Row, Sound
<1>3. ASSUME NEW s \in {"unknown", "open", "closed", "merged"}
      PROVE  Failure(r, s) \in Row /\ Sound(Failure(r, s))
    BY <1>3 DEF Failure, Attention, Row, Sound, Terminal
<1>4. r.state \in {"unknown", "open", "closed", "merged"}
    BY DEF Row
<1> QED BY <1>1, <1>2, <1>3, <1>4 DEF Answer

\* The answers are sound rows, at least one.
LEMMA FetchStep ==
    ASSUME SyncInv, NEW p \in Refreshers, Fetch(p) PROVE SyncInv'
<1> DEFINE Fetches(G, how) ==
              /\ IF \E t \in G : how[t] # "whole" THEN Event ELSE UNCHANGED left
              /\ sync' = [sync EXCEPT ![p].work = Drop(@, G), ![p].pc = "persist",
                                      ![p].answers = [t \in G |-> Answer(sync[p].work[t], how[t])]]
<1>a. PICK G \in {DOMAIN sync[p].work} \cup {{t} : t \in DOMAIN sync[p].work} :
          \E how \in [G -> {"whole", "partial", "none"}] : Fetches(G, how)
    BY DEF Fetch
<1>1. PICK how \in [G -> {"whole", "partial", "none"}] : Fetches(G, how)
    BY <1>a
<1> DEFINE work == sync[p].work
           answers == [t \in G |-> Answer(work[t], how[t])]
<1>2. work \in Tables /\ work # <<>> /\ AllSound(work) /\ sync[p] \in Call
    BY DEF Fetch, SyncInv, Types, Carried, Call
<1>3. DOMAIN work # {} /\ G # {} /\ G \subseteq DOMAIN work
    BY <1>2, NoDomain
<1>4. \A t \in G : work[t] \in Row
    BY <1>2, <1>3, TableIs DEF IsTable
<1>5. answers \in Tables /\ AllSound(answers) /\ DOMAIN answers = G
    <2>1. \A t \in G : Answer(work[t], how[t]) \in Row /\ Sound(Answer(work[t], how[t]))
        BY <1>4, AnswerSound DEF SyncInv
    <2>2. G \subseteq Tasks
        BY <1>2, <1>3, TableIs DEF IsTable
    <2> QED BY <2>1, <2>2, TableIs DEF AllSound, IsTable
<1>6. answers # <<>>
    BY <1>3, <1>5, EmptyTable
<1>7. Drop(work, G) \in Tables /\ AllSound(Drop(work, G))
    <2>1. /\ Drop(work, G) \in Tables /\ DOMAIN Drop(work, G) = DOMAIN work \ G
          /\ \A u \in DOMAIN work \ G : Drop(work, G)[u] = work[u]
        BY <1>2, DropTable
    <2> QED BY <1>2, <2>1 DEF AllSound
<1>8. /\ sync' = [sync EXCEPT ![p] = sync'[p]]
      /\ sync'[p] = [sync[p] EXCEPT !.work = Drop(work, G), !.pc = "persist", !.answers = answers]
    BY <1>1 DEF SyncInv, Types
<1>9. /\ sync'[p] \in Call /\ sync'[p].pc = "persist"
      /\ sync'[p].work = Drop(work, G) /\ sync'[p].answers = answers
    BY <1>2, <1>5, <1>7, <1>8 DEF Call
<1>10. /\ tasks' \subseteq Tasks /\ rows' \in Tables /\ DOMAIN rows' \subseteq tasks'
       /\ OneTaskEach' /\ AllSound(rows') /\ UNCHANGED github
    BY DEF Fetch, SyncInv, Types, OneTaskEach
<1>11. left' \in 0..MaxEvents
    <2>1. Event \/ UNCHANGED left
        BY <1>1
    <2> QED BY <2>1, EventCounts DEF SyncInv
<1> QED BY <1>5, <1>6, <1>7, <1>8, <1>9, <1>10, <1>11, CallKept

\* An answer is written only for a task that exists, if no other has the pull request.
LEMMA PersistStep ==
    ASSUME SyncInv, NEW p \in Refreshers, Persist(p) PROVE SyncInv'
<1> DEFINE answers == sync[p].answers
<1>1. PICK t \in DOMAIN answers :
          LET rest == Drop(answers, {t})
              next == IF rest # <<>> THEN "persist" ELSE IF sync[p].work # <<>> THEN "fetch" ELSE "idle"
          IN  IF Writable(t, answers[t].pr)
              THEN /\ rows' = Put(t, answers[t])
                   /\ sync' = [sync EXCEPT ![p] = IF next = "idle" THEN Idle
                                                  ELSE [@ EXCEPT !.answers = rest, !.pc = next]]
              ELSE /\ sync' = [sync EXCEPT ![p] = Idle]
                   /\ UNCHANGED rows
    BY DEF Persist
<1>2. UNCHANGED <<github, tasks, left>> /\ left' \in 0..MaxEvents
    BY DEF Persist, SyncInv, Types
<1> DEFINE rest == Drop(answers, {t})
           next == IF rest # <<>> THEN "persist" ELSE IF sync[p].work # <<>> THEN "fetch" ELSE "idle"
           call == IF next = "idle" THEN Idle ELSE [sync[p] EXCEPT !.answers = rest, !.pc = next]
<1>3. sync[p] \in Call /\ answers \in Tables /\ AllSound(answers) /\ AllSound(sync[p].work)
    BY DEF SyncInv, Types, Carried, Call
<1>4. CASE ~Writable(t, answers[t].pr)
    BY <1>1, <1>2, <1>4, CallEnds
<1>5. CASE Writable(t, answers[t].pr)
    <2>1. rows' = Put(t, answers[t]) /\ sync' = [sync EXCEPT ![p] = call]
        BY <1>1, <1>5
    <2>2. t \in Tasks /\ answers[t] \in Row /\ Sound(answers[t])
        BY <1>3, TableIs DEF IsTable, AllSound
    <2>3. rows' \in Tables /\ DOMAIN rows' \subseteq tasks /\ OneTaskEach' /\ AllSound(rows')
        BY <1>5, <2>1, <2>2, Written
    <2>4. rest \in Tables /\ AllSound(rest)
        <3>1. /\ rest \in Tables /\ DOMAIN rest = DOMAIN answers \ {t}
              /\ \A u \in DOMAIN answers \ {t} : rest[u] = answers[u]
            BY <1>3, DropTable
        <3> QED BY <1>3, <3>1 DEF AllSound
    <2>5. sync' = [sync EXCEPT ![p] = sync'[p]] /\ sync'[p] = call
        BY <2>1 DEF SyncInv, Types
    <2>6. /\ call \in Call /\ AllSound(call.work) /\ AllSound(call.answers)
          /\ call.answers # <<>> <=> call.pc = "persist"
          /\ call.pc = "fetch" => call.work # <<>>
        <3>1. CASE next = "idle"
            BY <3>1, IdleCall, EmptyTable DEF AllSound
        <3>2. CASE next # "idle"
            <4>1. call = [sync[p] EXCEPT !.answers = rest, !.pc = next]
                BY <3>2
            <4>2. /\ call \in Call /\ call.work = sync[p].work
                  /\ call.answers = rest /\ call.pc = next
                BY <1>3, <2>4, <3>2, <4>1 DEF Call
            <4> QED BY <1>3, <2>4, <3>2, <4>2
        <3> QED BY <3>1, <3>2
    <2>7. tasks' \subseteq Tasks /\ DOMAIN rows' \subseteq tasks'
        BY <1>2, <2>3 DEF SyncInv, Types
    <2> HIDE DEF call, rest, next
    <2> QED BY <1>2, <2>3, <2>5, <2>6, <2>7, CallKept
<1> QED BY <1>4, <1>5

\* The end of a refresh that found nothing, or that stops.
LEMMA EndSteps ==
    ASSUME SyncInv, NEW p \in Refreshers, Nothing(p) \/ Stop(p) PROVE SyncInv'
<1>1. Event \/ UNCHANGED left
    BY DEF Nothing, Stop
<1>2. left' \in 0..MaxEvents
    BY <1>1, EventCounts DEF SyncInv
<1> QED BY <1>2, CallEnds DEF Nothing, Stop

------------------------------------------------------------------------------
\* The invariant

\* At first every task has a pull request of its own.
LEMMA InitInv ==
    ASSUME PullRequestSyncInit PROVE SyncInv
<1>0. Attached \in [Tasks -> PullRequests] /\ \A t, u \in Tasks : Attached[t] = Attached[u] => t = u
    <2>1. Attached \in Injection(Tasks, PullRequests)
        BY PullRequestSyncAssumption DEF Attached, ExistsInjection
    <2> QED BY <2>1 DEF Injection, IsInjective
<1>1. rows \in Tables /\ DOMAIN rows = Tasks /\ OneTaskEach /\ AllSound(rows)
    BY <1>0, TableIs, ZenonT(60) DEF PullRequestSyncInit, IsTable, Row, OneTaskEach, AllSound, Sound
<1>2. Types
    BY <1>1, IdleCall, PullRequestSyncAssumption DEF PullRequestSyncInit, Types
<1>3. Carried
    BY IdleCall, EmptyTable DEF PullRequestSyncInit, Carried, AllSound
<1> QED BY <1>1, <1>2, <1>3 DEF SyncInv

\* Every step, of GitHub, a user or a refresh, preserves the invariant.
LEMMA NextInv == SyncInv /\ [PullRequestSyncNext]_pullRequestVars => SyncInv'
<1> SUFFICES ASSUME SyncInv, [PullRequestSyncNext]_pullRequestVars PROVE SyncInv'
    OBVIOUS
<1>1. CASE UNCHANGED pullRequestVars
    BY <1>1 DEF SyncInv, Types, OneTaskEach, AllSound, Carried, Sound, pullRequestVars
<1>2. ASSUME NEW p \in Refreshers, NEW scope, Refresh(p, scope) PROVE SyncInv'
    BY <1>2, TakeStep DEF Refresh
<1>3. ASSUME NEW p \in Refreshers, RefreshActive(p) \/ RefreshAttached(p) PROVE SyncInv'
    BY <1>3, TakeStep DEF RefreshActive, RefreshAttached
<1> QED BY <1>1, <1>2, <1>3, HappensStep, DetachStep, DeleteTaskStep, AttachStep, FetchStep, PersistStep, EndSteps
        DEF PullRequestSyncNext

\* The invariant holds whatever happens on GitHub and to the tasks while any
\* number of refreshes overlap, fail and stop.
THEOREM SyncInvariant == PullRequestSyncSpec => []SyncInv
BY InitInv, NextInv, PTL DEF PullRequestSyncSpec

\* The types hold in every reachable state.
THEOREM PullRequestSyncTypes == PullRequestSyncSpec => []PullRequestSyncTypeOK
<1>1. SyncInv => PullRequestSyncTypeOK
    BY TableIs DEF SyncInv, Types, Call, PullRequestSyncTypeOK
<1> QED BY <1>1, SyncInvariant, PTL

\* A pull request belongs to one task, whatever rows refreshes write back.
THEOREM OneTaskAlways == PullRequestSyncSpec => []OneTaskEach
<1>1. SyncInv => OneTaskEach
    BY DEF SyncInv
<1> QED BY <1>1, SyncInvariant, PTL

\* An error is shown only with a stale row whose pull request may still change.
THEOREM ErrorsAlwaysNeedAttention == PullRequestSyncSpec => []ErrorsNeedAttention
<1>1. SyncInv => ErrorsNeedAttention
    BY DEF SyncInv, AllSound, Sound, ErrorsNeedAttention
<1> QED BY <1>1, SyncInvariant, PTL

==============================================================================
