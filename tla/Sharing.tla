------------------------------- MODULE Sharing --------------------------------
(***************************************************************************)
(* The tabs of one browser share one revision stream                       *)
(* (web/src/revision-share.ts): a lock elects the tab that opens it, and a *)
(* BroadcastChannel hands what it hears to the others.  A tab holds its    *)
(* refetch back while the pointer drags (web/src/refresh-gate.ts), and the *)
(* server bounds the streams (internal/rpc/revision.go).                   *)
(*                                                                         *)
(* The stream itself, with the Watcher behind it and the tab's own writes, *)
(* is module Revision: here a stream that is up reports every change.      *)
(* Messages of the channel arrive in the order in which they were posted.  *)
(***************************************************************************)
EXTENDS Naturals, SequencesExt

CONSTANTS
    MaxSessions,    \* one for each tab that is opened, or effect that is mounted
    MaxLive,        \* bounds the sessions open at once
    MaxStreams,     \* maxRevisionStreams
    Graphs,         \* the sessions whose page has a graph to drag in
    MaxChangesMade, MaxDrags,
    MaxMishaps      \* bounds streams that break and locks that are denied

ASSUME SharingAssumption == /\ {MaxSessions, MaxLive, MaxChangesMade, MaxDrags, MaxMishaps} \subseteq Nat
                            /\ MaxStreams \in Nat \ {0} /\ Graphs \subseteq Nat

Sessions == 1..MaxSessions      \* in the order in which their tabs load

VARIABLES
    content,        \* the changes of the database so far
    stage,          \* by session: "new", "loaded", "open", "stopped"
    lockQueue,      \* the requests of the lock; the first one holds it
    role,           \* by session: "following", "leading", "alone"
    heard,          \* by session, whether the stream that it opened is up, and the
                    \*   revision last heard on it; 0 is none
    openStreams,    \* the counter of the server
    orphans,        \* handlers of streams whose tab has gone
    inbox,          \* by session, the messages of the channel that are under way
    linked,         \* by session, whether the page says that it is connected
    dragging, deferred, fetching,
    shows,          \* by session, the changes that its page shows
    mishaps, drags

tabVars == <<linked, dragging, deferred, fetching, shows>>
shareVars == <<stage, lockQueue, role>>
streamVars == <<heard, openStreams, orphans>>
sharingVars == <<content, shareVars, streamVars, inbox, tabVars, mishaps, drags>>

Live == {s \in Sessions : stage[s] = "open"}

------------------------------------------------------------------------------
\* The page

DataChanges == /\ content < MaxChangesMade /\ content' = content + 1
               /\ UNCHANGED <<shareVars, streamVars, inbox, tabVars, mishaps, drags>>

\* refresh, over runWhenIdle: what is held back runs once, later.
RefreshOf(ss) ==
    /\ deferred' = [s \in Sessions |-> deferred[s] \/ (s \in ss /\ dragging[s])]
    /\ fetching' = [s \in Sessions |-> fetching[s] \/ (s \in ss /\ ~dragging[s])]
    /\ UNCHANGED <<dragging, shows>>

Refreshes(s) == /\ fetching[s] /\ stage[s] = "open"
                /\ shows' = [shows EXCEPT ![s] = content]
                /\ fetching' = [fetching EXCEPT ![s] = FALSE]
                /\ UNCHANGED <<content, shareVars, streamVars, inbox, linked, dragging, deferred, mishaps, drags>>

holdRefresh(s) == /\ stage[s] = "open" /\ s \in Graphs /\ ~dragging[s] /\ drags < MaxDrags
                  /\ drags' = drags + 1
                  /\ dragging' = [dragging EXCEPT ![s] = TRUE]
                  /\ UNCHANGED <<content, shareVars, streamVars, inbox, linked, deferred, fetching, shows, mishaps>>

releaseRefresh(s) ==
    /\ dragging[s] /\ dragging' = [dragging EXCEPT ![s] = FALSE]
    /\ fetching' = [fetching EXCEPT ![s] = @ \/ deferred[s]]
    /\ deferred' = [deferred EXCEPT ![s] = FALSE]
    /\ UNCHANGED <<content, shareVars, streamVars, inbox, linked, shows, mishaps, drags>>

------------------------------------------------------------------------------
\* The channel

Post(from, message) ==
    inbox' = [s \in Sessions |-> IF s \in Live \ {from} THEN Append(inbox[s], message) ELSE inbox[s]]

\* What a leader shares; a session of its own tells nobody.
Share(s, kind) == IF role[s] = "leading" THEN Post(s, [kind |-> kind]) ELSE UNCHANGED inbox

\* The first queries are answered, then the effect runs: it asks for the lock,
\* and whoever leads for the state.
Loads(s) == /\ stage[s] = "new" /\ stage' = [stage EXCEPT ![s] = "loaded"]
            /\ \A u \in 1..(s - 1) : stage[u] # "new"
            /\ \A u \in 1..(s - MaxLive) : stage[u] = "stopped"
            /\ shows' = [shows EXCEPT ![s] = content]
            /\ UNCHANGED <<content, lockQueue, role, streamVars, inbox, linked, dragging, deferred, fetching,
                           mishaps, drags>>

startSharedRevisionStream(s) ==
    /\ stage[s] = "loaded" /\ stage' = [stage EXCEPT ![s] = "open"]
    /\ lockQueue' = Append(lockQueue, s)
    /\ Post(s, [kind |-> "ask", id |-> s])
    /\ UNCHANGED <<content, role, streamVars, tabVars, mishaps, drags>>

\* A leader hears questions only.  Its answer names the session that asked: the
\* others pass it over.
Answer(s, message) ==
    inbox' = [inbox EXCEPT ![s] = Tail(@),
                           ![message.id] = IF message.id \in Live
                                           THEN Append(@, [kind |-> "state", up |-> heard[s] # 0]) ELSE @]

OnMessageLeading(s) ==
    /\ s \in Live /\ inbox[s] # <<>> /\ role[s] = "leading"
    /\ IF Head(inbox[s]).kind = "ask" THEN Answer(s, Head(inbox[s]))
       ELSE inbox' = [inbox EXCEPT ![s] = Tail(@)]
    /\ UNCHANGED <<content, shareVars, streamVars, tabVars, mishaps, drags>>

Linking(message) == message.kind = "connect" \/ (message.kind = "state" /\ message.up)
Unlinking(message) == message.kind = "disconnect" \/ (message.kind = "state" /\ ~message.up)

follow(s) ==
    /\ s \in Live /\ inbox[s] # <<>> /\ role[s] # "leading"
    /\ LET message == Head(inbox[s])
       IN  /\ linked' = [linked EXCEPT ![s] = Linking(message) \/ (@ /\ ~Unlinking(message))]
           /\ RefreshOf(IF Linking(message) \/ message.kind = "revision" THEN {s} ELSE {})
    /\ inbox' = [inbox EXCEPT ![s] = Tail(@)]
    /\ UNCHANGED <<content, shareVars, streamVars, mishaps, drags>>

------------------------------------------------------------------------------
\* The lock

\* A slip one could make: a session that was stopped while it waited leads as well.
Unasked(s) == TRUE
Wanted(s) == stage[s] # "stopped"

lead(s) == /\ lockQueue # <<>> /\ s = Head(lockQueue) /\ role[s] = "following"
           /\ IF Wanted(s) THEN /\ role' = [role EXCEPT ![s] = "leading"] /\ UNCHANGED lockQueue
                           ELSE /\ lockQueue' = Tail(lockQueue) /\ UNCHANGED role
           /\ UNCHANGED <<content, stage, streamVars, inbox, tabVars, mishaps, drags>>

\* The request is denied: the session opens a stream of its own.
Denied(s) == /\ s \in Live /\ s \in Range(lockQueue) /\ role[s] = "following"
             /\ mishaps < MaxMishaps /\ mishaps' = mishaps + 1
             /\ role' = [role EXCEPT ![s] = "alone"]
             /\ lockQueue' = SelectSeq(lockQueue, LAMBDA u : u # s)
             /\ UNCHANGED <<content, stage, streamVars, inbox, tabVars, drags>>

\* The effect is cleaned up, or its tab closes.  A leader releases the lock; the
\* request of one that waits is dropped with its tab, or stays.
Stop(s) ==
    /\ s \in Live /\ stage' = [stage EXCEPT ![s] = "stopped"]
    /\ LET others == SelectSeq(lockQueue, LAMBDA u : u # s)
       IN  IF role[s] = "leading" THEN lockQueue' = others ELSE lockQueue' \in {lockQueue, others}
    /\ role' = [role EXCEPT ![s] = "following"]
    /\ heard' = [heard EXCEPT ![s] = 0]
    /\ orphans' = orphans + (IF heard[s] # 0 THEN 1 ELSE 0)
    /\ inbox' = [inbox EXCEPT ![s] = <<>>]
    /\ dragging' = [dragging EXCEPT ![s] = FALSE] /\ deferred' = [deferred EXCEPT ![s] = FALSE]
    /\ fetching' = [fetching EXCEPT ![s] = FALSE]
    /\ linked' = [linked EXCEPT ![s] = FALSE] /\ shows' = [shows EXCEPT ![s] = 0]
    /\ UNCHANGED <<content, openStreams, mishaps, drags>>

------------------------------------------------------------------------------
\* The stream of a session that leads or is alone

Streaming(s) == stage[s] = "open" /\ role[s] \in {"leading", "alone"}

\* onConnect, at the first message.
StreamConnects(s) ==
    /\ Streaming(s) /\ heard[s] = 0
    /\ openStreams < MaxStreams /\ openStreams' = openStreams + 1
    /\ heard' = [heard EXCEPT ![s] = content + 1]
    /\ Share(s, "connect")
    /\ linked' = [linked EXCEPT ![s] = TRUE] /\ RefreshOf({s})
    /\ UNCHANGED <<content, shareVars, orphans, mishaps, drags>>

\* One stream too many is refused, after the counter went up and down again.  The
\* next try comes half a second later, when the news of this one has arrived.
StreamRefused(s) ==
    /\ Streaming(s) /\ heard[s] = 0
    /\ openStreams >= MaxStreams /\ \A u \in Sessions : inbox[u] = <<>>
    /\ Share(s, "disconnect")
    /\ linked' = [linked EXCEPT ![s] = FALSE]
    /\ UNCHANGED <<content, shareVars, streamVars, dragging, deferred, fetching, shows, mishaps, drags>>

StreamReports(s) ==
    /\ Streaming(s) /\ heard[s] \in 1..content
    /\ heard' = [heard EXCEPT ![s] = content + 1]
    /\ Share(s, "revision")
    /\ RefreshOf({s})
    /\ UNCHANGED <<content, shareVars, openStreams, orphans, linked, mishaps, drags>>

\* onDisconnect; the handler at the server goes on until it cannot send.
StreamBreaks(s) ==
    /\ Streaming(s) /\ heard[s] # 0
    /\ mishaps < MaxMishaps /\ mishaps' = mishaps + 1
    /\ heard' = [heard EXCEPT ![s] = 0]
    /\ orphans' = orphans + 1
    /\ Share(s, "disconnect")
    /\ linked' = [linked EXCEPT ![s] = FALSE]
    /\ UNCHANGED <<content, shareVars, openStreams, dragging, deferred, fetching, shows, drags>>

\* A slip one could make: the counter goes down where a stream is refused, only.
NotReleased(n) == n
Released(n) == n - 1

HandlerEnds == /\ orphans > 0 /\ orphans' = orphans - 1
               /\ openStreams' = Released(openStreams)
               /\ UNCHANGED <<content, shareVars, heard, inbox, tabVars, mishaps, drags>>

------------------------------------------------------------------------------
SharingInit ==
    /\ content = 0 /\ openStreams = 0 /\ orphans = 0 /\ mishaps = 0 /\ drags = 0
    /\ stage = [s \in Sessions |-> "new"] /\ lockQueue = <<>>
    /\ role = [s \in Sessions |-> "following"]
    /\ heard = [s \in Sessions |-> 0] /\ shows = [s \in Sessions |-> 0]
    /\ inbox = [s \in Sessions |-> <<>>]
    /\ linked = [s \in Sessions |-> FALSE] /\ dragging = [s \in Sessions |-> FALSE]
    /\ deferred = [s \in Sessions |-> FALSE] /\ fetching = [s \in Sessions |-> FALSE]

GoesOn(s) == \/ startSharedRevisionStream(s) \/ lead(s) \/ OnMessageLeading(s) \/ follow(s)
             \/ StreamConnects(s) \/ StreamReports(s) \/ releaseRefresh(s) \/ Refreshes(s)

SharingNext ==
    \/ DataChanges \/ HandlerEnds
    \/ \E s \in Sessions : \/ GoesOn(s) \/ Loads(s) \/ holdRefresh(s) \/ Denied(s) \/ Stop(s)
                           \/ StreamRefused(s) \/ StreamBreaks(s)

\* The browser grants the lock and delivers messages, a stream is tried again and
\* reports, a request is answered, a drag ends.
SharingFairness ==
    /\ WF_sharingVars(HandlerEnds)
    /\ \A s \in Sessions : /\ WF_sharingVars(GoesOn(s))

SharingSpec == SharingInit /\ [][SharingNext]_sharingVars /\ SharingFairness

------------------------------------------------------------------------------
\* Properties

\* One stream is open for all tabs that got along with the lock, and the server's
\* counter is the number of its handlers.
SharingTypeOK ==
    /\ \A s, u \in Sessions : role[s] = "leading" /\ role[u] = "leading" => s = u
    /\ openStreams = orphans + Cardinality({s \in Sessions : heard[s] # 0})
    /\ \A s \in Sessions : heard[s] \in 0..(content + 1) /\ shows[s] \in 0..content

\* Whichever tab leads, breaks off or closes, and whenever another one joins: when
\* changes stop, every tab that is open comes to show them all, and one that shares
\* the stream says that it is connected.
TabsSettle ==
    <>[](\A s \in Live : shows[s] = content /\ (role[s] # "alone" => linked[s]))

==============================================================================
