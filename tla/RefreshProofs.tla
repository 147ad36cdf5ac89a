----------------------------- MODULE RefreshProofs -----------------------------
(***************************************************************************)
(* Theorems about a refresh from GitHub.                                   *)
(*                                                                         *)
(* Of AutoSyncHistory, for any number of callers, any intervals and any    *)
(* waiting time: the run state of the automatic refresh.                   *)
(*                                                                         *)
(* Of Credentials, for any methods, tokens, repositories, pull requests,   *)
(* sizes of a chunk and number of faults: which credential answers.  The   *)
(* invariant says of each point of a refresh that what is not settled is   *)
(* still pending and, without faults, that every method which was passed   *)
(* over could not read what is left, or has its token opened by a method   *)
(* that is still to come.                                                  *)
(***************************************************************************)
EXTENDS AutoSyncHistory, Credentials, FiniteSetTheorems, SequenceTheorems, WellFoundedInduction, TLAPS

------------------------------------------------------------------------------
\* The run state

\* A refresh that a later one has overtaken does not own the row any more.
OvertakenLost == \A p \in overtaken : p \in Running /\ owner # p

\* The row has not been older than the last grant, but for what the statement of
\* that grant had waited.
AgeSinceGrant == sinceGrant \in 0..Lapsed /\ age <= sinceGrant + MaxWait

\* The inductive invariant.
HistoryInv == AutoSyncTypeOK /\ OvertakenLost /\ AgeSinceGrant

------------------------------------------------------------------------------
\* What the assumption says of the constants, in the form the steps need.
LEMMA AutoSyncConstants ==
    /\ Lapsed \in Nat /\ MaxWait \in Nat /\ MaxWait <= Lapsed
    /\ NoRun \notin Callers /\ Default \in Intervals /\ Intervals \subseteq Nat
    /\ MaxManual \in Nat /\ MaxFailures \in Nat
<1> DEFINE longest == CHOOSE i \in Intervals : \A j \in Intervals : j <= i
<1>1. longest \in Intervals
    BY AutoSyncAssumption
<1>2. longest \in Nat /\ MaxWait \in Nat
    BY <1>1, AutoSyncAssumption
<1>3. Lapsed = longest + MaxWait
    BY DEF Lapsed
<1>4. Lapsed \in Nat /\ MaxWait <= Lapsed
    BY <1>2, <1>3
<1> QED BY <1>2, <1>4, AutoSyncAssumption

\* The empty row and no call satisfy the invariant.
LEMMA HistoryStart == HistoryInit => HistoryInv
<1> SUFFICES ASSUME HistoryInit PROVE HistoryInv
    OBVIOUS
<1>1. AutoSyncTypeOK
    <2>1. /\ age \in 0..Lapsed /\ manuals \in 0..MaxManual /\ failures \in 0..MaxFailures
          /\ wait \in [Callers -> 0..MaxWait]
        BY AutoSyncConstants DEF HistoryInit, AutoSyncInit
    <2> QED BY <2>1, AutoSyncConstants DEF HistoryInit, AutoSyncInit, AutoSyncTypeOK
<1>2. OvertakenLost /\ AgeSinceGrant
    BY AutoSyncConstants DEF HistoryInit, AutoSyncInit, OvertakenLost, AgeSinceGrant
<1> QED BY <1>1, <1>2 DEF HistoryInv

------------------------------------------------------------------------------
\* Types

\* The end of a call leaves no owner behind.
LEMMA LeaveTypes ==
    ASSUME AutoSyncTypeOK, NEW p \in Callers, Leave(p)
    PROVE  /\ phase' = [phase EXCEPT ![p] = "idle"] /\ outcome' = [outcome EXCEPT ![p] = "none"]
           /\ wait' \in [Callers -> 0..MaxWait] /\ due' \in [Callers -> Intervals]
           /\ owner' # NoRun => owner' = owner /\ owner # p
BY AutoSyncConstants DEF AutoSyncTypeOK, Leave, Enter, ReadClock

\* So the types are kept when a call ends, if its statement kept those of the row.
LEMMA RunEnds ==
    ASSUME AutoSyncTypeOK, NEW p \in Callers, Leave(p),
           age' \in 0..Lapsed, open' \in BOOLEAN, result' \in Outcomes \cup {"none"},
           manuals' \in 0..MaxManual, failures' \in 0..MaxFailures
    PROVE  AutoSyncTypeOK'
BY LeaveTypes DEF AutoSyncTypeOK

\* A statement that takes the row makes its call the owner.
LEMMA TakeRowTypes ==
    ASSUME AutoSyncTypeOK, NEW p \in Callers, TakeRow(p)
    PROVE  /\ owner' = p /\ age' = wait[p] /\ age' \in 0..Lapsed /\ age' <= MaxWait
           /\ open' \in BOOLEAN /\ result' \in Outcomes \cup {"none"}
BY AutoSyncConstants DEF AutoSyncTypeOK, TakeRow

\* Every step of a call keeps the types.
LEMMA CallTypes ==
    ASSUME AutoSyncTypeOK, NEW p \in Callers, CallStep(p)
    PROVE  AutoSyncTypeOK'
<1>1. CASE BeginAuto(p)
    BY <1>1, AutoSyncConstants DEF AutoSyncTypeOK, BeginAuto, ReadClock, Enter, row, Outcomes
<1>2. CASE Acquire(p)
    <2>1. phase' = [phase EXCEPT ![p] = IF outcome[p] = "none" THEN "syncing" ELSE "recording"]
        BY <1>2 DEF Acquire, Enter
    <2>2. outcome' = [outcome EXCEPT ![p] = outcome[p]] /\ UNCHANGED <<manuals, failures>>
        BY <1>2 DEF Acquire, Enter, LoadError
    <2>3. wait' \in [Callers -> 0..MaxWait] /\ due' \in [Callers -> Intervals]
        BY <1>2, AutoSyncConstants DEF AutoSyncTypeOK, Acquire, ReadClock
    <2>4. TakeRow(p)
        BY <1>2 DEF Acquire
    <2> QED BY <2>1, <2>2, <2>3, <2>4, TakeRowTypes DEF AutoSyncTypeOK
<1>3. CASE NotAcquired(p)
    BY <1>3, RunEnds DEF AutoSyncTypeOK, NotAcquired
<1>4. CASE \E scoped \in BOOLEAN : BeginManual(p, scoped)
    BY <1>4, AutoSyncConstants DEF AutoSyncTypeOK, BeginManual, RecordsState, ReadClock, Enter, row
<1>5. CASE Start(p)
    <2>1. /\ phase' = [phase EXCEPT ![p] = "syncing"] /\ outcome' = [outcome EXCEPT ![p] = "none"]
          /\ TakeRow(p) /\ UNCHANGED <<manuals, failures>>
        BY <1>5 DEF Start, Enter
    <2>2. wait' \in [Callers -> 0..MaxWait] /\ due' \in [Callers -> Intervals]
        BY <1>5, AutoSyncConstants DEF AutoSyncTypeOK, Start, ReadClock
    <2> QED BY <2>1, <2>2, TakeRowTypes DEF AutoSyncTypeOK
<1>6. CASE SyncEnds(p)
    BY <1>6 DEF AutoSyncTypeOK, SyncEnds, Enter, row, Outcomes
<1>7. CASE Record(p)
    <2>1. open' \in BOOLEAN /\ result' \in Outcomes \cup {"none"} /\ UNCHANGED <<age, manuals, failures>>
        BY <1>7 DEF AutoSyncTypeOK, Record
    <2>2. Leave(p)
        BY <1>7 DEF Record
    <2> QED BY <2>1, <2>2, RunEnds DEF AutoSyncTypeOK
<1>8. CASE Fail(p)
    <2>1. failures' \in 0..MaxFailures
        BY <1>8, AutoSyncConstants DEF AutoSyncTypeOK, Fail
    <2>2. Leave(p) /\ UNCHANGED <<age, open, result, manuals>>
        BY <1>8 DEF Fail
    <2> QED BY <2>1, <2>2, RunEnds DEF AutoSyncTypeOK
<1> QED BY <1>1, <1>2, <1>3, <1>4, <1>5, <1>6, <1>7, <1>8 DEF CallStep

\* Time keeps them too: no statement waits for longer than MaxWait.
LEMMA TickTypes ==
    ASSUME AutoSyncTypeOK, Tick
    PROVE  AutoSyncTypeOK'
<1>1. wait' \in [Callers -> 0..MaxWait]
    BY AutoSyncConstants DEF AutoSyncTypeOK, Tick
<1>2. age' \in 0..Lapsed
    BY AutoSyncConstants DEF AutoSyncTypeOK, Tick
<1> QED BY <1>1, <1>2 DEF AutoSyncTypeOK, Tick

------------------------------------------------------------------------------
\* Overtaken runs and the age of the row

\* Only a call that takes the row joins the running ones, and nobody else's
\* phase changes; the owner stays, ends, or is that call.
LEMMA CallMoves ==
    ASSUME AutoSyncTypeOK, NEW p \in Callers, CallStep(p)
    PROVE  /\ \A q \in Callers \ {p} : phase'[q] = phase[q]
           /\ p \notin Running /\ phase'[p] \in {"syncing", "recording"}
                 => owner' = p /\ age' <= MaxWait
           /\ p \in Running \/ phase'[p] \notin {"syncing", "recording"}
                 => owner' \in {owner, NoRun} /\ age' = age
<1>1. CASE BeginAuto(p)
    BY <1>1 DEF AutoSyncTypeOK, BeginAuto, Enter, Running, row
<1>2. CASE Acquire(p)
    BY <1>2, TakeRowTypes DEF AutoSyncTypeOK, Acquire, Enter, Running
<1>3. CASE NotAcquired(p)
    BY <1>3, LeaveTypes DEF AutoSyncTypeOK, NotAcquired, Running
<1>4. CASE \E scoped \in BOOLEAN : BeginManual(p, scoped)
    BY <1>4 DEF AutoSyncTypeOK, BeginManual, Enter, Running, row
<1>5. CASE Start(p)
    BY <1>5, TakeRowTypes DEF AutoSyncTypeOK, Start, Enter, Running
<1>6. CASE SyncEnds(p)
    BY <1>6 DEF AutoSyncTypeOK, SyncEnds, Enter, Running, row
<1>7. CASE Record(p)
    BY <1>7, LeaveTypes DEF AutoSyncTypeOK, Record, Running
<1>8. CASE Fail(p)
    BY <1>8, LeaveTypes DEF AutoSyncTypeOK, Fail, Running
<1> QED BY <1>1, <1>2, <1>3, <1>4, <1>5, <1>6, <1>7, <1>8 DEF CallStep

\* A step of a call preserves the invariant.
LEMMA CallingInv ==
    ASSUME HistoryInv, NEW p \in Callers, Calling(p)
    PROVE  HistoryInv'
<1>1. AutoSyncTypeOK /\ CallStep(p)
    BY DEF HistoryInv, Calling
<1>2. AutoSyncTypeOK'
    BY <1>1, CallTypes
<1>3. OvertakenLost'
    <2>1. CASE p \notin Running /\ phase'[p] \in {"syncing", "recording"}
        <3>1. overtaken' = Running /\ owner' = p
            BY <1>1, <2>1, CallMoves DEF Calling
        <3>2. \A q \in Running : q \in Running' /\ q # p
            BY <1>1, <2>1, CallMoves DEF Running
        <3> QED BY <3>1, <3>2 DEF OvertakenLost
    <2>2. CASE p \in Running \/ phase'[p] \notin {"syncing", "recording"}
        <3>1. overtaken' = overtaken \ {p} /\ owner' \in {owner, NoRun}
            BY <1>1, <2>2, CallMoves DEF Calling
        <3>2. \A q \in overtaken \ {p} : q \in Running' /\ q \in Callers /\ owner # q
            BY <1>1, CallMoves DEF HistoryInv, OvertakenLost, Running
        <3> QED BY <3>1, <3>2, AutoSyncConstants DEF OvertakenLost
    <2> QED BY <2>1, <2>2
<1>4. AgeSinceGrant'
    <2>1. age \in 0..Lapsed /\ age' \in 0..Lapsed
        BY <1>1, <1>2 DEF AutoSyncTypeOK
    <2>2. age' <= MaxWait \/ age' = age
        BY <1>1, CallMoves
    <2>3. Granted(p) => age' <= MaxWait
        BY <1>1, CallMoves DEF Granted, Running
    <2>4. sinceGrant' = IF Granted(p) THEN 0 ELSE sinceGrant
        BY DEF Calling
    <2> QED BY <2>1, <2>2, <2>3, <2>4, AutoSyncConstants DEF HistoryInv, AgeSinceGrant
<1> QED BY <1>2, <1>3, <1>4 DEF HistoryInv

\* So does time.
LEMMA PassingInv ==
    ASSUME HistoryInv, Passing
    PROVE  HistoryInv'
<1>1. AutoSyncTypeOK'
    BY TickTypes DEF HistoryInv, Passing
<1>2. OvertakenLost'
    BY DEF HistoryInv, OvertakenLost, Passing, Tick, Running
<1>3. AgeSinceGrant'
    <2>1. age \in 0..Lapsed /\ age' = (IF age < Lapsed THEN age + 1 ELSE age)
        BY DEF HistoryInv, AutoSyncTypeOK, Passing, Tick
    <2>2. sinceGrant' = IF sinceGrant < Lapsed THEN sinceGrant + 1 ELSE Lapsed
        BY DEF Passing
    <2> QED BY <2>1, <2>2, AutoSyncConstants DEF HistoryInv, AgeSinceGrant
<1> QED BY <1>1, <1>2, <1>3 DEF HistoryInv

\* Every step, of time or of a call, preserves the invariant.
LEMMA HistoryStep == HistoryInv /\ [HistoryNext]_<<autoSyncVars, overtaken, sinceGrant>> => HistoryInv'
<1> SUFFICES ASSUME HistoryInv, [HistoryNext]_<<autoSyncVars, overtaken, sinceGrant>> PROVE HistoryInv'
    OBVIOUS
<1>1. CASE UNCHANGED <<autoSyncVars, overtaken, sinceGrant>>
    BY <1>1 DEF HistoryInv, AutoSyncTypeOK, OvertakenLost, AgeSinceGrant, Running, autoSyncVars, row, calls
<1> QED BY <1>1, CallingInv, PassingInv DEF HistoryNext

\* The invariant holds however the calls of any number of processes interleave.
THEOREM HistoryInvariant == HistorySpec => []HistoryInv
BY HistoryStart, HistoryStep, PTL DEF HistorySpec

\* The types hold in every reachable state; in particular whoever owns the row is
\* a call that still runs.
THEOREM AutoSyncTypes == HistorySpec => []AutoSyncTypeOK
<1>1. HistoryInv => AutoSyncTypeOK
    BY DEF HistoryInv
<1> QED BY <1>1, HistoryInvariant, PTL

------------------------------------------------------------------------------
\* What a step may never do

\* A call that records ends with Record or Fail.
LEMMA RecordingEnds ==
    ASSUME HistoryInv, [HistoryNext]_<<autoSyncVars, overtaken, sinceGrant>>,
           NEW p \in Callers, phase[p] = "recording", phase'[p] = "idle"
    PROVE  Record(p) \/ Fail(p)
<1>1. phase' # phase
    OBVIOUS
<1>2. PICK q \in Callers : CallStep(q)
    BY <1>1 DEF HistoryNext, Passing, Calling, Tick, autoSyncVars, calls
<1>3. q = p
    BY <1>2, CallMoves DEF HistoryInv
<1> QED BY <1>2, <1>3 DEF CallStep, BeginAuto, Acquire, NotAcquired, BeginManual, Start, SyncEnds

\* Record of an overtaken call finds that it does not own the row; Fail writes none.
LEMMA OvertakenRecordsNothing ==
    HistoryInv /\ [HistoryNext]_<<autoSyncVars, overtaken, sinceGrant>> =>
      [\A p \in overtaken : phase[p] = "recording" /\ phase'[p] = "idle"
                            => UNCHANGED <<open, result>>]_<<autoSyncVars, overtaken, sinceGrant>>
<1> SUFFICES ASSUME HistoryInv, [HistoryNext]_<<autoSyncVars, overtaken, sinceGrant>>,
                    NEW p \in overtaken, phase[p] = "recording", phase'[p] = "idle"
             PROVE  UNCHANGED <<open, result>>
    OBVIOUS
<1>1. p \in Callers /\ owner # p
    BY DEF HistoryInv, OvertakenLost, Running
<1>2. CASE Record(p)
    BY <1>1, <1>2 DEF Record, Recordable
<1>3. CASE Fail(p)
    BY <1>3 DEF Fail
<1> QED BY <1>1, <1>2, <1>3, RecordingEnds

\* The result of a run that a later one has overtaken is never recorded.
THEOREM OvertakenNeverRecorded == HistorySpec => NoOvertakenResult
BY HistoryInvariant, OvertakenRecordsNothing, PTL DEF HistorySpec, NoOvertakenResult

\* The grant found the row an interval old, and the row is not older than the last grant.
LEMMA GrantAfterInterval ==
    HistoryInv /\ [HistoryNext]_<<autoSyncVars, overtaken, sinceGrant>> =>
      [\A p \in Callers : Granted(p) => sinceGrant + MaxWait >= due[p]]_<<autoSyncVars, overtaken, sinceGrant>>
<1> SUFFICES ASSUME HistoryInv, [HistoryNext]_<<autoSyncVars, overtaken, sinceGrant>>,
                    NEW p \in Callers, Granted(p)
             PROVE  sinceGrant + MaxWait >= due[p]
    OBVIOUS
<1>1. phase' # phase
    BY DEF Granted
<1>2. PICK q \in Callers : CallStep(q)
    BY <1>1 DEF HistoryNext, Passing, Calling, Tick, autoSyncVars, calls
<1>3. q = p
    BY <1>2, CallMoves DEF HistoryInv, Granted
<1>4. Acquire(p) \/ NotAcquired(p) \/ Fail(p)
    BY <1>2, <1>3 DEF Granted, CallStep, BeginAuto, BeginManual, Start, SyncEnds, Record
<1>5. phase'[p] # "idle"
    BY DEF Granted
<1>6. ~NotAcquired(p) /\ ~Fail(p)
    BY <1>5, LeaveTypes DEF HistoryInv, AutoSyncTypeOK, NotAcquired, Fail
<1>7. age >= wait[p] + due[p]
    BY <1>4, <1>6 DEF Acquire, IsDue
<1>8. age \in Nat /\ wait[p] \in Nat /\ due[p] \in Nat
    <2>1. age \in 0..Lapsed /\ wait[p] \in 0..MaxWait /\ due[p] \in Intervals
        BY DEF HistoryInv, AutoSyncTypeOK
    <2>2. age \in Nat /\ wait[p] \in Nat
        BY <2>1
    <2>3. due[p] \in Nat
        BY <2>1, AutoSyncConstants
    <2> QED BY <2>2, <2>3
<1> QED BY <1>7, <1>8, AutoSyncConstants DEF HistoryInv, AgeSinceGrant

\* Two automatic refreshes are granted an interval apart, less the waiting time.
THEOREM GrantsAreSpaced == HistorySpec => GrantsSpaced
BY HistoryInvariant, GrantAfterInterval, PTL DEF HistorySpec, GrantsSpaced

\* The owner gives up the row in Record, which it may record, or in Fail.
LEMMA OwnerEnds ==
    HistoryInv /\ [HistoryNext]_<<autoSyncVars, overtaken, sinceGrant>> =>
      [owner # NoRun /\ owner' = NoRun => ~open' \/ failures' < failures]_<<autoSyncVars, overtaken, sinceGrant>>
<1> SUFFICES ASSUME HistoryInv, [HistoryNext]_<<autoSyncVars, overtaken, sinceGrant>>,
                    owner # NoRun, owner' = NoRun
             PROVE  ~open' \/ failures' < failures
    OBVIOUS
<1>1. PICK p \in Callers : CallStep(p)
    BY DEF HistoryNext, Passing, Calling, Tick, autoSyncVars, row
<1>2. owner \in Callers /\ phase[owner] \in {"syncing", "recording"}
    BY DEF HistoryInv, AutoSyncTypeOK
<1>3. CASE BeginAuto(p) \/ (\E scoped \in BOOLEAN : BeginManual(p, scoped)) \/ SyncEnds(p)
    BY <1>3 DEF BeginAuto, BeginManual, SyncEnds, row
<1>4. CASE Acquire(p) \/ Start(p)
    BY <1>4, AutoSyncConstants DEF Acquire, Start, TakeRow
<1>5. CASE NotAcquired(p)
    BY <1>2, <1>5 DEF NotAcquired, Leave
<1>6. CASE Record(p)
    BY <1>6 DEF Record, Leave, Recordable
<1>7. CASE Fail(p)
    <2>1. failures \in Nat /\ failures' = failures - 1
        BY <1>7, AutoSyncConstants DEF HistoryInv, AutoSyncTypeOK, Fail
    <2> QED BY <2>1
<1> QED BY <1>1, <1>3, <1>4, <1>5, <1>6, <1>7 DEF CallStep

\* A run that holds the row ends with its result recorded, even when its caller
\* has gone, unless a statement failed or its process died.
THEOREM HolderAlwaysRecords == HistorySpec => HolderRecords
BY HistoryInvariant, OwnerEnds, PTL DEF HistorySpec, HolderRecords

------------------------------------------------------------------------------
\* Which credential answers

\* The pull requests of some groups.
Groups(left) == UNION {Range(left[i].prs) : i \in DOMAIN left}
Group == [repository : Range(Repository), prs : Seq(AllPullRequests)]

Attempting == at.pc \in {"graphql", "rest", "fetched"}
Asking == Attempting \/ at.pc = "probe"
Working == Asking \/ at.pc \in {"candidate", "open"}

\* The pull requests that an answer is still to be sought for.
Pending ==
    IF at.pc \in {"begin", "repository"} THEN Groups(at.left)
    ELSE IF at.pc = "end" THEN {}
    ELSE IF at.host THEN Range(work)
    ELSE Range(work) \cup Groups(Tail(at.left))

\* The shapes that the argument needs.
Pcs == {"begin", "repository", "candidate", "open", "probe", "graphql", "rest", "fetched", "end"}
Place == [pc : Pcs, left : Seq(Group), host : BOOLEAN, candidate : Nat, probe : BOOLEAN]
CredentialShapes ==
    /\ methods \in Seq(Methods) /\ work \in Seq(AllPullRequests)
    /\ at \in Place
    /\ DOMAIN resolver = {"unauthorized", "opened", "tried"}
    /\ DOMAIN batch = {"from", "fetched", "partial", "errors", "error"} /\ batch.from \in Nat
    /\ DOMAIN results = {"fetched", "partial", "failures"}
    /\ faults \in 0..MaxFaults

\* Where a refresh is in its lists.
Placed ==
    /\ \A i \in DOMAIN at.left : \A pr \in Range(at.left[i].prs) : Repository[pr] = at.left[i].repository
    /\ at.pc = "begin" => ~at.probe /\ Groups(at.left) = AllPullRequests
    /\ at.pc \in {"begin", "repository"} => ~at.host
    /\ Working /\ ~at.host => at.left # <<>> /\ \A pr \in Range(work) : Repository[pr] = Here.repository
    /\ at.host => ~at.probe
    /\ at.pc = "probe" => at.probe
    /\ at.pc = "candidate" => at.host \/ at.probe
    /\ Working => at.candidate \in 1..(Len(methods) + 1)
    /\ Asking \/ at.pc = "open" => at.candidate \in DOMAIN methods

\* Nothing is forgotten.
Covered == AllPullRequests \subseteq results.fetched \cup DOMAIN results.failures \cup Pending

\* A batch has an answer to everything that it has asked for.
BatchCovers ==
    /\ batch.partial \subseteq DOMAIN batch.errors
    /\ Asking =>
         /\ batch.from > 0
         /\ \A i \in DOMAIN work : i < batch.from => work[i] \in batch.fetched \cup DOMAIN batch.errors
         /\ at.pc # "fetched" => batch.error = "none"
         /\ at.pc = "fetched" /\ batch.error = "none" => Range(work) \subseteq batch.fetched \cup DOMAIN batch.errors

\* The resolver remembers the tokens of what it opened.
Remembers ==
    /\ resolver.opened \subseteq Range(methods) /\ resolver.tried = {TokenOf(m) : m \in resolver.opened}
    /\ Asking => Candidate \in resolver.opened
    /\ Attempting /\ at.probe => ProbeClass(Candidate, Here.repository) = "none"

\* Some method can read a pull request in full.
Readable(pr) == \E m \in Methods : CanFetch(m, pr)

\* The j-th method cannot read pr, or an open one with its token comes from the i-th on.
TriedBefore(i, j, pr) ==
    CanFetch(methods[j], pr) =>
        \E k \in i..Len(methods) : methods[k] \in resolver.opened /\ TokenOf(methods[k]) = TokenOf(methods[j])

\* Every method before the i-th was tried for what is still to be answered.
AllTried(i) == \A pr \in Range(work) \ results.fetched : \A j \in 1..(i - 1) : TriedBefore(i, j, pr)

MarksTrue == \A m \in resolver.unauthorized : Revoked(m)
BatchTrue == /\ batch.error = "none"
             /\ \A pr \in DOMAIN batch.errors : /\ batch.errors[pr] = ItemClass(Candidate, pr)
                                                /\ batch.errors[pr] # "none"
ReadableFetched == \A pr \in AllPullRequests \ Pending : Readable(pr) => pr \in results.fetched

\* Without faults, what is said of a method and a pull request is so.
Truthful ==
    Undisturbed => /\ MarksTrue
                   /\ Asking => BatchTrue
                   /\ ReadableFetched
                   /\ Working /\ (at.host \/ at.probe) => AllTried(at.candidate)

\* The inductive invariant.
CredentialsInv == CredentialShapes /\ Placed /\ Covered /\ BatchCovers /\ Remembers /\ Truthful

------------------------------------------------------------------------------
\* Sequences

\* A set of natural numbers has a least one.
LEMMA Least ==
    ASSUME NEW S, S \subseteq Nat, S # {}, NEW none
    PROVE  FirstOf(S, none) \in S /\ \A j \in S : FirstOf(S, none) <= j
<1>1. IsWellFoundedOn(OpToRel(<, Nat), Nat)
    BY NatLessThanWellFounded
<1>2. PICK i \in S : \A j \in S : ~(<<j, i>> \in OpToRel(<, Nat))
    BY <1>1, WFMin
<1>3. \A j \in S : ~(j < i)
    BY <1>2 DEF OpToRel
<1>4. \A j \in S : i <= j
    BY <1>3
<1> QED BY <1>4 DEF FirstOf

\* What comes from the i-th element on.
LEMMA FromOn ==
    ASSUME NEW S, NEW prs \in Seq(S), NEW i \in 1..(Len(prs) + 1)
    PROVE  /\ FromFailed(prs, i) \in Seq(S)
           /\ Range(FromFailed(prs, i)) = {prs[j] : j \in i..Len(prs)}
<1> DEFINE rest == SubSeq(prs, i, Len(prs))
<1>1. \A j \in i..Len(prs) : prs[j] \in S
    OBVIOUS
<1>2. /\ rest \in Seq(S) /\ Len(rest) = (IF i <= Len(prs) THEN Len(prs) - i + 1 ELSE 0)
      /\ \A j \in 1..(Len(prs) - i + 1) : rest[j] = prs[i + j - 1]
    BY <1>1, SubSeqProperties
<1> HIDE DEF rest
<1>3. DOMAIN rest = 1..(Len(prs) - i + 1)
    BY <1>2
<1>4. ASSUME NEW j \in i..Len(prs) PROVE prs[j] \in Range(rest)
    <2>1. j - i + 1 \in DOMAIN rest /\ rest[j - i + 1] = prs[j]
        BY <1>2, <1>3
    <2> QED BY <2>1 DEF Range
<1>5. ASSUME NEW pr \in Range(rest) PROVE \E j \in i..Len(prs) : pr = prs[j]
    <2>1. PICK j \in DOMAIN rest : pr = rest[j]
        BY DEF Range
    <2>2. i + j - 1 \in i..Len(prs) /\ pr = prs[i + j - 1]
        BY <1>2, <1>3, <2>1
    <2> QED BY <2>2
<1>6. Range(rest) = {prs[j] : j \in i..Len(prs)}
    BY <1>4, <1>5
<1> QED BY <1>2, <1>6 DEF FromFailed, rest

\* The elements of a sequence that are in a set are a sequence of just those.
LEMMA AmongThem ==
    ASSUME NEW S, NEW prs \in Seq(S), NEW kept
    PROVE  Among(prs, kept) \in Seq(S) /\ Range(Among(prs, kept)) = Range(prs) \cap kept
<1> DEFINE chosen == {i \in DOMAIN prs : prs[i] \in kept}
           Before(i) == {j \in chosen : j <= i}
           count == Cardinality(chosen)
           place == [i \in chosen |-> Cardinality(Before(i))]
           list == [n \in 1..count |-> prs[CHOOSE i \in chosen : Cardinality(Before(i)) = n]]
<1>1. /\ chosen \subseteq 1..Len(prs) /\ IsFiniteSet(chosen) /\ count \in Nat
      /\ IsFiniteSet(1..count) /\ Cardinality(1..count) = count
    <2>1. IsFiniteSet(1..Len(prs)) /\ chosen \in SUBSET (1..Len(prs))
        BY FS_Interval
    <2>2. IsFiniteSet(chosen)
        BY <2>1, FS_Subset
    <2>3. count \in Nat
        BY <2>2, FS_CardinalityType
    <2>4. \A m \in Nat : IsFiniteSet(1..m) /\ Cardinality(1..m) = m
        BY FS_Interval
    <2> HIDE DEF chosen, count
    <2> QED BY <2>1, <2>2, <2>3, <2>4
<1>2. ASSUME NEW i \in chosen PROVE IsFiniteSet(Before(i)) /\ place[i] \in 1..count
    <2>1. Before(i) \in SUBSET chosen /\ i \in Before(i)
        BY <1>1
    <2>2. IsFiniteSet(Before(i)) /\ Cardinality(Before(i)) <= count /\ Cardinality(Before(i)) \in Nat
        BY <1>1, <2>1, FS_Subset, FS_CardinalityType
    <2>3. Cardinality(Before(i)) # 0
        BY <2>1, <2>2, FS_EmptySet
    <2> QED BY <1>1, <2>2, <2>3
<1>3. ASSUME NEW i \in chosen, NEW j \in chosen, i < j PROVE place[i] # place[j]
    <2>1. i \in Nat /\ j \in Nat /\ \A k \in chosen : k \in Nat
        BY <1>1
    <2>2. ASSUME NEW k \in Before(i) PROVE k \in Before(j)
        BY <1>3, <2>1, <2>2
    <2>3. Before(i) \in SUBSET Before(j) /\ j \in Before(j) /\ ~(j \in Before(i))
        BY <1>3, <2>1, <2>2
    <2>4. Cardinality(Before(j)) # Cardinality(Before(i))
        BY <1>2, <2>3, FS_Subset
    <2> QED BY <2>4
<1>4. place \in Injection(chosen, 1..count)
    <2>1. place \in [chosen -> 1..count]
        BY <1>2
    <2>2. ASSUME NEW i \in chosen, NEW j \in chosen, place[i] = place[j] PROVE i = j
        <3>1. i \in Nat /\ j \in Nat
            BY <1>1
        <3>2. ~(i < j) /\ ~(j < i)
            BY <1>3, <2>2
        <3> QED BY <3>1, <3>2
    <2> HIDE DEF place
    <2> QED BY <2>1, <2>2 DEF Injection, IsInjective
<1>5. place \in Surjection(chosen, 1..count)
    BY <1>1, <1>4, FS_Injection
<1>6. \A n \in 1..count : \E i \in chosen : Cardinality(Before(i)) = n
    BY <1>5 DEF Surjection
<1>7. \A n \in 1..count : \E i \in chosen : list[n] = prs[i]
    BY <1>6
<1>8. ASSUME NEW i \in chosen PROVE \E n \in 1..count : list[n] = prs[i]
    <2> DEFINE n == Cardinality(Before(i))
               m == CHOOSE j \in chosen : Cardinality(Before(j)) = n
    <2>1. n \in 1..count /\ place[i] = n
        BY <1>2
    <2>2. m \in chosen /\ Cardinality(Before(m)) = n
        BY <1>8
    <2>3. place[m] = n
        BY <2>2
    <2>4. m = i
        BY <1>1, <1>3, <2>1, <2>2, <2>3
    <2>5. list[n] = prs[m]
        BY <2>1
    <2> QED BY <2>1, <2>4, <2>5
<1>9. Among(prs, kept) = list
    BY DEF Among
<1>10. \A n \in 1..count : list[n] \in S
    <2>1. \A i \in chosen : prs[i] \in S
        OBVIOUS
    <2> QED BY <1>7, <2>1
<1>11. DOMAIN list = 1..count /\ list = [n \in 1..count |-> list[n]]
    OBVIOUS
<1> HIDE DEF list
<1>13. list \in Seq(S)
    <2>1. list \in [1..count -> S]
        BY <1>10, <1>11
    <2> HIDE DEF count
    <2> QED BY <1>1, <2>1
<1>12. Range(list) = Range(prs) \cap kept
    <2>1. ASSUME NEW pr \in Range(list) PROVE pr \in Range(prs) \cap kept
        BY <1>1, <1>7, <1>11, <2>1 DEF Range
    <2>2. ASSUME NEW pr \in Range(prs) \cap kept PROVE pr \in Range(list)
        BY <1>8, <1>11, <2>2 DEF Range
    <2> QED BY <2>1, <2>2
<1> QED BY <1>9, <1>12, <1>13

------------------------------------------------------------------------------
\* What every step leaves alone

\* Nobody's rights and no pull request change.
LEMMA SameReading ==
    ASSUME UNCHANGED <<world, methods>>
    PROVE  /\ \A m : TokenOf(m)' = TokenOf(m) /\ Revoked(m)' = Revoked(m)
           /\ \A m, r : ProbeClass(m, r)' = ProbeClass(m, r)
           /\ \A m, pr : ItemClass(m, pr)' = ItemClass(m, pr) /\ CanFetch(m, pr)' = CanFetch(m, pr)
           /\ \A pr : Readable(pr)' = Readable(pr)
    BY DEF TokenOf, Revoked, Access, ProbeClass, ItemClass, CanFetch, Readable

\* Methods with the same token read the same.
LEMMA SameToken ==
    ASSUME NEW m, NEW n, m \in Range(methods), n \in Range(methods), TokenOf(m) = TokenOf(n), NEW pr
    PROVE  CanFetch(m, pr) = CanFetch(n, pr)
    BY DEF CanFetch, ItemClass, ProbeClass, Revoked, Access

\* What is settled may leave the work.
LEMMA CoveredStays ==
    ASSUME Covered, NEW done, Pending \subseteq done \cup Pending',
           done \subseteq results'.fetched \cup DOMAIN results'.failures,
           results.fetched \subseteq results'.fetched, DOMAIN results.failures \subseteq DOMAIN results'.failures
    PROVE  Covered'
    BY DEF Covered, AllPullRequests

\* Likewise for what some method can read.
LEMMA ReadableStays ==
    ASSUME ReadableFetched, UNCHANGED <<world, methods>>, NEW done, Pending \subseteq done \cup Pending',
           \A pr \in done : Readable(pr) => pr \in results'.fetched,
           results.fetched \subseteq results'.fetched
    PROVE  ReadableFetched'
<1> SUFFICES ASSUME NEW pr \in AllPullRequests, pr \notin Pending', Readable(pr)
             PROVE  pr \in results'.fetched
    BY SameReading DEF ReadableFetched, AllPullRequests
<1> QED BY DEF ReadableFetched

\* The first group and the others.
LEMMA GroupsSplit ==
    ASSUME NEW left \in Seq(Group), left # <<>>
    PROVE  /\ Head(left) \in Group /\ Tail(left) \in Seq(Group)
           /\ Groups(left) = Range(Head(left).prs) \cup Groups(Tail(left))
<1>1. /\ Head(left) = left[1] /\ 1 \in DOMAIN left /\ Tail(left) \in Seq(Group)
      /\ DOMAIN Tail(left) = 1..(Len(left) - 1) /\ \A i \in 1..(Len(left) - 1) : Tail(left)[i] = left[i + 1]
      /\ DOMAIN left = 1..Len(left) /\ Len(left) \in Nat /\ left[1] \in Group
    OBVIOUS
<1>2. ASSUME NEW pr, pr \in Groups(left) PROVE pr \in Range(Head(left).prs) \cup Groups(Tail(left))
    <2>1. PICK i \in 1..Len(left) : pr \in Range(left[i].prs)
        BY <1>1, <1>2 DEF Groups
    <2>2. CASE i = 1
        BY <1>1, <2>1, <2>2
    <2>3. CASE i # 1
        <3>1. i - 1 \in 1..(Len(left) - 1) /\ (i - 1) + 1 = i
            BY <1>1, <2>3
        <3> QED BY <1>1, <2>1, <3>1 DEF Groups
    <2> QED BY <2>2, <2>3
<1>3. ASSUME NEW pr, pr \in Groups(Tail(left)) PROVE pr \in Groups(left)
    <2>1. PICK i \in 1..(Len(left) - 1) : pr \in Range(left[i + 1].prs)
        BY <1>1, <1>3 DEF Groups
    <2>2. i + 1 \in 1..Len(left)
        BY <1>1
    <2> QED BY <1>1, <2>1, <2>2 DEF Groups
<1>4. Range(Head(left).prs) \subseteq Groups(left)
    BY <1>1 DEF Groups
<1>5. Groups(left) = Range(Head(left).prs) \cup Groups(Tail(left))
    BY <1>2, <1>3, <1>4
<1> QED BY <1>1, <1>5

\* At the end of a host or of a repository.
LEMMA EndsKept ==
    ASSUME CredentialShapes, Placed, at.pc # "end", ~at.host => at.left # <<>>, at' = RepositoryEnds
    PROVE  /\ at' \in Place
           /\ at'.pc \in {"repository", "end"} /\ ~at'.host
           /\ Pending' = IF at.host THEN {} ELSE Groups(Tail(at.left))
           /\ Placed'
<1>1. CASE at.host
    <2>1. at' = [pc |-> "end", left |-> <<>>, host |-> FALSE, candidate |-> 0, probe |-> FALSE]
        BY <1>1 DEF RepositoryEnds, Nowhere
    <2> QED BY <1>1, <2>1 DEF Placed, Working, Attempting, Asking, Pending, Place, Pcs
<1>2. CASE ~at.host
    <2>1. at' = [at EXCEPT !.pc = "repository", !.left = Tail(at.left), !.candidate = 1]
        BY <1>2 DEF RepositoryEnds
    <2>2. at.left \in Seq(Group) /\ Tail(at.left) \in Seq(Group)
        BY <1>2 DEF CredentialShapes, Place
    <2>3. \A i \in DOMAIN Tail(at.left) : Tail(at.left)[i] = at.left[i + 1] /\ i + 1 \in DOMAIN at.left
        BY <1>2, <2>2
    <2>4. /\ at'.pc = "repository" /\ at'.left = Tail(at.left) /\ at'.host = at.host /\ at'.probe = at.probe
          /\ at'.candidate = 1
        BY <2>1 DEF CredentialShapes, Place
    <2>5. Pending' = Groups(Tail(at.left))
        BY <2>4 DEF Pending, Groups
    <2>6. Placed'
        BY <1>2, <2>3, <2>4 DEF Placed, Working, Attempting, Asking
    <2>7. at' \in Place
        <3>1. at' = [pc |-> "repository", left |-> Tail(at.left), host |-> at.host, candidate |-> 1, probe |-> at.probe]
            BY <2>1 DEF CredentialShapes, Place
        <3> QED BY <2>2, <3>1 DEF CredentialShapes, Place, Pcs
    <2> QED BY <1>2, <2>4, <2>5, <2>6, <2>7
<1> QED BY <1>1, <1>2 DEF CredentialShapes, Place

------------------------------------------------------------------------------
\* On to another candidate

\* The next method, or the first one after a cached one.
LEMMA AdvanceKept ==
    ASSUME CredentialShapes, Placed, Working, at.candidate \in DOMAIN methods, UNCHANGED methods,
           at' = AfterFallback, Range(work') \subseteq Range(work)
    PROVE  /\ at' \in Place
           /\ at'.pc = "candidate" /\ at'.host = at.host /\ at'.left = at.left
           /\ at'.candidate = IF Cached THEN 1 ELSE at.candidate + 1
           /\ Pending' = IF at.host THEN Range(work') ELSE Range(work') \cup Groups(Tail(at.left))
           /\ Placed'
<1> DEFINE n == IF Cached THEN 1 ELSE at.candidate + 1
<1>1. at.host \in BOOLEAN /\ at.probe \in BOOLEAN /\ at.candidate \in 1..Len(methods) /\ Len(methods) \in Nat
    BY DEF CredentialShapes, Place
<1>2. at' = [at EXCEPT !.pc = "candidate", !.candidate = n, !.probe = ~at.host]
    BY <1>1 DEF AfterFallback, FirstCandidate, NextCandidate, Cached, CredentialShapes, Place
<1>3. n \in 1..(Len(methods) + 1)
    BY <1>1
<1> HIDE DEF n
<1>4. /\ at'.pc = "candidate" /\ at'.host = at.host /\ at'.left = at.left /\ at'.candidate = n
      /\ at'.probe = ~at.host
    BY <1>2 DEF CredentialShapes, Place
<1>5. at' \in Place
    <2>1. at' = [pc |-> "candidate", left |-> at.left, host |-> at.host, candidate |-> n, probe |-> ~at.host]
        BY <1>2 DEF CredentialShapes, Place
    <2> QED BY <1>1, <1>3, <2>1 DEF CredentialShapes, Place, Pcs
<1>6. Pending' = IF at.host THEN Range(work') ELSE Range(work') \cup Groups(Tail(at.left))
    BY <1>4 DEF Pending, Groups
<1>7. Placed'
    <2>1. ~at.host => at.left # <<>> /\ \A pr \in Range(work') : Repository[pr] = Here'.repository
        BY <1>4 DEF Placed, Here
    <2>2. \A i \in DOMAIN at'.left : \A pr \in Range(at'.left[i].prs) : Repository[pr] = at'.left[i].repository
        BY <1>4 DEF Placed
    <2> QED BY <1>1, <1>3, <1>4, <2>1, <2>2 DEF Placed, Working, Attempting, Asking
<1> QED BY <1>4, <1>5, <1>6, <1>7 DEF n

\* One that reads a pull request is put off only for another that is open with the same token.
LEMMA TriedOn ==
    ASSUME Remembers, at.candidate \in DOMAIN methods, methods \in Seq(Methods), UNCHANGED <<world, methods>>,
           at'.candidate = (IF Cached THEN 1 ELSE at.candidate + 1), resolver'.opened = resolver.opened,
           Range(work') \ results'.fetched \subseteq Range(work) \ results.fetched,
           ~Cached => AllTried(at.candidate),
           \A pr \in Range(work') \ results'.fetched : CanFetch(Candidate, pr) =>
               Candidate \notin resolver.opened /\ \E m \in resolver.opened : TokenOf(m) = TokenOf(Candidate)
    PROVE  AllTried(at.candidate)'
<1> DEFINE c == at.candidate
<1>1. c \in 1..Len(methods) /\ Len(methods) \in Nat /\ DOMAIN methods = 1..Len(methods)
    OBVIOUS
<1>2. CASE Cached
    BY <1>2 DEF AllTried
<1>3. CASE ~Cached
    <2>1. at'.candidate = c + 1
        BY <1>3
    <2> SUFFICES ASSUME NEW pr \in Range(work') \ results'.fetched, NEW j \in 1..c
                 PROVE  TriedBefore(at.candidate, j, pr)'
        BY <1>1, <2>1 DEF AllTried
    <2> SUFFICES ASSUME CanFetch(methods[j], pr)
                 PROVE  \E k \in (c + 1)..Len(methods) :
                            methods[k] \in resolver.opened /\ TokenOf(methods[k]) = TokenOf(methods[j])
        BY <2>1, SameReading DEF TriedBefore
    <2>2. \A k \in 1..(c - 1) : TriedBefore(c, k, pr)
        BY <1>3 DEF AllTried
    <2>3. \A k \in 1..Len(methods) : methods[k] \in Range(methods)
        BY DEF Range
    <2>4. ASSUME CanFetch(methods[c], pr)
          PROVE  \E k \in (c + 1)..Len(methods) :
                     methods[k] \in resolver.opened /\ TokenOf(methods[k]) = TokenOf(methods[c])
        <3>1. PICK m \in resolver.opened : TokenOf(m) = TokenOf(methods[c])
            BY <2>4 DEF Candidate
        <3>2. methods[c] \notin resolver.opened
            BY <2>4 DEF Candidate
        <3>3. PICK k \in 1..Len(methods) : methods[k] = m
            BY <1>1 DEF Remembers, Range
        <3>4. k # c
            BY <3>1, <3>2, <3>3
        <3>5. CASE k > c
            BY <1>1, <3>1, <3>3, <3>5
        <3>6. CASE k < c
            <4>1. CanFetch(methods[k], pr)
                BY <1>1, <2>3, <2>4, <3>1, <3>3, SameToken
            <4>2. k \in 1..(c - 1)
                BY <1>1, <3>6
            <4>3. PICK l \in c..Len(methods) : methods[l] \in resolver.opened /\ TokenOf(methods[l]) = TokenOf(methods[k])
                BY <2>2, <4>1, <4>2 DEF TriedBefore
            <4>4. l # c
                BY <3>2, <4>3
            <4> QED BY <1>1, <3>1, <3>3, <4>3, <4>4
        <3> QED BY <1>1, <3>4, <3>5, <3>6
    <2>5. CASE j = c
        BY <2>4, <2>5
    <2>6. CASE j # c
        <3>1. j \in 1..(c - 1)
            BY <1>1, <2>6
        <3>2. PICK k \in c..Len(methods) : methods[k] \in resolver.opened /\ TokenOf(methods[k]) = TokenOf(methods[j])
            BY <2>2, <3>1 DEF TriedBefore
        <3>3. CASE k = c
            <4>1. CanFetch(methods[c], pr)
                BY <1>1, <2>3, <3>2, <3>3, SameToken
            <4> QED BY <2>4, <3>2, <3>3, <4>1
        <3>4. CASE k # c
            BY <1>1, <3>2, <3>4
        <3> QED BY <3>3, <3>4
    <2> QED BY <2>5, <2>6
<1> QED BY <1>2, <1>3

------------------------------------------------------------------------------
\* A batch

\* Each pull request asked for gets an update or an error.
LEMMA AnswersHold ==
    ASSUME NEW prs, NEW broken, NEW class, DOMAIN batch = {"from", "fetched", "partial", "errors", "error"},
           batch.partial \subseteq DOMAIN batch.errors,
           NEW answers, answers = Answers(batch, prs, broken, class)
    PROVE  /\ DOMAIN answers = {"from", "fetched", "partial", "errors", "error"}
           /\ answers.from = batch.from /\ answers.error = batch.error
           /\ batch.fetched \cup DOMAIN batch.errors \cup prs = answers.fetched \cup DOMAIN answers.errors
           /\ answers.partial \subseteq DOMAIN answers.errors
           /\ broken = {} => \A pr \in DOMAIN answers.errors :
                                 \/ pr \in DOMAIN batch.errors /\ answers.errors[pr] = batch.errors[pr]
                                 \/ answers.errors[pr] = ItemClass(Candidate, pr) /\ answers.errors[pr] # "none"
           /\ broken = {} => \A pr \in answers.fetched : pr \in batch.fetched \/ ItemClass(Candidate, pr) = "none"
<1> DEFINE said == [pr \in prs |-> IF pr \in broken THEN class ELSE ItemClass(Candidate, pr)]
           refused == {pr \in prs : said[pr] # "none"}
           errors == Over([pr \in refused |-> said[pr]], batch.errors)
           fetched == batch.fetched \cup (prs \ refused)
           partial == batch.partial \cup {pr \in refused : CoreSeen(Candidate, pr)}
<1>1. answers = [batch EXCEPT !.fetched = fetched, !.errors = errors, !.partial = partial]
    BY DEF Answers
<1>2. DOMAIN errors = refused \cup DOMAIN batch.errors
    BY DEF Over
<1>3. \A pr \in DOMAIN errors : errors[pr] = IF pr \in refused THEN said[pr] ELSE batch.errors[pr]
    BY DEF Over
<1>4. fetched \cup refused = batch.fetched \cup prs /\ batch.fetched \subseteq fetched /\ partial \subseteq refused \cup batch.partial
    OBVIOUS
<1>5. broken = {} => \A pr \in refused : said[pr] = ItemClass(Candidate, pr) /\ said[pr] # "none"
    OBVIOUS
<1>10. broken = {} => \A pr \in fetched : pr \in batch.fetched \/ ItemClass(Candidate, pr) = "none"
    OBVIOUS
<1> HIDE DEF said, refused, errors, fetched, partial
<1>6. /\ DOMAIN answers = {"from", "fetched", "partial", "errors", "error"}
      /\ answers.from = batch.from /\ answers.error = batch.error
      /\ answers.fetched = fetched /\ answers.errors = errors /\ answers.partial = partial
    BY <1>1
<1>7. broken = {} => \A pr \in DOMAIN answers.errors :
          \/ pr \in DOMAIN batch.errors /\ answers.errors[pr] = batch.errors[pr]
          \/ answers.errors[pr] = ItemClass(Candidate, pr) /\ answers.errors[pr] # "none"
    BY <1>2, <1>3, <1>5, <1>6
<1>8. batch.fetched \cup DOMAIN batch.errors \cup prs = answers.fetched \cup DOMAIN answers.errors
    BY <1>2, <1>4, <1>6
<1>9. answers.partial \subseteq DOMAIN answers.errors
    BY <1>2, <1>4, <1>6
<1> QED BY <1>6, <1>7, <1>8, <1>9, <1>10

\* A request changes the batch and, when it fails by itself, what is left of the faults.
LEMMA FetchKept ==
    ASSUME CredentialsInv, Attempting, at' = [at EXCEPT !.pc = at'.pc], at'.pc \in {"graphql", "rest", "fetched"},
           UNCHANGED <<world, methods, cache, resolver, work, results>>,
           DOMAIN batch' = {"from", "fetched", "partial", "errors", "error"}, batch'.from \in Nat,
           faults' = faults \/ (faults > 0 /\ faults' = faults - 1),
           BatchCovers', faults' = faults /\ BatchTrue => BatchTrue'
    PROVE  CredentialsInv'
<1>1. /\ at' \in Place /\ at'.left = at.left /\ at'.host = at.host /\ at'.probe = at.probe
      /\ at'.candidate = at.candidate
    <2> DEFINE pc == at'.pc
    <2>1. at' = [at EXCEPT !.pc = pc] /\ pc \in {"graphql", "rest", "fetched"}
        OBVIOUS
    <2> HIDE DEF pc
    <2>2. at' = [pc |-> pc, left |-> at.left, host |-> at.host, candidate |-> at.candidate, probe |-> at.probe]
        BY <2>1 DEF CredentialsInv, CredentialShapes, Place
    <2> QED BY <2>1, <2>2 DEF CredentialsInv, CredentialShapes, Place, Pcs
<1>2. faults' \in 0..MaxFaults /\ (faults' # faults => ~Undisturbed')
    BY CredentialsAssumption DEF CredentialsInv, CredentialShapes, Undisturbed
<1>3. CredentialShapes'
    BY <1>1, <1>2 DEF CredentialsInv, CredentialShapes
<1>4. Attempting' /\ Asking /\ Asking' /\ Working /\ Working'
    BY DEF Attempting, Asking, Working
<1>5. Placed'
    BY <1>1, <1>4 DEF CredentialsInv, Placed, Attempting, Asking, Here
<1>6. Pending' = Pending
    <2>1. Pending = IF at.host THEN Range(work) ELSE Range(work) \cup Groups(Tail(at.left))
        BY DEF Pending, Attempting, Asking
    <2>2. Pending' = IF at.host THEN Range(work) ELSE Range(work) \cup Groups(Tail(at.left))
        <3>1. Pending' = IF at'.host THEN Range(work)' ELSE Range(work)' \cup Groups(Tail(at.left))'
            BY <1>1 DEF Pending
        <3>2. at'.left = at.left /\ at'.host = at.host /\ work' = work
            BY <1>1
        <3> QED BY <3>1, <3>2
    <2> QED BY <2>1, <2>2
<1>7. Covered'
    BY <1>6 DEF CredentialsInv, Covered, AllPullRequests
<1>8. Candidate' = Candidate /\ Here' = Here
    BY <1>1 DEF Candidate, Here
<1>9. Remembers'
    <2>1. ProbeClass(Candidate, Here.repository)' = ProbeClass(Candidate, Here.repository)
        BY <1>8 DEF ProbeClass, Revoked, Access, TokenOf
    <2>2. \A m : TokenOf(m)' = TokenOf(m)
        BY SameReading
    <2> QED BY <1>1, <1>4, <1>8, <2>1, <2>2 DEF CredentialsInv, Remembers
<1>10. ASSUME Undisturbed' PROVE MarksTrue' /\ BatchTrue' /\ ReadableFetched' /\ (at.host \/ at.probe => AllTried(at.candidate)')
    <2>1. Undisturbed /\ faults' = faults
        BY <1>2, <1>10 DEF Undisturbed
    <2>2. MarksTrue /\ BatchTrue /\ ReadableFetched /\ (at.host \/ at.probe => AllTried(at.candidate))
        BY <1>4, <2>1 DEF CredentialsInv, Truthful
    <2>3. MarksTrue'
        BY <2>2, SameReading DEF MarksTrue
    <2>4. ReadableFetched'
        BY <1>6, <2>2, SameReading DEF ReadableFetched, AllPullRequests
    <2>5. AllTried(at.candidate) => AllTried(at.candidate)'
        BY <1>1, SameReading DEF AllTried, TriedBefore
    <2> QED BY <2>1, <2>2, <2>3, <2>4, <2>5
<1>11. Truthful'
    BY <1>1, <1>4, <1>10 DEF Truthful
<1> QED BY <1>3, <1>5, <1>7, <1>9, <1>11 DEF CredentialsInv

\* The requests by steps: what is asked for.
LEMMA AskedKept ==
    ASSUME CredentialsInv, at.pc \in {"graphql", "rest"}, NEW asked, NEW broken, NEW class, NEW size \in Nat \ {0},
           asked = {work[i] : i \in DOMAIN work \cap batch.from..(batch.from + size - 1)},
           FetchStep([Answers(batch, asked, broken, class) EXCEPT !.from = @ + size]), UNCHANGED at,
           (broken = {} /\ faults' = faults) \/ (faults > 0 /\ faults' = faults - 1)
    PROVE  CredentialsInv'
<1> DEFINE answers == Answers(batch, asked, broken, class)
<1>1. DOMAIN batch = {"from", "fetched", "partial", "errors", "error"} /\ batch.from \in Nat
    BY DEF CredentialsInv, CredentialShapes
<1>2. batch.partial \subseteq DOMAIN batch.errors /\ batch.error = "none"
    BY DEF CredentialsInv, BatchCovers, Attempting, Asking
<1>3. PICK ans : ans = answers
    OBVIOUS
<1>4. /\ DOMAIN ans = {"from", "fetched", "partial", "errors", "error"}
      /\ ans.from = batch.from /\ ans.error = batch.error
      /\ batch.fetched \cup DOMAIN batch.errors \cup asked = ans.fetched \cup DOMAIN ans.errors
      /\ ans.partial \subseteq DOMAIN ans.errors
      /\ broken = {} => \A pr \in DOMAIN ans.errors :
                            \/ pr \in DOMAIN batch.errors /\ ans.errors[pr] = batch.errors[pr]
                            \/ ans.errors[pr] = ItemClass(Candidate, pr) /\ ans.errors[pr] # "none"
    BY <1>1, <1>2, <1>3, AnswersHold
<1>5. batch' = [ans EXCEPT !.from = @ + size]
    BY <1>3 DEF FetchStep
<1> HIDE DEF answers
<1>6. /\ DOMAIN batch' = {"from", "fetched", "partial", "errors", "error"}
      /\ batch'.from = batch.from + size /\ batch'.error = "none"
      /\ batch'.fetched = ans.fetched /\ batch'.errors = ans.errors /\ batch'.partial = ans.partial
    BY <1>2, <1>4, <1>5
<1>7. UNCHANGED <<world, methods, cache, resolver, work, results>> /\ Candidate' = Candidate
    BY DEF FetchStep, Candidate
<1>8. ASSUME NEW i \in DOMAIN work, i < batch'.from PROVE work[i] \in batch'.fetched \cup DOMAIN batch'.errors
    <2>1. i \in Nat
        BY DEF CredentialsInv, CredentialShapes
    <2>2. CASE i < batch.from
        BY <1>4, <1>6, <2>2 DEF CredentialsInv, BatchCovers, Attempting, Asking
    <2>3. CASE ~(i < batch.from)
        <3>1. i \in batch.from..(batch.from + size - 1)
            BY <1>1, <1>6, <1>8, <2>1, <2>3
        <3>2. work[i] \in asked
            BY <3>1
        <3> QED BY <1>4, <1>6, <3>2
    <2> QED BY <2>2, <2>3
<1>9. BatchCovers'
    <2>1. batch'.from > 0
        BY <1>1, <1>6
    <2> QED BY <1>4, <1>6, <1>7, <1>8, <2>1 DEF BatchCovers, Attempting, Asking
<1>10. faults' = faults /\ BatchTrue => BatchTrue'
    <2> SUFFICES ASSUME faults' = faults, BatchTrue PROVE BatchTrue'
        OBVIOUS
    <2>1. broken = {}
        BY CredentialsAssumption DEF CredentialsInv, CredentialShapes
    <2>2. \A pr : ItemClass(Candidate, pr)' = ItemClass(Candidate, pr)
        BY <1>7 DEF ItemClass, ProbeClass, Revoked, Access, TokenOf
    <2> QED BY <1>4, <1>6, <2>1, <2>2 DEF BatchTrue
<1>11. Attempting /\ at' = [at EXCEPT !.pc = at'.pc] /\ at'.pc \in {"graphql", "rest", "fetched"}
    BY DEF CredentialsInv, CredentialShapes, Place, Attempting, Asking
<1>12. batch'.from \in Nat
    BY <1>1, <1>6
<1> QED BY <1>6, <1>7, <1>9, <1>10, <1>11, <1>12, FetchKept

\* A chunk of GraphQL that is answered keeps the invariant,
LEMMA GraphQLChunkKept == ASSUME CredentialsInv, GraphQLChunk PROVE CredentialsInv'
<1>1. ChunkSize \in Nat \ {0} /\ at.pc \in {"graphql", "rest"} /\ UNCHANGED at
    BY CredentialsAssumption DEF GraphQLChunk
<1>2. PICK asked : asked = Chunk
    OBVIOUS
<1>3. asked = {work[i] : i \in DOMAIN work \cap batch.from..(batch.from + ChunkSize - 1)}
    BY <1>2 DEF Chunk
<1>4. CASE FetchStep([Answers(batch, asked, {}, "none") EXCEPT !.from = @ + ChunkSize]) /\ UNCHANGED faults
    BY <1>1, <1>3, <1>4, AskedKept
<1>5. CASE \E pr \in asked, class \in FaultClasses :
               Fault /\ FetchStep([Answers(batch, asked, {pr}, class) EXCEPT !.from = @ + ChunkSize])
    <2>1. PICK pr \in asked, class \in FaultClasses :
               Fault /\ FetchStep([Answers(batch, asked, {pr}, class) EXCEPT !.from = @ + ChunkSize])
        BY <1>5
    <2> QED BY <1>1, <1>3, <2>1, AskedKept DEF Fault
<1> QED BY <1>2, <1>4, <1>5 DEF GraphQLChunk

\* so does an answer of REST,
LEMMA RESTItemKept == ASSUME CredentialsInv, RESTItem PROVE CredentialsInv'
<1>1. at.pc \in {"graphql", "rest"} /\ UNCHANGED at /\ batch.from \in DOMAIN work /\ batch.from \in Nat
    BY DEF RESTItem, CredentialsInv, CredentialShapes
<1>2. PICK asked : asked = {work[batch.from]}
    OBVIOUS
<1> PICK one : one = 1
    OBVIOUS
<1>3. one \in Nat \ {0} /\ asked = {work[i] : i \in DOMAIN work \cap batch.from..(batch.from + one - 1)}
    <2>1. DOMAIN work \cap batch.from..(batch.from + one - 1) = {batch.from}
        BY <1>1 DEF CredentialsInv, CredentialShapes
    <2> QED BY <1>2, <2>1
<1>4. CASE FetchStep([Answers(batch, asked, {}, "none") EXCEPT !.from = @ + one]) /\ UNCHANGED faults
    BY <1>1, <1>3, <1>4, AskedKept
<1>5. CASE \E class \in FaultClasses : Fault /\ FetchStep([Answers(batch, asked, asked, class) EXCEPT !.from = @ + one])
    <2>1. PICK class \in FaultClasses : Fault /\ FetchStep([Answers(batch, asked, asked, class) EXCEPT !.from = @ + one])
        BY <1>5
    <2> QED BY <1>1, <1>3, <2>1, AskedKept DEF Fault
<1> QED BY <1>2, <1>4, <1>5 DEF RESTItem

\* a chunk that fails,
LEMMA GraphQLFailsKept == ASSUME CredentialsInv, GraphQLFails PROVE CredentialsInv'
<1>1. PICK class \in FaultClasses \cup {"permission"} : Fault /\ FetchStep([batch EXCEPT !.error = class])
    BY DEF GraphQLFails
<1>2. class # "none"
    BY DEF FaultClasses
<1>3. /\ DOMAIN batch' = {"from", "fetched", "partial", "errors", "error"} /\ batch'.from \in Nat
      /\ batch'.from = batch.from /\ batch'.fetched = batch.fetched /\ batch'.errors = batch.errors
      /\ batch'.partial = batch.partial /\ batch'.error = class
    BY <1>1 DEF FetchStep, CredentialsInv, CredentialShapes
<1>4. UNCHANGED <<world, methods, cache, resolver, work, results>>
    BY <1>1 DEF FetchStep
<1>5. at' = [at EXCEPT !.pc = at'.pc] /\ at'.pc = "fetched" /\ at.pc = "graphql"
    BY DEF GraphQLFails, CredentialsInv, CredentialShapes, Place
<1>6. BatchCovers'
    BY <1>2, <1>3, <1>4, <1>5 DEF CredentialsInv, BatchCovers, Attempting, Asking
<1>7. faults > 0 /\ faults' = faults - 1 /\ ~(faults' = faults)
    BY <1>1, CredentialsAssumption DEF Fault, CredentialsInv, CredentialShapes
<1> QED BY <1>3, <1>4, <1>5, <1>6, <1>7, FetchKept DEF Attempting, Asking

\* one whose credential is refused,
LEMMA GraphQLRefusedKept == ASSUME CredentialsInv, GraphQLRefused PROVE CredentialsInv'
<1>1. batch' = [from |-> 1, fetched |-> {}, partial |-> {}, errors |-> <<>>, error |-> "none"]
    BY DEF GraphQLRefused, FetchStep, NoBatch
<1>2. UNCHANGED <<world, methods, cache, resolver, work, results>>
    BY DEF GraphQLRefused, FetchStep
<1>3. at' = [at EXCEPT !.pc = at'.pc] /\ at'.pc = "rest" /\ at.pc = "graphql"
    BY DEF GraphQLRefused, CredentialsInv, CredentialShapes, Place
<1>4. BatchCovers'
    <2>1. \A i \in DOMAIN work : ~(i < 1)
        BY DEF CredentialsInv, CredentialShapes
    <2> QED BY <1>1, <1>2, <1>3, <2>1 DEF BatchCovers, Attempting, Asking
<1>5. BatchTrue'
    BY <1>1 DEF BatchTrue
<1>6. faults' = faults \/ (faults > 0 /\ faults' = faults - 1)
    <2>1. UNCHANGED faults \/ Fault
        BY DEF GraphQLRefused
    <2> QED BY <2>1 DEF Fault
<1> QED BY <1>1, <1>2, <1>3, <1>4, <1>5, <1>6, FetchKept DEF Attempting, Asking

\* and the end of a batch.
LEMMA FetchEndsKept == ASSUME CredentialsInv, FetchEnds PROVE CredentialsInv'
<1>1. UNCHANGED <<world, methods, cache, resolver, work, batch, results, faults>>
    BY DEF FetchEnds
<1>2. at' = [at EXCEPT !.pc = at'.pc] /\ at'.pc = "fetched" /\ at.pc \in {"graphql", "rest"}
    BY DEF FetchEnds, CredentialsInv, CredentialShapes, Place
<1>3. \A i \in DOMAIN work : work[i] \in batch.fetched \cup DOMAIN batch.errors
    <2>1. batch.from \notin 1..Len(work) /\ batch.from \in Nat \ {0} /\ DOMAIN work = 1..Len(work) /\ Len(work) \in Nat
        BY <1>2 DEF FetchEnds, CredentialsInv, CredentialShapes, BatchCovers, Attempting, Asking
    <2>2. \A i \in DOMAIN work : i < batch.from
        BY <2>1
    <2> QED BY <1>2, <2>2 DEF CredentialsInv, BatchCovers, Attempting, Asking
<1>4. BatchCovers'
    BY <1>1, <1>2, <1>3 DEF CredentialsInv, BatchCovers, Attempting, Asking, Range
<1>5. BatchTrue => BatchTrue'
    <2>1. Candidate' = Candidate
        BY <1>1, <1>2 DEF Candidate, CredentialsInv, CredentialShapes, Place
    <2>2. \A pr : ItemClass(Candidate, pr)' = ItemClass(Candidate, pr)
        BY <1>1, <2>1 DEF ItemClass, ProbeClass, Revoked, Access, TokenOf
    <2> QED BY <1>1, <2>2 DEF BatchTrue
<1>6. DOMAIN batch' = {"from", "fetched", "partial", "errors", "error"} /\ batch'.from \in Nat /\ faults' = faults
    BY <1>1 DEF CredentialsInv, CredentialShapes
<1> QED BY <1>1, <1>2, <1>4, <1>5, <1>6, FetchKept DEF Attempting, Asking

------------------------------------------------------------------------------
\* Where the attempts of a host or of a repository lead

\* A step that ends them settles what was left.
LEMMA EndsInv ==
    ASSUME CredentialsInv, at.pc # "end", ~at.host => at.left # <<>>, at' = RepositoryEnds,
           UNCHANGED <<world, methods, resolver, batch>>,
           work' \in Seq(AllPullRequests), DOMAIN results' = {"fetched", "partial", "failures"},
           faults' = faults \/ (faults > 0 /\ faults' = faults - 1),
           NEW done, Pending \subseteq done \cup (IF at.host THEN {} ELSE Groups(Tail(at.left))),
           done \subseteq results'.fetched \cup DOMAIN results'.failures,
           results.fetched \subseteq results'.fetched, DOMAIN results.failures \subseteq DOMAIN results'.failures,
           Undisturbed' => \A pr \in done : Readable(pr) => pr \in results'.fetched
    PROVE  CredentialsInv'
<1>1. faults' \in 0..MaxFaults /\ (faults' # faults => ~Undisturbed') /\ (faults' = faults => Undisturbed' = Undisturbed)
    BY CredentialsAssumption DEF CredentialsInv, CredentialShapes, Undisturbed
<1>2. /\ at' \in Place /\ at'.pc \in {"repository", "end"}
      /\ Pending' = IF at.host THEN {} ELSE Groups(Tail(at.left))
      /\ Placed'
    BY EndsKept DEF CredentialsInv
<1>3. ~Working' /\ ~Asking' /\ ~Attempting'
    BY <1>2 DEF Working, Asking, Attempting
<1>4. CredentialShapes'
    BY <1>1, <1>2 DEF CredentialsInv, CredentialShapes
<1>5. Covered'
    BY <1>2, CoveredStays DEF CredentialsInv
<1>6. BatchCovers'
    BY <1>3 DEF CredentialsInv, BatchCovers
<1>7. Remembers'
    BY <1>3, SameReading DEF CredentialsInv, Remembers
<1>8. ASSUME Undisturbed' PROVE MarksTrue' /\ ReadableFetched'
    <2>1. MarksTrue /\ ReadableFetched
        BY <1>1, <1>8 DEF CredentialsInv, Truthful
    <2>2. MarksTrue'
        BY <2>1, SameReading DEF MarksTrue
    <2> QED BY <1>2, <1>8, <2>1, <2>2, ReadableStays
<1>9. Truthful'
    BY <1>3, <1>8 DEF Truthful
<1> QED BY <1>2, <1>4, <1>5, <1>6, <1>7, <1>9 DEF CredentialsInv

\* A step to another candidate keeps what it may still answer.
LEMMA AdvanceInv ==
    ASSUME CredentialsInv, Working, at.candidate \in DOMAIN methods, at' = AfterFallback,
           UNCHANGED <<world, methods, batch>>,
           work' \in Seq(AllPullRequests), Range(work') \subseteq Range(work),
           DOMAIN results' = {"fetched", "partial", "failures"},
           DOMAIN resolver' = {"unauthorized", "opened", "tried"},
           resolver'.opened = resolver.opened, resolver'.tried = resolver.tried,
           faults' = faults \/ (faults > 0 /\ faults' = faults - 1),
           NEW done, Range(work) \subseteq done \cup Range(work'),
           done \subseteq results'.fetched \cup DOMAIN results'.failures,
           results.fetched \subseteq results'.fetched, DOMAIN results.failures \subseteq DOMAIN results'.failures,
           Undisturbed' =>
               /\ MarksTrue'
               /\ \A pr \in done : Readable(pr) => pr \in results'.fetched
               /\ \A pr \in Range(work') \ results'.fetched : CanFetch(Candidate, pr) =>
                      Candidate \notin resolver.opened /\ \E m \in resolver.opened : TokenOf(m) = TokenOf(Candidate)
    PROVE  CredentialsInv'
<1>1. faults' \in 0..MaxFaults /\ (faults' # faults => ~Undisturbed') /\ (faults' = faults => Undisturbed' = Undisturbed)
    BY CredentialsAssumption DEF CredentialsInv, CredentialShapes, Undisturbed
<1>2. /\ at' \in Place /\ at'.pc = "candidate" /\ at'.host = at.host /\ at'.left = at.left
      /\ at'.candidate = IF Cached THEN 1 ELSE at.candidate + 1
      /\ Pending' = IF at.host THEN Range(work') ELSE Range(work') \cup Groups(Tail(at.left))
      /\ Placed'
    BY AdvanceKept DEF CredentialsInv
<1>3. ~Asking' /\ ~Attempting' /\ Working'
    BY <1>2 DEF Working, Asking, Attempting
<1>4. Pending = IF at.host THEN Range(work) ELSE Range(work) \cup Groups(Tail(at.left))
    BY DEF Pending, Working, Asking, Attempting
<1>5. Pending \subseteq done \cup Pending'
    BY <1>2, <1>4
<1>6. CredentialShapes'
    BY <1>1, <1>2 DEF CredentialsInv, CredentialShapes
<1>7. Covered'
    BY <1>5, CoveredStays DEF CredentialsInv
<1>8. BatchCovers'
    BY <1>3 DEF CredentialsInv, BatchCovers
<1>9. Remembers'
    BY <1>3, SameReading DEF CredentialsInv, Remembers
<1>10. ASSUME Undisturbed' PROVE ReadableFetched' /\ AllTried(at.candidate)'
    <2>1. ReadableFetched /\ (at.host \/ at.probe => AllTried(at.candidate))
        BY <1>1, <1>10 DEF CredentialsInv, Truthful
    <2>2. ReadableFetched'
        BY <1>5, <1>10, <2>1, ReadableStays
    <2>3. ~Cached => AllTried(at.candidate)
        BY <2>1 DEF Cached, CredentialsInv, CredentialShapes, Place
    <2>4. Remembers /\ methods \in Seq(Methods)
        BY DEF CredentialsInv, CredentialShapes
    <2>5. Range(work') \ results'.fetched \subseteq Range(work) \ results.fetched
        OBVIOUS
    <2> QED BY <1>2, <1>10, <2>2, <2>3, <2>4, <2>5, TriedOn
<1>11. Truthful'
    BY <1>3, <1>10 DEF Truthful
<1> QED BY <1>2, <1>6, <1>7, <1>8, <1>9, <1>11 DEF CredentialsInv

------------------------------------------------------------------------------
\* The order of work

\* Beginning a host or its repositories keeps it,
LEMMA BeginKept == ASSUME CredentialsInv, Begin PROVE CredentialsInv'
<1> PICK host : host = (Len(at.left) >= 2 /\ \A r \in Repositories : cache[r] = None)
    OBVIOUS
<1>1. /\ at.pc = "begin" /\ UNCHANGED <<world, methods, cache, resolver, batch, results, faults>>
      /\ at' = [at EXCEPT !.host = host, !.pc = IF host THEN "candidate" ELSE "repository", !.candidate = 1]
      /\ work' = IF host THEN Together ELSE <<>>
    BY DEF Begin
<1>2. host \in BOOLEAN
    OBVIOUS
<1>3. ~at.host /\ ~at.probe /\ Groups(at.left) = AllPullRequests
    BY <1>1 DEF CredentialsInv, Placed
<1>4. at' = [pc |-> IF host THEN "candidate" ELSE "repository", left |-> at.left, host |-> host, candidate |-> 1,
             probe |-> at.probe]
    BY <1>1 DEF CredentialsInv, CredentialShapes, Place
<1>5. CredentialShapes'
    <2>1. work' \in Seq(AllPullRequests)
        BY <1>1, CredentialsAssumption DEF AllPullRequests
    <2>2. at' \in Place
        BY <1>2, <1>4 DEF CredentialsInv, CredentialShapes, Place, Pcs
    <2> QED BY <1>1, <2>1, <2>2 DEF CredentialsInv, CredentialShapes
<1>6. Pending = AllPullRequests /\ Pending' = AllPullRequests
    <2>1. Pending = AllPullRequests
        BY <1>1, <1>3 DEF Pending
    <2>2. CASE host
        <3>1. at'.pc = "candidate" /\ at'.host /\ work' = Together
            BY <1>1, <1>4, <2>2
        <3>2. Pending' = Range(work')
            BY <3>1 DEF Pending
        <3> QED BY <2>1, <3>1, <3>2, CredentialsAssumption DEF AllPullRequests
    <2>3. CASE ~host
        <3>1. at'.pc = "repository" /\ at'.left = at.left
            BY <1>4, <2>3
        <3>2. Pending' = Groups(at.left)
            BY <3>1 DEF Pending, Groups
        <3> QED BY <1>3, <2>1, <3>2
    <2> QED BY <2>1, <2>2, <2>3
<1>7. ~Asking' /\ ~Attempting' /\ (Working' => host)
    BY <1>4 DEF Working, Asking, Attempting
<1>8. Placed'
    <2>1. Len(methods) \in Nat
        BY DEF CredentialsInv, CredentialShapes
    <2> QED BY <1>1, <1>2, <1>3, <1>4, <1>7, <2>1 DEF CredentialsInv, Placed
<1>9. Covered' /\ BatchCovers'
    BY <1>1, <1>6, <1>7 DEF CredentialsInv, Covered, BatchCovers, AllPullRequests
<1>10. Remembers'
    BY <1>1, <1>7, SameReading DEF CredentialsInv, Remembers
<1>11. Truthful'
    <2>1. ASSUME Undisturbed' PROVE MarksTrue' /\ ReadableFetched'
        <3>1. MarksTrue /\ ReadableFetched
            BY <1>1, <2>1 DEF CredentialsInv, Truthful, Undisturbed
        <3> QED BY <1>1, <1>6, <3>1, SameReading DEF MarksTrue, ReadableFetched, AllPullRequests
    <2>2. AllTried(at.candidate)'
        BY <1>4 DEF AllTried
    <2> QED BY <1>7, <2>1, <2>2 DEF Truthful
<1> QED BY <1>5, <1>8, <1>9, <1>10, <1>11 DEF CredentialsInv

\* and so does going on to the next repository.
LEMMA NextRepositoryKept == ASSUME CredentialsInv, NextRepository PROVE CredentialsInv'
<1>1. /\ at.pc = "repository" /\ ~at.host /\ Pending = Groups(at.left) /\ at \in Place
      /\ UNCHANGED <<world, methods, resolver, batch, faults>>
      /\ ~Working
    BY DEF NextRepository, CredentialsInv, CredentialShapes, Placed, Pending, Working, Asking, Attempting
<1>2. CASE at.left = <<>>
    <2>1. at' = [pc |-> "end", left |-> <<>>, host |-> FALSE, candidate |-> 0, probe |-> FALSE]
          /\ UNCHANGED <<work, cache, results>>
        BY <1>2 DEF NextRepository, Nowhere
    <2>2. Pending = {} /\ Pending' = {}
        BY <1>1, <1>2, <2>1 DEF Pending, Groups
    <2>3. ~Working' /\ ~Asking' /\ ~Attempting'
        BY <2>1 DEF Working, Asking, Attempting
    <2>4. CredentialShapes' /\ Placed'
        BY <1>1, <2>1, <2>3 DEF CredentialsInv, CredentialShapes, Place, Pcs, Placed
    <2>5. Covered' /\ BatchCovers'
        BY <1>1, <2>1, <2>2, <2>3 DEF CredentialsInv, Covered, BatchCovers, AllPullRequests
    <2>6. Remembers'
        BY <1>1, <2>3, SameReading DEF CredentialsInv, Remembers
    <2>7. ASSUME Undisturbed' PROVE MarksTrue' /\ ReadableFetched'
        <3>1. MarksTrue /\ ReadableFetched
            BY <1>1, <2>7 DEF CredentialsInv, Truthful, Undisturbed
        <3> QED BY <1>1, <2>1, <2>2, <3>1, SameReading DEF MarksTrue, ReadableFetched, AllPullRequests
    <2>8. Truthful'
        BY <2>3, <2>7 DEF Truthful
    <2> QED BY <2>4, <2>5, <2>6, <2>8 DEF CredentialsInv
<1>3. CASE at.left # <<>> /\ methods = <<>>
    <2>1. /\ work' = Here.prs /\ at' = RepositoryEnds
          /\ results' = [results EXCEPT !.failures = Fails(results.failures, Range(Here.prs), "no_method")]
        BY <1>3 DEF NextRepository
    <2>2. /\ Here.prs \in Seq(AllPullRequests)
          /\ Pending = Range(Here.prs) \cup Groups(Tail(at.left))
        BY <1>1, <1>3, GroupsSplit DEF Here, Group, Place
    <2>3. PICK done : done = Range(Here.prs)
        OBVIOUS
    <2>4. /\ DOMAIN results' = {"fetched", "partial", "failures"} /\ results'.fetched = results.fetched
          /\ DOMAIN results'.failures = done \cup DOMAIN results.failures
        BY <2>1, <2>3 DEF CredentialsInv, CredentialShapes, Fails, Over
    <2>5. \A pr : ~Readable(pr)
        BY <1>3 DEF Readable, CanFetch, Range
    <2> QED BY <1>1, <1>3, <2>1, <2>2, <2>3, <2>4, <2>5, EndsInv
<1>4. CASE at.left # <<>> /\ methods # <<>>
    <2> PICK cached : cached = GetAuthCache(Here.repository)
        OBVIOUS
    <2> DEFINE first == FirstOf({i \in DOMAIN methods : methods[i] = cached}, 0)
               known == cached \in Range(methods)
    <2>1. /\ work' = Here.prs /\ UNCHANGED results
          /\ at' = IF known THEN [at EXCEPT !.pc = "open", !.probe = FALSE, !.candidate = first]
                   ELSE [at EXCEPT !.pc = "candidate", !.candidate = 1, !.probe = TRUE]
        BY <1>4 DEF NextRepository
    <2>2. methods \in Seq(Methods) /\ DOMAIN methods = 1..Len(methods) /\ Len(methods) \in Nat \ {0}
        BY <1>4 DEF CredentialsInv, CredentialShapes
    <2>3. known => first \in DOMAIN methods
        <3> DEFINE S == {i \in DOMAIN methods : methods[i] = cached}
        <3>1. SUFFICES ASSUME known PROVE first \in S
            OBVIOUS
        <3>2. S \subseteq Nat /\ S # {}
            BY <2>2, <3>1 DEF Range
        <3>3. PICK T : T = S
            OBVIOUS
        <3>4. FirstOf(T, 0) \in T
            BY <3>2, <3>3, Least
        <3> QED BY <3>3, <3>4
    <2> DEFINE n == IF known THEN first ELSE 1
               pc == IF known THEN "open" ELSE "candidate"
    <2>4. n \in DOMAIN methods
        BY <2>2, <2>3
    <2>5. at' = [pc |-> pc, left |-> at.left, host |-> at.host, candidate |-> n, probe |-> ~known]
        BY <1>1, <2>1 DEF Place
    <2>6. pc = (IF known THEN "open" ELSE "candidate") /\ (~known => n = 1)
        OBVIOUS
    <2> HIDE DEF first, n, pc
    <2>7. /\ Here.prs \in Seq(AllPullRequests)
          /\ Pending = Range(Here.prs) \cup Groups(Tail(at.left))
        BY <1>1, <1>4, GroupsSplit DEF Here, Group, Place
    <2>8. ~Asking' /\ ~Attempting' /\ Working'
        BY <2>5, <2>6 DEF Working, Asking, Attempting
    <2>9. Pending' = Pending
        <3>1. at'.pc \in {"open", "candidate"} /\ at'.host = at.host /\ at'.left = at.left
            BY <2>5, <2>6
        <3>2. Pending' = Range(work') \cup Groups(Tail(at.left))
            BY <1>1, <3>1 DEF Pending, Groups
        <3> QED BY <2>1, <2>7, <3>2
    <2>10. CredentialShapes'
        <3>1. at' \in Place
            <4>1. pc \in Pcs /\ n \in Nat /\ (~known) \in BOOLEAN
                BY <2>2, <2>4, <2>6 DEF Pcs
            <4> HIDE DEF known
            <4> QED BY <1>1, <2>5, <4>1 DEF Place
        <3> QED BY <1>1, <2>1, <2>7, <3>1 DEF CredentialsInv, CredentialShapes
    <2>11. \A pr \in Range(Here.prs) : Repository[pr] = Here.repository
        BY <1>1, <1>4 DEF CredentialsInv, Placed, Here, Place
    <2>12. Placed'
        <3>1. \A i \in DOMAIN at'.left : \A pr \in Range(at'.left[i].prs) : Repository[pr] = at'.left[i].repository
            BY <2>5 DEF CredentialsInv, Placed
        <3>2. Here' = Here
            BY <2>5 DEF Here
        <3>3. at'.candidate \in DOMAIN methods' /\ at'.candidate \in 1..(Len(methods') + 1)
            BY <1>1, <2>2, <2>4, <2>5
        <3>4. at'.pc = "candidate" => at'.probe
            BY <2>5, <2>6
        <3>5. at'.pc \in {"open", "candidate"} /\ ~at'.host /\ at'.left # <<>>
            BY <1>1, <1>4, <2>5, <2>6
        <3> QED BY <2>1, <2>8, <2>11, <3>1, <3>2, <3>3, <3>4, <3>5 DEF Placed
    <2>13. Covered' /\ BatchCovers'
        BY <1>1, <2>1, <2>8, <2>9 DEF CredentialsInv, Covered, BatchCovers, AllPullRequests
    <2>14. Remembers'
        BY <1>1, <2>8, SameReading DEF CredentialsInv, Remembers
    <2>15. ASSUME Undisturbed' PROVE MarksTrue' /\ ReadableFetched'
        <3>1. MarksTrue /\ ReadableFetched
            BY <1>1, <2>15 DEF CredentialsInv, Truthful, Undisturbed
        <3> QED BY <1>1, <2>1, <2>9, <3>1, SameReading DEF MarksTrue, ReadableFetched, AllPullRequests
    <2>16. at'.host \/ at'.probe => AllTried(at.candidate)'
        <3>1. at'.host \/ at'.probe => at'.candidate = 1
            BY <1>1, <2>5, <2>6
        <3> QED BY <3>1 DEF AllTried
    <2> QED BY <2>8, <2>10, <2>12, <2>13, <2>14, <2>15, <2>16 DEF CredentialsInv, Truthful
<1> QED BY <1>2, <1>3, <1>4

\* A method that is open or unavailable has no more to say.
LEMMA NotOpened ==
    ASSUME Remembers, MarksTrue, ~CanOpen(Candidate), NEW pr, CanFetch(Candidate, pr)
    PROVE  Candidate \notin resolver.opened /\ \E m \in resolver.opened : TokenOf(m) = TokenOf(Candidate)
<1>1. ~Revoked(Candidate) /\ TokenOf(Candidate) # None
    BY DEF CanFetch, ItemClass, ProbeClass
<1>2. Candidate \notin resolver.unauthorized
    BY <1>1 DEF MarksTrue
<1>3. Candidate \notin resolver.opened /\ TokenOf(Candidate) \in resolver.tried
    BY <1>1, <1>2 DEF CanOpen
<1> QED BY <1>3 DEF Remembers

\* Choosing the next method keeps it, or ends what no method is left for.
LEMMA TryCandidateKept == ASSUME CredentialsInv, TryCandidate PROVE CredentialsInv'
<1>1. /\ at.pc = "candidate" /\ Working /\ ~Asking /\ ~Attempting /\ at \in Place
      /\ UNCHANGED <<world, methods, cache, resolver, work, batch, faults>>
      /\ Len(methods) \in Nat /\ DOMAIN methods = 1..Len(methods)
      /\ work \in Seq(AllPullRequests)
    BY DEF TryCandidate, CredentialsInv, CredentialShapes, Working, Asking, Attempting
<1>2. CASE work # <<>> /\ at.candidate \in DOMAIN methods
    <2>1. at' = [at EXCEPT !.pc = "open"] /\ UNCHANGED results
        BY <1>2 DEF TryCandidate
    <2>2. /\ at' = [pc |-> "open", left |-> at.left, host |-> at.host, candidate |-> at.candidate, probe |-> at.probe]
        BY <1>1, <2>1 DEF Place
    <2>3. Pending = Pending'
        <3>1. Pending = IF at.host THEN Range(work) ELSE Range(work) \cup Groups(Tail(at.left))
            BY <1>1 DEF Pending
        <3>2. Pending' = IF at.host THEN Range(work) ELSE Range(work) \cup Groups(Tail(at.left))
            <4>1. Pending' = IF at'.host THEN Range(work)' ELSE Range(work)' \cup Groups(Tail(at.left))'
                BY <2>2 DEF Pending
            <4>2. at'.left = at.left /\ at'.host = at.host /\ work' = work
                BY <1>1, <2>2
            <4> QED BY <4>1, <4>2
        <3> QED BY <3>1, <3>2
    <2>4. ~Asking' /\ ~Attempting' /\ Working'
        BY <2>2 DEF Working, Asking, Attempting
    <2>5. CredentialShapes'
        BY <1>1, <2>1, <2>2 DEF CredentialsInv, CredentialShapes, Place, Pcs
    <2>6. Placed'
        BY <1>1, <1>2, <2>2, <2>4 DEF CredentialsInv, Placed, Here
    <2>7. Covered' /\ BatchCovers'
        BY <1>1, <2>1, <2>3, <2>4 DEF CredentialsInv, Covered, BatchCovers, AllPullRequests
    <2>8. Remembers'
        BY <1>1, <2>4, SameReading DEF CredentialsInv, Remembers
    <2>9. ASSUME Undisturbed' PROVE MarksTrue' /\ ReadableFetched' /\ (at'.host \/ at'.probe => AllTried(at.candidate)')
        <3>1. MarksTrue /\ ReadableFetched /\ (at.host \/ at.probe => AllTried(at.candidate))
            BY <1>1, <2>9 DEF CredentialsInv, Truthful, Undisturbed
        <3>2. AllTried(at.candidate) => AllTried(at.candidate)'
            BY <1>1, <2>1, <2>2, SameReading DEF AllTried, TriedBefore
        <3> QED BY <1>1, <2>1, <2>2, <2>3, <3>1, <3>2, SameReading DEF MarksTrue, ReadableFetched, AllPullRequests
    <2> QED BY <2>4, <2>5, <2>6, <2>7, <2>8, <2>9 DEF CredentialsInv, Truthful
<1>3. CASE ~(work # <<>> /\ at.candidate \in DOMAIN methods)
    <2>1. at' = RepositoryEnds /\ results' = [results EXCEPT !.failures = Unavailable(results.failures, work)]
        BY <1>3 DEF TryCandidate
    <2>2. PICK done : done = Range(work)
        OBVIOUS
    <2>3. /\ DOMAIN results' = {"fetched", "partial", "failures"} /\ results'.fetched = results.fetched
          /\ DOMAIN results'.failures = done \cup DOMAIN results.failures
        BY <2>1, <2>2 DEF CredentialsInv, CredentialShapes, Unavailable, Over
    <2>4. ASSUME Undisturbed', NEW pr \in done, Readable(pr) PROVE pr \in results'.fetched
        <3>1. AllTried(at.candidate)
            BY <1>1, <2>4 DEF CredentialsInv, Truthful, Undisturbed, Placed
        <3>2. work # <<>>
            BY <1>1, <2>2 DEF Range
        <3>3. at.candidate = Len(methods) + 1
            BY <1>1, <1>3, <3>2 DEF CredentialsInv, Placed
        <3>4. PICK j \in 1..Len(methods) : CanFetch(methods[j], pr)
            BY <1>1, <2>4 DEF Readable, CanFetch, Range
        <3>5. j \in 1..(at.candidate - 1) /\ at.candidate..Len(methods) = {}
            BY <1>1, <3>3
        <3> QED BY <2>2, <2>3, <3>1, <3>4, <3>5 DEF AllTried, TriedBefore
    <2>5. Pending = IF at.host THEN Range(work) ELSE Range(work) \cup Groups(Tail(at.left))
        BY <1>1 DEF Pending
    <2>6. ~at.host => at.left # <<>>
        BY <1>1 DEF CredentialsInv, Placed
    <2> QED BY <1>1, <2>1, <2>2, <2>3, <2>4, <2>5, <2>6, EndsInv
<1> QED BY <1>2, <1>3

\* Opening a method, which may fail, keeps it.
LEMMA OpenKept == ASSUME CredentialsInv, Open PROVE CredentialsInv'
<1>1. /\ at.pc = "open" /\ Working /\ ~Asking /\ ~Attempting /\ at \in Place
      /\ UNCHANGED <<world, methods, work, results, faults>>
      /\ at.candidate \in DOMAIN methods /\ work \in Seq(AllPullRequests)
    BY DEF Open, CredentialsInv, CredentialShapes, Placed, Working, Asking, Attempting
<1>2. CASE CanOpen(Candidate)
    <2> DEFINE pc == IF at.probe THEN "probe" ELSE "graphql"
    <2>1. /\ resolver' = Opened(Candidate) /\ at' = [at EXCEPT !.pc = pc]
          /\ batch' = [from |-> 1, fetched |-> {}, partial |-> {}, errors |-> <<>>, error |-> "none"]
        BY <1>2 DEF Open, NoBatch
    <2>2. /\ at' = [pc |-> pc, left |-> at.left, host |-> at.host, candidate |-> at.candidate, probe |-> at.probe]
        BY <1>1, <2>1 DEF Place
    <2>3. /\ DOMAIN resolver' = {"unauthorized", "opened", "tried"}
          /\ resolver'.unauthorized = resolver.unauthorized
          /\ resolver'.opened = resolver.opened \cup {Candidate}
          /\ resolver'.tried = resolver.tried \cup {TokenOf(Candidate)}
        BY <2>1 DEF Opened, CredentialsInv, CredentialShapes
    <2>4. pc \in {"probe", "graphql"} /\ (pc = "probe" <=> at.probe)
        OBVIOUS
    <2> HIDE DEF pc
    <2>5. Pending = Pending'
        <3>1. Pending = IF at.host THEN Range(work) ELSE Range(work) \cup Groups(Tail(at.left))
            BY <1>1 DEF Pending
        <3>2. Pending' = IF at.host THEN Range(work) ELSE Range(work) \cup Groups(Tail(at.left))
            BY <1>1, <2>2, <2>4 DEF Pending, Groups
        <3> QED BY <3>1, <3>2
    <2>6. Asking' /\ Working' /\ (Attempting' => ~at.probe)
        BY <2>2, <2>4 DEF Working, Asking, Attempting
    <2>7. CredentialShapes'
        <3>1. at' \in Place
            BY <1>1, <2>2, <2>4 DEF Place, Pcs
        <3> QED BY <1>1, <2>1, <2>3, <3>1 DEF CredentialsInv, CredentialShapes
    <2>8. Placed'
        BY <1>1, <2>2, <2>4, <2>6 DEF CredentialsInv, Placed, Here
    <2>9. Covered'
        BY <1>1, <2>5 DEF CredentialsInv, Covered, AllPullRequests
    <2>10. BatchCovers'
        <3>1. \A i \in DOMAIN work : ~(i < 1)
            BY <1>1
        <3>2. at'.pc # "fetched"
            BY <2>2, <2>4
        <3> QED BY <1>1, <2>1, <3>1, <3>2 DEF BatchCovers
    <2>11. Candidate' = Candidate /\ Candidate \in Range(methods)
        BY <1>1, <2>2 DEF Candidate, Range
    <2>12. Remembers'
        <3>1. resolver.opened \subseteq Range(methods) /\ resolver.tried = {TokenOf(m) : m \in resolver.opened}
            BY DEF CredentialsInv, Remembers
        <3>2. resolver'.tried = {TokenOf(m) : m \in resolver'.opened}
            BY <2>3, <3>1
        <3>3. \A m : TokenOf(m)' = TokenOf(m)
            BY <1>1, SameReading
        <3>4. Attempting' /\ at'.probe => ProbeClass(Candidate, Here.repository)' = "none"
            BY <2>2, <2>6
        <3> QED BY <1>1, <2>3, <2>11, <3>1, <3>2, <3>3, <3>4 DEF Remembers
    <2>13. BatchTrue'
        BY <2>1 DEF BatchTrue
    <2>14. ASSUME Undisturbed' PROVE MarksTrue' /\ ReadableFetched' /\ (at'.host \/ at'.probe => AllTried(at.candidate)')
        <3>1. MarksTrue /\ ReadableFetched /\ (at.host \/ at.probe => AllTried(at.candidate))
            BY <1>1, <2>14 DEF CredentialsInv, Truthful, Undisturbed
        <3>2. AllTried(at.candidate) => AllTried(at.candidate)'
            BY <1>1, <2>2, <2>3, SameReading DEF AllTried, TriedBefore
        <3>3. MarksTrue'
            BY <1>1, <2>3, <3>1, SameReading DEF MarksTrue
        <3>4. ReadableFetched'
            BY <1>1, <2>5, <3>1, SameReading DEF ReadableFetched, AllPullRequests
        <3> QED BY <2>2, <3>1, <3>2, <3>3, <3>4
    <2> QED BY <2>6, <2>7, <2>8, <2>9, <2>10, <2>12, <2>13, <2>14 DEF CredentialsInv, Truthful
<1>3. CASE ~CanOpen(Candidate)
    <2>1. at' = AfterFallback /\ UNCHANGED <<resolver, batch>>
        BY <1>3 DEF Open
    <2>2. PICK done : done = {}
        OBVIOUS
    <2>3. ASSUME Undisturbed' PROVE MarksTrue /\ MarksTrue'
        <3>1. MarksTrue
            BY <1>1, <2>3 DEF CredentialsInv, Truthful, Undisturbed
        <3> QED BY <1>1, <2>1, <3>1, SameReading DEF MarksTrue
    <2>4. ASSUME Undisturbed', NEW pr, CanFetch(Candidate, pr)
          PROVE  Candidate \notin resolver.opened /\ \E m \in resolver.opened : TokenOf(m) = TokenOf(Candidate)
        BY <1>3, <2>3, <2>4, NotOpened DEF CredentialsInv
    <2>5. DOMAIN results = {"fetched", "partial", "failures"} /\ DOMAIN resolver = {"unauthorized", "opened", "tried"}
        BY DEF CredentialsInv, CredentialShapes
    <2> QED BY <1>1, <2>1, <2>2, <2>3, <2>4, <2>5, AdvanceInv
<1> QED BY <1>2, <1>3

\* Who does not see a repository reads none of its pull requests.
LEMMA Unseen ==
    ASSUME NEW m, NEW pr, ProbeClass(m, Repository[pr]) # "none"
    PROVE  ~CanFetch(m, pr)
    BY DEF CanFetch, ItemClass

\* Only one who is revoked is said to be unauthorized.
LEMMA Marked ==
    ASSUME MarksTrue, UNCHANGED <<world, methods>>, NEW class, resolver' = MarkUnauthorized(resolver, Candidate, class),
           DOMAIN resolver = {"unauthorized", "opened", "tried"}, class = "unauthorized" => Revoked(Candidate)
    PROVE  MarksTrue'
<1>1. resolver'.unauthorized \subseteq resolver.unauthorized \cup (IF class = "unauthorized" THEN {Candidate} ELSE {})
    BY DEF MarkUnauthorized
<1> QED BY <1>1, SameReading DEF MarksTrue

\* Probing a method keeps it, whatever the probe says.
LEMMA ProbeKept == ASSUME CredentialsInv, Probe PROVE CredentialsInv'
<1>1. /\ at.pc = "probe" /\ Working /\ Asking /\ ~Attempting /\ at \in Place /\ at.probe /\ ~at.host
      /\ UNCHANGED <<world, methods, batch>> /\ at.left # <<>>
      /\ at.candidate \in DOMAIN methods /\ work \in Seq(AllPullRequests)
      /\ \A pr \in Range(work) : Repository[pr] = Here.repository
    BY DEF Probe, CredentialsInv, CredentialShapes, Placed, Working, Asking, Attempting, Place
<1>2. DOMAIN results = {"fetched", "partial", "failures"} /\ DOMAIN resolver = {"unauthorized", "opened", "tried"}
    BY DEF CredentialsInv, CredentialShapes
<1>3. PICK class \in {ProbeClass(Candidate, Here.repository)} \cup FaultClasses :
         /\ IF class \in FaultClasses THEN Fault ELSE UNCHANGED faults
         /\ CASE class = "none" -> at' = [at EXCEPT !.pc = "graphql"] /\ UNCHANGED <<work, cache, resolver, results>>
              [] class \in FaultClasses -> GivesUp(1, class)
              [] OTHER -> FallsBack(1, class) /\ UNCHANGED results
    BY DEF Probe
<1>4. faults' = faults \/ (faults > 0 /\ faults' = faults - 1)
    BY <1>3 DEF Fault
<1>5. PICK done : done = Range(work)
    OBVIOUS
<1>6. CASE class = "none"
    <2>1. at' = [at EXCEPT !.pc = "graphql"] /\ UNCHANGED <<work, cache, resolver, results, faults>>
        BY <1>3, <1>6 DEF FaultClasses
    <2>2. ProbeClass(Candidate, Here.repository) = "none"
        BY <1>3, <1>6 DEF FaultClasses
    <2>3. at' = [pc |-> "graphql", left |-> at.left, host |-> at.host, candidate |-> at.candidate, probe |-> at.probe]
        BY <1>1, <2>1 DEF Place
    <2>4. Pending = Pending'
        <3>1. Pending = Range(work) \cup Groups(Tail(at.left))
            BY <1>1 DEF Pending
        <3>2. Pending' = Range(work) \cup Groups(Tail(at.left))
            BY <1>1, <2>1, <2>3 DEF Pending, Groups
        <3> QED BY <3>1, <3>2
    <2>5. Asking' /\ Working' /\ Attempting'
        BY <2>3 DEF Working, Asking, Attempting
    <2>6. CredentialShapes'
        BY <1>1, <2>1, <2>3 DEF CredentialsInv, CredentialShapes, Place, Pcs
    <2>7. Placed'
        BY <1>1, <2>1, <2>3, <2>5 DEF CredentialsInv, Placed, Here
    <2>8. Covered'
        BY <2>1, <2>4 DEF CredentialsInv, Covered, AllPullRequests
    <2>9. BatchCovers'
        BY <1>1, <2>1, <2>3, <2>5 DEF CredentialsInv, BatchCovers
    <2>10. Candidate' = Candidate /\ Here' = Here
        BY <1>1, <2>3 DEF Candidate, Here
    <2>11. Remembers'
        <3>1. ProbeClass(Candidate, Here.repository)' = ProbeClass(Candidate, Here.repository)
            BY <1>1, <2>10 DEF ProbeClass, Revoked, Access, TokenOf
        <3>2. \A m : TokenOf(m)' = TokenOf(m)
            BY <1>1, SameReading
        <3> QED BY <1>1, <2>1, <2>2, <2>10, <3>1, <3>2 DEF CredentialsInv, Remembers
    <2>12. ASSUME Undisturbed'
           PROVE MarksTrue' /\ BatchTrue' /\ ReadableFetched' /\ (at'.host \/ at'.probe => AllTried(at.candidate)')
        <3>1. MarksTrue /\ BatchTrue /\ ReadableFetched /\ AllTried(at.candidate)
            BY <1>1, <2>1, <2>12 DEF CredentialsInv, Truthful, Undisturbed
        <3>2. AllTried(at.candidate) => AllTried(at.candidate)'
            BY <1>1, <2>1, <2>3, SameReading DEF AllTried, TriedBefore
        <3>3. MarksTrue'
            BY <1>1, <2>1, <3>1, SameReading DEF MarksTrue
        <3>4. ReadableFetched'
            BY <1>1, <2>1, <2>4, <3>1, SameReading DEF ReadableFetched, AllPullRequests
        <3>5. \A pr : ItemClass(Candidate, pr)' = ItemClass(Candidate, pr)
            BY <1>1, <2>10 DEF ItemClass, ProbeClass, Revoked, Access, TokenOf
        <3>6. BatchTrue'
            BY <1>1, <3>1, <3>5 DEF BatchTrue
        <3> QED BY <3>1, <3>2, <3>3, <3>4, <3>6
    <2> QED BY <2>5, <2>6, <2>7, <2>8, <2>9, <2>11, <2>12 DEF CredentialsInv, Truthful
<1>7. CASE class \in FaultClasses
    <2>1. GivesUp(1, class) /\ Fault
        BY <1>3, <1>7 DEF FaultClasses
    <2>2. Remaining(work, 1) = done
        BY <1>1, <1>5 DEF Remaining, Range
    <2>3. /\ DOMAIN results' = {"fetched", "partial", "failures"} /\ results'.fetched = results.fetched
          /\ DOMAIN results'.failures = done \cup DOMAIN results.failures
        BY <1>2, <2>1, <2>2 DEF GivesUp, Fails, Over
    <2>4. ~Undisturbed'
        BY <2>1, CredentialsAssumption DEF Fault, Undisturbed, CredentialsInv, CredentialShapes
    <2>5. Pending = Range(work) \cup Groups(Tail(at.left))
        BY <1>1 DEF Pending
    <2>6. at' = RepositoryEnds /\ UNCHANGED <<work, cache, resolver>>
        BY <2>1 DEF GivesUp
    <2> QED BY <1>1, <1>4, <1>5, <2>3, <2>4, <2>5, <2>6, EndsInv
<1>8. CASE class # "none" /\ class \notin FaultClasses
    <2>1. FallsBack(1, class) /\ UNCHANGED results /\ UNCHANGED faults /\ class = ProbeClass(Candidate, Here.repository)
        BY <1>3, <1>8
    <2>2. work' \in Seq(AllPullRequests) /\ Range(work') = Range(work)
        <3>1. 1 \in 1..(Len(work) + 1)
            BY <1>1
        <3>2. FromFailed(work, 1) \in Seq(AllPullRequests) /\ Range(FromFailed(work, 1)) = {work[j] : j \in 1..Len(work)}
            BY <1>1, <3>1, FromOn
        <3>3. Range(work) = {work[j] : j \in 1..Len(work)}
            BY <1>1 DEF Range
        <3>4. work' = FromFailed(work, 1)
            BY <2>1 DEF FallsBack
        <3> QED BY <3>2, <3>3, <3>4
    <2>3. resolver' = MarkUnauthorized(resolver, Candidate, class) /\ at' = AfterFallback
        BY <2>1 DEF FallsBack
    <2>4. /\ DOMAIN resolver' = {"unauthorized", "opened", "tried"} /\ resolver'.opened = resolver.opened
          /\ resolver'.tried = resolver.tried
        BY <1>2, <2>3 DEF MarkUnauthorized
    <2>5. ASSUME Undisturbed' PROVE MarksTrue'
        <3>1. MarksTrue
            BY <1>1, <2>1, <2>5 DEF CredentialsInv, Truthful, Undisturbed
        <3>2. class = "unauthorized" => Revoked(Candidate)
            BY <2>1 DEF ProbeClass
        <3> QED BY <1>1, <1>2, <2>3, <3>1, <3>2, Marked
    <2>6. ASSUME NEW pr \in Range(work') PROVE ~CanFetch(Candidate, pr)
        BY <1>1, <1>8, <2>1, <2>2 DEF CanFetch, ItemClass
    <2>7. PICK none : none = {}
        OBVIOUS
    <2> QED BY <1>1, <1>2, <2>1, <2>2, <2>3, <2>4, <2>5, <2>6, <2>7, AdvanceInv
<1> QED BY <1>6, <1>7, <1>8

------------------------------------------------------------------------------
\* What a fetch means for the rest

\* Without faults, a pull request whose error is final is one that nobody can read, in
\* a repository that the candidate sees.
LEMMA FinalForAll ==
    ASSUME BatchTrue, Remembers, Attempting, NEW probe, probe = ProbeClass(Candidate, Here.repository),
           NEW pr, pr \in DOMAIN batch.errors, Repository[pr] = Here.repository,
           ~Fallback(Judged(batch.errors[pr], probe))
    PROVE  ~Readable(pr) /\ ProbeClass(Candidate, Here.repository) = "none"
<1>1. batch.errors[pr] = ItemClass(Candidate, pr) /\ batch.errors[pr] # "none"
    BY DEF BatchTrue
<1>2. batch.errors[pr] = "not_found"
    BY <1>1 DEF Judged, ItemClass, ProbeClass, Fallback
<1>3. at.probe \/ probe = "none"
    BY <1>2 DEF Judged, ProbeClass, Fallback
<1>4. ProbeClass(Candidate, Repository[pr]) = "none"
    BY <1>3 DEF Remembers
<1>5. world.state[pr] = "missing"
    BY <1>1, <1>2, <1>4 DEF ItemClass
<1> QED BY <1>4, <1>5 DEF Readable, CanFetch, ItemClass

\* Settling a batch of a repository keeps it, whatever went wrong in the batch.
LEMMA SettleKept == ASSUME CredentialsInv, Settle PROVE CredentialsInv'
<1>1. /\ at.pc = "fetched" /\ Working /\ Asking /\ Attempting /\ at \in Place /\ ~at.host
      /\ UNCHANGED <<world, methods, batch>> /\ at.left # <<>>
      /\ at.candidate \in DOMAIN methods /\ work \in Seq(AllPullRequests)
      /\ \A pr \in Range(work) : Repository[pr] = Here.repository
      /\ DOMAIN results = {"fetched", "partial", "failures"} /\ DOMAIN resolver = {"unauthorized", "opened", "tried"}
      /\ Len(work) \in Nat /\ DOMAIN work = 1..Len(work) /\ Range(work) = {work[i] : i \in 1..Len(work)}
    <2>1. DOMAIN work = 1..Len(work) /\ Len(work) \in Nat
        BY DEF CredentialsInv, CredentialShapes
    <2> QED BY <2>1 DEF Settle, CredentialsInv, CredentialShapes, Placed, Working, Asking, Attempting, Range
<1> DEFINE asked == ~at.probe /\ "not_found" \in Range(batch.errors)
           judged(p) == [pr \in DOMAIN batch.errors |-> Judged(batch.errors[pr], p)]
           resolved == IF batch.error = "none" THEN Len(work) ELSE FirstOf(Unresolved, Len(work) + 1) - 1
           failing(p) == {i \in 1..resolved : work[i] \in DOMAIN judged(p) /\ Fallback(judged(p)[work[i]])}
           failedAt(p) == FirstOf(failing(p), resolved + 1)
           settled(p) == {work[i] : i \in 1..(failedAt(p) - 1)} \cap DOMAIN judged(p)
           error(p) == IF failing(p) # {} THEN judged(p)[work[failedAt(p)]] ELSE batch.error
           merged(p) == [fetched |-> results.fetched \cup batch.fetched,
                         partial |-> results.partial \cup batch.partial,
                         failures |-> Over([pr \in settled(p) |-> judged(p)[pr]], results.failures)]
<1>2. PICK probe \in {ProbeClass(Candidate, Here.repository)} \cup FaultClasses :
         /\ IF probe \in FaultClasses THEN asked /\ Fault ELSE UNCHANGED faults
         /\ CASE error(probe) = "none" ->
                   /\ results' = merged(probe) /\ at' = RepositoryEnds
                   /\ cache' = UpsertAuthCache(Here.repository, Candidate)
                   /\ UNCHANGED <<work, resolver>>
              [] error(probe) # "none" /\ ~Fallback(error(probe)) ->
                   /\ results' = [merged(probe) EXCEPT !.failures = Fails(@, Remaining(work, failedAt(probe)), error(probe))]
                   /\ at' = RepositoryEnds /\ UNCHANGED <<work, cache, resolver>>
              [] OTHER -> FallsBack(failedAt(probe), error(probe)) /\ results' = merged(probe)
    BY DEF Settle
<1>j. PICK j : j = judged(probe)
    OBVIOUS
<1>n. PICK n : n = resolved
    OBVIOUS
<1>F. PICK F : F = failing(probe)
    OBVIOUS
<1>f. PICK f : f = failedAt(probe)
    OBVIOUS
<1>S. PICK S : S = settled(probe)
    OBVIOUS
<1>e. PICK e : e = error(probe)
    <2> HIDE DEF error
    <2> QED OBVIOUS
<1>m. PICK m : m = merged(probe)
    OBVIOUS
<1>3. f = FirstOf(F, n + 1)
    BY <1>n, <1>F, <1>f
<1>4. /\ n = (IF batch.error = "none" THEN Len(work) ELSE FirstOf(Unresolved, Len(work) + 1) - 1)
      /\ F = {i \in 1..n : work[i] \in DOMAIN j /\ Fallback(j[work[i]])}
      /\ S = {work[i] : i \in 1..(f - 1)} \cap DOMAIN j
      /\ e = (IF F # {} THEN j[work[f]] ELSE batch.error)
      /\ m = [fetched |-> results.fetched \cup batch.fetched, partial |-> results.partial \cup batch.partial,
              failures |-> Over([pr \in S |-> j[pr]], results.failures)]
    BY <1>j, <1>n, <1>F, <1>f, <1>S, <1>e, <1>m
<1>5. DOMAIN j = DOMAIN batch.errors /\ \A pr \in DOMAIN j : j[pr] = Judged(batch.errors[pr], probe)
    BY <1>j
<1>6. /\ IF probe \in FaultClasses THEN Fault ELSE UNCHANGED faults
      /\ CASE e = "none" -> results' = m /\ at' = RepositoryEnds /\ UNCHANGED <<work, resolver>>
           [] e # "none" /\ ~Fallback(e) ->
                /\ results' = [m EXCEPT !.failures = Fails(@, Remaining(work, f), e)]
                /\ at' = RepositoryEnds /\ UNCHANGED <<work, resolver>>
           [] OTHER -> FallsBack(f, e) /\ results' = m
    BY <1>2, <1>f, <1>e, <1>m
<1> HIDE DEF asked, judged, resolved, failing, failedAt, settled, error, merged
<1>7. n \in 0..Len(work) /\ \A i \in 1..n : work[i] \in batch.fetched \cup DOMAIN j
    <2>1. CASE batch.error = "none"
        BY <1>1, <1>4, <1>5, <2>1 DEF CredentialsInv, BatchCovers
    <2>2. CASE batch.error # "none" /\ Unresolved = {}
        <3>1. n = Len(work)
            BY <1>1, <1>4, <2>2 DEF FirstOf
        <3> QED BY <1>1, <1>5, <2>2, <3>1 DEF Unresolved, CredentialsInv, BatchCovers
    <2>3. CASE batch.error # "none" /\ Unresolved # {}
        <3>1. PICK U : U = Unresolved
            OBVIOUS
        <3> PICK none : none = Len(work) + 1
            OBVIOUS
        <3>2. U \subseteq 1..Len(work)
            BY <1>1, <3>1 DEF Unresolved
        <3>3. FirstOf(U, none) \in U /\ \A i \in U : FirstOf(U, none) <= i
            <4>1. U \subseteq Nat /\ U # {}
                BY <2>3, <3>1, <3>2
            <4> QED BY <4>1, Least
        <3>5. n = FirstOf(U, none) - 1
            BY <1>4, <2>3, <3>1
        <3>4. n \in 0..Len(work) /\ \A i \in 1..n : i \notin U /\ i \in 1..Len(work)
            <4> PICK k : k = FirstOf(U, none)
                OBVIOUS
            <4>1. k \in 1..Len(work) /\ n = k - 1 /\ Len(work) \in Nat /\ \A i \in U : k <= i
                BY <1>1, <3>2, <3>3, <3>5
            <4> QED BY <4>1
        <3> QED BY <1>1, <1>5, <3>1, <3>4 DEF Unresolved, CredentialsInv, BatchCovers
    <2> QED BY <2>1, <2>2, <2>3
<1>8. f \in 1..(n + 1) /\ (F = {} => f = n + 1) /\ (F # {} => f \in F) /\ \A i \in 1..(f - 1) : i \in 1..n /\ i \notin F
    <2>1. n \in Nat /\ F \subseteq 1..n
        <3>1. F = {i \in 1..n : work[i] \in DOMAIN j /\ Fallback(j[work[i]])}
            BY <1>4
        <3>2. n \in 0..Len(work) /\ Len(work) \in Nat
            BY <1>1, <1>7
        <3> QED BY <3>1, <3>2
    <2>2. CASE F = {}
        BY <1>3, <2>1, <2>2 DEF FirstOf
    <2>3. CASE F # {}
        <3>1. f \in F /\ \A i \in F : f <= i
            <4>1. F \subseteq Nat
                BY <2>1
            <4> QED BY <1>3, <2>3, <4>1, Least
        <3> QED BY <2>1, <2>3, <3>1
    <2> QED BY <2>2, <2>3
<1>9. faults' = faults \/ (faults > 0 /\ faults' = faults - 1)
    BY <1>6 DEF Fault
<1>10. /\ m.fetched = results.fetched \cup batch.fetched /\ DOMAIN m = {"fetched", "partial", "failures"}
       /\ DOMAIN m.failures = S \cup DOMAIN results.failures
    BY <1>4 DEF Over
<1> DEFINE before == {work[i] : i \in 1..(f - 1)}
           after == {work[i] : i \in f..Len(work)}
<1>11. Range(work) = before \cup after
    <2>1. 1..Len(work) = 1..(f - 1) \cup f..Len(work)
        BY <1>1, <1>7, <1>8
    <2> QED BY <1>1, <2>1
<1>12. before \subseteq m.fetched \cup DOMAIN m.failures
    <2> SUFFICES ASSUME NEW i \in 1..(f - 1) PROVE work[i] \in m.fetched \cup DOMAIN m.failures
        OBVIOUS
    <2>1. work[i] \in batch.fetched \cup DOMAIN j
        BY <1>7, <1>8
    <2> QED BY <1>4, <1>10, <2>1
\* Without faults the batch says what is the case.
<1>13. ASSUME Undisturbed' PROVE /\ MarksTrue /\ BatchTrue /\ n = Len(work)
                                 /\ probe = ProbeClass(Candidate, Here.repository)
    <2>1. Undisturbed /\ faults' = faults
        BY <1>9, <1>13, CredentialsAssumption DEF Undisturbed, CredentialsInv, CredentialShapes
    <2>2. MarksTrue /\ BatchTrue
        BY <1>1, <2>1 DEF CredentialsInv, Truthful
    <2>3. probe \notin FaultClasses
        BY <1>6, <2>1, CredentialsAssumption DEF Fault, CredentialsInv, CredentialShapes
    <2> QED BY <1>2, <1>4, <2>2, <2>3 DEF BatchTrue
<1>14. ASSUME Undisturbed', NEW pr \in before, Readable(pr) PROVE pr \in m.fetched
    <2>1. PICK i \in 1..(f - 1) : pr = work[i]
        OBVIOUS
    <2>2. i \in 1..n /\ i \notin F /\ i \in 1..Len(work)
        BY <1>1, <1>7, <1>8
    <2>3. pr \in batch.fetched \cup DOMAIN j
        BY <1>7, <2>1, <2>2
    <2>4. CASE pr \in DOMAIN j
        <3>1. ~Fallback(Judged(batch.errors[pr], probe))
            BY <1>4, <1>5, <2>1, <2>2, <2>4
        <3>2. Repository[pr] = Here.repository
            BY <1>1, <2>1, <2>2
        <3>3. Remembers
            BY DEF CredentialsInv
        <3> QED BY <1>1, <1>5, <1>13, <1>14, <2>4, <3>1, <3>2, <3>3, FinalForAll
    <2> QED BY <1>10, <2>3, <2>4
<1>15. Pending = Range(work) \cup Groups(Tail(at.left))
    BY <1>1 DEF Pending
<1> HIDE DEF before, after
<1>16. CASE e = "none"
    <2>1. results' = m /\ at' = RepositoryEnds /\ UNCHANGED <<work, resolver>>
        BY <1>6, <1>16
    <2>2. F = {} /\ batch.error = "none"
        BY <1>4, <1>8, <1>16 DEF Fallback
    <2>3. n = Len(work) /\ f = Len(work) + 1
        BY <1>1, <1>4, <1>8, <2>2
    <2>4. Range(work) = before
        BY <1>1, <1>11, <2>3 DEF after
    <2>5. PICK done : done = before
        OBVIOUS
    <2> QED BY <1>1, <1>9, <1>10, <1>12, <1>14, <1>15, <2>1, <2>4, <2>5, EndsInv
<1>17. CASE e # "none" /\ ~Fallback(e)
    <2>1. /\ results' = [m EXCEPT !.failures = Fails(m.failures, Remaining(work, f), e)]
          /\ at' = RepositoryEnds /\ UNCHANGED <<work, resolver>>
        BY <1>6, <1>17
    <2>2. F = {} /\ batch.error # "none"
        BY <1>4, <1>8, <1>17
    <2>3. ~Undisturbed'
        BY <1>13, <2>2 DEF BatchTrue
    <2>4. after \subseteq Remaining(work, f)
        <3> SUFFICES ASSUME NEW i \in f..Len(work) PROVE work[i] \in Remaining(work, f)
            BY DEF after
        <3>1. f \in 1..Len(work)
            BY <1>1, <1>7, <1>8
        <3> QED BY <1>1, <3>1 DEF Remaining
    <2>5. /\ DOMAIN results' = {"fetched", "partial", "failures"} /\ results'.fetched = m.fetched
          /\ DOMAIN results'.failures = Remaining(work, f) \cup DOMAIN m.failures
        BY <1>10, <2>1 DEF Fails, Over
    <2>6. PICK done : done = Range(work)
        OBVIOUS
    <2>7. done \subseteq results'.fetched \cup DOMAIN results'.failures
        BY <1>11, <1>12, <2>4, <2>5, <2>6
    <2>8. /\ at.pc # "end" /\ (~at.host => at.left # <<>>) /\ UNCHANGED <<world, methods, resolver, batch>>
          /\ work' \in Seq(AllPullRequests)
        BY <1>1, <2>1
    <2>9. /\ Pending \subseteq done \cup (IF at.host THEN {} ELSE Groups(Tail(at.left)))
          /\ results.fetched \subseteq results'.fetched /\ DOMAIN results.failures \subseteq DOMAIN results'.failures
        BY <1>1, <1>10, <1>15, <2>5, <2>6
    <2>10. Undisturbed' => \A pr \in done : Readable(pr) => pr \in results'.fetched
        BY <2>3
    <2> QED BY <1>9, <2>1, <2>5, <2>7, <2>8, <2>9, <2>10, EndsInv
<1>18. CASE e # "none" /\ Fallback(e)
    <2>1. FallsBack(f, e) /\ results' = m
        BY <1>6, <1>18
    <2>2. work' \in Seq(AllPullRequests) /\ Range(work') = after
        <3>1. f \in 1..(Len(work) + 1)
            BY <1>1, <1>7, <1>8
        <3>2. FromFailed(work, f) \in Seq(AllPullRequests) /\ Range(FromFailed(work, f)) = {work[i] : i \in f..Len(work)}
            BY <1>1, <3>1, FromOn
        <3>3. work' = FromFailed(work, f)
            BY <2>1 DEF FallsBack
        <3> QED BY <3>2, <3>3 DEF after
    <2>3. resolver' = MarkUnauthorized(resolver, Candidate, e) /\ at' = AfterFallback
        BY <2>1 DEF FallsBack
    <2>4. /\ DOMAIN resolver' = {"unauthorized", "opened", "tried"} /\ resolver'.opened = resolver.opened
          /\ resolver'.tried = resolver.tried
        BY <1>1, <2>3 DEF MarkUnauthorized
    <2>5. ASSUME Undisturbed' PROVE MarksTrue'
        <3>1. e = "unauthorized" => Revoked(Candidate)
            <4> SUFFICES ASSUME e = "unauthorized" PROVE Revoked(Candidate)
                OBVIOUS
            <4>1. F # {}
                BY <1>4, <1>13, <2>5 DEF BatchTrue
            <4>2. work[f] \in DOMAIN batch.errors /\ e = Judged(batch.errors[work[f]], probe)
                BY <1>4, <1>5, <1>8, <4>1
            <4>3. batch.errors[work[f]] = ItemClass(Candidate, work[f])
                BY <1>13, <2>5, <4>2 DEF BatchTrue
            <4>4. ItemClass(Candidate, work[f]) = "unauthorized" => Revoked(Candidate)
                BY DEF ItemClass, ProbeClass
            <4>5. probe = "unauthorized" => Revoked(Candidate)
                BY <1>13, <2>5 DEF ProbeClass
            <4> QED BY <4>2, <4>3, <4>4, <4>5 DEF Judged
        <3> QED BY <1>1, <1>13, <2>3, <2>5, <3>1, Marked
    <2>6. ASSUME Undisturbed', NEW pr \in Range(work') \ results'.fetched PROVE ~CanFetch(Candidate, pr)
        <3>1. PICK i \in 1..Len(work) : pr = work[i]
            BY <1>1, <1>11, <2>2
        <3>2. pr \in DOMAIN batch.errors
            BY <1>5, <1>7, <1>10, <1>13, <2>1, <2>6, <3>1
        <3> QED BY <1>13, <2>6, <3>2 DEF BatchTrue, CanFetch
    <2>7. PICK done : done = before
        OBVIOUS
    <2>8. Range(work') \subseteq Range(work) /\ Range(work) \subseteq done \cup Range(work')
        BY <1>11, <2>2, <2>7
    <2> QED BY <1>1, <1>9, <1>10, <1>12, <1>14, <2>1, <2>2, <2>3, <2>4, <2>5, <2>6, <2>7, <2>8, AdvanceInv
<1> QED BY <1>16, <1>17, <1>18

\* Settling a batch by host keeps it, and what failed goes on to the next method.
LEMMA SettleHostKept == ASSUME CredentialsInv, SettleHost PROVE CredentialsInv'
<1>1. /\ at.pc = "fetched" /\ Working /\ Asking /\ Attempting /\ at \in Place /\ at.host
      /\ UNCHANGED <<world, methods, resolver, batch, faults>>
      /\ at.candidate \in DOMAIN methods /\ work \in Seq(AllPullRequests)
      /\ DOMAIN results = {"fetched", "partial", "failures"} /\ DOMAIN resolver = {"unauthorized", "opened", "tried"}
    BY DEF SettleHost, CredentialsInv, CredentialShapes, Placed, Working, Asking, Attempting
<1> PICK kept : kept = {pr \in Range(work) \ batch.fetched : pr \notin DOMAIN batch.errors \/ Fallback(batch.errors[pr])}
    OBVIOUS
<1> PICK again : again = Among(work, kept)
    OBVIOUS
<1> DEFINE settled == Range(work) \ (batch.fetched \cup Range(again))
           reasons == Over([pr \in settled |-> batch.errors[pr]], results.failures)
           merged == [fetched |-> results.fetched \cup batch.fetched, partial |-> results.partial \cup batch.partial,
                      failures |-> reasons]
<1>2. /\ IF batch.error # "none" /\ ~Fallback(batch.error)
         THEN /\ results' = [merged EXCEPT !.failures = Fails(@, Range(again), batch.error)]
              /\ at' = RepositoryEnds
         ELSE results' = merged /\ at' = NextCandidate
      /\ work' = again
    BY DEF SettleHost
<1>3. again \in Seq(AllPullRequests) /\ Range(again) = kept
    <2>1. Among(work, kept) \in Seq(AllPullRequests) /\ Range(Among(work, kept)) = Range(work) \cap kept
        BY <1>1, AmongThem
    <2> QED BY <2>1
<1>4. PICK done : done = Range(work) \ Range(again)
    OBVIOUS
<1>5. DOMAIN reasons = settled \cup DOMAIN results.failures
    BY DEF Over
<1>6. done \subseteq batch.fetched \cup settled
    BY <1>4
<1>7. \A pr \in settled : pr \in DOMAIN batch.errors /\ ~Fallback(batch.errors[pr])
    BY <1>3
<1>8. /\ DOMAIN merged = {"fetched", "partial", "failures"} /\ merged.fetched = results.fetched \cup batch.fetched
      /\ merged.failures = reasons
    OBVIOUS
<1>9. ASSUME Undisturbed' PROVE /\ MarksTrue /\ BatchTrue
                                /\ \A pr \in Range(work) : pr \in batch.fetched \cup DOMAIN batch.errors
    <2>1. MarksTrue /\ BatchTrue
        BY <1>1, <1>9 DEF Undisturbed, CredentialsInv, Truthful
    <2> QED BY <1>1, <2>1 DEF CredentialsInv, BatchCovers, BatchTrue
<1>10. Pending = Range(work)
    BY <1>1 DEF Pending
<1> HIDE DEF settled, reasons, merged
<1>11. CASE batch.error # "none" /\ ~Fallback(batch.error)
    <2>1. /\ results' = [merged EXCEPT !.failures = Fails(reasons, Range(again), batch.error)]
          /\ at' = RepositoryEnds /\ work' = again
        BY <1>2, <1>8, <1>11
    <2>2. /\ DOMAIN results' = {"fetched", "partial", "failures"} /\ results'.fetched = merged.fetched
          /\ DOMAIN results'.failures = Range(again) \cup DOMAIN reasons
        BY <1>8, <2>1 DEF Fails, Over
    <2>3. ~Undisturbed'
        BY <1>9, <1>11 DEF BatchTrue
    <2>4. PICK all : all = Range(work)
        OBVIOUS
    <2>5. all \subseteq results'.fetched \cup DOMAIN results'.failures
        BY <1>4, <1>5, <1>6, <1>8, <2>2, <2>4
    <2>6. results.fetched \subseteq results'.fetched /\ DOMAIN results.failures \subseteq DOMAIN results'.failures
        BY <1>5, <1>8, <2>2
    <2>7. work' \in Seq(AllPullRequests) /\ Pending \subseteq all \cup (IF at.host THEN {} ELSE Groups(Tail(at.left)))
        BY <1>3, <1>10, <2>1, <2>4
    <2> QED BY <1>1, <2>1, <2>2, <2>3, <2>5, <2>6, <2>7, EndsInv
<1>12. CASE ~(batch.error # "none" /\ ~Fallback(batch.error))
    <2>1. results' = merged /\ at' = NextCandidate /\ work' = again
        BY <1>2, <1>12
    <2>2. at' = AfterFallback
        BY <1>1, <2>1 DEF AfterFallback, Cached
    <2>3. Range(work') \subseteq Range(work) /\ Range(work) \subseteq done \cup Range(work')
        BY <1>3, <1>4, <2>1
    <2>4. done \subseteq results'.fetched \cup DOMAIN results'.failures
        BY <1>5, <1>6, <1>8, <2>1
    <2>5. ASSUME Undisturbed' PROVE MarksTrue'
        BY <1>1, <1>9, <2>5, SameReading DEF MarksTrue
    <2>6. ASSUME Undisturbed', NEW pr \in done, Readable(pr) PROVE pr \in results'.fetched
        <3>1. pr \notin settled
            <4>1. pr \in settled => Fallback(batch.errors[pr])
                BY <1>7, <1>9, <2>6 DEF BatchTrue, Fallback, ItemClass, ProbeClass
            <4> QED BY <1>7, <4>1
        <3> QED BY <1>6, <1>8, <2>1, <3>1
    <2>7. ASSUME Undisturbed', NEW pr \in Range(work') \ results'.fetched PROVE ~CanFetch(Candidate, pr)
        <3>1. pr \in DOMAIN batch.errors
            BY <1>8, <1>9, <2>1, <2>3, <2>7
        <3> QED BY <1>9, <2>7, <3>1 DEF BatchTrue, CanFetch
    <2> QED BY <1>1, <1>3, <1>5, <1>8, <2>1, <2>2, <2>3, <2>4, <2>5, <2>6, <2>7, AdvanceInv
<1> QED BY <1>11, <1>12

------------------------------------------------------------------------------
\* The argument

\* The invariant holds at first,
LEMMA CredentialsStart == CredentialsInit => CredentialsInv
<1> SUFFICES ASSUME CredentialsInit PROVE CredentialsInv
    OBVIOUS
<1>1. /\ resolver = [unauthorized |-> {}, opened |-> {}, tried |-> {}]
      /\ at = [pc |-> "begin", left |-> Listed, host |-> FALSE, candidate |-> 1, probe |-> FALSE]
      /\ work = <<>> /\ faults = MaxFaults
      /\ batch = [from |-> 0, fetched |-> {}, partial |-> {}, errors |-> <<>>, error |-> "none"]
      /\ results = [fetched |-> {}, partial |-> {}, failures |-> <<>>]
    BY DEF CredentialsInit, NoBatch, Unfetched
<1>2. methods \in Seq(Methods)
    BY CredentialsAssumption DEF CredentialsInit
<1>3. Listed \in Seq(Group) /\ Groups(Listed) = AllPullRequests
    BY CredentialsAssumption DEF Group, Groups, AllPullRequests
<1>4. ~Working /\ ~Asking /\ ~Attempting
    BY <1>1 DEF Working, Asking, Attempting
<1>5. Pending = AllPullRequests
    BY <1>1, <1>3 DEF Pending
<1>6. CredentialShapes
    BY <1>1, <1>2, <1>3, CredentialsAssumption DEF CredentialShapes, Place, Pcs
<1>7. Placed
    BY <1>1, <1>3, <1>4, CredentialsAssumption DEF Placed
<1>8. Covered /\ BatchCovers /\ Remembers
    BY <1>1, <1>4, <1>5 DEF Covered, BatchCovers, Remembers
<1>9. Truthful
    BY <1>1, <1>4, <1>5 DEF Truthful, MarksTrue, ReadableFetched
<1> QED BY <1>6, <1>7, <1>8, <1>9 DEF CredentialsInv

\* and every step keeps it.
LEMMA CredentialsStep == CredentialsInv /\ [CredentialsNext]_credentialsVars => CredentialsInv'
<1> SUFFICES ASSUME CredentialsInv, [CredentialsNext]_credentialsVars PROVE CredentialsInv'
    OBVIOUS
<1>1. CASE Begin
    BY <1>1, BeginKept
<1>2. CASE NextRepository
    BY <1>2, NextRepositoryKept
<1>3. CASE TryCandidate
    BY <1>3, TryCandidateKept
<1>4. CASE Open
    BY <1>4, OpenKept
<1>5. CASE Probe
    BY <1>5, ProbeKept
<1>6. CASE GraphQLChunk
    BY <1>6, GraphQLChunkKept
<1>7. CASE GraphQLFails
    BY <1>7, GraphQLFailsKept
<1>8. CASE GraphQLRefused
    BY <1>8, GraphQLRefusedKept
<1>9. CASE RESTItem
    BY <1>9, RESTItemKept
<1>10. CASE FetchEnds
    BY <1>10, FetchEndsKept
<1>11. CASE Settle
    BY <1>11, SettleKept
<1>12. CASE SettleHost
    BY <1>12, SettleHostKept
<1>13. CASE UNCHANGED credentialsVars
    <2>1. /\ Pending' = Pending /\ Candidate' = Candidate /\ Here' = Here /\ Attempting' = Attempting
          /\ Asking' = Asking /\ Working' = Working /\ Undisturbed' = Undisturbed
        BY <1>13 DEF credentialsVars, Pending, Groups, Candidate, Here, Attempting, Asking, Working, Undisturbed
    <2>2. UNCHANGED <<world, methods, cache, resolver, at, work, batch, results, faults>>
        BY <1>13 DEF credentialsVars
    <2>3. CredentialShapes' /\ Placed' /\ Covered' /\ BatchCovers'
        BY <2>1, <2>2 DEF CredentialsInv, CredentialShapes, Placed, Covered, BatchCovers, AllPullRequests
    <2>4. \A m, r : ProbeClass(m, r)' = ProbeClass(m, r) /\ TokenOf(m)' = TokenOf(m)
        BY <2>2, SameReading
    <2>5. ProbeClass(Candidate, Here.repository)' = ProbeClass(Candidate, Here.repository)
        BY <2>1, <2>2 DEF ProbeClass, Revoked, Access, TokenOf
    <2>6. Remembers'
        BY <2>1, <2>2, <2>4, <2>5 DEF CredentialsInv, Remembers
    <2>7. \A pr : ItemClass(Candidate, pr)' = ItemClass(Candidate, pr)
        BY <2>1, <2>2 DEF ItemClass, ProbeClass, Revoked, Access, TokenOf
    <2>8. AllTried(at.candidate)' = AllTried(at.candidate)
        BY <2>2, SameReading DEF AllTried, TriedBefore
    <2>9. MarksTrue' = MarksTrue /\ ReadableFetched' = ReadableFetched
        BY <2>1, <2>2, SameReading DEF MarksTrue, ReadableFetched, AllPullRequests
    <2>10. BatchTrue' = BatchTrue
        BY <2>2, <2>7 DEF BatchTrue
    <2>11. Truthful'
        BY <2>1, <2>2, <2>8, <2>9, <2>10 DEF CredentialsInv, Truthful
    <2> QED BY <2>3, <2>6, <2>11 DEF CredentialsInv
<1> QED BY <1>1, <1>2, <1>3, <1>4, <1>5, <1>6, <1>7, <1>8, <1>9, <1>10, <1>11, <1>12, <1>13 DEF CredentialsNext

\* An answer is to one of the pull requests.
OnlyKnown ==
    /\ batch.fetched \cup DOMAIN batch.errors \subseteq AllPullRequests
    /\ results.fetched \cup DOMAIN results.failures \subseteq AllPullRequests

\* Every step records outcomes of known pull requests only.
LEMMA OnlyKnownStep == CredentialsInv /\ OnlyKnown /\ [CredentialsNext]_credentialsVars => OnlyKnown'
<1> SUFFICES ASSUME CredentialsInv, OnlyKnown, [CredentialsNext]_credentialsVars PROVE OnlyKnown'
    OBVIOUS
<1>1. /\ work \in Seq(AllPullRequests) /\ at \in Place /\ batch.partial \subseteq DOMAIN batch.errors
      /\ DOMAIN batch = {"from", "fetched", "partial", "errors", "error"}
      /\ DOMAIN results = {"fetched", "partial", "failures"}
    BY DEF CredentialsInv, CredentialShapes, BatchCovers
<1>2. \A i \in DOMAIN work : work[i] \in AllPullRequests
    BY <1>1
<1>3. Range(work) \subseteq AllPullRequests
    BY <1>2 DEF Range
<1>4. OnlyKnown /\ AllPullRequests' = AllPullRequests
    BY DEF AllPullRequests
<1>5. ASSUME UNCHANGED <<batch, results>> PROVE OnlyKnown'
    BY <1>4, <1>5 DEF OnlyKnown
<1>6. ASSUME UNCHANGED batch, NEW prs, prs \subseteq AllPullRequests, NEW class, NEW r, r.fetched = results.fetched,
             r.failures = Fails(results.failures, prs, class), results' = r
      PROVE  OnlyKnown'
    BY <1>4, <1>6 DEF OnlyKnown, Fails, Over
<1>7. ASSUME NEW asked, asked \subseteq AllPullRequests, NEW broken, NEW class, NEW size,
             FetchStep([Answers(batch, asked, broken, class) EXCEPT !.from = @ + size])
      PROVE  OnlyKnown'
    <2>1. PICK ans : ans = Answers(batch, asked, broken, class)
        OBVIOUS
    <2>2. /\ DOMAIN ans = {"from", "fetched", "partial", "errors", "error"}
          /\ batch.fetched \cup DOMAIN batch.errors \cup asked = ans.fetched \cup DOMAIN ans.errors
        BY <1>1, <2>1, AnswersHold
    <2>3. batch' = [ans EXCEPT !.from = @ + size] /\ UNCHANGED results
        BY <1>7, <2>1 DEF FetchStep
    <2>4. batch'.fetched = ans.fetched /\ batch'.errors = ans.errors
        BY <2>2, <2>3
    <2> QED BY <1>4, <1>7, <2>2, <2>3, <2>4 DEF OnlyKnown
<1>8. CASE Begin
    BY <1>5, <1>8 DEF Begin
<1>9. CASE NextRepository
    <2>1. CASE UNCHANGED results
        BY <1>5, <1>9, <2>1 DEF NextRepository
    <2>2. CASE results' # results
        <3>1. /\ results' = [results EXCEPT !.failures = Fails(results.failures, Range(Here.prs), "no_method")]
              /\ at.left # <<>> /\ UNCHANGED batch
            BY <1>9, <2>2 DEF NextRepository
        <3>2. Here.prs \in Seq(AllPullRequests)
            BY <1>1, <3>1, GroupsSplit DEF Here, Group, Place
        <3>3. PICK prs : prs = Range(Here.prs)
            OBVIOUS
        <3>4. prs \subseteq AllPullRequests
            BY <3>2, <3>3 DEF Range
        <3>5. results'.fetched = results.fetched /\ results'.failures = Fails(results.failures, prs, "no_method")
            BY <1>1, <3>1, <3>3
        <3> QED BY <1>4, <3>1, <3>4, <3>5 DEF OnlyKnown, Fails, Over
    <2> QED BY <2>1, <2>2
<1>10. CASE TryCandidate
    <2>1. CASE UNCHANGED results
        BY <1>5, <1>10, <2>1 DEF TryCandidate
    <2>2. CASE results' # results
        <3>1. results' = [results EXCEPT !.failures = Unavailable(results.failures, work)] /\ UNCHANGED batch
            BY <1>10, <2>2 DEF TryCandidate
        <3>2. results'.fetched = results.fetched /\ results'.failures = Unavailable(results.failures, work)
            BY <1>1, <3>1
        <3> QED BY <1>3, <1>4, <3>1, <3>2 DEF OnlyKnown, Unavailable, Over
    <2> QED BY <2>1, <2>2
<1>11. CASE Open
    <2>1. UNCHANGED results /\ (UNCHANGED batch \/ batch' = [NoBatch EXCEPT !.from = 1])
        BY <1>11 DEF Open
    <2>2. CASE UNCHANGED batch
        BY <1>5, <2>1, <2>2
    <2>3. CASE batch' = [NoBatch EXCEPT !.from = 1]
        <3>1. batch'.fetched = {} /\ batch'.errors = <<>>
            BY <2>3 DEF NoBatch
        <3> QED BY <1>4, <2>1, <3>1 DEF OnlyKnown
    <2> QED BY <2>1, <2>2, <2>3
<1>12. ASSUME NEW first PROVE Remaining(work, first) \subseteq AllPullRequests
    <2> SUFFICES ASSUME NEW i \in (IF first \in DOMAIN work THEN first ELSE 1)..Len(work) PROVE work[i] \in AllPullRequests
        BY DEF Remaining
    <2>1. i \in DOMAIN work
        BY <1>1
    <2> QED BY <1>2, <2>1
<1>13. CASE Probe
    <2>1. PICK class \in {ProbeClass(Candidate, Here.repository)} \cup FaultClasses :
             CASE class = "none" -> UNCHANGED results
               [] class \in FaultClasses -> GivesUp(1, class)
               [] OTHER -> UNCHANGED results
        BY <1>13 DEF Probe
    <2>2. CASE UNCHANGED results
        BY <1>5, <1>13, <2>2 DEF Probe
    <2>3. CASE GivesUp(1, class)
        <3>1. results' = [results EXCEPT !.failures = Fails(results.failures, Remaining(work, 1), class)] /\ UNCHANGED batch
            BY <1>13, <2>3 DEF GivesUp, Probe
        <3>2. results'.fetched = results.fetched /\ results'.failures = Fails(results.failures, Remaining(work, 1), class)
            BY <1>1, <3>1
        <3> QED BY <1>4, <1>12, <3>1, <3>2 DEF OnlyKnown, Fails, Over
    <2> QED BY <2>1, <2>2, <2>3
<1>14. CASE GraphQLChunk
    <2>1. PICK asked : asked = Chunk
        OBVIOUS
    <2>2. asked \subseteq AllPullRequests
        BY <1>2, <2>1 DEF Chunk
    <2>3. CASE FetchStep([Answers(batch, asked, {}, "none") EXCEPT !.from = @ + ChunkSize])
        BY <1>7, <2>2, <2>3
    <2>4. CASE \E pr \in asked, class \in FaultClasses :
                   FetchStep([Answers(batch, asked, {pr}, class) EXCEPT !.from = @ + ChunkSize])
        BY <1>7, <2>2, <2>4
    <2> QED BY <1>14, <2>1, <2>3, <2>4 DEF GraphQLChunk
<1>15. CASE GraphQLFails
    <2>1. PICK class : batch' = [batch EXCEPT !.error = class] /\ UNCHANGED results
        BY <1>15 DEF GraphQLFails, FetchStep
    <2>2. batch'.fetched = batch.fetched /\ batch'.errors = batch.errors
        BY <1>1, <2>1
    <2> QED BY <1>4, <2>1, <2>2 DEF OnlyKnown
<1>16. CASE GraphQLRefused
    <2>1. batch' = [NoBatch EXCEPT !.from = 1] /\ UNCHANGED results
        BY <1>16 DEF GraphQLRefused, FetchStep
    <2>2. batch'.fetched = {} /\ batch'.errors = <<>>
        BY <2>1 DEF NoBatch
    <2> QED BY <1>4, <2>1, <2>2 DEF OnlyKnown
<1>17. CASE RESTItem
    <2>1. PICK asked : asked = {work[batch.from]}
        OBVIOUS
    <2>2. asked \subseteq AllPullRequests
        BY <1>2, <1>17, <2>1 DEF RESTItem
    <2>3. CASE FetchStep([Answers(batch, asked, {}, "none") EXCEPT !.from = @ + 1])
        BY <1>7, <2>2, <2>3
    <2>4. CASE \E class \in FaultClasses : FetchStep([Answers(batch, asked, asked, class) EXCEPT !.from = @ + 1])
        BY <1>7, <2>2, <2>4
    <2> QED BY <1>17, <2>1, <2>3, <2>4 DEF RESTItem
<1>18. CASE FetchEnds
    BY <1>5, <1>18 DEF FetchEnds
\* The failures of a fetch, and with them the failure of all that remains.
<1>22. ASSUME UNCHANGED batch, NEW S, S \subseteq AllPullRequests, NEW j, NEW m, DOMAIN m = {"fetched", "partial", "failures"},
              m.fetched = results.fetched \cup batch.fetched,
              m.failures = Over([pr \in S |-> j[pr]], results.failures),
              NEW prs, prs \subseteq AllPullRequests, NEW class,
              results' = m \/ results' = [m EXCEPT !.failures = Fails(m.failures, prs, class)]
       PROVE  OnlyKnown'
    <2>1. DOMAIN m.failures \subseteq AllPullRequests /\ m.fetched \subseteq AllPullRequests
        BY <1>4, <1>22 DEF OnlyKnown, Over
    <2>2. CASE results' = m
        BY <1>4, <1>22, <2>1, <2>2 DEF OnlyKnown
    <2>3. CASE results' = [m EXCEPT !.failures = Fails(m.failures, prs, class)]
        <3>1. results'.fetched = m.fetched /\ results'.failures = Fails(m.failures, prs, class)
            BY <1>22, <2>3
        <3> QED BY <1>4, <1>22, <2>1, <3>1 DEF OnlyKnown, Fails, Over
    <2> QED BY <1>22, <2>2, <2>3
<1>19. CASE Settle
    <2> DEFINE judged(p) == [pr \in DOMAIN batch.errors |-> Judged(batch.errors[pr], p)]
               resolved == IF batch.error = "none" THEN Len(work) ELSE FirstOf(Unresolved, Len(work) + 1) - 1
               failing(p) == {i \in 1..resolved : work[i] \in DOMAIN judged(p) /\ Fallback(judged(p)[work[i]])}
               failedAt(p) == FirstOf(failing(p), resolved + 1)
               settled(p) == {work[i] : i \in 1..(failedAt(p) - 1)} \cap DOMAIN judged(p)
               error(p) == IF failing(p) # {} THEN judged(p)[work[failedAt(p)]] ELSE batch.error
               merged(p) == [fetched |-> results.fetched \cup batch.fetched,
                             partial |-> results.partial \cup batch.partial,
                             failures |-> Over([pr \in settled(p) |-> judged(p)[pr]], results.failures)]
    <2>1. UNCHANGED batch /\ \E p :
             \/ results' = merged(p)
             \/ results' = [merged(p) EXCEPT !.failures = Fails(@, Remaining(work, failedAt(p)), error(p))]
        <3>1. PICK p \in {ProbeClass(Candidate, Here.repository)} \cup FaultClasses :
                CASE error(p) = "none" -> results' = merged(p)
                  [] error(p) # "none" /\ ~Fallback(error(p)) ->
                        results' = [merged(p) EXCEPT !.failures = Fails(@, Remaining(work, failedAt(p)), error(p))]
                  [] OTHER -> results' = merged(p)
            BY <1>19 DEF Settle
        <3> HIDE DEF judged, resolved, failing, failedAt, settled, error, merged
        <3> QED BY <1>19, <3>1 DEF Settle
    <2>2. PICK p : \/ results' = merged(p)
                   \/ results' = [merged(p) EXCEPT !.failures = Fails(@, Remaining(work, failedAt(p)), error(p))]
        <3> HIDE DEF judged, resolved, failing, failedAt, settled, error, merged
        <3> QED BY <2>1
    <2>3. PICK j : j = judged(p)
        OBVIOUS
    <2>4. PICK S : S = settled(p)
        OBVIOUS
    <2>5. PICK m : m = merged(p)
        OBVIOUS
    <2>6. DOMAIN j = DOMAIN batch.errors /\ S \subseteq DOMAIN j
        BY <2>3, <2>4
    <2>7. /\ DOMAIN m = {"fetched", "partial", "failures"} /\ m.fetched = results.fetched \cup batch.fetched
          /\ m.failures = Over([pr \in S |-> j[pr]], results.failures)
        BY <2>3, <2>4, <2>5
    <2> HIDE DEF judged, resolved, failing, failedAt, settled, error, merged
    <2>8. PICK first, class : first = failedAt(p) /\ class = error(p)
        OBVIOUS
    <2>9. PICK prs : prs = Remaining(work, first)
        OBVIOUS
    <2>10. results' = m \/ results' = [m EXCEPT !.failures = Fails(m.failures, prs, class)]
        BY <2>2, <2>5, <2>8, <2>9
    <2>11. S \subseteq AllPullRequests /\ prs \subseteq AllPullRequests
        BY <1>4, <1>12, <2>6, <2>9 DEF OnlyKnown
    <2> QED BY <1>22, <2>1, <2>7, <2>10, <2>11
<1>20. CASE SettleHost
    <2> DEFINE kept == {pr \in Range(work) \ batch.fetched : pr \notin DOMAIN batch.errors \/ Fallback(batch.errors[pr])}
    <2>1. PICK again : again = Among(work, kept)
        OBVIOUS
    <2>2. PICK S : S = Range(work) \ (batch.fetched \cup Range(again))
        OBVIOUS
    <2>3. PICK m : m = [fetched |-> results.fetched \cup batch.fetched, partial |-> results.partial \cup batch.partial,
                        failures |-> Over([pr \in S |-> batch.errors[pr]], results.failures)]
        OBVIOUS
    <2>4. UNCHANGED batch /\ (results' = m \/ results' = [m EXCEPT !.failures = Fails(m.failures, Range(again), batch.error)])
        BY <1>20, <2>1, <2>2, <2>3 DEF SettleHost
    <2>5. PICK j, prs, class : j = batch.errors /\ prs = Range(again) /\ class = batch.error
        OBVIOUS
    <2>6. /\ DOMAIN m = {"fetched", "partial", "failures"} /\ m.fetched = results.fetched \cup batch.fetched
          /\ m.failures = Over([pr \in S |-> j[pr]], results.failures)
        BY <2>3, <2>5
    <2>7. S \subseteq AllPullRequests
        BY <1>3, <2>2
    <2>8. prs \subseteq AllPullRequests
        <3>1. PICK k : k = kept
            OBVIOUS
        <3>2. Range(again) = Range(work) \cap k
            BY <1>1, <2>1, <3>1, AmongThem
        <3> QED BY <1>3, <2>5, <3>2
    <2> QED BY <1>22, <2>4, <2>5, <2>6, <2>7, <2>8
<1>21. CASE UNCHANGED credentialsVars
    BY <1>5, <1>21 DEF credentialsVars
<1> QED BY <1>8, <1>9, <1>10, <1>11, <1>13, <1>14, <1>15, <1>16, <1>17, <1>18, <1>19, <1>20, <1>21 DEF CredentialsNext

------------------------------------------------------------------------------
\* What is remembered of a repository

\* The repositories of some groups; those whose cached method is still to be tried.
Repos(left) == {left[i].repository : i \in DOMAIN left}
Unvisited ==
    IF at.pc \in {"begin", "repository"} THEN Repos(at.left)
    ELSE IF at.pc = "end" \/ at.host THEN {}
    ELSE Repos(Tail(at.left)) \cup (IF at.probe THEN {} ELSE {Here.repository})

CacheShapes ==
    /\ cache \in [Repositories -> Methods \cup {None}]
    /\ \A m \in resolver.opened : TokenOf(m) # None
    /\ \A i \in DOMAIN at.left : at.left[i].prs # <<>>
    /\ Working /\ ~at.host /\ ~at.probe => work # <<>>

\* Without faults, what was fetched the candidate can read, and what is remembered of
\* the others sees its repository.
FetchedTrue == Undisturbed /\ Asking => \A pr \in batch.fetched : ItemClass(Candidate, pr) = "none"
VisitedWork == Undisturbed /\ methods # <<>> =>
                   \A r \in Repositories : cache[r] # None => CanSee(cache[r], r) \/ r \in Unvisited

CacheInv == CacheShapes /\ FetchedTrue /\ VisitedWork

\* A method that sees a repository goes on seeing it.
LEMMA SameSight ==
    ASSUME UNCHANGED <<world, methods>>
    PROVE  \A m, r : CanSee(m, r)' = CanSee(m, r)
    BY DEF CanSee, TokenOf, ProbeClass, Revoked, Access

\* An entry stays only if it works or is still to be tried.
LEMMA VisitedKept ==
    ASSUME VisitedWork, UNCHANGED <<world, methods>>, Undisturbed' => Undisturbed,
           Undisturbed' /\ methods # <<>> =>
               \A r \in Repositories : cache'[r] # None =>
                   CanSee(cache'[r], r) \/ (cache'[r] = cache[r] /\ (r \in Unvisited => r \in Unvisited'))
    PROVE  VisitedWork'
<1> SUFFICES ASSUME Undisturbed', methods # <<>>, NEW r \in Repositories, cache'[r] # None, r \notin Unvisited'
             PROVE  CanSee(cache[r], r)'
    BY DEF VisitedWork, Repositories
<1>1. PICK m : m = cache'[r]
    OBVIOUS
<1>2. CanSee(m, r)
    BY <1>1 DEF VisitedWork
<1>3. CanSee(m, r)'
    BY <1>2, SameSight
<1> QED BY <1>1, <1>3 DEF CanSee, TokenOf, ProbeClass, Revoked, Access

\* The repositories to come are that of the first group and those of the others.
LEMMA ReposSplit ==
    ASSUME NEW left \in Seq(Group), left # <<>>
    PROVE  Repos(left) = {Head(left).repository} \cup Repos(Tail(left))
<1>1. /\ Head(left) = left[1] /\ Tail(left) \in Seq(Group)
      /\ DOMAIN Tail(left) = 1..(Len(left) - 1) /\ \A i \in 1..(Len(left) - 1) : Tail(left)[i] = left[i + 1]
      /\ DOMAIN left = 1..Len(left) /\ Len(left) \in Nat \ {0}
    OBVIOUS
<1>2. ASSUME NEW i \in 1..Len(left) PROVE left[i].repository \in {Head(left).repository} \cup Repos(Tail(left))
    <2>1. CASE i = 1
        BY <1>1, <2>1
    <2>2. CASE i # 1
        <3>1. i - 1 \in 1..(Len(left) - 1) /\ (i - 1) + 1 = i
            BY <1>1, <2>2
        <3> QED BY <1>1, <3>1 DEF Repos
    <2> QED BY <2>1, <2>2
<1>3. ASSUME NEW i \in 1..(Len(left) - 1) PROVE Tail(left)[i].repository \in Repos(left)
    <2>1. i + 1 \in 1..Len(left)
        BY <1>1
    <2> QED BY <1>1, <2>1 DEF Repos
<1>4. Head(left).repository \in Repos(left)
    BY <1>1 DEF Repos
<1> QED BY <1>1, <1>2, <1>3, <1>4 DEF Repos

\* At the end of a host or of a repository, and on to another candidate.
LEMMA CacheEnds ==
    ASSUME CredentialsInv, CacheInv, at.pc # "end", ~at.host => at.left # <<>>, at' = RepositoryEnds,
           UNCHANGED <<world, methods, resolver>>, cache' \in [Repositories -> Methods \cup {None}],
           faults' = faults \/ (faults > 0 /\ faults' = faults - 1),
           Working \/ methods = <<>>,
           Undisturbed' /\ methods # <<>> => \A r \in Repositories : cache'[r] # None =>
               \/ CanSee(cache'[r], r)
               \/ cache'[r] = cache[r] /\ (at.host \/ at.probe \/ r # Here.repository)
    PROVE  CacheInv'
<1>1. /\ at' \in Place /\ at'.pc \in {"repository", "end"}
    BY EndsKept DEF CredentialsInv
<1>2. at'.left = IF at.host THEN <<>> ELSE Tail(at.left)
    BY DEF RepositoryEnds, Nowhere, CredentialsInv, CredentialShapes, Place
<1>3. ~Working' /\ ~Asking'
    BY <1>1 DEF Working, Asking, Attempting
<1>4. \A i \in DOMAIN at'.left : at'.left[i].prs # <<>>
    <2>1. CASE at.host
        BY <1>2, <2>1
    <2>2. CASE ~at.host
        <3>1. \A i \in DOMAIN Tail(at.left) : Tail(at.left)[i] = at.left[i + 1] /\ i + 1 \in DOMAIN at.left
            BY <2>2 DEF CredentialsInv, CredentialShapes, Place
        <3> QED BY <1>2, <2>2, <3>1 DEF CacheInv, CacheShapes
    <2> QED BY <2>1, <2>2
<1>5. CacheShapes'
    BY <1>3, <1>4, SameReading DEF CacheInv, CacheShapes, Repositories
<1>6. FetchedTrue'
    BY <1>3 DEF FetchedTrue
<1>7. Undisturbed' => Undisturbed
    BY CredentialsAssumption DEF CredentialsInv, CredentialShapes, Undisturbed
<1>8. ASSUME Working, NEW r \in Unvisited, at.host \/ at.probe \/ r # Here.repository PROVE r \in Unvisited'
    <2>1. ~at.host /\ r \in Repos(Tail(at.left))
        BY <1>8 DEF Unvisited, Working, Asking, Attempting
    <2>2. at' = [at EXCEPT !.pc = "repository", !.left = Tail(@), !.candidate = 1]
        BY <2>1 DEF RepositoryEnds
    <2>3. at'.pc = "repository" /\ at'.left = Tail(at.left)
        BY <2>2 DEF CredentialsInv, CredentialShapes, Place
    <2> QED BY <2>1, <2>3 DEF Unvisited, Repos
<1>9. VisitedWork'
    BY <1>7, <1>8, VisitedKept DEF CacheInv
<1> QED BY <1>5, <1>6, <1>9 DEF CacheInv

\* Going on to the next method keeps what is known of the entries, if it leaves only those that work or are to come.
LEMMA CacheAdvance ==
    ASSUME CredentialsInv, CacheInv, Working, at.candidate \in DOMAIN methods, at' = AfterFallback,
           UNCHANGED <<world, methods>>, resolver'.opened = resolver.opened, Range(work') \subseteq Range(work),
           faults' = faults \/ (faults > 0 /\ faults' = faults - 1),
           cache' \in [Repositories -> Methods \cup {None}],
           Undisturbed' => \A r \in Repositories : cache'[r] # None =>
               \/ CanSee(cache'[r], r)
               \/ cache'[r] = cache[r] /\ (at.host \/ at.probe \/ r # Here.repository)
    PROVE  CacheInv'
<1>1. /\ at' \in Place /\ at'.pc = "candidate" /\ at'.host = at.host /\ at'.left = at.left /\ Placed'
    BY AdvanceKept DEF CredentialsInv
<1>2. at'.host \/ at'.probe
    BY <1>1 DEF Placed
<1>3. ~Asking'
    BY <1>1 DEF Asking, Attempting
<1>4. CacheShapes'
    BY <1>1, <1>2, SameReading DEF CacheInv, CacheShapes, Repositories
<1>5. FetchedTrue'
    BY <1>3 DEF FetchedTrue
<1>6. Undisturbed' => Undisturbed
    BY CredentialsAssumption DEF CredentialsInv, CredentialShapes, Undisturbed
<1>7. ASSUME NEW r \in Unvisited, at.host \/ at.probe \/ r # Here.repository PROVE r \in Unvisited'
    <2>1. ~at.host /\ r \in Repos(Tail(at.left))
        BY <1>7 DEF Unvisited, Working, Asking, Attempting
    <2> QED BY <1>1, <2>1 DEF Unvisited, Repos
<1>8. VisitedWork'
    BY <1>6, <1>7, VisitedKept DEF CacheInv
<1> QED BY <1>4, <1>5, <1>8 DEF CacheInv

\* Where only the pc changes.
LEMMA CacheStays ==
    ASSUME CredentialsInv, CacheInv, Working, at' = [at EXCEPT !.pc = at'.pc],
           at'.pc \in {"open", "probe", "graphql", "rest", "fetched"},
           UNCHANGED <<world, methods, cache, work>>,
           \A m \in resolver'.opened : TokenOf(m) # None,
           faults' = faults \/ (faults > 0 /\ faults' = faults - 1),
           Undisturbed' /\ Asking' => \A pr \in batch'.fetched : ItemClass(Candidate, pr) = "none"
    PROVE  CacheInv'
<1>1. /\ at'.left = at.left /\ at'.host = at.host /\ at'.probe = at.probe /\ at'.candidate = at.candidate
    BY DEF CredentialsInv, CredentialShapes, Place
<1>2. CacheShapes'
    BY <1>1, SameReading DEF CacheInv, CacheShapes, Repositories
<1>3. Candidate' = Candidate
    BY <1>1 DEF Candidate
<1>4. \A pr : ItemClass(Candidate, pr)' = ItemClass(Candidate, pr)
    BY <1>3 DEF ItemClass, ProbeClass, Revoked, Access, TokenOf
<1>5. FetchedTrue'
    BY <1>4 DEF FetchedTrue
<1>6. Undisturbed' => Undisturbed
    BY CredentialsAssumption DEF CredentialsInv, CredentialShapes, Undisturbed
<1>7. Unvisited' = Unvisited
    <2>1. Unvisited = IF at.host THEN {} ELSE Repos(Tail(at.left)) \cup (IF at.probe THEN {} ELSE {Here.repository})
        BY DEF Unvisited, Working, Asking, Attempting
    <2>2. Unvisited' = IF at.host THEN {} ELSE Repos(Tail(at.left)) \cup (IF at.probe THEN {} ELSE {Here.repository})
        <3>1. Here' = Here
            BY <1>1 DEF Here
        <3>2. ~(at'.pc \in {"begin", "repository", "end"})
            BY DEF Asking, Attempting, Working
        <3> QED BY <1>1, <3>1, <3>2 DEF Unvisited
    <2> QED BY <2>1, <2>2
<1>8. VisitedWork'
    BY <1>6, <1>7, VisitedKept DEF CacheInv
<1> QED BY <1>2, <1>5, <1>8 DEF CacheInv

\* An entry that is replaced leaves the others.
LEMMA EntryReplaced ==
    ASSUME cache \in [Repositories -> Methods \cup {None}], NEW m \in Methods \cup {None}, NEW r,
           cache' = [cache EXCEPT ![r] = m]
    PROVE  /\ cache' \in [Repositories -> Methods \cup {None}]
           /\ \A q \in Repositories : cache'[q] = IF q = r THEN m ELSE cache[q]
    OBVIOUS

\* What WithoutEntry leaves before the next candidate.
LEMMA EntryGone ==
    ASSUME CredentialsInv, CacheInv, cache' = WithoutEntry
    PROVE  /\ cache' \in [Repositories -> Methods \cup {None}]
           /\ \A r \in Repositories : cache'[r] # None =>
                  cache'[r] = cache[r] /\ (at.host \/ at.probe \/ r # Here.repository)
<1>1. cache \in [Repositories -> Methods \cup {None}] /\ at.host \in BOOLEAN /\ at.probe \in BOOLEAN
    BY DEF CacheInv, CacheShapes, CredentialsInv, CredentialShapes, Place
<1>2. CASE Cached
    <2>1. PICK r : r = Here.repository
        OBVIOUS
    <2>2. cache' = [cache EXCEPT ![r] = None]
        BY <1>2, <2>1 DEF WithoutEntry, DeleteAuthCache
    <2>3. PICK none : none = None
        OBVIOUS
    <2> QED BY <1>1, <2>1, <2>2, EntryReplaced
<1>3. CASE ~Cached
    BY <1>1, <1>3 DEF WithoutEntry, Cached
<1> QED BY <1>2, <1>3

\* How the judgement of a fetch ends.
LEMMA SettleEnds ==
    ASSUME CredentialsInv, Settle
    PROVE  \/ /\ at' = RepositoryEnds /\ UNCHANGED resolver
              /\ cache' = UpsertAuthCache(Here.repository, Candidate)
              /\ Undisturbed' => /\ BatchTrue
                                 /\ \A pr \in Range(work) : pr \notin DOMAIN batch.errors \/
                                        ~Fallback(Judged(batch.errors[pr], ProbeClass(Candidate, Here.repository)))
           \/ at' = RepositoryEnds /\ UNCHANGED <<resolver, cache>> /\ ~Undisturbed'
           \/ \E failedAt \in 1..(Len(work) + 1) : \E class : FallsBack(failedAt, class)
<1> DEFINE asked == ~at.probe /\ "not_found" \in Range(batch.errors)
           judged(p) == [pr \in DOMAIN batch.errors |-> Judged(batch.errors[pr], p)]
           resolved == IF batch.error = "none" THEN Len(work) ELSE FirstOf(Unresolved, Len(work) + 1) - 1
           failing(p) == {i \in 1..resolved : work[i] \in DOMAIN judged(p) /\ Fallback(judged(p)[work[i]])}
           failedAt(p) == FirstOf(failing(p), resolved + 1)
           error(p) == IF failing(p) # {} THEN judged(p)[work[failedAt(p)]] ELSE batch.error
<1>1. PICK probe \in {ProbeClass(Candidate, Here.repository)} \cup FaultClasses :
         /\ IF probe \in FaultClasses THEN asked /\ Fault ELSE UNCHANGED faults
         /\ CASE error(probe) = "none" ->
                   /\ at' = RepositoryEnds
                   /\ cache' = UpsertAuthCache(Here.repository, Candidate)
                   /\ UNCHANGED <<work, resolver>>
              [] error(probe) # "none" /\ ~Fallback(error(probe)) ->
                   /\ at' = RepositoryEnds /\ UNCHANGED <<work, cache, resolver>>
              [] OTHER -> FallsBack(failedAt(probe), error(probe))
    BY DEF Settle
<1>2. work \in Seq(AllPullRequests) /\ DOMAIN work = 1..Len(work) /\ Len(work) \in Nat
    BY DEF CredentialsInv, CredentialShapes
<1>3. resolved \in 0..Len(work)
    <2>1. CASE batch.error = "none" \/ Unresolved = {}
        BY <1>2, <2>1 DEF FirstOf
    <2>2. CASE batch.error # "none" /\ Unresolved # {}
        <3>1. PICK U, none : U = Unresolved /\ none = Len(work) + 1
            OBVIOUS
        <3>2. U \subseteq 1..Len(work)
            BY <1>2, <3>1 DEF Unresolved
        <3>3. U \subseteq Nat /\ U # {}
            BY <2>2, <3>1, <3>2
        <3>4. FirstOf(U, none) \in U
            BY <3>3, Least
        <3>5. FirstOf(U, none) \in 1..Len(work)
            BY <3>2, <3>4
        <3>6. resolved = FirstOf(U, none) - 1
            BY <2>2, <3>1
        <3> QED BY <1>2, <3>5, <3>6
    <2> QED BY <2>1, <2>2
<1>4. PICK n : n = resolved
    OBVIOUS
<1>5. PICK F : F = {i \in 1..n : work[i] \in DOMAIN judged(probe) /\ Fallback(judged(probe)[work[i]])}
    OBVIOUS
<1>6. F = failing(probe) /\ failedAt(probe) = FirstOf(F, n + 1) /\ F \subseteq Nat /\ n \in 0..Len(work)
    <2>1. F = failing(probe)
        BY <1>4, <1>5
    <2>2. failedAt(probe) = FirstOf(F, n + 1)
        BY <1>4, <2>1
    <2>3. F \subseteq Nat /\ n \in 0..Len(work)
        BY <1>2, <1>3, <1>4, <1>5
    <2> QED BY <2>1, <2>2, <2>3
<1>7. \A i \in F : work[i] \in DOMAIN batch.errors /\ Fallback(Judged(batch.errors[work[i]], probe))
    BY <1>5
<1>8. \A i \in 1..n : i \in F \/ work[i] \notin DOMAIN batch.errors \/ ~Fallback(Judged(batch.errors[work[i]], probe))
    BY <1>5
<1>9. PICK f : f = FirstOf(F, n + 1)
    OBVIOUS
<1>14. failedAt(probe) = f
    BY <1>6, <1>9
<1>15. batch.error = "none" => n = Len(work)
    BY <1>4
<1> HIDE DEF resolved, failing, failedAt
<1>10. error(probe) = IF F # {} THEN judged(probe)[work[f]] ELSE batch.error
    BY <1>6, <1>14
<1>11. F # {} => error(probe) = Judged(batch.errors[work[f]], probe) /\ Fallback(error(probe)) /\ f \in F
    <2> SUFFICES ASSUME F # {} PROVE error(probe) = Judged(batch.errors[work[f]], probe) /\ Fallback(error(probe)) /\ f \in F
        OBVIOUS
    <2>1. f \in F
        BY <1>6, <1>9, Least
    <2>2. error(probe) = Judged(batch.errors[work[f]], probe)
        BY <1>7, <1>10, <2>1
    <2> QED BY <1>7, <2>1, <2>2
<1>12. F = {} => error(probe) = batch.error
    BY <1>10
<1>13. f \in 1..(Len(work) + 1)
    <2>1. CASE F = {}
        <3>1. f = n + 1
            BY <1>9, <2>1 DEF FirstOf
        <3> QED BY <1>2, <1>6, <3>1
    <2>2. CASE F # {}
        <3>1. F \subseteq 1..n
            BY <1>5
        <3> QED BY <1>2, <1>6, <1>11, <2>2, <3>1
    <2> QED BY <2>1, <2>2
<1> HIDE DEF judged, error
<1>16. ASSUME Undisturbed' PROVE BatchTrue /\ probe = ProbeClass(Candidate, Here.repository)
    <2>1. faults \in 0..MaxFaults /\ at.pc = "fetched"
        BY DEF CredentialsInv, CredentialShapes, Settle
    <2>2. probe \notin FaultClasses /\ Undisturbed
        BY <1>1, <1>16, <2>1, CredentialsAssumption DEF Fault, Undisturbed
    <2> QED BY <1>1, <2>1, <2>2 DEF CredentialsInv, Truthful, Asking, Attempting
<1>17. CASE error(probe) = "none"
    <2>1. F = {} /\ batch.error = "none"
        BY <1>11, <1>12, <1>17 DEF Fallback
    <2>2. n = Len(work)
        BY <1>15, <2>1
    <2>3. \A i \in 1..Len(work) : work[i] \notin DOMAIN batch.errors \/ ~Fallback(Judged(batch.errors[work[i]], probe))
        BY <1>8, <2>1, <2>2
    <2>4. \A pr \in Range(work) : pr \notin DOMAIN batch.errors \/ ~Fallback(Judged(batch.errors[pr], probe))
        BY <1>2, <2>3 DEF Range
    <2> QED BY <1>1, <1>16, <1>17, <2>4
<1>18. CASE error(probe) # "none" /\ ~Fallback(error(probe))
    <2>1. batch.error # "none"
        BY <1>11, <1>12, <1>18
    <2>2. ~Undisturbed'
        BY <1>16, <2>1 DEF BatchTrue
    <2> QED BY <1>1, <1>18, <2>2
<1>19. CASE error(probe) # "none" /\ Fallback(error(probe))
    <2>1. FallsBack(failedAt(probe), error(probe))
        BY <1>1, <1>19
    <2>2. PICK class : class = error(probe)
        OBVIOUS
    <2> QED BY <1>13, <1>14, <2>1, <2>2
<1> QED BY <1>17, <1>18, <1>19

\* Settling a batch confirms, replaces or forgets the entry,
LEMMA CacheSettle == ASSUME CredentialsInv, CacheInv, Settle PROVE CacheInv'
<1>1. /\ at.pc = "fetched" /\ Working /\ Asking /\ Attempting /\ ~at.host /\ at.left # <<>> /\ at.left \in Seq(Group)
      /\ UNCHANGED <<world, methods, batch>> /\ work \in Seq(AllPullRequests)
      /\ at.candidate \in DOMAIN methods /\ Candidate \in resolver.opened /\ Candidate \in Range(methods)
      /\ \A pr \in Range(work) : Repository[pr] = Here.repository
      /\ methods \in Seq(Methods) /\ DOMAIN resolver = {"unauthorized", "opened", "tried"}
    BY DEF Settle, CredentialsInv, CredentialShapes, Placed, Remembers, Working, Asking, Attempting, Place
<1>2. faults' = faults \/ (faults > 0 /\ faults' = faults - 1)
    <2>1. UNCHANGED faults \/ Fault
        BY DEF Settle
    <2> QED BY <2>1 DEF Fault
<1>3. cache \in [Repositories -> Methods \cup {None}] /\ Candidate \in Methods
    <2>1. Candidate \in Methods
        BY <1>1 DEF Candidate
    <2> QED BY <2>1 DEF CacheInv, CacheShapes
<1>4. CASE /\ at' = RepositoryEnds /\ UNCHANGED resolver
           /\ cache' = UpsertAuthCache(Here.repository, Candidate)
           /\ Undisturbed' => /\ BatchTrue
                              /\ \A pr \in Range(work) : pr \notin DOMAIN batch.errors \/
                                     ~Fallback(Judged(batch.errors[pr], ProbeClass(Candidate, Here.repository)))
    <2>1. PICK here, m : here = Here.repository /\ m = Candidate
        OBVIOUS
    <2>2. cache' = [cache EXCEPT ![here] = m] /\ m \in Methods
        BY <1>3, <1>4, <2>1 DEF UpsertAuthCache
    <2>3. /\ cache' \in [Repositories -> Methods \cup {None}]
          /\ \A r \in Repositories : cache'[r] = IF r = here THEN m ELSE cache[r]
        BY <1>3, <2>2, EntryReplaced
    <2>4. ASSUME Undisturbed' PROVE ProbeClass(Candidate, Here.repository) = "none"
        <3>1. Undisturbed
            BY <1>2, <2>4, CredentialsAssumption DEF CredentialsInv, CredentialShapes, Undisturbed
        <3>2. CASE at.probe
            BY <1>1, <3>2 DEF CredentialsInv, Remembers
        <3>3. CASE ~at.probe
            <4>1. work # <<>>
                BY <1>1, <3>3 DEF CacheInv, CacheShapes
            <4>2. PICK pr : pr = work[1]
                OBVIOUS
            <4>3. pr \in Range(work) /\ Repository[pr] = Here.repository
                <5>1. 1 \in DOMAIN work
                    BY <1>1, <4>1
                <5> QED BY <1>1, <4>2, <5>1 DEF Range
            <4>4. BatchTrue /\ Remembers /\ (pr \notin DOMAIN batch.errors \/
                                             ~Fallback(Judged(batch.errors[pr], ProbeClass(Candidate, Here.repository))))
                BY <1>4, <2>4, <4>3 DEF CredentialsInv
            <4>5. pr \in batch.fetched \cup DOMAIN batch.errors
                BY <1>1, <4>3, <4>4 DEF CredentialsInv, BatchCovers, BatchTrue
            <4>6. CASE pr \in DOMAIN batch.errors
                <5>1. PICK probe : probe = ProbeClass(Candidate, Here.repository)
                    OBVIOUS
                <5> QED BY <1>1, <4>3, <4>4, <4>6, <5>1, FinalForAll
            <4>7. CASE pr \in batch.fetched
                <5>1. ItemClass(Candidate, pr) = "none"
                    BY <1>1, <3>1, <4>7 DEF CacheInv, FetchedTrue
                <5> QED BY <4>3, <5>1 DEF ItemClass
            <4> QED BY <4>5, <4>6, <4>7
        <3> QED BY <3>2, <3>3
    <2>5. ASSUME Undisturbed' PROVE CanSee(m, here)
        BY <1>1, <2>1, <2>4, <2>5 DEF CanSee, CacheInv, CacheShapes
    <2>6. Undisturbed' => \A r \in Repositories : cache'[r] # None =>
               \/ CanSee(cache'[r], r)
               \/ cache'[r] = cache[r] /\ (at.host \/ at.probe \/ r # Here.repository)
        BY <2>1, <2>3, <2>5
    <2> QED BY <1>1, <1>2, <1>4, <2>3, <2>6, CacheEnds
<1>5. CASE at' = RepositoryEnds /\ UNCHANGED <<resolver, cache>> /\ ~Undisturbed'
    BY <1>1, <1>2, <1>3, <1>5, CacheEnds
<1>6. CASE \E failedAt \in 1..(Len(work) + 1) : \E class : FallsBack(failedAt, class)
    <2>1. PICK failedAt \in 1..(Len(work) + 1) : \E class : FallsBack(failedAt, class)
        BY <1>6
    <2> PICK class : FallsBack(failedAt, class)
        BY <2>1
    <2>2. /\ at' = AfterFallback /\ cache' = WithoutEntry /\ work' = FromFailed(work, failedAt)
          /\ resolver' = MarkUnauthorized(resolver, Candidate, class)
        BY <2>1 DEF FallsBack
    <2>3. resolver'.opened = resolver.opened
        BY <1>1, <2>2 DEF MarkUnauthorized
    <2>4. Range(FromFailed(work, failedAt)) = {work[j] : j \in failedAt..Len(work)}
        BY <1>1, FromOn
    <2>5. \A j \in failedAt..Len(work) : j \in DOMAIN work
        BY <1>1
    <2>6. Range(work') \subseteq Range(work)
        BY <2>2, <2>4, <2>5 DEF Range
    <2>7. /\ cache' \in [Repositories -> Methods \cup {None}]
          /\ \A r \in Repositories : cache'[r] # None =>
                 cache'[r] = cache[r] /\ (at.host \/ at.probe \/ r # Here.repository)
        BY <2>2, EntryGone
    <2> QED BY <1>1, <1>2, <2>2, <2>3, <2>6, <2>7, CacheAdvance
<1> QED BY <1>4, <1>5, <1>6, SettleEnds

\* Without an entry there is nothing to try.
LEMMA CacheBegin == ASSUME CredentialsInv, CacheInv, Begin PROVE CacheInv'
<1> PICK host : host = (Len(at.left) >= 2 /\ \A r \in Repositories : cache[r] = None)
    OBVIOUS
<1>1. /\ at.pc = "begin" /\ at \in Place /\ ~at.host /\ UNCHANGED <<world, methods, cache, resolver, batch, results, faults>>
      /\ at' = [at EXCEPT !.host = host, !.pc = IF host THEN "candidate" ELSE "repository", !.candidate = 1]
    BY DEF Begin, CredentialsInv, CredentialShapes, Placed
<1>2. at'.pc = (IF host THEN "candidate" ELSE "repository") /\ at'.host = host /\ at'.left = at.left
    BY <1>1 DEF Place
<1>3. ~Asking' /\ (Working' => host)
    BY <1>2 DEF Working, Asking, Attempting
<1>4. CacheShapes'
    BY <1>1, <1>2, <1>3, SameReading DEF CacheInv, CacheShapes, Repositories
<1>5. FetchedTrue'
    BY <1>3 DEF FetchedTrue
<1>6. CASE host
    <2>1. \A r \in Repositories : cache'[r] = None
        BY <1>1, <1>6
    <2>2. VisitedWork'
        BY <2>1 DEF VisitedWork, Repositories
    <2> QED BY <1>4, <1>5, <2>2 DEF CacheInv
<1>7. CASE ~host
    <2>1. Unvisited' = Unvisited
        BY <1>1, <1>2, <1>7 DEF Unvisited, Repos
    <2>2. VisitedWork'
        BY <1>1, <2>1, VisitedKept DEF CacheInv, Undisturbed
    <2> QED BY <1>4, <1>5, <2>2 DEF CacheInv
<1> QED BY <1>6, <1>7

\* the next repository leaves the others for later,
LEMMA CacheNextRepository == ASSUME CredentialsInv, CacheInv, NextRepository PROVE CacheInv'
<1>1. /\ at.pc = "repository" /\ ~at.host /\ at \in Place /\ UNCHANGED <<world, methods, resolver, batch, faults>>
      /\ cache \in [Repositories -> Methods \cup {None}] /\ Unvisited = Repos(at.left)
    BY DEF NextRepository, CredentialsInv, CredentialShapes, Placed, CacheInv, CacheShapes, Unvisited
<1>2. CASE at.left = <<>>
    <2>1. at' = [pc |-> "end", left |-> <<>>, host |-> FALSE, candidate |-> 0, probe |-> FALSE] /\ UNCHANGED cache
        BY <1>2 DEF NextRepository, Nowhere
    <2>2. ~Working' /\ ~Asking'
        BY <2>1 DEF Working, Asking, Attempting
    <2>3. CacheShapes' /\ FetchedTrue'
        BY <1>1, <2>1, <2>2, SameReading DEF CacheInv, CacheShapes, FetchedTrue, Repositories
    <2>4. Unvisited = {}
        BY <1>1, <1>2 DEF Repos
    <2>5. VisitedWork'
        BY <1>1, <2>1, <2>4, VisitedKept DEF CacheInv, Undisturbed
    <2> QED BY <2>3, <2>5 DEF CacheInv
<1>3. CASE at.left # <<>> /\ methods = <<>>
    <2>1. at' = RepositoryEnds /\ UNCHANGED cache
        BY <1>3 DEF NextRepository
    <2> QED BY <1>1, <1>3, <2>1, CacheEnds
<1>4. CASE at.left # <<>> /\ methods # <<>>
    <2> PICK here, cached : here = Here.repository /\ cached = GetAuthCache(Here.repository)
        OBVIOUS
    <2> DEFINE known == cached \in Range(methods)
    <2>1. /\ at'.left = at.left /\ at'.host = at.host /\ at'.probe = ~known /\ at'.pc \in {"open", "candidate"}
          /\ work' = Here.prs
          /\ cache' = IF known THEN cache ELSE [cache EXCEPT ![here] = None]
        BY <1>1, <1>4 DEF NextRepository, Place, DeleteAuthCache
    <2>2. Unvisited = {here} \cup Repos(Tail(at.left)) /\ Here.prs # <<>>
        <3>1. Repos(at.left) = {Head(at.left).repository} \cup Repos(Tail(at.left))
            BY <1>1, <1>4, ReposSplit DEF Place
        <3>2. 1 \in DOMAIN at.left /\ Head(at.left) = at.left[1]
            BY <1>1, <1>4 DEF Place
        <3> QED BY <1>1, <3>1, <3>2 DEF Here, CacheInv, CacheShapes
    <2>3. Unvisited' = Repos(Tail(at.left)) \cup (IF known THEN {here} ELSE {})
        BY <1>1, <2>1 DEF Unvisited, Repos, Here
    <2>4. PICK none : none = None
        OBVIOUS
    <2>5. ~known => /\ cache' \in [Repositories -> Methods \cup {None}]
                    /\ \A r \in Repositories : cache'[r] = IF r = here THEN None ELSE cache[r]
        BY <1>1, <2>1, <2>4, EntryReplaced
    <2> HIDE DEF known
    <2>6. ~Asking'
        BY <2>1 DEF Asking, Attempting
    <2>7. cache' \in [Repositories -> Methods \cup {None}]
        BY <1>1, <2>1, <2>5
    <2>8. CacheShapes'
        BY <1>1, <2>1, <2>2, <2>7, SameReading DEF CacheInv, CacheShapes, Repositories
    <2>9. FetchedTrue'
        BY <2>6 DEF FetchedTrue
    <2>10. \A r \in Repositories : cache'[r] # None => cache'[r] = cache[r] /\ (r \in Unvisited => r \in Unvisited')
        BY <2>1, <2>2, <2>3, <2>5
    <2>11. VisitedWork'
        BY <1>1, <2>10, VisitedKept DEF CacheInv, Undisturbed
    <2> QED BY <2>8, <2>9, <2>11 DEF CacheInv
<1> QED BY <1>2, <1>3, <1>4

\* choosing a method leaves the entries alone,
LEMMA CacheTryCandidate == ASSUME CredentialsInv, CacheInv, TryCandidate PROVE CacheInv'
<1>1. /\ at.pc = "candidate" /\ Working /\ (at.host \/ at.probe)
      /\ UNCHANGED <<world, methods, cache, resolver, work, batch, faults>>
      /\ cache \in [Repositories -> Methods \cup {None}] /\ (~at.host => at.left # <<>>)
      /\ \A m \in resolver.opened : TokenOf(m) # None
    BY DEF TryCandidate, CredentialsInv, Placed, CacheInv, CacheShapes, Working
<1>2. CASE at' = [at EXCEPT !.pc = "open"]
    <2>1. at'.pc = "open" /\ at' = [at EXCEPT !.pc = at'.pc]
        BY <1>2 DEF CredentialsInv, CredentialShapes, Place
    <2>2. ~Asking'
        BY <2>1 DEF Asking, Attempting
    <2> QED BY <1>1, <2>1, <2>2, CacheStays
<1>3. CASE at' = RepositoryEnds
    BY <1>1, <1>3, CacheEnds
<1> QED BY <1>2, <1>3 DEF TryCandidate

\* opening one forgets an entry that cannot be opened,
LEMMA CacheOpen == ASSUME CredentialsInv, CacheInv, Open PROVE CacheInv'
<1>1. /\ at.pc = "open" /\ Working /\ at.candidate \in DOMAIN methods
      /\ UNCHANGED <<world, methods, work, results, faults>>
      /\ \A m \in resolver.opened : TokenOf(m) # None
    BY DEF Open, CredentialsInv, Placed, CacheInv, CacheShapes, Working
<1>2. CASE CanOpen(Candidate)
    <2>1. /\ resolver' = Opened(Candidate) /\ at' = [at EXCEPT !.pc = IF at.probe THEN "probe" ELSE "graphql"]
          /\ batch' = [NoBatch EXCEPT !.from = 1] /\ UNCHANGED cache
        BY <1>2 DEF Open
    <2>2. at'.pc \in {"open", "probe", "graphql", "rest", "fetched"} /\ at' = [at EXCEPT !.pc = at'.pc]
        BY <2>1 DEF CredentialsInv, CredentialShapes, Place
    <2>3. batch'.fetched = {}
        BY <2>1 DEF NoBatch
    <2>4. resolver'.opened = resolver.opened \cup {Candidate}
        BY <2>1 DEF Opened, CredentialsInv, CredentialShapes
    <2>5. \A m \in resolver'.opened : TokenOf(m) # None
        BY <1>1, <1>2, <2>4 DEF CanOpen
    <2> QED BY <1>1, <2>1, <2>2, <2>3, <2>5, CacheStays
<1>3. CASE ~CanOpen(Candidate)
    <2>1. at' = AfterFallback /\ cache' = WithoutEntry /\ UNCHANGED resolver
        BY <1>3 DEF Open
    <2>2. /\ cache' \in [Repositories -> Methods \cup {None}]
          /\ \A r \in Repositories : cache'[r] # None =>
                 cache'[r] = cache[r] /\ (at.host \/ at.probe \/ r # Here.repository)
        BY <2>1, EntryGone
    <2> QED BY <1>1, <2>1, <2>2, CacheAdvance
<1> QED BY <1>2, <1>3

\* and probing one.
LEMMA CacheProbe == ASSUME CredentialsInv, CacheInv, Probe PROVE CacheInv'
<1>1. /\ at.pc = "probe" /\ Working /\ Asking /\ at.probe /\ ~at.host /\ at.left # <<>>
      /\ UNCHANGED <<world, methods, batch>> /\ at.candidate \in DOMAIN methods
      /\ work \in Seq(AllPullRequests) /\ DOMAIN resolver = {"unauthorized", "opened", "tried"}
      /\ cache \in [Repositories -> Methods \cup {None}] /\ \A m \in resolver.opened : TokenOf(m) # None
    BY DEF Probe, CredentialsInv, CredentialShapes, Placed, CacheInv, CacheShapes, Working, Asking, Attempting, Place
<1>2. PICK class \in {ProbeClass(Candidate, Here.repository)} \cup FaultClasses :
         /\ IF class \in FaultClasses THEN Fault ELSE UNCHANGED faults
         /\ CASE class = "none" -> at' = [at EXCEPT !.pc = "graphql"] /\ UNCHANGED <<work, cache, resolver, results>>
              [] class \in FaultClasses -> GivesUp(1, class)
              [] OTHER -> FallsBack(1, class) /\ UNCHANGED results
    BY DEF Probe
<1>3. faults' = faults \/ (faults > 0 /\ faults' = faults - 1)
    BY <1>2 DEF Fault
<1>4. Undisturbed' => Undisturbed
    BY <1>3, CredentialsAssumption DEF CredentialsInv, CredentialShapes, Undisturbed
<1>5. CASE class = "none"
    <2>1. at' = [at EXCEPT !.pc = "graphql"] /\ UNCHANGED <<work, cache, resolver>>
        BY <1>2, <1>5 DEF FaultClasses
    <2>2. at'.pc = "graphql" /\ at' = [at EXCEPT !.pc = at'.pc]
        BY <2>1 DEF CredentialsInv, CredentialShapes, Place
    <2>3. Undisturbed' => \A pr \in batch'.fetched : ItemClass(Candidate, pr) = "none"
        BY <1>1, <1>4 DEF CacheInv, FetchedTrue
    <2> QED BY <1>1, <1>3, <2>1, <2>2, <2>3, CacheStays
<1>6. CASE class \in FaultClasses
    <2>1. GivesUp(1, class)
        BY <1>2, <1>6 DEF FaultClasses
    <2>2. at' = RepositoryEnds /\ UNCHANGED <<work, cache, resolver>>
        BY <2>1 DEF GivesUp
    <2> QED BY <1>1, <1>3, <2>2, CacheEnds
<1>7. CASE class # "none" /\ class \notin FaultClasses
    <2>1. FallsBack(1, class)
        BY <1>2, <1>7
    <2>2. /\ at' = AfterFallback /\ cache' = WithoutEntry /\ work' = FromFailed(work, 1)
          /\ resolver' = MarkUnauthorized(resolver, Candidate, class)
        BY <2>1 DEF FallsBack
    <2>3. resolver'.opened = resolver.opened
        BY <1>1, <2>2 DEF MarkUnauthorized
    <2>4. 1 \in 1..(Len(work) + 1) /\ \A j \in 1..Len(work) : j \in DOMAIN work
        BY <1>1
    <2>5. Range(FromFailed(work, 1)) = {work[j] : j \in 1..Len(work)}
        BY <1>1, <2>4, FromOn
    <2>6. Range(work') \subseteq Range(work)
        BY <2>2, <2>4, <2>5 DEF Range
    <2>7. /\ cache' \in [Repositories -> Methods \cup {None}]
          /\ \A r \in Repositories : cache'[r] # None =>
                 cache'[r] = cache[r] /\ (at.host \/ at.probe \/ r # Here.repository)
        BY <2>2, EntryGone
    <2> QED BY <1>1, <1>3, <2>2, <2>3, <2>6, <2>7, CacheAdvance
<1> QED BY <1>5, <1>6, <1>7

\* A request that is answered: what it brings the candidate can read.
LEMMA CacheAsked ==
    ASSUME CredentialsInv, CacheInv, at.pc \in {"graphql", "rest"}, NEW asked, NEW broken, NEW class, NEW size,
           FetchStep([Answers(batch, asked, broken, class) EXCEPT !.from = @ + size]), UNCHANGED at,
           (broken = {} /\ faults' = faults) \/ (faults > 0 /\ faults' = faults - 1)
    PROVE  CacheInv'
<1>1. /\ DOMAIN batch = {"from", "fetched", "partial", "errors", "error"} /\ batch.partial \subseteq DOMAIN batch.errors
      /\ Asking /\ Working /\ faults \in 0..MaxFaults /\ \A m \in resolver.opened : TokenOf(m) # None
    BY DEF CredentialsInv, CredentialShapes, BatchCovers, CacheInv, CacheShapes, Working, Asking, Attempting
<1>2. PICK ans : ans = Answers(batch, asked, broken, class)
    OBVIOUS
<1>3. /\ DOMAIN ans = {"from", "fetched", "partial", "errors", "error"}
      /\ broken = {} => \A pr \in ans.fetched : pr \in batch.fetched \/ ItemClass(Candidate, pr) = "none"
    BY <1>1, <1>2, AnswersHold
<1>4. UNCHANGED <<world, methods, cache, resolver, work, results>> /\ batch' = [ans EXCEPT !.from = @ + size]
    BY <1>2 DEF FetchStep
<1>5. batch'.fetched = ans.fetched
    BY <1>3, <1>4
<1>6. ASSUME Undisturbed' PROVE \A pr \in batch'.fetched : ItemClass(Candidate, pr) = "none"
    <2>1. broken = {} /\ Undisturbed
        BY <1>1, <1>6, CredentialsAssumption DEF Undisturbed
    <2> QED BY <1>1, <1>3, <1>5, <2>1 DEF CacheInv, FetchedTrue
<1>7. at' = [at EXCEPT !.pc = at'.pc] /\ at'.pc \in {"open", "probe", "graphql", "rest", "fetched"}
    BY DEF CredentialsInv, CredentialShapes, Place
<1>8. faults' = faults \/ (faults > 0 /\ faults' = faults - 1)
    OBVIOUS
<1> QED BY <1>1, <1>4, <1>6, <1>7, <1>8, CacheStays

\* What a chunk brought, the method can read;
LEMMA CacheGraphQLChunk == ASSUME CredentialsInv, CacheInv, GraphQLChunk PROVE CacheInv'
<1>1. at.pc \in {"graphql", "rest"} /\ UNCHANGED at
    BY DEF GraphQLChunk
<1>2. PICK asked : asked = Chunk
    OBVIOUS
<1>3. CASE FetchStep([Answers(batch, asked, {}, "none") EXCEPT !.from = @ + ChunkSize]) /\ UNCHANGED faults
    BY <1>1, <1>3, CacheAsked
<1>4. CASE \E pr \in asked, class \in FaultClasses :
               Fault /\ FetchStep([Answers(batch, asked, {pr}, class) EXCEPT !.from = @ + ChunkSize])
    <2>1. PICK pr \in asked, class \in FaultClasses :
               Fault /\ FetchStep([Answers(batch, asked, {pr}, class) EXCEPT !.from = @ + ChunkSize])
        BY <1>4
    <2> QED BY <1>1, <2>1, CacheAsked DEF Fault
<1> QED BY <1>2, <1>3, <1>4 DEF GraphQLChunk

\* so with REST.
LEMMA CacheRESTItem == ASSUME CredentialsInv, CacheInv, RESTItem PROVE CacheInv'
<1>1. at.pc \in {"graphql", "rest"} /\ UNCHANGED at
    BY DEF RESTItem
<1>2. PICK asked, one : asked = {work[batch.from]} /\ one = 1
    OBVIOUS
<1>3. CASE FetchStep([Answers(batch, asked, {}, "none") EXCEPT !.from = @ + one]) /\ UNCHANGED faults
    BY <1>1, <1>3, CacheAsked
<1>4. CASE \E class \in FaultClasses : Fault /\ FetchStep([Answers(batch, asked, asked, class) EXCEPT !.from = @ + one])
    <2>1. PICK class \in FaultClasses : Fault /\ FetchStep([Answers(batch, asked, asked, class) EXCEPT !.from = @ + one])
        BY <1>4
    <2> QED BY <1>1, <2>1, CacheAsked DEF Fault
<1> QED BY <1>2, <1>3, <1>4 DEF RESTItem

\* The other ends of a fetch bring nothing new.
LEMMA CacheFetchEnds ==
    ASSUME CredentialsInv, CacheInv, GraphQLFails \/ GraphQLRefused \/ FetchEnds
    PROVE  CacheInv'
<1>1. /\ Asking /\ Working /\ at \in Place /\ faults \in 0..MaxFaults /\ \A m \in resolver.opened : TokenOf(m) # None
      /\ at' = [at EXCEPT !.pc = at'.pc] /\ at'.pc \in {"rest", "fetched"}
    BY DEF GraphQLFails, GraphQLRefused, FetchEnds, CredentialsInv, CredentialShapes, CacheInv, CacheShapes, Place,
           Working, Asking, Attempting
<1>2. UNCHANGED <<world, methods, cache, resolver, work>>
    BY DEF GraphQLFails, GraphQLRefused, FetchEnds, FetchStep
<1>3. faults' = faults \/ (faults > 0 /\ faults' = faults - 1)
    <2>1. UNCHANGED faults \/ Fault
        BY DEF GraphQLFails, GraphQLRefused, FetchEnds
    <2> QED BY <2>1 DEF Fault
<1>4. ASSUME Undisturbed' PROVE batch'.fetched = {} \/ (Undisturbed /\ batch' = batch)
    <2>1. Undisturbed /\ ~Fault
        BY <1>1, <1>3, <1>4, CredentialsAssumption DEF Undisturbed, Fault
    <2>2. CASE GraphQLRefused
        <3>1. batch' = [from |-> 1, fetched |-> {}, partial |-> {}, errors |-> <<>>, error |-> "none"]
            BY <2>2 DEF GraphQLRefused, FetchStep, NoBatch
        <3> QED BY <3>1
    <2>3. CASE FetchEnds
        BY <2>1, <2>3 DEF FetchEnds
    <2> QED BY <2>1, <2>2, <2>3 DEF GraphQLFails
<1>5. Undisturbed' => \A pr \in batch'.fetched : ItemClass(Candidate, pr) = "none"
    BY <1>1, <1>4 DEF CacheInv, FetchedTrue
<1> QED BY <1>1, <1>2, <1>3, <1>5, CacheStays

\* Settling a batch by host keeps the invariant of the entries, whichever it writes.
LEMMA CacheSettleHost == ASSUME CredentialsInv, CacheInv, SettleHost PROVE CacheInv'
<1>1. /\ at.pc = "fetched" /\ Working /\ Asking /\ at.host /\ UNCHANGED <<world, methods, resolver, batch, faults>>
      /\ at.candidate \in DOMAIN methods /\ work \in Seq(AllPullRequests) /\ methods \in Seq(Methods)
      /\ cache \in [Repositories -> Methods \cup {None}]
      /\ Candidate \in resolver.opened /\ \A m \in resolver.opened : TokenOf(m) # None
    BY DEF SettleHost, CredentialsInv, CredentialShapes, Placed, Remembers, CacheInv, CacheShapes, Working, Asking, Attempting
<1> PICK kept : kept = {pr \in Range(work) \ batch.fetched : pr \notin DOMAIN batch.errors \/ Fallback(batch.errors[pr])}
    OBVIOUS
<1> PICK again : again = Among(work, kept)
    OBVIOUS
<1>2. /\ at' = RepositoryEnds \/ at' = NextCandidate
      /\ work' = again
      /\ cache' = [r \in Repositories |->
                      IF \E pr \in batch.fetched : Repository[pr] = r THEN Candidate ELSE cache[r]]
    BY DEF SettleHost
<1>3. Range(work') \subseteq Range(work)
    <2>1. Range(Among(work, kept)) = Range(work) \cap kept
        BY <1>1, AmongThem
    <2> QED BY <1>2, <2>1
<1>4. Candidate \in Range(methods) /\ Candidate \in Methods
    BY <1>1 DEF Candidate, Range
<1>5. cache' \in [Repositories -> Methods \cup {None}]
    <2> PICK m : m = Candidate
        OBVIOUS
    <2>1. cache' = [r \in Repositories |-> IF \E pr \in batch.fetched : Repository[pr] = r THEN m ELSE cache[r]]
        BY <1>2
    <2> QED BY <1>1, <1>4, <2>1
<1>6. ASSUME Undisturbed', NEW r \in Repositories PROVE CanSee(cache'[r], r) \/ cache'[r] = cache[r]
    <2>1. CASE \E pr \in batch.fetched : Repository[pr] = r
        <3>1. PICK pr \in batch.fetched : Repository[pr] = r
            BY <2>1
        <3>2. ItemClass(Candidate, pr) = "none"
            BY <1>1, <1>6 DEF CacheInv, FetchedTrue, Undisturbed
        <3>3. ProbeClass(Candidate, r) = "none"
            BY <3>1, <3>2 DEF ItemClass
        <3>4. CanSee(Candidate, r)
            BY <1>1, <1>4, <3>3 DEF CanSee
        <3>5. cache'[r] = Candidate
            BY <1>2, <2>1
        <3> QED BY <3>4, <3>5
    <2>2. CASE ~\E pr \in batch.fetched : Repository[pr] = r
        BY <1>2, <2>2
    <2> QED BY <2>1, <2>2
<1>7. Undisturbed' => \A r \in Repositories : cache'[r] # None =>
          \/ CanSee(cache'[r], r)
          \/ cache'[r] = cache[r] /\ (at.host \/ at.probe \/ r # Here.repository)
    BY <1>1, <1>6
<1>8. CASE at' = RepositoryEnds
    BY <1>1, <1>5, <1>7, <1>8, CacheEnds
<1>9. CASE at' = NextCandidate
    <2>1. at' = AfterFallback
        BY <1>1, <1>9 DEF AfterFallback, Cached
    <2> QED BY <1>1, <1>3, <1>5, <1>7, <2>1, CacheAdvance
<1> QED BY <1>2, <1>8, <1>9

\* The invariant of the entries holds at first,
LEMMA CacheStart == CredentialsInit => CacheInv
<1> SUFFICES ASSUME CredentialsInit PROVE CacheInv
    OBVIOUS
<1>1. /\ resolver = [unauthorized |-> {}, opened |-> {}, tried |-> {}]
      /\ at = [pc |-> "begin", left |-> Listed, host |-> FALSE, candidate |-> 1, probe |-> FALSE]
    BY DEF CredentialsInit
<1>2. cache \in [Repositories -> Methods \cup {None}]
    BY CredentialsAssumption DEF CredentialsInit, Repositories
<1>3. ~Working /\ ~Asking
    BY <1>1 DEF Working, Asking, Attempting
<1>4. CacheShapes /\ FetchedTrue
    BY <1>1, <1>2, <1>3, CredentialsAssumption DEF CacheShapes, FetchedTrue
<1>5. ASSUME NEW r \in Repositories PROVE r \in Repos(Listed)
    <2>1. PICK pr \in DOMAIN Repository : r = Repository[pr]
        BY DEF Repositories, Range
    <2>2. PICK i \in DOMAIN Listed : pr \in Range(Listed[i].prs)
        BY CredentialsAssumption
    <2> QED BY <2>1, <2>2, CredentialsAssumption DEF Repos
<1>6. Unvisited = Repos(Listed)
    BY <1>1 DEF Unvisited
<1> QED BY <1>4, <1>5, <1>6 DEF CacheInv, VisitedWork

\* and every step keeps it.
LEMMA CacheStep == CredentialsInv /\ CacheInv /\ [CredentialsNext]_credentialsVars => CacheInv'
<1> SUFFICES ASSUME CredentialsInv, CacheInv, [CredentialsNext]_credentialsVars PROVE CacheInv'
    OBVIOUS
<1>1. CASE Begin
    BY <1>1, CacheBegin
<1>2. CASE NextRepository
    BY <1>2, CacheNextRepository
<1>3. CASE TryCandidate
    BY <1>3, CacheTryCandidate
<1>4. CASE Open
    BY <1>4, CacheOpen
<1>5. CASE Probe
    BY <1>5, CacheProbe
<1>6. CASE GraphQLChunk
    BY <1>6, CacheGraphQLChunk
<1>7. CASE GraphQLFails \/ GraphQLRefused \/ FetchEnds
    BY <1>7, CacheFetchEnds
<1>8. CASE RESTItem
    BY <1>8, CacheRESTItem
<1>9. CASE Settle
    BY <1>9, CacheSettle
<1>10. CASE SettleHost
    BY <1>10, CacheSettleHost
<1>11. CASE UNCHANGED credentialsVars
    <2>1. UNCHANGED <<world, methods, cache, resolver, at, work, batch, results, faults>>
        BY <1>11 DEF credentialsVars
    <2>2. Asking' = Asking /\ Working' = Working /\ Candidate' = Candidate /\ Undisturbed' = Undisturbed
        BY <2>1 DEF Asking, Attempting, Working, Candidate, Undisturbed
    <2>3. Unvisited' = Unvisited
        BY <2>1 DEF Unvisited, Repos, Here
    <2>4. \A m : TokenOf(m)' = TokenOf(m)
        BY <2>1, SameReading
    <2>5. CacheShapes'
        BY <2>1, <2>2, <2>4 DEF CacheInv, CacheShapes, Repositories
    <2>6. \A pr : ItemClass(Candidate, pr)' = ItemClass(Candidate, pr)
        BY <2>1, <2>2 DEF ItemClass, ProbeClass, Revoked, Access, TokenOf
    <2>7. FetchedTrue'
        BY <2>1, <2>2, <2>6 DEF CacheInv, FetchedTrue
    <2>8. VisitedWork'
        BY <2>1, <2>2, <2>3, VisitedKept DEF CacheInv
    <2> QED BY <2>5, <2>7, <2>8 DEF CacheInv
<1> QED BY <1>1, <1>2, <1>3, <1>4, <1>5, <1>6, <1>7, <1>8, <1>9, <1>10, <1>11 DEF CredentialsNext

\* What a refresh remembers of a repository is, without faults of the network, a method
\* that sees it: an entry of before either works, and is confirmed, or makes room, and a
\* new one is of a method that has just read something there.
THEOREM CacheAlwaysWorks == CredentialsSpec => []CacheWorks
<1>1. CredentialsInit => CredentialsInv /\ CacheInv
    BY CredentialsStart, CacheStart
<1>2. CredentialsInv /\ CacheInv /\ [CredentialsNext]_credentialsVars => (CredentialsInv /\ CacheInv)'
    BY CredentialsStep, CacheStep
<1>3. CredentialsInv /\ CacheInv => CacheWorks
    <2> SUFFICES ASSUME CacheInv, Ended, Undisturbed, methods # <<>>, NEW r \in Repositories, cache[r] # None
                 PROVE  CanSee(cache[r], r)
        BY DEF CacheWorks
    <2>1. Unvisited = {}
        BY DEF Unvisited, Ended
    <2> QED BY <2>1 DEF CacheInv, VisitedWork
<1> QED BY <1>1, <1>2, <1>3, PTL DEF CredentialsSpec

\* However the methods fail and wherever a batch breaks off, a refresh ends with an
\* update or a reason for every pull request, and for no other; and without faults of
\* the network, one that some method can read in full ends with an update.
THEOREM EveryOutcomeAlways == CredentialsSpec => []EveryOutcome
<1>1. CredentialsInit => CredentialsInv /\ OnlyKnown
    BY CredentialsStart DEF CredentialsInit, OnlyKnown, NoBatch, Unfetched
<1>2. CredentialsInv /\ OnlyKnown /\ [CredentialsNext]_credentialsVars => (CredentialsInv /\ OnlyKnown)'
    BY CredentialsStep, OnlyKnownStep
<1>3. CredentialsInv /\ OnlyKnown => EveryOutcome
    <2> SUFFICES ASSUME CredentialsInv, OnlyKnown, Ended PROVE EveryOutcome
        BY DEF EveryOutcome
    <2>1. Pending = {} /\ AllPullRequests \subseteq results.fetched \cup DOMAIN results.failures
        BY DEF CredentialsInv, Covered, Pending, Ended
    <2>2. Undisturbed => \A pr \in AllPullRequests : Readable(pr) => pr \in results.fetched
        BY <2>1 DEF CredentialsInv, Truthful, ReadableFetched
    <2>3. results.fetched \cup DOMAIN results.failures = AllPullRequests
        BY <2>1 DEF OnlyKnown
    <2> QED BY <2>2, <2>3 DEF EveryOutcome, Readable
<1> QED BY <1>1, <1>2, <1>3, PTL DEF CredentialsSpec
===============================================================================
