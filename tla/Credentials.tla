------------------------------ MODULE Credentials ------------------------------
(***************************************************************************)
(* Which credential answers: one refresh of the pull requests of one host, *)
(* from the order of the credential methods to an outcome for every pull   *)
(* request (internal/app/github_sync.go over internal/github: resolver.go, *)
(* graphql.go, provider.go, errors.go).  PullRequestSync starts from the   *)
(* outcomes and writes them to the database.                               *)
(*                                                                         *)
(* Repositories of a host that has several of them and no cached method    *)
(* are fetched together; the others one by one, the cached method first.   *)
(* A fetch is a sequence of GraphQL chunks; a status of HTTP that refuses  *)
(* one sends the whole fetch to REST.                                      *)
(***************************************************************************)
EXTENDS Naturals, Sequences, FiniteSets, Functions

CONSTANTS
    Methods,        \* credential methods that may be configured
    Tokens,         \* what they yield
    None,           \* no token; no cached method
    Listed,         \* the repositories in order, each with its pull requests
    Repository,     \* by pull request
    Together,       \* the pull requests of all repositories, one after another
    ChunkSize,      \* graphQLBatchSize
    Worlds,         \* what may be the case at GitHub and in the environment
    MaxFaults       \* requests that may fail by themselves

ASSUME CredentialsAssumption ==
    /\ ChunkSize \in Nat \ {0} /\ MaxFaults \in Nat
    /\ Listed \in Seq([repository : Range(Repository), prs : Seq(DOMAIN Repository)])
    /\ \A i \in DOMAIN Listed : /\ Listed[i].prs # <<>>
                               /\ \A pr \in Range(Listed[i].prs) : Repository[pr] = Listed[i].repository
    /\ Together \in Seq(DOMAIN Repository) /\ Range(Together) = DOMAIN Repository
    /\ DOMAIN Repository = UNION {Range(Listed[i].prs) : i \in DOMAIN Listed}
    /\ None \notin Methods
    /\ \A w \in Worlds : w.methods \in Seq(Methods) /\ w.cache \in [Range(Repository) -> Methods \cup {None}]

VARIABLES
    world,      \* token of a method, revoked tokens, access to repositories, state of pull requests
    methods,    \* the candidates, in order
    cache,      \* repository_auth_cache: by repository, the method that worked
    resolver,   \* methods marked unauthorized, opened ones, tokens tried
    at,         \* pc, repositories left, host batch or not, candidate, probing
    work,       \* the pull requests that still need an answer
    batch,      \* BatchResult so far, and where the next request starts
    results,    \* by pull request: fetched, its partial answer, its failure
    faults

credentialsVars == <<world, methods, cache, resolver, at, work, batch, results, faults>>

AllPullRequests == DOMAIN Repository
Repositories == Range(Repository)

\* isFallbackClass: another credential may do better.
Fallback(class) == class \in {"auth_unavailable", "unauthorized", "permission", "not_found"}
FaultClasses == {"rate_limit", "transient"}

NoBatch == [from |-> 0, fetched |-> {}, partial |-> {}, errors |-> <<>>, error |-> "none"]

\* Failures are set in a map; one written later wins.
Over(new, old) == [pr \in DOMAIN new \cup DOMAIN old |-> IF pr \in DOMAIN new THEN new[pr] ELSE old[pr]]
Fails(failures, prs, class) == Over([pr \in prs |-> class], failures)
Remaining(prs, failedAt) == {prs[i] : i \in (IF failedAt \in DOMAIN prs THEN failedAt ELSE 1)..Len(prs)}

Unavailable(failures, prs) == Over(failures, [pr \in Range(prs) |-> "no_method"])

\* The first of some indexes; the elements of a sequence that are in a set.
FirstOf(indexes, none) == IF indexes = {} THEN none ELSE CHOOSE i \in indexes : \A j \in indexes : i <= j
Among(prs, kept) ==
    LET chosen == {i \in DOMAIN prs : prs[i] \in kept}
        Before(i) == {j \in chosen : j <= i}
    IN  [n \in 1..Cardinality(chosen) |-> prs[CHOOSE i \in chosen : Cardinality(Before(i)) = n]]

------------------------------------------------------------------------------
\* Resolver

TokenOf(m) == world.token[m]

\* Open: marked methods, missing tokens and tokens tried before for the host are
\* unavailable; one that was opened is used again.
CanOpen(m) ==
    /\ m \notin resolver.unauthorized
    /\ m \in resolver.opened \/ TokenOf(m) \notin resolver.tried \cup {None}

Opened(m) == [resolver EXCEPT !.opened = @ \cup {m}, !.tried = @ \cup {TokenOf(m)}]
MarkUnauthorized(r, m, class) == IF class = "unauthorized" THEN [r EXCEPT !.unauthorized = @ \cup {m}] ELSE r

------------------------------------------------------------------------------
\* What GitHub says to a method

Access(m, repo) == world.access[TokenOf(m)][repo]
Revoked(m) == TokenOf(m) \in world.revoked

\* Repositories.Get
ProbeClass(m, repo) ==
    IF Revoked(m) THEN "unauthorized" ELSE IF Access(m, repo) = "none" THEN "not_found" ELSE "none"

\* One pull request: without an error, or with one.  A token without the rights
\* to checks reads the core of an open one only; an ended one has no more.
ItemClass(m, pr) ==
    LET probe == ProbeClass(m, Repository[pr])
    IN  IF probe # "none" THEN probe
        ELSE IF world.state[pr] = "missing" THEN "not_found"
        ELSE IF world.state[pr] = "open" /\ Access(m, Repository[pr]) = "core" THEN "permission"
        ELSE "none"

CoreSeen(m, pr) == ProbeClass(m, Repository[pr]) = "none" /\ world.state[pr] # "missing"

\* An open pull request whose reviews or checks fail in the middle of a page.
Faulty(m, pr) == CoreSeen(m, pr) /\ world.state[pr] = "open"
Fault == faults > 0 /\ faults' = faults - 1

------------------------------------------------------------------------------
\* FetchBatch, one request a step

Candidate == methods[at.candidate]
Chunk == {work[i] : i \in DOMAIN work \cap batch.from..(batch.from + ChunkSize - 1)}

\* The answers to some pull requests, each an update or an error, and with an error the
\* core where it was read; `broken' are those that fail by themselves.
Answers(b, prs, broken, class) ==
    LET said == [pr \in prs |-> IF pr \in broken THEN class ELSE ItemClass(Candidate, pr)]
        refused == {pr \in prs : said[pr] # "none"}
    IN  [b EXCEPT !.fetched = @ \cup (prs \ refused),
                  !.errors = Over([pr \in refused |-> said[pr]], @),
                  !.partial = @ \cup {pr \in refused : CoreSeen(Candidate, pr)}]

FetchStep(b) ==
    /\ batch' = b
    /\ UNCHANGED <<world, methods, cache, resolver, work, results>>

GraphQLChunk ==
    /\ at.pc = "graphql" /\ batch.from \in DOMAIN work /\ ~Revoked(Candidate)
    /\ \/ FetchStep([Answers(batch, Chunk, {}, "none") EXCEPT !.from = @ + ChunkSize]) /\ UNCHANGED faults
       \/ \E pr \in Chunk, class \in FaultClasses :
            /\ Faulty(Candidate, pr) /\ Fault
            /\ FetchStep([Answers(batch, Chunk, {pr}, class) EXCEPT !.from = @ + ChunkSize])
    /\ UNCHANGED at

\* The network fails, or the answer is an error without a place: the fetch ends
\* with the error and what earlier chunks brought.
GraphQLFails ==
    /\ at.pc = "graphql" /\ batch.from \in DOMAIN work
    /\ \E class \in FaultClasses \cup {"permission"} : Fault /\ FetchStep([batch EXCEPT !.error = class])
    /\ at' = [at EXCEPT !.pc = "fetched"]

\* A status from 400 on: everything again, over REST.
GraphQLRefused ==
    /\ at.pc = "graphql" /\ batch.from \in DOMAIN work
    /\ IF Revoked(Candidate) THEN UNCHANGED faults ELSE Fault
    /\ FetchStep([NoBatch EXCEPT !.from = 1])
    /\ at' = [at EXCEPT !.pc = "rest"]

\* Fetch: every error is an item's.
RESTItem ==
    /\ at.pc = "rest" /\ batch.from \in DOMAIN work
    /\ LET asked == {work[batch.from]}
       IN  \/ FetchStep([Answers(batch, asked, {}, "none") EXCEPT !.from = @ + 1]) /\ UNCHANGED faults
           \/ \E class \in FaultClasses :
                Fault /\ FetchStep([Answers(batch, asked, asked, class) EXCEPT !.from = @ + 1])
    /\ UNCHANGED at

FetchEnds ==
    /\ at.pc \in {"graphql", "rest"} /\ batch.from \notin DOMAIN work
    /\ at' = [at EXCEPT !.pc = "fetched"]
    /\ UNCHANGED <<world, methods, cache, resolver, work, batch, results, faults>>

------------------------------------------------------------------------------
\* The order of work

Unfetched == [fetched |-> {}, partial |-> {}, failures |-> <<>>]
Nowhere == [pc |-> "end", left |-> <<>>, host |-> FALSE, candidate |-> 0, probe |-> FALSE]

\* syncUncachedHostGroups, then syncRepositoryGroups.
Begin ==
    /\ at.pc = "begin"
    /\ LET host == Len(at.left) >= 2 /\ \A r \in Repositories : cache[r] = None
       IN  /\ at' = [at EXCEPT !.host = host, !.pc = IF host THEN "candidate" ELSE "repository", !.candidate = 1]
           /\ work' = IF host THEN Together ELSE <<>>
    /\ UNCHANGED <<world, methods, cache, resolver, batch, results, faults>>

Here == Head(at.left)

\* The next candidate, or the end of this host or repository.
\* A slip one could make: try the same one again.
SameCandidate == [at EXCEPT !.pc = "candidate", !.probe = ~at.host]
NextCandidate == [at EXCEPT !.pc = "candidate", !.candidate = @ + 1, !.probe = ~at.host]
RepositoryEnds == IF at.host THEN Nowhere
                  ELSE [at EXCEPT !.pc = "repository", !.left = Tail(@), !.candidate = 1]

\* The cached method of a repository, and the cache with one or without.
GetAuthCache(r) == cache[r]
UpsertAuthCache(r, m) == [cache EXCEPT ![r] = m]
DeleteAuthCache(r) == [cache EXCEPT ![r] = None]

\* syncRepository: without methods all fail, a cached one goes first and without
\* a probe, a cached one that is not configured any more is forgotten.
NextRepository ==
    /\ at.pc = "repository"
    /\ IF at.left = <<>>
       THEN at' = Nowhere /\ UNCHANGED <<work, cache, results>>
       ELSE /\ work' = Here.prs
            /\ LET cached == GetAuthCache(Here.repository)
               IN  IF methods = <<>>
                   THEN /\ results' = [results EXCEPT !.failures = Fails(@, Range(Here.prs), "no_method")]
                        /\ at' = RepositoryEnds /\ UNCHANGED cache
                   ELSE /\ cache' = IF cached \in Range(methods) THEN cache
                                    ELSE DeleteAuthCache(Here.repository)
                        /\ at' = IF cached \in Range(methods)
                                 THEN [at EXCEPT !.pc = "open", !.probe = FALSE,
                                                 !.candidate = FirstOf({i \in DOMAIN methods : methods[i] = cached}, 0)]
                                 ELSE [at EXCEPT !.pc = "candidate", !.candidate = 1, !.probe = TRUE]
                        /\ UNCHANGED results
    /\ UNCHANGED <<world, methods, resolver, batch, faults>>

\* The loop over the candidates ends without work or without a candidate.
TryCandidate ==
    /\ at.pc = "candidate"
    /\ IF work # <<>> /\ at.candidate \in DOMAIN methods
       THEN at' = [at EXCEPT !.pc = "open"] /\ UNCHANGED results
       ELSE at' = RepositoryEnds /\ results' = [results EXCEPT !.failures = Unavailable(@, work)]
    /\ UNCHANGED <<world, methods, cache, resolver, work, batch, faults>>

\* A cached method that cannot be used makes room for the others.
Cached == ~at.host /\ ~at.probe
FirstCandidate == [at EXCEPT !.pc = "candidate", !.candidate = 1, !.probe = TRUE]
\* A slip one could make: leave the entry, a later success replaces it.
LeftAlone == cache
WithoutEntry == IF Cached THEN DeleteAuthCache(Here.repository) ELSE cache
AfterFallback == IF Cached THEN FirstCandidate ELSE NextCandidate

Open ==
    /\ at.pc = "open"
    /\ IF CanOpen(Candidate)
       THEN /\ resolver' = Opened(Candidate)
            /\ at' = [at EXCEPT !.pc = IF at.probe THEN "probe" ELSE "graphql"]
            /\ batch' = [NoBatch EXCEPT !.from = 1] /\ UNCHANGED cache
       ELSE /\ at' = AfterFallback /\ cache' = WithoutEntry
            /\ UNCHANGED <<resolver, batch>>
    /\ UNCHANGED <<world, methods, work, results, faults>>

\* addRemainingFailures ends the repository.
GivesUp(failedAt, class) ==
    /\ results' = [results EXCEPT !.failures = Fails(@, Remaining(work, failedAt), class)]
    /\ at' = RepositoryEnds
    /\ UNCHANGED <<work, cache, resolver>>

\* A slip one could make: go on after the pull request that failed.
SkipFailed(prs, failedAt) == SubSeq(prs, failedAt + 1, Len(prs))
FromFailed(prs, failedAt) == SubSeq(prs, failedAt, Len(prs))

FallsBack(failedAt, class) ==
    /\ resolver' = MarkUnauthorized(resolver, Candidate, class)
    /\ work' = FromFailed(work, failedAt)
    /\ cache' = WithoutEntry /\ at' = AfterFallback

Probe ==
    /\ at.pc = "probe"
    /\ \E class \in {ProbeClass(Candidate, Here.repository)} \cup FaultClasses :
         /\ IF class \in FaultClasses THEN Fault ELSE UNCHANGED faults
         /\ CASE class = "none" -> at' = [at EXCEPT !.pc = "graphql"] /\ UNCHANGED <<work, cache, resolver, results>>
              [] class \in FaultClasses -> GivesUp(1, class)
              [] OTHER -> FallsBack(1, class) /\ UNCHANGED results
    /\ UNCHANGED <<world, methods, batch>>

------------------------------------------------------------------------------
\* What a fetch means for the rest

\* attemptCandidate, the class of an item: without an earlier probe, "not found"
\* is checked against the repository.
Judged(class, probe) ==
    IF class # "not_found" THEN class
    ELSE IF at.probe \/ probe = "none" THEN "missing" ELSE probe

Unresolved == {i \in DOMAIN work : work[i] \notin batch.fetched \cup batch.partial \cup DOMAIN batch.errors}

\* syncRepository with one attempt: the pull requests before the first one that
\* another credential may answer are settled.
Settle ==
    /\ at.pc = "fetched" /\ ~at.host
    /\ \E probe \in {ProbeClass(Candidate, Here.repository)} \cup FaultClasses :
         LET asked == ~at.probe /\ "not_found" \in Range(batch.errors)
             judged == [pr \in DOMAIN batch.errors |-> Judged(batch.errors[pr], probe)]
             resolved == IF batch.error = "none" THEN Len(work) ELSE FirstOf(Unresolved, Len(work) + 1) - 1
             failing == {i \in 1..resolved : work[i] \in DOMAIN judged /\ Fallback(judged[work[i]])}
             failedAt == FirstOf(failing, resolved + 1)
             settled == {work[i] : i \in 1..(failedAt - 1)} \cap DOMAIN judged
             error == IF failing # {} THEN judged[work[failedAt]] ELSE batch.error
             merged == [fetched |-> results.fetched \cup batch.fetched,
                        partial |-> results.partial \cup batch.partial,
                        failures |-> Over([pr \in settled |-> judged[pr]], results.failures)]
         IN  /\ IF probe \in FaultClasses THEN asked /\ Fault ELSE UNCHANGED faults
             /\ CASE error = "none" ->
                       /\ results' = merged /\ at' = RepositoryEnds
                       /\ cache' = UpsertAuthCache(Here.repository, Candidate)
                       /\ UNCHANGED <<work, resolver>>
                  [] error # "none" /\ ~Fallback(error) ->
                       /\ results' = [merged EXCEPT !.failures = Fails(@, Remaining(work, failedAt), error)]
                       /\ at' = RepositoryEnds /\ UNCHANGED <<work, cache, resolver>>
                  [] OTHER -> FallsBack(failedAt, error) /\ results' = merged
    /\ UNCHANGED <<world, methods, batch>>

\* syncHostBatch: every pull request by itself.
SettleHost ==
    /\ at.pc = "fetched" /\ at.host
    /\ LET answered == batch.fetched
           open == Among(work, {pr \in Range(work) \ answered :
                                    pr \notin DOMAIN batch.errors \/ Fallback(batch.errors[pr])})
           settled == Range(work) \ (answered \cup Range(open))
           failures == Over([pr \in settled |-> batch.errors[pr]], results.failures)
           merged == [fetched |-> results.fetched \cup answered, partial |-> results.partial \cup batch.partial,
                      failures |-> failures]
       IN  /\ cache' = [r \in Repositories |-> IF \E pr \in answered : Repository[pr] = r THEN Candidate ELSE cache[r]]
           /\ IF batch.error # "none" /\ ~Fallback(batch.error)
              THEN /\ results' = [merged EXCEPT !.failures = Fails(@, Range(open), batch.error)]
                   /\ at' = RepositoryEnds
              ELSE results' = merged /\ at' = NextCandidate
           /\ work' = open
    /\ UNCHANGED <<world, methods, resolver, batch, faults>>

------------------------------------------------------------------------------
CredentialsInit ==
    /\ \E w \in Worlds : world = w.world /\ methods = w.methods /\ cache = w.cache
    /\ resolver = [unauthorized |-> {}, opened |-> {}, tried |-> {}]
    /\ at = [pc |-> "begin", left |-> Listed, host |-> FALSE, candidate |-> 1, probe |-> FALSE]
    /\ work = <<>> /\ batch = NoBatch /\ results = Unfetched /\ faults = MaxFaults

CredentialsNext ==
    \/ Begin \/ NextRepository \/ TryCandidate \/ Open \/ Probe
    \/ GraphQLChunk \/ GraphQLFails \/ GraphQLRefused \/ RESTItem \/ FetchEnds
    \/ Settle \/ SettleHost

CredentialsSpec == CredentialsInit /\ [][CredentialsNext]_credentialsVars /\ WF_credentialsVars(CredentialsNext)
------------------------------------------------------------------------------
\* Properties

Ended == at.pc = "end"
Undisturbed == faults = MaxFaults

\* Whether a method can read a pull request in full.
CanFetch(m, pr) == m \in Range(methods) /\ TokenOf(m) # None /\ ItemClass(m, pr) = "none"
CanSee(m, repo) == m \in Range(methods) /\ TokenOf(m) # None /\ ProbeClass(m, repo) = "none"

\* What is left to do is a part of the host or of the repository at hand; an
\* answer of a batch is an update or an error, never both.
CredentialsTypeOK ==
    /\ cache \in [Repositories -> Methods \cup {None}]
    /\ resolver.opened \subseteq Methods /\ resolver.tried = {TokenOf(m) : m \in resolver.opened}
    /\ at.pc \in {"begin", "repository", "candidate", "open", "probe", "graphql", "rest", "fetched", "end"}
    /\ IsInjective(work) /\ Range(work) \subseteq AllPullRequests
    /\ batch.fetched \cap DOMAIN batch.errors = {} /\ batch.partial \subseteq DOMAIN batch.errors
    /\ batch.fetched \cup DOMAIN batch.errors \subseteq AllPullRequests
    /\ faults \in 0..MaxFaults

\* However the methods fail, and wherever a batch breaks off, every pull request
\* ends with an update or with the reason why there is none: "did not produce a
\* result", the reason of last resort in persistSyncResult, is never needed.  And
\* without faults of the network, one that some configured method can read in full
\* ends with an update, whatever is cached, whichever methods come first, and
\* whatever the other pull requests of its batch meet.
EveryOutcome ==
    Ended => /\ results.fetched \cup DOMAIN results.failures = AllPullRequests
             /\ Undisturbed => \A pr \in AllPullRequests :
                                  (\E m \in Methods : CanFetch(m, pr)) => pr \in results.fetched

\* Without faults, what repository_auth_cache holds of a repository afterwards is a method
\* that sees it: an entry that lost its access, or whose method is not configured any
\* more, is gone or replaced, on whichever path the repository ended.
CacheWorks ==
    Ended /\ Undisturbed /\ methods # <<>> =>
        \A r \in Repositories : cache[r] # None => CanSee(cache[r], r)

\* docs/design/github-credentials.md: a rate limit, a failed connection or a
\* failure of the server does not make the refresh switch credentials.  After
\* one pull request of a repository fell back, those behind it are asked for
\* again with the next method, whatever their error was.
SwitchOnlyForAccess ==
    [][\A pr \in Range(work) :
         at.pc = "fetched" /\ pr \in DOMAIN batch.errors /\ batch.errors[pr] \in FaultClasses
         => ~(at'.pc = "candidate" /\ pr \in Range(work'))]_credentialsVars

\* The refresh ends: no method is tried for ever.
RefreshEnds == <>Ended
===============================================================================
