-------------------------- MODULE PullRequestFacts ---------------------------
(***************************************************************************)
(* What a refresh learns of one pull request, and what a reader is shown   *)
(* of it.  GitHub answers by REST, in four requests between which the pull *)
(* request may change (internal/github/provider.go), or by GraphQL, in one *)
(* query whose reviews may need more pages (internal/github/graphql.go);   *)
(* internal/domain/status.go derives from the stored fields what is shown. *)
(* A request may fail, and the fields read before it are stored.           *)
(*                                                                         *)
(* Whether the pull request is a draft or conflicts is its `shape`; both   *)
(* routes read it as they read the state.  Who fetches when is the subject *)
(* of module PullRequestSync.                                              *)
(***************************************************************************)
EXTENDS Integers, Sequences, FiniteSets

CONSTANTS
    Reviewers,      \* the reviewers, 1 to how many there are
    ReviewsPage,    \* reviewers on a page of GraphQL: 100
    RunsPage,       \* check runs that REST reads: 100
    Verdicts,       \* what a review may say
    CheckResults,   \* the results that checks may have, a status and the check runs
    Nullable,       \* the fields GraphQL may leave out, with an error, of an answer
    MaxEvents,      \* bounds what happens to the pull request
    MaxFetches      \* bounds the refreshes

ASSUME FactsAssumption == /\ ReviewsPage \in Nat \ {0} /\ RunsPage \in Nat \ {0}
                          /\ MaxEvents \in Nat /\ MaxFetches \in Nat
                          /\ \A checks \in CheckResults : checks.runs \in Seq({"success", "pending", "failure"})

VARIABLES
    truth,      \* the pull request as GitHub has it
    stored,     \* the pull request as the database has it
    fetch,      \* the refresh under way
    standing,   \* the requests for changes that have stood since it began
    events, fetches

factsVars == <<truth, stored, fetch, standing, events, fetches>>

Finished(state) == state \in {"closed", "merged"}
MaxOf(S) == IF S = {} THEN 0 ELSE CHOOSE n \in S : \A m \in S : m <= n

------------------------------------------------------------------------------
\* GitHub

\* A review keeps its place in the list, the time it was submitted at.
Reviews(r) == {review \in truth.reviews : review.by = r}
Opinions(r) == {review \in Reviews(r) : review.verdict \in {"approved", "changes"}}

Newest(reviews) == CHOOSE review \in reviews : \A other \in reviews : other.at <= review.at
LastReview(r) == Newest(Reviews(r))
Reviewed == {r \in Reviewers : Reviews(r) # {}}

StandingChanges == {LastReview(r).at : r \in {q \in Reviewed : LastReview(q).verdict = "changes"}}

Happens(change) == /\ events < MaxEvents
                   /\ truth' = change
                   /\ events' = events + 1
                   /\ standing' = standing \cap StandingChanges'
                   /\ UNCHANGED <<stored, fetch, fetches>>

Now == events + 1

Event ==
    \/ \E r \in Reviewers, verdict \in Verdicts :
          /\ ~Finished(truth.state)
          /\ Happens([truth EXCEPT !.requested = FALSE,
                        !.reviews = @ \cup {[by |-> r, verdict |-> verdict, at |-> Now]}])
    \/ \E r \in Reviewers : \E review \in Opinions(r) :
          Happens([truth EXCEPT
             !.reviews = (@ \ {review}) \cup {[review EXCEPT !.verdict = "dismissed"]}])
    \/ ~truth.requested /\ Happens([truth EXCEPT !.requested = TRUE])
    \/ \E checks \in CheckResults : ~Finished(truth.state)
          /\ Happens([truth EXCEPT !.pushed = Now, !.checks = checks])
    \/ \E checks \in CheckResults : Happens([truth EXCEPT !.checks = checks])
    \/ \E shape \in {"ready", "draft", "conflict"} \ {truth.shape} :
          Happens([truth EXCEPT !.shape = shape])
    \/ \E state \in {"open", "closed", "merged"} \ {truth.state} :
          truth.state # "merged" /\ Happens([truth EXCEPT !.state = state])

\* The latest review of each of some reviewers, as GraphQL lists them.
LatestReviews(of) == {LastReview(r) : r \in of \cap Reviewed}

FirstPage == {r \in Reviewers : r <= ReviewsPage}

------------------------------------------------------------------------------
\* Folding what GitHub answers

CheckFold(results) ==
    IF results = {} THEN "none"
    ELSE IF "failure" \in results THEN "failure"
    ELSE IF "pending" \in results THEN "pending"
    ELSE "success"

StatusOf(checks) == {checks.status} \ {"absent"}

RunsRead(checks) == {checks.runs[i] : i \in (1..Len(checks.runs)) \cap (1..RunsPage)}

\* A slip one could make: the status of the commit stands for its check runs.
StatusFirst(checks) == CheckFold(IF checks.status = "absent" THEN RunsRead(checks) ELSE StatusOf(checks))

FoldRESTCheckState(checks) == CheckFold(StatusOf(checks) \cup RunsRead(checks))

\* GitHub folds every check of the commit itself.
Rollup(checks) == CheckFold(StatusOf(checks) \cup {checks.runs[i] : i \in 1..Len(checks.runs)})

ReviewState(verdicts, requested) ==
    IF "changes" \in verdicts THEN "changes_requested"
    ELSE IF "approved" \in verdicts THEN "approved"
    ELSE IF requested THEN "required" ELSE "none"

ChangesRequestedAt(reviews) == MaxOf({review.at : review \in {r \in reviews : r.verdict = "changes"}})

Verdict(reviews) == {review.verdict : review \in reviews}

\* The last review of each reviewer that approves or requests changes.
RESTReviews == {Newest(Opinions(r)) : r \in {q \in Reviewers : Opinions(q) # {}}}

ClearFinished(pr) == IF Finished(pr.state)
                     THEN [pr EXCEPT !.pending = FALSE, !.changesAt = 0, !.pushedAt = 0,
                                     !.checks = "unknown"]
                     ELSE pr

------------------------------------------------------------------------------
\* A refresh

NoFetch == [route |-> "none", value |-> stored, reviews |-> {}, read |-> {}, sha |-> 0,
            since |-> 0]

StoresPR(value, failed) ==
    /\ stored' = [value EXCEPT !.stale = failed]
    /\ fetch' = [NoFetch EXCEPT !.value = stored']
    /\ standing' = {}
    /\ UNCHANGED <<truth, events, fetches>>

Continues(next) == fetch' = next /\ UNCHANGED <<truth, stored, standing, events, fetches>>

BeginRefresh ==
    /\ fetch.route = "none" /\ fetches < MaxFetches
    /\ \E route \in {"get", "graphql"} :
          fetch' = [NoFetch EXCEPT !.route = route, !.since = events]
    /\ fetches' = fetches + 1
    /\ standing' = StandingChanges
    /\ UNCHANGED <<truth, stored, events>>

Breaks == /\ fetch.route \notin {"none", "graphql"}
          /\ StoresPR(fetch.value, TRUE)

RefusesQuery == /\ fetch.route = "graphql"
                /\ StoresPR(stored, TRUE)

------------------------------------------------------------------------------
\* By REST: the pull request, its reviews, its last commit, the checks of that

RESTGet == /\ fetch.route = "get"
           /\ LET got == [stored EXCEPT !.state = truth.state, !.shape = truth.shape]
              IN  IF Finished(got.state)
                  THEN StoresPR(ClearFinished(got), FALSE)
                  ELSE Continues([fetch EXCEPT !.route = "reviews", !.value = got])

RESTSummary == /\ fetch.route = "reviews"
               /\ Continues([fetch EXCEPT
                    !.route = "commit",
                    !.value.review = ReviewState(Verdict(RESTReviews), truth.requested),
                    !.value.pending = truth.requested,
                    !.value.changesAt = ChangesRequestedAt(RESTReviews)])

RESTCommit == /\ fetch.route = "commit"
              /\ Continues([fetch EXCEPT !.route = "checks", !.sha = truth.pushed,
                                         !.value.pushedAt = truth.pushed])

\* A commit that is no longer the last one has any checks.
RESTChecks == /\ fetch.route = "checks"
              /\ \E checks \in IF truth.pushed = fetch.sha THEN {truth.checks} ELSE CheckResults :
                    StoresPR([fetch.value EXCEPT !.checks = FoldRESTCheckState(checks)], FALSE)

------------------------------------------------------------------------------
\* By GraphQL: the answer to the query, then the reviews past its first page

\* The reviewers whose reviews the answer lacks.
Unread(of) == Reviewers \ of.read

\* A slip one could make: what the first page says is taken for all there is.
FirstPageOnly(current, answer) == ChangesRequestedAt(answer.reviews)

ChangesFromGraphQL(current, answer) ==
    IF answer.more THEN current.changesAt ELSE ChangesRequestedAt(answer.reviews)

\* A field that the answer leaves out reads as empty.
FromGraphQL(current, answer) ==
    LET pending == answer.requested
    IN  ClearFinished([state |-> answer.state, shape |-> answer.shape,
                       review |-> ReviewState(Verdict(answer.reviews), pending),
                       pending |-> pending,
                       changesAt |-> ChangesFromGraphQL(current, answer),
                       pushedAt |-> answer.pushed, checks |-> answer.checks,
                       stale |-> current.stale])

\* An error in a finished pull request does not matter: its review is not read.
CoreFromGraphQL(current, answer) ==
    [FromGraphQL(current, answer) EXCEPT !.review = current.review]

GraphQLAnswer(nulled) ==
    [state |-> truth.state, shape |-> truth.shape, pushed |-> truth.pushed,
     reviews |-> IF "reviews" \in nulled THEN {} ELSE LatestReviews(FirstPage),
     more |-> "reviews" \notin nulled /\ Reviewed \ FirstPage # {},
     requested |-> "requests" \notin nulled /\ truth.requested,
     checks |-> IF "checks" \in nulled THEN "none" ELSE Rollup(truth.checks)]

AnswersWithout(nulled) ==
    LET answer == GraphQLAnswer(nulled)
        value == FromGraphQL(stored, answer)
    IN  /\ fetch.route = "graphql"
        /\ IF nulled # {} THEN
               IF Finished(answer.state) THEN StoresPR(CoreFromGraphQL(stored, answer), FALSE)
               ELSE StoresPR(value, TRUE)
           ELSE IF answer.more /\ ~Finished(answer.state) THEN
               Continues([fetch EXCEPT !.route = "pages", !.value = value, !.read = FirstPage,
                                       !.reviews = answer.reviews])
           ELSE StoresPR(value, FALSE)

GraphQLMain == \E nulled \in SUBSET Nullable : AnswersWithout(nulled)

GraphQLPages ==
    /\ fetch.route = "pages"
    /\ LET reviews == fetch.reviews \cup LatestReviews(Unread(fetch))
           answer == [state |-> fetch.value.state, shape |-> fetch.value.shape,
                      pushed |-> fetch.value.pushedAt, reviews |-> reviews, more |-> FALSE,
                      requested |-> fetch.value.pending, checks |-> fetch.value.checks]
       IN  StoresPR(FromGraphQL(stored, answer), FALSE)

------------------------------------------------------------------------------
\* What a reader is shown of a pull request (internal/domain/status.go)

PRDisplayState(pr) ==
    CASE Finished(pr.state) -> pr.state
      [] ~Finished(pr.state) /\ pr.shape # "ready" -> pr.shape
      [] ~Finished(pr.state) /\ pr.shape = "ready" ->
            IF pr.review \in {"changes_requested", "approved", "required"} THEN pr.review ELSE pr.state

RespondedAfterReview(pr) == pr.changesAt # 0 /\ pr.pushedAt # 0 /\ pr.pushedAt > pr.changesAt

TaskDisplayState(pr) ==
    IF Finished(pr.state) THEN pr.state
    ELSE IF pr.review = "approved" THEN "approved"
    ELSE IF pr.pending \/ RespondedAfterReview(pr) THEN "in_review"
    ELSE IF pr.state = "open" THEN "implemented" ELSE "unknown"

PRBlockLabels(pr) ==
    {label \in {"conflict", "changes_requested", "ci_failed"} :
        \/ label = "conflict" /\ pr.shape = "conflict"
        \/ label = "changes_requested" /\ pr.review = "changes_requested"
        \/ label = "ci_failed" /\ pr.checks = "failure"}

Shown(pr) == [pullRequest |-> PRDisplayState(pr), task |-> TaskDisplayState(pr),
              labels |-> IF Finished(pr.state) THEN {} ELSE PRBlockLabels(pr)]

------------------------------------------------------------------------------
\* A pull request that was attached a moment ago, and the link to it
FactsIdle ==
    /\ truth = [state |-> "open", shape |-> "ready", reviews |-> {}, requested |-> FALSE,
                pushed |-> 1, checks |-> [status |-> "absent", runs |-> <<>>]]
    /\ stored = [state |-> "unknown", shape |-> "ready", review |-> "unknown", pending |-> FALSE,
                 changesAt |-> 0, pushedAt |-> 0, checks |-> "unknown", stale |-> TRUE]
    /\ fetch = NoFetch
    /\ standing = {}
    /\ events = 1 /\ fetches = 0

FactsNext == Event \/ BeginRefresh \/ Breaks \/ RefusesQuery \/ RESTGet \/ RESTSummary \/ RESTCommit
             \/ RESTChecks \/ GraphQLMain \/ GraphQLPages

FactsSpec == FactsIdle /\ [][FactsNext]_factsVars

------------------------------------------------------------------------------
\* Properties

\* The pull request as it is: every reviewer has the opinion of their last
\* review, and every check counts.
Reference ==
    ClearFinished([state |-> truth.state, shape |-> truth.shape,
                   review |-> ReviewState(Verdict(LatestReviews(Reviewers)), truth.requested),
                   pending |-> truth.requested, changesAt |-> MaxOf(StandingChanges),
                   pushedAt |-> truth.pushed, checks |-> Rollup(truth.checks), stale |-> FALSE])

\* Nobody has commented after giving an opinion or had an opinion dismissed
\* after another, and the check runs fit the one page that REST reads.
ReadAlike ==
    /\ Len(truth.checks.runs) <= RunsPage
    /\ \A r \in Reviewed : \/ \A review \in Reviews(r) : review = LastReview(r)
                           \/ LastReview(r) \in Opinions(r)

\* By whichever route a refresh goes, and whatever was stored before it: when it
\* succeeds and nothing happened to the pull request meanwhile, a reader is
\* shown the pull request as it is ("either route shows the same",
\* docs/design/github-sync.md).
RoutesAgree ==
    [][(fetch.route # "none" /\ fetch'.route = "none" /\ ~stored'.stale
           /\ fetch.since = events /\ ReadAlike) => Shown(stored') = Shown(Reference)]_factsVars

\* A refresh that is cut short between requests or pages, or during which the
\* reviews change, never takes back a request for changes that stood all the
\* while: the time that decides whether the author has answered is the stored
\* one, or no older than any of those.
ChangeRequestsStand ==
    [][\/ stored'.changesAt = stored.changesAt
       \/ Finished(stored'.state)
       \/ \A moment \in standing : moment <= stored'.changesAt]_factsVars

\* "Synchronization keeps the last value that succeeded of a field it could not
\* update" and "when only the checks could not be fetched ... their state stays
\* what it was" (docs/design/github-sync.md): here, an answer of GraphQL that
\* leaves out the checks leaves the stored result of the checks alone.
WhatFailsIsKept ==
    [][(AnswersWithout({"checks"}) /\ stored'.stale /\ stored.checks # "unknown")
          => stored'.checks = stored.checks]_factsVars

==============================================================================
