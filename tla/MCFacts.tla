------------------------------- MODULE MCFacts -------------------------------
(***************************************************************************)
(* PullRequestFacts with two reviewers, one of them on the first page of   *)
(* GraphQL, and check runs that fit the page of REST.                      *)
(***************************************************************************)
EXTENDS PullRequestFacts

Checks(status, runs) == [status |-> status, runs |-> runs]

MCVerdicts == {"approved", "changes", "commented"}
MCCheckResults == {Checks("success", <<>>), Checks("success", <<"failure">>),
                   Checks("absent", <<"success", "failure">>),
                   Checks("absent", <<"pending", "failure">>)}

==============================================================================
