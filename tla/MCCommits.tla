------------------------------ MODULE MCCommits ------------------------------
(***************************************************************************)
(* What is committed, of Transactions, and how the tabs hear of a commit,  *)
(* of Revision.  A behaviour takes the steps of one of the two (`part`):   *)
(* their states add up.                                                    *)
(*                                                                         *)
(* Transactions run on small databases: two projects, one with two         *)
(* features; three tasks with dependencies, a pull request and documents.  *)
(***************************************************************************)
EXTENDS Transactions, Revision

CONSTANTS b1, b2, pr1, pr2, c1, c2

MCBodies == {b1, b2}
MCPullRequests == {pr1, pr2}

SeedInit ==
    /\ sequences = [project |-> 3, feature |-> 3, task |-> 4, document |-> 3]
    /\ projects = <<[archived |-> FALSE, body |-> b1], [archived |-> FALSE, body |-> b1]>>
    /\ features = <<[project |-> 1, archived |-> FALSE, body |-> b1],
                    [project |-> 1, archived |-> FALSE, body |-> b1]>>
    /\ tasks = <<[feature |-> 1, body |-> b1], [feature |-> 1, body |-> b1], [feature |-> 2, body |-> b1]>>
    /\ dependencies \in {{}, {<<1, 2>>}}
    /\ pullRequests = [t \in {2} |-> pr1]
    /\ documents = <<[parent |-> <<"task", 1>>, title |-> b1, source |-> b1, plan |-> TRUE],
                     [parent |-> <<"feature", 1>>, title |-> b1, source |-> b1, plan |-> FALSE]>>
    /\ issued = Issued

Creations ==
    {[do |-> "CreateProject", body |-> b1], [do |-> "CreateFeature", id |-> 1, body |-> b1],
     [do |-> "CreateTask", id |-> 1, body |-> b1],
     [do |-> "CreateDocument", row |-> [parent |-> <<"task", 2>>, title |-> b1, source |-> b1, plan |-> TRUE]],
     [do |-> "CreateDocument", row |-> [parent |-> <<"project", 1>>, title |-> b1, source |-> b1, plan |-> FALSE]]}

Updates ==
    {[do |-> "UpdateProject", id |-> 1, row |-> [archived |-> TRUE, body |-> b2]],
     [do |-> "UpdateFeature", id |-> 2, row |-> [project |-> 2, archived |-> FALSE, body |-> b2]],
     [do |-> "UpdateTask", id |-> 1, body |-> b2],
     [do |-> "UpdateDocument", id |-> 1, fields |-> [title |-> b2, source |-> b2]],
     [do |-> "UpdateDocument", id |-> 1, fields |-> [plan |-> FALSE]],
     [do |-> "UpsertImplementationPlanDocument", id |-> 1, body |-> b2],
     [do |-> "UpsertImplementationPlanDocument", id |-> 2, body |-> b2],
     [do |-> "UpsertPullRequest", id |-> 1, pr |-> pr1],
     [do |-> "UpsertPullRequest", id |-> 2, pr |-> pr2]}

Edges ==
    {[do |-> do, id |-> e[1], blocked |-> e[2]] : do \in {"AddDependency", "RemoveDependency"},
                                                 e \in {<<1, 2>>, <<2, 1>>}}
      \cup {[do |-> "AddDependency", id |-> 2, blocked |-> 3]}

Deletions ==
    {[do |-> do, id |-> 1, cascade |-> cascade] : do \in {"DeleteProject", "DeleteFeature"}, cascade \in BOOLEAN}
      \cup {[do |-> "DeleteTask", id |-> t, cascade |-> cascade] : t \in {2, 3}, cascade \in BOOLEAN}
      \cup {[do |-> "DeletePullRequest", id |-> 2], [do |-> "DeleteDocument", id |-> 1],
            [do |-> "DeleteImplementationPlanDocument", id |-> 1]}

MCOperations == Creations \cup Updates \cup Edges \cup Deletions


VARIABLE part       \* what is looked at

MCInit == SeedInit /\ TransactionsIdle /\ RevisionInit
          /\ part \in {"store", "tabs"} /\ (part = "tabs" => dependencies = {})

MCNext == \/ part = "store" /\ TransactionsNext /\ UNCHANGED <<revisionVars, part>>
          \/ part = "tabs" /\ RevisionNext /\ UNCHANGED <<transactionVars, part>>

MCSpec == MCInit /\ [][MCNext]_<<transactionVars, revisionVars, part>> /\ RevisionFairness
==============================================================================
