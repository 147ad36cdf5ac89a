------------------------------ MODULE MCService -------------------------------
(***************************************************************************)
(* Service on a small database: two projects, a feature with two tasks in  *)
(* the first one, an empty feature in the second one, and a document.  A   *)
(* CLI and the server of a browser race for it.                            *)
(*                                                                         *)
(* In the other part the tabs of that browser share a stream, of Sharing.  *)
(* A behaviour takes the steps of one of the two (`part`): their states    *)
(* add up.                                                                 *)
(***************************************************************************)
EXTENDS Service, Sharing

CONSTANTS t1, t2, pr1

MCTexts == {Unset, Default, t1, t2}
MCBodies == BodiesOf(MCTexts)
MCPullRequests == {pr1}

FeatureBody == [title |-> t1, status |-> Default, overrides |-> Unset]
TaskBody == [title |-> t1, status |-> Default]

SeedInit ==
    /\ sequences = [project |-> 3, feature |-> 3, task |-> 3, document |-> 2]
    /\ projects = [p \in 1..2 |-> [archived |-> FALSE, body |-> [title |-> t1, overrides |-> Unset]]]
    /\ features = [f \in 1..2 |-> [project |-> f, archived |-> FALSE, body |-> FeatureBody]]
    /\ tasks = [t \in 1..2 |-> [feature |-> 1, body |-> TaskBody]]
    /\ dependencies = {} /\ pullRequests = <<>>
    /\ documents = <<[parent |-> Task(1), title |-> t1, source |-> t1, plan |-> FALSE]>>

VARIABLE part       \* what is looked at

\* Before its first tab is opened Sharing stands still, which is fair to it.
MCInit == /\ SeedInit /\ ServiceIdle /\ SharingInit
          /\ part \in {"requests", "tabs"}

MCNext == \/ part = "requests" /\ ServiceNext /\ UNCHANGED <<sharingVars, part>>
          \/ part = "tabs" /\ SharingNext /\ UNCHANGED <<serviceVars, part>>

MCSpec == MCInit /\ [][MCNext]_<<serviceVars, sharingVars, part>> /\ SharingFairness

Archives == {ProjectArchive(1, a) : a \in BOOLEAN} \cup {FeatureArchive(1, a) : a \in BOOLEAN}

MCCommands ==
    Archives \cup
    {ProjectCreate(t1), ProjectUpdate(1, [title |-> t2]), ProjectDelete(1, TRUE), ProjectPrompt(1, t2),
     FeatureCreate(1, t1), FeatureUpdate(1, [archived |-> FALSE, title |-> t2]),
     FeatureUpdate(2, [project |-> 1]), FeatureDelete(1, TRUE), FeaturePrompt(1, t2),
     LabelSet(Feature(1), t2), LabelUnset(Project(1)),
     TaskCreate(1, t1), TaskUpdate(1, [status |-> t2]), TaskDelete(1, TRUE),
     DependencyAdd(1, 2), DependencyRemove(1, 2), PullRequestAttach(1, pr1), PullRequestDetach(1),
     DocumentAdd(Task(1), t1, t1, TRUE), DocumentUpdate(1, [title |-> t2]), DocumentDelete(1),
     PlanSet(1, t2), PlanUnset(1)}

\* What the browser sends is written as the equal command.
MCMessages ==
    Archives \cup
    {FeatureUpdate(1, [project |-> 2, status |-> t2]), ProjectUpdate(1, [overrides |-> t2]),
     TaskUpdate(1, [title |-> t2]), TaskDelete(2, TRUE), DependencyAdd(1, 2), DependencyAdd(2, 1),
     DocumentAdd(Project(1), t1, t1, FALSE), DocumentUpdate(1, [source |-> t2]),
     DocumentUpdate(1, [plan |-> TRUE]), DocumentDelete(1),
     ProjectCreate(t1), ProjectDelete(2, FALSE), FeatureCreate(1, t1), FeatureDelete(1, TRUE), TaskCreate(1, t1),
     DependencyRemove(1, 2), PullRequestAttach(2, pr1), PullRequestDetach(1)}

==============================================================================
