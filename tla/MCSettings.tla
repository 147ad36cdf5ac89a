------------------------------ MODULE MCSettings ------------------------------
(***************************************************************************)
(* ConfigFile with a server in an English and a command in a Japanese      *)
(* environment, and one request of each kind that the operations of Config *)
(* tell apart; and Prompts, whose requests read the file at one moment.  A *)
(* behaviour takes the steps of one of the two (`part`) while the other    *)
(* stands still: their states add up.                                      *)
(***************************************************************************)
EXTENDS ConfigFile, Prompts

CONSTANTS server, cli, github, ghe, m1, m2, design, batch, mine, ready, red, token, v1, p1

MCProcesses == {server, cli}
MCKinds == {design}
MCTwoKinds == {design, batch}
MCTexts == {mine}
MCLabels == {ready}
MCLocale == (server :> "en") @@ (cli :> "ja")

Method(i, h, type, secret) == [id |-> i, host |-> h, type |-> type, token |-> secret]

HostUpdates ==
    {[op |-> "AddHost", host |-> ghe, urls |-> Blank],
     [op |-> "UpdateHost", host |-> ghe, fields |-> [name |-> github]],
     [op |-> "UpdateHost", host |-> github, fields |-> [name |-> ghe, urls |-> Blank]],
     [op |-> "UpdateHost", host |-> github, fields |-> [urls |-> ghe]],
     [op |-> "RemoveHost", host |-> ghe]}

MethodUpdates ==
    {[op |-> "AddAuthMethod", method |-> Method(m1, ghe, "inline", token)],
     [op |-> "AddAuthMethod", method |-> Method(m2, github, "gh_cli", Blank)],
     [op |-> "UpdateAuthMethod", id |-> m1, fields |-> [type |-> "environment"]],
     [op |-> "UpdateAuthMethod", id |-> m2, fields |-> [id |-> m1, host |-> ghe]],
     [op |-> "RemoveAuthMethod", id |-> m2],
     [op |-> "ReorderAuthMethods", ids |-> <<m2, m1>>],
     [op |-> "ReorderAuthMethods", ids |-> <<>>]}

OtherUpdates ==
    {[op |-> "SetLanguage", language |-> l] : l \in {"auto", "ja"}}
    \cup {[op |-> "SetAutoSyncInterval", seconds |-> 1], [op |-> "SetAutoSyncInterval", seconds |-> 0],
          [op |-> "SetServerPort", port |-> p1], [op |-> "SetSkippedUpdateVersion", version |-> v1],
          [op |-> "SetTaskLabelOverrides", labels |-> (ready :> [color |-> red])],
          [op |-> "SetTaskLabelOverrides", labels |-> <<>>]}

MCRequests == HostUpdates \cup MethodUpdates \cup OtherUpdates

OnDisk(hosts, list) ==
    [Default("en") EXCEPT !.prompts = [k \in Kinds |-> Blank], !.hosts = [h \in hosts |-> h],
                          !.methods = [given |-> TRUE, list |-> list]]
OneMethod == Whole(OnDisk({github}, <<Method(m2, github, "gh_cli", Blank)>>))
TwoMethods == Whole(OnDisk({github, ghe}, <<Method(m1, ghe, "inline", token), Method(m2, github, "gh_cli", Blank)>>))

MCFiles == {Absent, OneMethod, TwoMethods}
\* The second one names a host that it does not list.
MCEdits == {Broken, Whole(OnDisk({github}, <<Method(m1, ghe, "inline", token)>>)), OneMethod}

\* Each is right for some kinds and wrong for the others.
MCWritten == {{"task_id"}, {"task_list", "feature_id"}}

VARIABLE part       \* what is looked at

settingsVars == <<configFileVars, promptVars, part>>

MCInit == /\ ConfigFileInit /\ PromptsIdle
          /\ part \in {"file", "prompts"} /\ (part = "prompts" => file = Absent)

MCNext == \/ part = "file" /\ ConfigFileNext /\ UNCHANGED <<promptVars, part>>
          \/ part = "prompts" /\ PromptsNext /\ UNCHANGED <<configFileVars, part>>

MCSpec == MCInit /\ [][MCNext]_settingsVars /\ ConfigFileFairness
===============================================================================
