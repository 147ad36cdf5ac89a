------------------------------- MODULE Labels --------------------------------
(***************************************************************************)
(* How the statuses of tasks are worded.  The configuration, a project and *)
(* a feature may each give a status a text and a colour of its own         *)
(* (internal/app/task_labels.go); a feature shows the nearest of them      *)
(* (internal/domain/task_labels.go), and `nnx task update --status` takes  *)
(* what is shown for the status itself (internal/cli/task_command.go).     *)
(*                                                                         *)
(* Texts are compared without their case and the blanks around them.       *)
(***************************************************************************)
EXTENDS Naturals, Sequences, FiniteSets

CONSTANTS
    Keys,       \* the statuses with a label
    Stable,     \* those among them that a task can be set to
    Texts,      \* texts that a label may be given, names of statuses among them
    Colors,     \* colours that it may be given
    MaxUpdates  \* bounds the updates

ASSUME LabelsAssumption == IsFiniteSet(Keys) /\ Stable \subseteq Keys /\ MaxUpdates \in Nat

VARIABLES
    overrides,  \* by scope, the labels that it stores
    wanted,     \* by scope, what was last asked for of each label
    updates

labelsVars == <<overrides, wanted, updates>>

Scopes == <<"global", "project", "feature">>
ScopeNames == {"global", "project", "feature"}

Unset == "unset"        \* no text, or no colour
Keep == "keep"          \* an update that does not name it
Invalid == "invalid"    \* a text with control characters, a colour that is none

NoOverride == [text |-> Unset, color |-> Unset]

------------------------------------------------------------------------------
\* applyTaskLabelOverrides

Requested == [text : Texts \cup {Unset, Keep, Invalid}, color : Colors \cup {Unset, Keep, Invalid}]

Normalizes(item) == item.text # Invalid /\ item.color # Invalid

\* A slip one could make: what an update does not name is reset.
Replaced(value, item) == [part \in {"text", "color"} |-> IF item[part] = Keep THEN Unset ELSE item[part]]

Applied(value, item) == [part \in {"text", "color"} |-> IF item[part] = Keep THEN value[part] ELSE item[part]]

Override(stored, key) == IF key \in DOMAIN stored THEN stored[key] ELSE NoOverride

\* An entry with neither a text nor a colour is not stored.
AppliedOverrides(stored, update) ==
    LET value == [key \in DOMAIN stored \cup DOMAIN update |->
                     IF key \in DOMAIN update THEN Applied(Override(stored, key), update[key])
                                              ELSE stored[key]]
    IN  [key \in {k \in DOMAIN value : value[k] # NoOverride} |-> value[key]]

\* The whole update is refused when one of its items is not valid.
UpdateLabels(scope, update) ==
    /\ updates < MaxUpdates
    /\ overrides' = IF \A key \in DOMAIN update : Normalizes(update[key])
                    THEN [overrides EXCEPT ![scope] = AppliedOverrides(@, update)]
                    ELSE overrides
    /\ wanted' = [wanted EXCEPT ![scope] =
                    [key \in Keys |-> [part \in {"text", "color"} |->
                        IF /\ \A k \in DOMAIN update : Normalizes(update[k])
                           /\ key \in DOMAIN update /\ update[key][part] # Keep
                        THEN update[key][part] ELSE @[key][part]]]]
    /\ updates' = updates + 1

\* The commands name one label, the settings page several.
LabelUpdate == \E scope \in ScopeNames, first, second \in Keys, item \in Requested :
                  \/ UpdateLabels(scope, [key \in {first} |-> item])
                  \/ /\ first # second
                     /\ UpdateLabels(scope, [key \in {first, second} |-> item])

------------------------------------------------------------------------------
\* ResolveTaskLabelAppearances

BuiltIn(key) == [text |-> key, color |-> "built-in"]

\* The scopes that give a label this part, the nearest being the last.
Given(key, part) == {i \in 1..Len(Scopes) : Override(overrides[Scopes[i]], key)[part] # Unset}

Nearest(key, part) ==
    IF Given(key, part) = {} THEN BuiltIn(key)[part]
    ELSE LET scope == Scopes[CHOOSE i \in Given(key, part) : \A j \in Given(key, part) : j <= i]
         IN  overrides[scope][key][part]

Appearance(key) == [text |-> Nearest(key, "text"), color |-> Nearest(key, "color")]

------------------------------------------------------------------------------
\* resolveTaskStatusInput

Matches(text) == {key \in Stable : Appearance(key).text = text}

\* A slip one could make: the first label that reads like it.
FirstMatch(text) == IF text \in Stable THEN text
                    ELSE IF Matches(text) # {} THEN CHOOSE key \in Matches(text) : TRUE
                    ELSE "refused"

\* The name of a status comes first; a text of several labels is refused.
ResolveTaskStatusInput(text) ==
    IF text \in Stable THEN text
    ELSE IF Cardinality(Matches(text)) = 1 THEN CHOOSE key \in Matches(text) : TRUE
    ELSE "refused"

------------------------------------------------------------------------------
LabelsIdle == /\ overrides = [scope \in ScopeNames |-> <<>>]
              /\ wanted = [scope \in ScopeNames |-> [key \in Keys |-> NoOverride]]
              /\ updates = 0

LabelsNext == LabelUpdate

LabelsSpec == LabelsIdle /\ [][LabelsNext]_labelsVars

------------------------------------------------------------------------------
\* Properties

LastWanted(key, part) ==
    IF wanted["feature"][key][part] # Unset THEN wanted["feature"][key][part]
    ELSE IF wanted["project"][key][part] # Unset THEN wanted["project"][key][part]
    ELSE IF wanted["global"][key][part] # Unset THEN wanted["global"][key][part]
    ELSE BuiltIn(key)[part]

\* Through any updates of parts of labels in any scopes: each part that is shown
\* is the one last asked for in the nearest scope that was asked for one.  And
\* to type what a status shows sets that status or is refused, however the
\* labels read; it sets another only when it is the other's very name.
LabelsMeanWhatTheyShow ==
    /\ \A key \in Keys, part \in {"text", "color"} : Appearance(key)[part] = LastWanted(key, part)
    /\ \A key \in Stable : LET typed == Appearance(key).text
                           IN  ResolveTaskStatusInput(typed) \in {key, typed, "refused"}

==============================================================================
