------------------------------- MODULE Prompts -------------------------------
(***************************************************************************)
(* The prompts handed to agents.  A template of each kind stands in the    *)
(* configuration, and a project and a feature may override it              *)
(* (internal/prompt/prompt.go).  A request for a prompt reads the task, the*)
(* feature, the configuration and the project one after the other          *)
(* (internal/app/prompt.go), while others edit, move and delete them.      *)
(*                                                                         *)
(* A template is the placeholders that it uses and the edit that wrote it; *)
(* one beyond the 8192 bytes is one more that is not valid.  The blockers  *)
(* of a batch are in Snapshot.                                             *)
(***************************************************************************)
EXTENDS Naturals, TLC

CONSTANTS
    Written,            \* the placeholders of templates that someone may write
    MaxPromptEdits,     \* bounds the edits of templates, plans, places and tasks
    MaxPrompts          \* bounds the requests

ASSUME PromptsAssumption == MaxPromptEdits \in Nat /\ MaxPrompts \in Nat

VARIABLES
    templates,  \* by scope and kind, the template that it stores
    home,       \* the project of the feature
    planned,    \* whether the task has an implementation plan
    language,   \* the language in force
    undeleted,   \* the task, the feature and the projects that are not deleted
    edits, prompts,
    request,    \* the request under way, with what it has read
    had         \* what stood at some moment of the request

promptVars == <<templates, language, home, planned, undeleted, edits, prompts, request, had>>

TaskKinds == {"design", "implementation"}
BatchKinds == {"batch", "batch_design"}
TemplateKinds == TaskKinds \cup BatchKinds

Homes == {"P-1", "P-2"}
TemplateScopes == Homes \cup {"config", "F-1"}

Empty == [by |-> "nobody", uses |-> {}, empty |-> TRUE]

\* The built-in templates of either language, by the placeholders that they use.
OfTask == {"task_id", "feature_id", "task_title", "task_scope"}
OfBatch == {"task_list", "feature_id"}

defaultDesignTemplate == OfTask
defaultImplementationTemplate == OfTask
defaultBatchTemplate == OfBatch
defaultBatchDesignTemplate == OfBatch
japaneseDesignTemplate == OfTask
japaneseImplementationTemplate == OfTask
japaneseBatchTemplate == OfBatch
japaneseBatchDesignTemplate == OfBatch

BuiltInUses(lang) ==
    IF lang = "ja"
    THEN [design |-> japaneseDesignTemplate, implementation |-> japaneseImplementationTemplate,
          batch |-> japaneseBatchTemplate, batch_design |-> japaneseBatchDesignTemplate]
    ELSE [design |-> defaultDesignTemplate, implementation |-> defaultImplementationTemplate,
          batch |-> defaultBatchTemplate, batch_design |-> defaultBatchDesignTemplate]

TemplatesBuiltIn(lang) ==
    [kind \in TemplateKinds |-> [by |-> lang, uses |-> BuiltInUses(lang)[kind], empty |-> FALSE]]

------------------------------------------------------------------------------
\* The vocabulary

\* A slip one could make: every template is held against the vocabulary of tasks.
TaskVocabulary(kind) == [supported |-> OfTask, required |-> "task_id"]

Placeholders(kind) ==
    IF kind \in BatchKinds THEN [supported |-> OfBatch, required |-> "task_list"]
    ELSE TaskVocabulary(kind)

ValidateTemplate(kind, template) == /\ template.uses \subseteq Placeholders(kind).supported
                                    /\ Placeholders(kind).required \in template.uses

ValidateOverride(kind, template) == template.empty \/ ValidateTemplate(kind, template)

\* Normalize
NormalizedTemplates(lang, stored) ==
    [kind \in TemplateKinds |-> IF stored[kind].empty THEN TemplatesBuiltIn(lang)[kind] ELSE stored[kind]]

AllValid(values) == \A kind \in TemplateKinds : ValidateTemplate(kind, values[kind])

NormalizesTemplates(lang, stored) == AllValid(NormalizedTemplates(lang, stored))

ApplyOverride(base, stored) ==
    [kind \in TemplateKinds |-> IF stored[kind].empty THEN base[kind] ELSE stored[kind]]

\* A slip one could make: the project comes after the feature.
ProjectLast(base, project, feature) == ApplyOverride(ApplyOverride(base, feature), project)

ResolveTemplates(base, project, feature) == ApplyOverride(ApplyOverride(base, project), feature)

OverridesValid(stored) == \A kind \in TemplateKinds : ValidateOverride(kind, stored[kind])

KindFor(plan) == IF plan THEN "implementation" ELSE "design"

------------------------------------------------------------------------------
\* The edits

NoPrompt == [pc |-> "idle"]

UnderWay == request.pc \notin {"idle", "given", "refused"}

\* What stood at some moment of the request grows with every edit.  An edit after the
\* last request is left out.
Edited == /\ edits < MaxPromptEdits /\ (UnderWay \/ prompts < MaxPrompts)
          /\ edits' = edits + 1
          /\ had' = IF ~UnderWay THEN had ELSE
                    [had EXCEPT !.templates = [scope \in TemplateScopes |-> @[scope] \cup {templates'[scope]}],
                                !.languages = @ \cup {language'},
                                !.homes = @ \cup {home'},
                                !.plans = @ \cup {planned'}]
          /\ UNCHANGED <<prompts, request>>

ByHand(uses) == [by |-> ToString(edits + 1), uses |-> uses, empty |-> FALSE]
Values == {Empty} \cup {ByHand(uses) : uses \in Written}

\* `nnx project|feature prompt set|unset` names one kind, the page several: the
\* whole update is refused when one of its templates is not valid, or when the scope is
\* archived, and then nothing happens.
ApplyPromptOverrides(scope, update) ==
    /\ scope \in undeleted /\ \A kind \in DOMAIN update : ValidateOverride(kind, update[kind])
    /\ templates' = [templates EXCEPT ![scope] =
           [kind \in TemplateKinds |-> IF kind \in DOMAIN update THEN update[kind] ELSE @[kind]]]
    /\ UNCHANGED <<language, home, planned, undeleted>>
    /\ Edited

OverridePrompt == \E scope \in Homes \cup {"F-1"}, value \in Values :
    \E kinds \in {{kind} : kind \in TemplateKinds} \cup {TemplateKinds} :
        ApplyPromptOverrides(scope, [kind \in kinds |-> value])

\* The page of the settings writes the four templates at once, into a file that loads;
\* here it holds all but one of them as they stand.
UpdatePromptTemplates == \E kind \in TemplateKinds, value \in Values :
    LET update == [templates["config"] EXCEPT ![kind] = value]
    IN  /\ NormalizesTemplates(language, templates["config"]) /\ NormalizesTemplates(language, update)
        /\ templates' = [templates EXCEPT !["config"] = update]
        /\ UNCHANGED <<language, home, planned, undeleted>>
        /\ Edited

\* The file is edited by hand as well: whatever is written stays until someone reads it.
EditFile == \E kind \in TemplateKinds, uses \in Written :
    /\ templates' = [templates EXCEPT !["config"][kind] = ByHand(uses)]
    /\ UNCHANGED <<language, home, planned, undeleted>>
    /\ Edited

LanguageChanges == /\ language' \in {"en", "ja"} \ {language}
                   /\ UNCHANGED <<templates, home, planned, undeleted>>
                   /\ Edited

MoveFeature == /\ "F-1" \in undeleted /\ home' \in (Homes \cap undeleted) \ {home}
               /\ UNCHANGED <<language, templates, planned, undeleted>>
               /\ Edited

SetPlan == /\ "task" \in undeleted /\ planned' = ~planned
           /\ UNCHANGED <<language, templates, home, undeleted>>
           /\ Edited

\* The task alone, its feature with it, or a project with everything in it.
Deleted == /\ \E gone \in {{"task"}, {"task", "F-1"}, {"task", "F-1", home}} \cup {{p} : p \in Homes \ {home}} :
                undeleted' = undeleted \ gone
           /\ undeleted' # undeleted
           /\ UNCHANGED <<language, templates, home, planned>>
           /\ Edited

------------------------------------------------------------------------------
\* The requests

\* `nnx prompt` takes the kinds of a task, and none; a request of the page for
\* several tasks means the implementation when it names none.
ParseTaskPromptKind == TaskKinds \cup {"derived"}
BatchPromptKind(kind) == IF kind = "design" THEN "batch_design" ELSE "batch"

StandsNow(asked) == [asked |-> asked, templates |-> [scope \in TemplateScopes |-> {templates[scope]}],
                     languages |-> {language}, homes |-> {home}, plans |-> {planned}]

AskPrompt ==
    /\ ~UnderWay /\ prompts < MaxPrompts
    /\ \E asked \in ParseTaskPromptKind :
         /\ \/ request' = [pc |-> "task", kind |-> asked]
            \/ request' = [pc |-> "batch", kind |-> BatchPromptKind(asked)]
         /\ had' = StandsNow(asked)
    /\ prompts' = prompts + 1
    /\ UNCHANGED <<templates, language, home, planned, undeleted, edits>>

Proceeds(next) == /\ request' = next
                  /\ UNCHANGED <<templates, language, home, planned, undeleted, edits, prompts, had>>

Refusal(why) == [pc |-> "refused", why |-> why]

\* GetTaskPrompt: the snapshot, then the feature of the task.
ReadTask ==
    /\ request.pc = "task"
    /\ Proceeds(IF "task" \notin undeleted THEN Refusal("not_found")
                ELSE [pc |-> "feature",
                      kind |-> IF request.kind = "derived" THEN KindFor(planned) ELSE request.kind])

FeatureRead(next) ==
    IF "F-1" \notin undeleted THEN Refusal("not_found")
    ELSE [pc |-> next, kind |-> request.kind, feature |-> templates["F-1"], project |-> home]

ReadFeatureOfTask == request.pc = "feature" /\ Proceeds(FeatureRead("config"))

\* GetBatchPrompt: the feature, then the snapshot.
ReadFeatureOfBatch == request.pc = "batch" /\ Proceeds(FeatureRead("tasks"))

ReadTasks == /\ request.pc = "tasks"
             /\ Proceeds(IF "task" \in undeleted THEN [request EXCEPT !.pc = "config"] ELSE Refusal("not_found"))

\* resolvePromptTemplates: the configuration, then the project that the feature had.
ReadConfiguration ==
    /\ request.pc = "config"
    /\ LET global == NormalizedTemplates(language, templates["config"])
       IN  Proceeds(IF AllValid(global)
                    THEN [pc |-> "project", kind |-> request.kind, feature |-> request.feature,
                          project |-> request.project, global |-> global]
                    ELSE Refusal("invalid_config"))

ReadProject ==
    /\ request.pc = "project"
    /\ LET project == templates[request.project]
           resolved == ResolveTemplates(request.global, project, request.feature)
       IN  Proceeds(IF request.project \notin undeleted THEN Refusal("not_found")
                    ELSE IF OverridesValid(project) /\ OverridesValid(request.feature) /\ AllValid(resolved)
                    THEN [pc |-> "given", kind |-> request.kind, body |-> resolved[request.kind]]
                    ELSE Refusal("invalid_prompt_template"))

------------------------------------------------------------------------------
PromptsIdle ==
    /\ templates = [scope \in TemplateScopes |-> [kind \in TemplateKinds |-> Empty]]
    /\ language = "en" /\ home = "P-1" /\ planned = FALSE
    /\ undeleted = {"task", "F-1"} \cup Homes
    /\ edits = 0 /\ prompts = 0 /\ request = NoPrompt
    /\ had = StandsNow("nothing")

PromptsNext ==
    \/ OverridePrompt \/ UpdatePromptTemplates \/ EditFile \/ LanguageChanges \/ MoveFeature \/ SetPlan
    \/ Deleted \/ AskPrompt \/ ReadTask \/ ReadFeatureOfTask \/ ReadFeatureOfBatch \/ ReadTasks
    \/ ReadConfiguration \/ ReadProject

PromptsSpec == PromptsIdle /\ [][PromptsNext]_promptVars

------------------------------------------------------------------------------
\* Properties

HadEmpty(scope) == \E stored \in had.templates[scope] : stored[request.kind].empty

\* Where a template may come from, nearest scope first: a scope is passed over only
\* when it was without a template of the kind at some moment of the request.
Stood(body, kind) ==
    \/ \E stored \in had.templates["F-1"] : stored[kind] = body
    \/ /\ HadEmpty("F-1")
       /\ \E p \in had.homes :
            \/ \E stored \in had.templates[p] : stored[kind] = body
            \/ /\ HadEmpty(p)
               /\ \E stored \in had.templates["config"], lang \in had.languages :
                     NormalizedTemplates(lang, stored)[kind] = body

\* A prompt that is handed out leaves no placeholder in place and names its tasks, is
\* the nearest template of those that stood while the request ran, and is of the kind
\* asked for or the one that the plan of the task asks for; a request is refused only
\* when the task, or a project that its feature was in, was deleted or the file invalid
\* meanwhile, never by an override that was accepted before (GetTaskPrompt, GetBatchPrompt, applyPromptOverrides).
PromptsAreWhatStood ==
    /\ request.pc = "given" =>
         /\ ~request.body.empty
         /\ request.body.uses \subseteq
              (IF request.kind \in BatchKinds THEN OfBatch ELSE OfTask)
         /\ (IF request.kind \in BatchKinds THEN "task_list" ELSE "task_id") \in request.body.uses
         /\ Stood(request.body, request.kind)
         /\ request.kind \in IF request.kind \in BatchKinds THEN {BatchPromptKind(had.asked)}
                            ELSE IF had.asked = "derived" THEN {KindFor(plan) : plan \in had.plans}
                            ELSE {had.asked}
    /\ request.pc = "refused" =>
         \/ request.why = "not_found" /\ \E x \in {"task"} \cup had.homes : x \notin undeleted
         \/ /\ request.why = "invalid_config"
            /\ \E stored \in had.templates["config"] :
                  \E kind \in TemplateKinds : ~stored[kind].empty /\ ~ValidateTemplate(kind, stored[kind])

==============================================================================
