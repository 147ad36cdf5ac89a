-------------------------------- MODULE Config --------------------------------
(***************************************************************************)
(* The configuration as a value: internal/config/config.go, and of         *)
(* internal/prompt and internal/domain/task_labels.go what it calls.       *)
(*                                                                         *)
(* An operation is written as the set of configurations it can end in:     *)
(* none when it refuses, one otherwise.  A host's four URLs are one value, *)
(* the host whose origin they are on, or Blank when left out.  Of a        *)
(* credential's fields only the token matters to the others.               *)
(***************************************************************************)
EXTENDS Naturals, SequencesExt, Functions

CONSTANTS
    Blank,            \* the empty string, and a key that is left out
    GitHubCom,        \* the default host
    Kinds,            \* kinds of prompt template
    Texts, BadText,   \* templates people write; one that Normalize refuses
    Labels,           \* the task states and block labels that have a text and a colour
    AutoPort,         \* server.port left to the program
    MinimumInterval, DefaultInterval

Languages == {"en", "ja"}

BuiltIn(k, language) == <<k, language>>
DefaultTemplates(language) == [k \in Kinds |-> BuiltIn(k, language)]

\* auto is the locale of the process that asks.
EffectiveLanguage(c, locale) == IF c.language = "auto" THEN locale ELSE c.language

\* auth_methods left out (given = FALSE) means the implicit credentials of
\* github.com; an empty list means none at all.
Default(locale) ==
    [language |-> "auto", hosts |-> (GitHubCom :> GitHubCom),
     methods |-> [given |-> FALSE, list |-> <<>>],
     interval |-> DefaultInterval, port |-> AutoPort, skipped |-> Blank,
     prompts |-> DefaultTemplates(locale), labels |-> [l \in Labels |-> [text |-> Blank, color |-> Blank]]]

------------------------------------------------------------------------------
\* Normalize

ValidMethod(m) == (m.type = "inline") = (m.token # Blank)

ValidHost(name, urls) == urls \in {Blank, name}

ValidMethods(list, hosts) ==
    /\ \A i, j \in DOMAIN list : i # j => list[i].id # list[j].id
    /\ \A i \in DOMAIN list : list[i].host \in DOMAIN hosts /\ ValidMethod(list[i])

Filled(templates, language) ==
    [k \in Kinds |-> IF templates[k] = Blank THEN BuiltIn(k, language) ELSE templates[k]]

Normalize(c, locale) ==
    LET hosts == IF DOMAIN c.hosts = {} THEN (GitHubCom :> GitHubCom)
                 ELSE [h \in DOMAIN c.hosts |-> h]
        interval == IF c.interval = 0 THEN DefaultInterval ELSE c.interval
        ok == /\ \A h \in DOMAIN c.hosts : ValidHost(h, c.hosts[h])
              /\ ValidMethods(c.methods.list, hosts)
              /\ interval >= MinimumInterval
              /\ \A k \in Kinds : c.prompts[k] # BadText
        normal == [c EXCEPT !.hosts = hosts, !.interval = interval,
                            !.prompts = Filled(c.prompts, EffectiveLanguage(c, locale))]
    IN  {d \in {normal} : ok}

\* MarshalYAML: a template that is the built-in one is left out of the file,
\* the difference between no methods and an empty list is kept.
\* A slip one could make: omitempty on the list itself.
OmitEmpty(methods) == [methods EXCEPT !.given = Len(methods.list) > 0]
KeepMethods(methods) == methods

Marshal(c, locale) ==
    LET defaults == DefaultTemplates(EffectiveLanguage(c, locale))
    IN  [c EXCEPT !.methods = KeepMethods(c.methods),
                  !.prompts = [k \in Kinds |-> IF @[k] = defaults[k] THEN Blank ELSE @[k]]]

\* What a file holds: nothing yet, something that does not decode (or that others
\* may read), or a configuration.
Absent == [state |-> "absent", text |-> Blank]
Broken == [state |-> "broken", text |-> Blank]
Whole(text) == [state |-> "whole", text |-> text]

\* loadLocked, once the file has been read.
Decode(content, locale) ==
    CASE content.state = "absent" -> {Default(locale)}
      [] content.state = "whole" -> Normalize(content.text, locale)
      [] OTHER -> {}

------------------------------------------------------------------------------
\* Hosts.  A change names the fields it changes (a flag that was given, a field
\* of the message that is set).

WithList(c, list) == [c EXCEPT !.methods = [@ EXCEPT !.list = list]]

AddHost(c, r, locale) ==
    IF r.host \in DOMAIN c.hosts THEN {}
    ELSE Normalize([c EXCEPT !.hosts = (r.host :> r.urls) @@ @], locale)

\* The methods of a host that is renamed follow it.
Renamed(list, old, new) == [i \in DOMAIN list |-> IF list[i].host = old THEN [list[i] EXCEPT !.host = new] ELSE list[i]]

UpdateHost(c, r, locale) ==
    LET change == r.fields @@ [name |-> r.host, urls |-> c.hosts[r.host]]
        others == Restrict(c.hosts, DOMAIN c.hosts \ {r.host})
    IN  IF r.host \notin DOMAIN c.hosts \/ change.name \in DOMAIN others THEN {}
        ELSE Normalize(WithList([c EXCEPT !.hosts = (change.name :> change.urls) @@ others],
                                Renamed(c.methods.list, r.host, change.name)), locale)

RemoveHost(c, r, locale) ==
    IF r.host = GitHubCom \/ r.host \notin DOMAIN c.hosts
       \/ \E m \in Range(c.methods.list) : m.host = r.host
    THEN {}
    ELSE Normalize([c EXCEPT !.hosts = Restrict(@, DOMAIN @ \ {r.host})], locale)

------------------------------------------------------------------------------
\* Credentials, tried in the order of the list

Given(list) == [given |-> TRUE, list |-> list]

AddAuthMethod(c, r, locale) ==
    Normalize([c EXCEPT !.methods = Given(Append(c.methods.list, r.method))], locale)

UpdateAuthMethod(c, r, locale) ==
    UNION {LET patched == r.fields @@ c.methods.list[i]
               method == IF patched.type = "inline" THEN patched ELSE [patched EXCEPT !.token = Blank]
           IN  Normalize(WithList(c, [c.methods.list EXCEPT ![i] = method]), locale)
           : i \in {i \in DOMAIN c.methods.list : c.methods.list[i].id = r.id}}

RemoveAuthMethod(c, r, locale) ==
    UNION {Normalize(WithList(c, RemoveAt(c.methods.list, i)), locale)
           : i \in {i \in DOMAIN c.methods.list : c.methods.list[i].id = r.id}}

\* Without methods and without ids, the list that was left out is written as an
\* empty one: make(...) is not nil.
ReorderAuthMethods(c, r, locale) ==
    LET list == c.methods.list
        ordered == [i \in DOMAIN r.ids |-> CHOOSE m \in Range(list) : m.id = r.ids[i]]
    IN  IF Len(r.ids) # Len(list) \/ Range(r.ids) # {m.id : m \in Range(list)} THEN {}
        ELSE Normalize([c EXCEPT !.methods = Given(ordered)], locale)

------------------------------------------------------------------------------
\* Templates, language, labels and the rest

SetPrompts(c, r, locale) == Normalize([c EXCEPT !.prompts = r.prompts], locale)

\* A template that is the built-in one of the old language is blanked, so that
\* Normalize fills in the new language's.
\* A slip one could make: keep the templates as Normalize filled them in.
AsLoaded(templates, old) == templates
Following(templates, old) == [k \in Kinds |-> IF templates[k] = old[k] THEN Blank ELSE templates[k]]

SetLanguage(c, r, locale) ==
    LET old == DefaultTemplates(EffectiveLanguage(c, locale))
    IN  Normalize([c EXCEPT !.language = r.language,
                            !.prompts = Following(@, old)], locale)

SetAutoSyncInterval(c, r, locale) ==
    IF r.seconds < MinimumInterval THEN {} ELSE Normalize([c EXCEPT !.interval = r.seconds], locale)

SetServerPort(c, r, locale) == Normalize([c EXCEPT !.port = r.port], locale)

SetSkippedUpdateVersion(c, r, locale) == Normalize([c EXCEPT !.skipped = r.version], locale)

\* Text and colour of a label are set and taken back one by one.
SetTaskLabelOverrides(c, r, locale) ==
    Normalize([c EXCEPT !.labels = [l \in Labels |-> IF l \in DOMAIN r.labels THEN r.labels[l] @@ @[l] ELSE @[l]]],
              locale)

Apply(c, r, locale) ==
    CASE r.op = "AddHost" -> AddHost(c, r, locale)
      [] r.op = "UpdateHost" -> UpdateHost(c, r, locale)
      [] r.op = "RemoveHost" -> RemoveHost(c, r, locale)
      [] r.op = "AddAuthMethod" -> AddAuthMethod(c, r, locale)
      [] r.op = "UpdateAuthMethod" -> UpdateAuthMethod(c, r, locale)
      [] r.op = "RemoveAuthMethod" -> RemoveAuthMethod(c, r, locale)
      [] r.op = "ReorderAuthMethods" -> ReorderAuthMethods(c, r, locale)
      [] r.op = "SetPrompts" -> SetPrompts(c, r, locale)
      [] r.op = "SetLanguage" -> SetLanguage(c, r, locale)
      [] r.op = "SetAutoSyncInterval" -> SetAutoSyncInterval(c, r, locale)
      [] r.op = "SetServerPort" -> SetServerPort(c, r, locale)
      [] r.op = "SetSkippedUpdateVersion" -> SetSkippedUpdateVersion(c, r, locale)
      [] r.op = "SetTaskLabelOverrides" -> SetTaskLabelOverrides(c, r, locale)
      [] OTHER -> {}
===============================================================================
