--------------------------- MODULE ConfigFileProofs ---------------------------
(***************************************************************************)
(* Proofs about ConfigFile: the lock makes every update atomic, so that    *)
(* the file implements ConfigAtomic; and what updates never do to the      *)
(* credentials and the templates that it holds.                            *)
(***************************************************************************)
EXTENDS ConfigFile, TLAPS

------------------------------------------------------------------------------
\* The operators of the instance are those of Config

\* Reading the file is the same in the abstract specification,
LEMMA SameDecode == \A content, locale : Abstract!Decode(content, locale) = Decode(content, locale)
  BY DEF Abstract!Decode, Decode, Abstract!Default, Default, Abstract!Normalize, Normalize,
         Abstract!ValidHost, ValidHost, Abstract!ValidMethods, ValidMethods, Abstract!ValidMethod, ValidMethod,
         Abstract!Filled, Filled, Abstract!BuiltIn, BuiltIn, Abstract!DefaultTemplates, DefaultTemplates,
         Abstract!EffectiveLanguage, EffectiveLanguage

\* filling the gaps of a configuration is,
LEMMA SameNormalize == \A c, locale : Abstract!Normalize(c, locale) = Normalize(c, locale)
  BY DEF Abstract!Normalize, Normalize, Abstract!ValidHost, ValidHost,
         Abstract!ValidMethods, ValidMethods, Abstract!ValidMethod, ValidMethod, Abstract!Filled, Filled,
         Abstract!BuiltIn, BuiltIn, Abstract!EffectiveLanguage, EffectiveLanguage

\* changing the hosts is,
LEMMA SameHosts ==
  \A c, r, locale : /\ Abstract!AddHost(c, r, locale) = AddHost(c, r, locale)
                    /\ Abstract!UpdateHost(c, r, locale) = UpdateHost(c, r, locale)
                    /\ Abstract!RemoveHost(c, r, locale) = RemoveHost(c, r, locale)
  BY SameNormalize
     DEF Abstract!AddHost, AddHost, Abstract!UpdateHost, UpdateHost, Abstract!RemoveHost, RemoveHost,
         Abstract!Renamed, Renamed, Abstract!WithList, WithList, Abstract!Restrict, Restrict,
         Abstract!Range, Range

\* changing the credentials is,
LEMMA SameAuthMethods ==
  \A c, r, locale : /\ Abstract!AddAuthMethod(c, r, locale) = AddAuthMethod(c, r, locale)
                    /\ Abstract!UpdateAuthMethod(c, r, locale) = UpdateAuthMethod(c, r, locale)
                    /\ Abstract!RemoveAuthMethod(c, r, locale) = RemoveAuthMethod(c, r, locale)
                    /\ Abstract!ReorderAuthMethods(c, r, locale) = ReorderAuthMethods(c, r, locale)
<1> SUFFICES ASSUME NEW c, NEW r, NEW locale
             PROVE  /\ Abstract!AddAuthMethod(c, r, locale) = AddAuthMethod(c, r, locale)
                    /\ Abstract!UpdateAuthMethod(c, r, locale) = UpdateAuthMethod(c, r, locale)
                    /\ Abstract!RemoveAuthMethod(c, r, locale) = RemoveAuthMethod(c, r, locale)
                    /\ Abstract!ReorderAuthMethods(c, r, locale) = ReorderAuthMethods(c, r, locale)
  OBVIOUS
<1>1. Abstract!AddAuthMethod(c, r, locale) = AddAuthMethod(c, r, locale)
  BY SameNormalize DEF Abstract!AddAuthMethod, AddAuthMethod, Abstract!Given, Given
<1>2. Abstract!UpdateAuthMethod(c, r, locale) = UpdateAuthMethod(c, r, locale)
  BY SameNormalize DEF Abstract!UpdateAuthMethod, UpdateAuthMethod, Abstract!Given, Given, Abstract!WithList, WithList
<1>3. Abstract!RemoveAuthMethod(c, r, locale) = RemoveAuthMethod(c, r, locale)
  <2> DEFINE without(i) == [c EXCEPT !.methods = [@ EXCEPT !.list = RemoveAt(c.methods.list, i)]]
             named == {i \in DOMAIN c.methods.list : c.methods.list[i].id = r.id}
  <2>1. RemoveAuthMethod(c, r, locale) = UNION {Normalize(without(i), locale) : i \in named}
    BY DEF RemoveAuthMethod, WithList
  <2>2. Abstract!RemoveAuthMethod(c, r, locale) = UNION {Abstract!Normalize(without(i), locale) : i \in named}
    BY DEF Abstract!RemoveAuthMethod, Abstract!WithList, Abstract!RemoveAt, RemoveAt
  <2> HIDE DEF without, named
  <2> QED BY <2>1, <2>2, SameNormalize
<1>4. Abstract!ReorderAuthMethods(c, r, locale) = ReorderAuthMethods(c, r, locale)
  <2> DEFINE ordered == [i \in DOMAIN r.ids |-> CHOOSE m \in Range(c.methods.list) : m.id = r.ids[i]]
             config == [c EXCEPT !.methods = Given(ordered)]
             refused == Len(r.ids) # Len(c.methods.list) \/ Range(r.ids) # {m.id : m \in Range(c.methods.list)}
  <2>1. ReorderAuthMethods(c, r, locale) = IF refused THEN {} ELSE Normalize(config, locale)
    BY DEF ReorderAuthMethods
  <2>2. Abstract!ReorderAuthMethods(c, r, locale) = IF refused THEN {} ELSE Abstract!Normalize(config, locale)
    BY DEF Abstract!ReorderAuthMethods, Abstract!Given, Given, Abstract!Range, Range
  <2> HIDE DEF config, refused
  <2> QED BY <2>1, <2>2, SameNormalize
<1> QED BY <1>1, <1>2, <1>3, <1>4

\* changing the other settings is,
LEMMA SameSettings ==
  \A c, r, locale : /\ Abstract!SetPrompts(c, r, locale) = SetPrompts(c, r, locale)
                    /\ Abstract!SetLanguage(c, r, locale) = SetLanguage(c, r, locale)
                    /\ Abstract!SetAutoSyncInterval(c, r, locale) = SetAutoSyncInterval(c, r, locale)
                    /\ Abstract!SetServerPort(c, r, locale) = SetServerPort(c, r, locale)
                    /\ Abstract!SetSkippedUpdateVersion(c, r, locale) = SetSkippedUpdateVersion(c, r, locale)
                    /\ Abstract!SetTaskLabelOverrides(c, r, locale) = SetTaskLabelOverrides(c, r, locale)
  BY SameNormalize
     DEF Abstract!SetPrompts, SetPrompts, Abstract!SetLanguage, SetLanguage,
         Abstract!Following, Following, Abstract!DefaultTemplates, DefaultTemplates,
         Abstract!BuiltIn, BuiltIn, Abstract!EffectiveLanguage, EffectiveLanguage,
         Abstract!SetAutoSyncInterval, SetAutoSyncInterval, Abstract!SetServerPort, SetServerPort,
         Abstract!SetSkippedUpdateVersion, SetSkippedUpdateVersion,
         Abstract!SetTaskLabelOverrides, SetTaskLabelOverrides

\* so every update is,
LEMMA SameApply == \A c, r, locale : Abstract!Apply(c, r, locale) = Apply(c, r, locale)
  BY SameHosts, SameAuthMethods, SameSettings DEF Abstract!Apply, Apply

\* and so is what is written to the file.
LEMMA SameFile == /\ \A c, locale : Abstract!Whole(Abstract!Marshal(c, locale)) = Whole(Marshal(c, locale))
                  /\ Abstract!Languages = Languages
  BY DEF Abstract!Whole, Whole, Abstract!Marshal, Marshal, Abstract!KeepMethods, KeepMethods,
         Abstract!BuiltIn, BuiltIn, Abstract!EffectiveLanguage, EffectiveLanguage,
         Abstract!DefaultTemplates, DefaultTemplates, Abstract!Languages, Languages

------------------------------------------------------------------------------
\* What the operations of Config do to templates and credentials

\* Configurations that agree in language and templates, the second one with
\* credentials of its own if the first one has them.
Like(e, c) == /\ DOMAIN e = DOMAIN c /\ e.language = c.language /\ e.prompts = c.prompts
              /\ "given" \in DOMAIN e.methods /\ (c.methods.given => e.methods.given)

\* Filling the gaps leaves what is there alone.
LEMMA Normalized ==
  ASSUME NEW e, {"language", "methods", "prompts"} \subseteq DOMAIN e, NEW locale, NEW d \in Normalize(e, locale)
  PROVE  /\ DOMAIN d = DOMAIN e /\ d.language = e.language /\ d.methods = e.methods
         /\ d.prompts = Filled(e.prompts, EffectiveLanguage(e, locale))
  BY DEF Normalize

\* Adding a host leaves the rest of the configuration alone,
LEMMA AddHostKeeps ==
  ASSUME NEW c, IsConfig(c), NEW r, NEW locale, NEW d \in AddHost(c, r, locale)
  PROVE  \E e : d \in Normalize(e, locale) /\ Like(e, c)
<1> DEFINE e == [c EXCEPT !.hosts = (r.host :> r.urls) @@ @]
<1>1. d \in Normalize(e, locale)
  BY DEF AddHost
<1>2. Like(e, c)
  BY DEF Like, IsConfig
<1> QED BY <1>1, <1>2

\* so does changing one,
LEMMA UpdateHostKeeps ==
  ASSUME NEW c, IsConfig(c), NEW r, NEW locale, NEW d \in UpdateHost(c, r, locale)
  PROVE  \E e : d \in Normalize(e, locale) /\ Like(e, c)
<1> DEFINE change == r.fields @@ [name |-> r.host, urls |-> c.hosts[r.host]]
           others == Restrict(c.hosts, DOMAIN c.hosts \ {r.host})
           hosted == [c EXCEPT !.hosts = (change.name :> change.urls) @@ others]
           e == WithList(hosted, Renamed(c.methods.list, r.host, change.name))
<1>1. d \in Normalize(e, locale)
  BY DEF UpdateHost
<1>2. Like(e, c)
  <2> HIDE DEF change, others
  <2> QED BY DEF Like, IsConfig, WithList
<1> QED BY <1>1, <1>2

\* removing one,
LEMMA RemoveHostKeeps ==
  ASSUME NEW c, IsConfig(c), NEW r, NEW locale, NEW d \in RemoveHost(c, r, locale)
  PROVE  \E e : d \in Normalize(e, locale) /\ Like(e, c)
<1> DEFINE e == [c EXCEPT !.hosts = Restrict(@, DOMAIN @ \ {r.host})]
<1>1. d \in Normalize(e, locale)
  BY DEF RemoveHost
<1>2. Like(e, c)
  BY DEF Like, IsConfig
<1> QED BY <1>1, <1>2

\* adding a credential,
LEMMA AddAuthMethodKeeps ==
  ASSUME NEW c, IsConfig(c), NEW r, NEW locale, NEW d \in AddAuthMethod(c, r, locale)
  PROVE  \E e : d \in Normalize(e, locale) /\ Like(e, c)
<1> DEFINE e == [c EXCEPT !.methods = Given(Append(c.methods.list, r.method))]
<1>1. d \in Normalize(e, locale)
  BY DEF AddAuthMethod
<1>2. Like(e, c)
  BY DEF Like, IsConfig, Given
<1> QED BY <1>1, <1>2

\* putting another list of credentials,
LEMMA WithListKeeps == ASSUME NEW c, IsConfig(c), NEW list PROVE Like(WithList(c, list), c)
  BY DEF Like, IsConfig, WithList

\* changing a credential,
LEMMA UpdateAuthMethodKeeps ==
  ASSUME NEW c, IsConfig(c), NEW r, NEW locale, NEW d \in UpdateAuthMethod(c, r, locale)
  PROVE  \E e : d \in Normalize(e, locale) /\ Like(e, c)
<1>1. PICK list : d \in Normalize(WithList(c, list), locale)
  BY DEF UpdateAuthMethod
<1> QED BY <1>1, WithListKeeps

\* removing one,
LEMMA RemoveAuthMethodKeeps ==
  ASSUME NEW c, IsConfig(c), NEW r, NEW locale, NEW d \in RemoveAuthMethod(c, r, locale)
  PROVE  \E e : d \in Normalize(e, locale) /\ Like(e, c)
<1>1. PICK list : d \in Normalize(WithList(c, list), locale)
  BY DEF RemoveAuthMethod
<1> QED BY <1>1, WithListKeeps

\* ordering them anew,
LEMMA ReorderAuthMethodsKeeps ==
  ASSUME NEW c, IsConfig(c), NEW r, NEW locale, NEW d \in ReorderAuthMethods(c, r, locale)
  PROVE  \E e : d \in Normalize(e, locale) /\ Like(e, c)
<1>1. PICK list : d \in Normalize([c EXCEPT !.methods = Given(list)], locale)
  BY DEF ReorderAuthMethods
<1>2. Like([c EXCEPT !.methods = Given(list)], c)
  BY DEF Like, IsConfig, Given
<1> QED BY <1>1, <1>2

\* setting the interval,
LEMMA SetAutoSyncIntervalKeeps ==
  ASSUME NEW c, IsConfig(c), NEW r, NEW locale, NEW d \in SetAutoSyncInterval(c, r, locale)
  PROVE  \E e : d \in Normalize(e, locale) /\ Like(e, c)
<1> DEFINE e == [c EXCEPT !.interval = r.seconds]
<1>1. d \in Normalize(e, locale)
  BY DEF SetAutoSyncInterval
<1>2. Like(e, c)
  BY DEF Like, IsConfig
<1> QED BY <1>1, <1>2

\* the port,
LEMMA SetServerPortKeeps ==
  ASSUME NEW c, IsConfig(c), NEW r, NEW locale, NEW d \in SetServerPort(c, r, locale)
  PROVE  \E e : d \in Normalize(e, locale) /\ Like(e, c)
<1> DEFINE e == [c EXCEPT !.port = r.port]
<1>1. d \in Normalize(e, locale)
  BY DEF SetServerPort
<1>2. Like(e, c)
  BY DEF Like, IsConfig
<1> QED BY <1>1, <1>2

\* the version to skip,
LEMMA SetSkippedUpdateVersionKeeps ==
  ASSUME NEW c, IsConfig(c), NEW r, NEW locale, NEW d \in SetSkippedUpdateVersion(c, r, locale)
  PROVE  \E e : d \in Normalize(e, locale) /\ Like(e, c)
<1> DEFINE e == [c EXCEPT !.skipped = r.version]
<1>1. d \in Normalize(e, locale)
  BY DEF SetSkippedUpdateVersion
<1>2. Like(e, c)
  BY DEF Like, IsConfig
<1> QED BY <1>1, <1>2

\* and the labels.
LEMMA SetTaskLabelOverridesKeeps ==
  ASSUME NEW c, IsConfig(c), NEW r, NEW locale, NEW d \in SetTaskLabelOverrides(c, r, locale)
  PROVE  \E e : d \in Normalize(e, locale) /\ Like(e, c)
<1> DEFINE e == [c EXCEPT !.labels = [l \in Labels |-> IF l \in DOMAIN r.labels THEN r.labels[l] @@ @[l] ELSE @[l]]]
<1>1. d \in Normalize(e, locale)
  BY DEF SetTaskLabelOverrides
<1>2. Like(e, c)
  BY DEF Like, IsConfig
<1> QED BY <1>1, <1>2

\* All updates but those of the templates and the language.
LEMMA OthersKeep ==
  ASSUME NEW c, IsConfig(c), NEW r, r.op \notin {"SetPrompts", "SetLanguage"},
         NEW locale, NEW d \in Apply(c, r, locale)
  PROVE  \E e : d \in Normalize(e, locale) /\ Like(e, c)
<1>1. \/ d \in AddHost(c, r, locale) \/ d \in UpdateHost(c, r, locale) \/ d \in RemoveHost(c, r, locale)
      \/ d \in AddAuthMethod(c, r, locale) \/ d \in UpdateAuthMethod(c, r, locale)
      \/ d \in RemoveAuthMethod(c, r, locale) \/ d \in ReorderAuthMethods(c, r, locale)
      \/ d \in SetAutoSyncInterval(c, r, locale) \/ d \in SetServerPort(c, r, locale)
      \/ d \in SetSkippedUpdateVersion(c, r, locale) \/ d \in SetTaskLabelOverrides(c, r, locale)
  BY DEF Apply
<1> QED
  BY <1>1, AddHostKeeps, UpdateHostKeeps, RemoveHostKeeps, AddAuthMethodKeeps, UpdateAuthMethodKeeps,
     RemoveAuthMethodKeeps, ReorderAuthMethodsKeeps, SetAutoSyncIntervalKeeps, SetServerPortKeeps,
     SetSkippedUpdateVersionKeeps, SetTaskLabelOverridesKeeps

\* The language that is spoken is one of the languages.
LEMMA LanguageSpoken ==
  ASSUME NEW c, c.language \in Languages \cup {"auto"}, NEW locale \in Languages
  PROVE  EffectiveLanguage(c, locale) \in Languages
  BY DEF EffectiveLanguage

\* With its gaps filled, a configuration is one,
LEMMA NormalizedIsConfig ==
  ASSUME NEW e, IsConfig(e), NEW locale \in Languages, NEW d \in Normalize(e, locale)
  PROVE  IsConfig(d)
<1>1. /\ DOMAIN d = DOMAIN e /\ d.language = e.language /\ d.methods = e.methods
      /\ d.prompts = Filled(e.prompts, EffectiveLanguage(e, locale))
  BY Normalized DEF IsConfig
<1>2. Templated(d)
  BY <1>1, LanguageSpoken DEF Templated, IsConfig, Filled, Templates
<1> QED BY <1>1, <1>2 DEF IsConfig

\* and so is what differs from one in other fields only.
LEMMA LikeIsConfig == ASSUME NEW c, IsConfig(c), NEW e, Like(e, c) PROVE IsConfig(e)
  BY DEF Like, IsConfig, Templated

\* Setting the language takes the built-in templates along.
LEMMA SetLanguageTo ==
  ASSUME NEW c, IsConfig(c), NEW r, NEW locale, NEW d \in SetLanguage(c, r, locale)
  PROVE  \E e : /\ d \in Normalize(e, locale)
                /\ DOMAIN e = DOMAIN c /\ e.methods = c.methods /\ e.language = r.language
                /\ e.prompts = Following(c.prompts, DefaultTemplates(EffectiveLanguage(c, locale)))
<1> DEFINE e == [c EXCEPT !.language = r.language,
                          !.prompts = Following(@, DefaultTemplates(EffectiveLanguage(c, locale)))]
<1>1. d \in Normalize(e, locale)
  BY DEF SetLanguage
<1>2. /\ DOMAIN e = DOMAIN c /\ e.methods = c.methods /\ e.language = r.language
      /\ e.prompts = Following(c.prompts, DefaultTemplates(EffectiveLanguage(c, locale)))
  BY DEF IsConfig
<1> QED BY <1>1, <1>2

\* Setting the templates leaves the language and the credentials alone.
LEMMA SetPromptsTo ==
  ASSUME NEW c, IsConfig(c), NEW r, NEW locale, NEW d \in SetPrompts(c, r, locale)
  PROVE  \E e : /\ d \in Normalize(e, locale)
                /\ DOMAIN e = DOMAIN c /\ e.methods = c.methods /\ e.language = c.language
                /\ e.prompts = r.prompts
<1> DEFINE e == [c EXCEPT !.prompts = r.prompts]
<1>1. d \in Normalize(e, locale)
  BY DEF SetPrompts
<1>2. /\ DOMAIN e = DOMAIN c /\ e.methods = c.methods /\ e.language = c.language /\ e.prompts = r.prompts
  BY DEF IsConfig
<1> QED BY <1>1, <1>2

\* Updates lead from configurations to configurations, and never take the
\* credentials for left out again.
LEMMA Applied ==
  ASSUME NEW c, IsConfig(c), NEW r \in AllUpdates, NEW locale \in Languages, NEW d \in Apply(c, r, locale)
  PROVE  IsConfig(d) /\ (c.methods.given => d.methods.given)
<1>1. CASE r.op = "SetLanguage"
  <2>1. PICK e : /\ d \in Normalize(e, locale)
                 /\ DOMAIN e = DOMAIN c /\ e.methods = c.methods /\ e.language = r.language
                 /\ e.prompts = Following(c.prompts, DefaultTemplates(EffectiveLanguage(c, locale)))
    BY <1>1, SetLanguageTo DEF Apply
  <2>2. r.language \in Languages \cup {"auto"}
    BY <1>1, ConfigFileAssumption DEF AllUpdates
  <2>3. Templated(e)
    BY <2>1 DEF Templated, IsConfig, Following, Templates
  <2>4. IsConfig(e)
    BY <2>1, <2>2, <2>3 DEF IsConfig
  <2>5. d.methods = e.methods
    BY <2>1, <2>4, Normalized DEF IsConfig
  <2> QED BY <2>1, <2>4, <2>5, NormalizedIsConfig
<1>2. CASE r.op = "SetPrompts"
  <2>1. PICK e : /\ d \in Normalize(e, locale)
                 /\ DOMAIN e = DOMAIN c /\ e.methods = c.methods /\ e.language = c.language
                 /\ e.prompts = r.prompts
    BY <1>2, SetPromptsTo DEF Apply
  <2>2. r.prompts \in [Kinds -> Templates]
    BY <1>2, ConfigFileAssumption DEF AllUpdates
  <2>3. IsConfig(e)
    BY <2>1, <2>2 DEF IsConfig, Templated
  <2>4. d.methods = e.methods
    BY <2>1, <2>3, Normalized DEF IsConfig
  <2> QED BY <2>1, <2>3, <2>4, NormalizedIsConfig
<1>3. CASE r.op \notin {"SetPrompts", "SetLanguage"}
  <2>1. PICK e : d \in Normalize(e, locale) /\ Like(e, c)
    BY <1>3, OthersKeep
  <2>2. IsConfig(e)
    BY <2>1, LikeIsConfig
  <2>3. d.methods = e.methods
    BY <2>1, <2>2, Normalized DEF IsConfig
  <2> QED BY <2>1, <2>2, <2>3, NormalizedIsConfig DEF Like
<1> QED BY <1>1, <1>2, <1>3

IsContent(content) == /\ content.state \in {"absent", "broken", "whole"}
                      /\ content.state = "whole" => IsConfig(content.text)

\* What a missing file stands for is a configuration,
LEMMA DefaultIsConfig ==
  ASSUME NEW locale \in Languages
  PROVE  /\ IsConfig(Default(locale)) /\ EffectiveLanguage(Default(locale), locale) = locale
         /\ Default(locale).prompts = DefaultTemplates(locale)
  BY DEF Default, IsConfig, Templated, DefaultTemplates, Templates, EffectiveLanguage

\* and so is what any file is read as.
LEMMA Decoded ==
  ASSUME NEW content, IsContent(content), NEW locale \in Languages, NEW c \in Decode(content, locale)
  PROVE  /\ IsConfig(c)
         /\ content.state = "whole" => c.methods = content.text.methods
<1>1. CASE content.state = "absent"
  BY <1>1, DefaultIsConfig DEF Decode
<1>2. CASE content.state = "whole"
  BY <1>2, NormalizedIsConfig, Normalized DEF Decode, IsContent, IsConfig
<1> QED BY <1>1, <1>2 DEF IsContent, Decode

\* What is written to the file is a configuration, with the same credentials, and without the built-in templates.
LEMMA Marshalled ==
  ASSUME NEW c, IsConfig(c), NEW locale \in Languages
  PROVE  /\ IsContent(Whole(Marshal(c, locale)))
         /\ Marshal(c, locale).methods = c.methods
         /\ \A k \in Kinds :
              Marshal(c, locale).prompts[k] =
                IF c.prompts[k] = BuiltIn(k, EffectiveLanguage(c, locale)) THEN Blank ELSE c.prompts[k]
<1> DEFINE m == Marshal(c, locale)
<1>1. DOMAIN m = DOMAIN c /\ m.methods = c.methods /\ m.language = c.language
  BY DEF Marshal, KeepMethods, IsConfig
<1>2. \A k \in Kinds :
        m.prompts[k] = IF c.prompts[k] = BuiltIn(k, EffectiveLanguage(c, locale)) THEN Blank ELSE c.prompts[k]
  BY DEF Marshal, DefaultTemplates, IsConfig
<1>3. IsConfig(m)
  <2> HIDE DEF m
  <2>1. Templated(m)
    BY <1>2 DEF Templated, IsConfig, Templates
  <2> QED BY <1>1, <2>1 DEF IsConfig
<1>4. IsContent(Whole(m))
  <2> HIDE DEF m
  <2> QED BY <1>3 DEF IsContent, Whole
<1> QED BY <1>1, <1>2, <1>4

\* A kind that the file leaves out stays left out, whatever the language was and
\* becomes, but for an update of the templates.
LEMMA LeftOut ==
  ASSUME NEW content, IsContent(content), NEW k \in Kinds,
         content.state = "whole" => content.text.prompts[k] = Blank,
         NEW locale \in Languages, NEW c \in Decode(content, locale),
         NEW r \in AllUpdates, r.op # "SetPrompts", NEW d \in Apply(c, r, locale)
  PROVE  Marshal(d, locale).prompts[k] = Blank
<1>1. IsConfig(c) /\ c.prompts[k] = BuiltIn(k, EffectiveLanguage(c, locale))
  <2>1. CASE content.state = "absent"
    <3>1. c = Default(locale)
      BY <2>1 DEF Decode
    <3>2. DefaultTemplates(locale)[k] = BuiltIn(k, locale)
      BY DEF DefaultTemplates
    <3> QED BY <3>1, <3>2, DefaultIsConfig
  <2>2. CASE content.state = "whole"
    <3>1. c.prompts = Filled(content.text.prompts, EffectiveLanguage(content.text, locale))
          /\ c.language = content.text.language
      BY <2>2, Normalized DEF Decode, IsContent, IsConfig
    <3> QED BY <3>1, <2>2, Decoded DEF Filled, EffectiveLanguage
  <2> QED BY <2>1, <2>2 DEF IsContent, Decode
<1>2. \E e : /\ d \in Normalize(e, locale) /\ {"language", "methods", "prompts"} \subseteq DOMAIN e
             /\ e.prompts[k] \in {Blank, BuiltIn(k, EffectiveLanguage(e, locale))}
  <2>1. CASE r.op = "SetLanguage"
    <3>1. PICK e : /\ d \in Normalize(e, locale)
                   /\ DOMAIN e = DOMAIN c /\ e.methods = c.methods /\ e.language = r.language
                   /\ e.prompts = Following(c.prompts, DefaultTemplates(EffectiveLanguage(c, locale)))
      BY <2>1, <1>1, SetLanguageTo DEF Apply
    <3>2. e.prompts[k] = Blank
      <4>1. c.prompts[k] = DefaultTemplates(EffectiveLanguage(c, locale))[k]
        BY <1>1 DEF DefaultTemplates
      <4> QED BY <3>1, <4>1 DEF Following
    <3> QED BY <3>1, <3>2, <1>1 DEF IsConfig
  <2>2. CASE r.op # "SetLanguage"
    <3>1. PICK e : d \in Normalize(e, locale) /\ Like(e, c)
      BY <2>2, <1>1, OthersKeep
    <3> QED BY <3>1, <1>1 DEF Like, IsConfig, EffectiveLanguage
  <2> QED BY <2>1, <2>2
<1>3. PICK e : /\ d \in Normalize(e, locale) /\ {"language", "methods", "prompts"} \subseteq DOMAIN e
               /\ e.prompts[k] \in {Blank, BuiltIn(k, EffectiveLanguage(e, locale))}
  BY <1>2
<1>4. d.prompts[k] = BuiltIn(k, EffectiveLanguage(d, locale))
  <2>1. d.language = e.language /\ d.prompts = Filled(e.prompts, EffectiveLanguage(e, locale))
    BY <1>3, Normalized
  <2>2. EffectiveLanguage(d, locale) = EffectiveLanguage(e, locale)
    BY <2>1 DEF EffectiveLanguage
  <2>3. Filled(e.prompts, EffectiveLanguage(e, locale))[k] = BuiltIn(k, EffectiveLanguage(e, locale))
    BY <1>3 DEF Filled
  <2> QED BY <2>1, <2>2, <2>3
<1>5. IsConfig(d)
  BY <1>1, Applied
<1> QED BY <1>4, <1>5, Marshalled

------------------------------------------------------------------------------
\* The inductive invariant

Fields == {"pc", "request", "config", "read", "temporary"}
Writing == {"write", "sync", "rename"}

Shaped == /\ DOMAIN process = Processes
          /\ \A p \in Processes : Fields \subseteq DOMAIN process[p]
Locks == /\ lock \in [readers : SUBSET Processes, writers : SUBSET Processes]
         /\ lock.writers # {} => lock.readers = {} /\ \E p \in Processes : lock.writers = {p}
Phase(x) == /\ x.pc \in {"idle", "lock", "locked", "write", "sync", "rename", "stored"}
            /\ x.temporary = CASE x.pc = "sync" -> "part"
                               [] x.pc = "rename" -> "whole"
                               [] OTHER -> "none"
\* A process that updates holds the lock from before it reads the file.
Holds(p) == /\ process[p].pc = "locked" /\ Exclusive(process[p].request) => p \in lock.writers
            /\ process[p].pc \in Writing \cup {"stored"} => p \in lock.writers
Asked(x) == x.pc # "idle" => x.request \in AllUpdates \cup {[op |-> "Load"]}
\* What a process is about to write is its request applied to what it has read.
Computed(x, locale) ==
    x.pc \in Writing => /\ IsContent(x.read) /\ x.request \in AllUpdates
                        /\ \E c \in Decode(x.read, locale) : x.config \in Apply(c, x.request, locale)
PageOK == page \in [open : BOOLEAN, templates : [Kinds -> Templates], touched : SUBSET Kinds]
Counts == asked \in 0..MaxRequests /\ edited \in 0..MaxEdits /\ crashed \in 0..MaxCrashes

Processing == \A p \in Processes :
                 Phase(process[p]) /\ Holds(p) /\ Asked(process[p]) /\ Computed(process[p], Locale[p])

ConfigFileInv == Shaped /\ Locks /\ Processing /\ IsContent(file) /\ PageOK /\ Counts

\* The invariant holds at first.
LEMMA InitiallyInv == ConfigFileInit => ConfigFileInv
<1> SUFFICES ASSUME ConfigFileInit PROVE ConfigFileInv
  OBVIOUS
<1>1. Shaped
  BY DEF ConfigFileInit, Shaped, Fields, Idle
<1>2. Locks
  BY DEF ConfigFileInit, Locks
<1>3. Processing
  BY DEF ConfigFileInit, Processing, Phase, Holds, Asked, Computed, Writing, Idle
<1>4. IsContent(file)
  <2>1. \A content \in Files \cup Edits : IsContent(content)
    <3> SUFFICES ASSUME NEW content \in Files \cup Edits PROVE IsContent(content)
      OBVIOUS
    <3> QED BY ConfigFileAssumption DEF IsContent
  <2> QED BY <2>1 DEF ConfigFileInit
<1>5. PageOK
  BY DEF ConfigFileInit, PageOK, Templates
<1>6. Counts
  BY ConfigFileAssumption DEF ConfigFileInit, Counts
<1> QED BY <1>1, <1>2, <1>3, <1>4, <1>5, <1>6 DEF ConfigFileInv

\* What a step of process p has to keep, when it leaves the others alone.
LEMMA ProcessStep ==
  ASSUME ConfigFileInv, NEW p \in Processes, NEW x, process' = [process EXCEPT ![p] = x],
         Fields \subseteq DOMAIN x, Phase(x), Asked(x), Computed(x, Locale[p]),
         Locks', \A q \in Processes \ {p} : q \in lock.writers => q \in lock.writers',
         x.pc = "locked" /\ Exclusive(x.request) => p \in lock.writers',
         x.pc \in Writing \cup {"stored"} => p \in lock.writers',
         IsContent(file'), PageOK', Counts'
  PROVE  ConfigFileInv'
<1>1. process'[p] = x /\ \A q \in Processes \ {p} : process'[q] = process[q]
  BY DEF ConfigFileInv, Shaped
<1>2. Shaped'
  BY <1>1 DEF ConfigFileInv, Shaped
<1>3. Processing'
  <2> SUFFICES ASSUME NEW q \in Processes
               PROVE  (Phase(process[q]) /\ Holds(q) /\ Asked(process[q]) /\ Computed(process[q], Locale[q]))'
    BY DEF Processing
  <2>1. CASE q = p
    BY <2>1, <1>1 DEF Holds, Phase, Asked, Computed
  <2>2. CASE q # p
    BY <2>2, <1>1 DEF ConfigFileInv, Processing, Holds, Phase, Asked, Computed
  <2> QED BY <2>1, <2>2
<1> QED BY <1>2, <1>3 DEF ConfigFileInv

\* A process that has done with the lock leaves it to the others.
LEMMA Unlocks ==
  ASSUME ConfigFileInv, NEW p \in Processes, lock' = Unlocked(p), process' = [process EXCEPT ![p] = Idle],
         file' = file, PageOK', Counts'
  PROVE  ConfigFileInv'
<1>1. Locks'
  BY DEF ConfigFileInv, Locks, Unlocked
<1>2. \A q \in Processes \ {p} : q \in lock.writers => q \in lock.writers'
  BY DEF ConfigFileInv, Locks, Unlocked
<1>3. Fields \subseteq DOMAIN Idle /\ Idle.pc = "idle" /\ Phase(Idle) /\ Asked(Idle) /\ Computed(Idle, Locale[p])
  BY DEF Fields, Idle, Phase, Asked, Computed, Writing
<1>4. IsContent(file')
  BY DEF ConfigFileInv
<1> QED BY <1>1, <1>2, <1>3, <1>4, ProcessStep DEF Writing

\* A request that begins keeps it,
LEMMA AskStep == ASSUME ConfigFileInv, NEW p \in Processes, Ask(p) PROVE ConfigFileInv'
<1>1. PICK r \in Requests \cup {[op |-> "Load"]} \cup PageRequests :
        /\ process' = [process EXCEPT ![p] = [@ EXCEPT !.pc = "lock", !.request = r]]
        /\ page' = IF r.op # "SetPrompts" THEN page
                   ELSE [page EXCEPT !.touched = @ \cup {k \in Kinds : r.prompts[k] # page.templates[k]}]
  BY DEF Ask
<1> DEFINE x == [process[p] EXCEPT !.pc = "lock", !.request = r]
<1>2. r \in AllUpdates \cup {[op |-> "Load"]}
  <2>1. CASE r \in PageRequests
    <3>1. PICK k \in Kinds, t \in Texts \cup {Blank, BadText} :
            r = [op |-> "SetPrompts", prompts |-> [page.templates EXCEPT ![k] = t]]
      BY <2>1 DEF PageRequests
    <3>2. [page.templates EXCEPT ![k] = t] \in [Kinds -> Templates]
      BY DEF ConfigFileInv, PageOK, Templates
    <3> QED BY <3>1, <3>2 DEF AllUpdates
  <2> QED BY <1>1, <2>1 DEF AllUpdates
<1>3. Fields \subseteq DOMAIN x /\ x.pc = "lock" /\ x.request = r /\ x.temporary = process[p].temporary
  BY DEF ConfigFileInv, Shaped, Fields
<1>4. process[p].pc = "idle" /\ Phase(process[p])
  BY DEF Ask, ConfigFileInv, Processing
<1>5. Phase(x) /\ Asked(x) /\ Computed(x, Locale[p])
  <2> HIDE DEF x
  <2> QED BY <1>2, <1>3, <1>4 DEF Phase, Asked, Computed, Writing
<1>6. PageOK'
  BY <1>1 DEF ConfigFileInv, PageOK
<1>7. Counts' /\ Locks' /\ IsContent(file') /\ lock' = lock
  BY ConfigFileAssumption DEF Ask, ConfigFileInv, Counts, Locks
<1> HIDE DEF x
<1> QED BY <1>1, <1>3, <1>5, <1>6, <1>7, ProcessStep DEF Writing, x

\* taking the lock does,
LEMMA LockStep == ASSUME ConfigFileInv, NEW p \in Processes, Lock(p) PROVE ConfigFileInv'
<1> DEFINE x == [process[p] EXCEPT !.pc = "locked"]
<1>1. Fields \subseteq DOMAIN x /\ x.pc = "locked" /\ x.request = process[p].request
      /\ x.temporary = process[p].temporary
  BY DEF ConfigFileInv, Shaped, Fields
<1>2. process[p].pc = "lock" /\ Phase(process[p]) /\ Asked(process[p])
  BY DEF Lock, ConfigFileInv, Processing
<1>3. Phase(x) /\ Asked(x) /\ Computed(x, Locale[p])
  <2> HIDE DEF x
  <2> QED BY <1>1, <1>2 DEF Phase, Asked, Computed, Writing
<1>4. /\ lock' = IF Exclusive(process[p].request) THEN [lock EXCEPT !.writers = @ \cup {p}]
                 ELSE [lock EXCEPT !.readers = @ \cup {p}]
      /\ Free(p) /\ process' = [process EXCEPT ![p] = x]
  BY DEF Lock
<1>5. Locks' /\ (\A q \in Processes \ {p} : q \in lock.writers => q \in lock.writers')
      /\ (Exclusive(x.request) => p \in lock.writers')
  <2> HIDE DEF x
  <2> QED BY <1>1, <1>4 DEF ConfigFileInv, Locks, Free
<1>6. Counts' /\ PageOK' /\ IsContent(file')
  BY DEF Lock, ConfigFileInv, Counts, PageOK
<1> HIDE DEF x
<1> QED BY <1>1, <1>3, <1>4, <1>5, <1>6, ProcessStep DEF Writing

\* reading behind the lock,
LEMMA LoadStep == ASSUME ConfigFileInv, NEW p \in Processes, Load(p) PROVE ConfigFileInv'
<1>1. PICK c \in Decode(file, Locale[p]) :
        page' = IF p = Server THEN [page EXCEPT !.open = TRUE, !.templates = c.prompts] ELSE page
  BY DEF Load
<1>2. c.prompts \in [Kinds -> Templates]
  <2>1. Locale[p] \in Languages
    BY ConfigFileAssumption
  <2>2. IsConfig(c)
    BY <2>1, Decoded DEF ConfigFileInv
  <2>3. c.prompts = [k \in Kinds |-> c.prompts[k]]
    <3>1. CASE file.state = "absent"
      <4>1. c.prompts = DefaultTemplates(Locale[p])
        BY <3>1 DEF Decode, Default
      <4> QED BY <4>1 DEF DefaultTemplates
    <3>2. CASE file.state = "whole"
      <4>1. PICK language : c.prompts = Filled(file.text.prompts, language)
        BY <3>2, Normalized DEF Decode, ConfigFileInv, IsContent, IsConfig
      <4> QED BY <4>1 DEF Filled
    <3> QED BY <3>1, <3>2 DEF ConfigFileInv, IsContent, Decode
  <2>4. \A k \in Kinds : c.prompts[k] \in Templates
    BY <2>2 DEF IsConfig, Templated
  <2> QED BY <2>3, <2>4
<1>3. PageOK'
  BY <1>1, <1>2 DEF ConfigFileInv, PageOK
<1> QED BY <1>3, Unlocks DEF Load, ConfigFileInv, Counts

\* computing the update,
LEMMA ChangeStep == ASSUME ConfigFileInv, NEW p \in Processes, Change(p) PROVE ConfigFileInv'
<1>1. PICK c \in Outcomes(p) :
        process' = [process EXCEPT ![p] = [@ EXCEPT !.pc = "write", !.config = c, !.read = file]]
  BY DEF Change
<1> DEFINE x == [process[p] EXCEPT !.pc = "write", !.config = c, !.read = file]
<1>2. Fields \subseteq DOMAIN x /\ x.pc = "write" /\ x.request = process[p].request
      /\ x.temporary = process[p].temporary /\ x.config = c /\ x.read = file
  BY DEF ConfigFileInv, Shaped, Fields
<1>3. /\ process[p].pc = "locked" /\ process[p].request.op # "Load"
      /\ Phase(process[p]) /\ Asked(process[p]) /\ Holds(p)
  BY DEF Change, ConfigFileInv, Processing
<1>4. Phase(x) /\ Asked(x)
  <2> HIDE DEF x
  <2> QED BY <1>2, <1>3 DEF Phase, Asked
<1>5. Computed(x, Locale[p])
  <2> HIDE DEF x
  <2>1. x.request \in AllUpdates
    BY <1>2, <1>3 DEF Asked
  <2>2. PICK b \in Decode(file, Locale[p]) : c \in Apply(b, process[p].request, Locale[p])
    BY <1>1 DEF Outcomes
  <2> QED BY <1>2, <2>1, <2>2 DEF Computed, ConfigFileInv
<1>6. p \in lock.writers
  BY <1>3 DEF Holds, Exclusive
<1>7. Counts' /\ PageOK' /\ IsContent(file') /\ Locks' /\ lock' = lock
  BY DEF Change, ConfigFileInv, Counts, PageOK, Locks
<1> HIDE DEF x
<1> QED BY <1>1, <1>2, <1>4, <1>5, <1>6, <1>7, ProcessStep DEF x

\* writing the temporary file,
LEMMA WriteStep == ASSUME ConfigFileInv, NEW p \in Processes, Write(p) PROVE ConfigFileInv'
<1> DEFINE x == [process[p] EXCEPT !.pc = "sync", !.temporary = "part"]
<1>1. Fields \subseteq DOMAIN x /\ x.pc = "sync" /\ x.temporary = "part" /\ x.request = process[p].request
      /\ x.config = process[p].config /\ x.read = process[p].read
  BY DEF ConfigFileInv, Shaped, Fields
<1>2. process[p].pc = "write" /\ Asked(process[p]) /\ Holds(p) /\ Computed(process[p], Locale[p])
  BY DEF Write, ConfigFileInv, Processing
<1>3. Phase(x) /\ Asked(x) /\ Computed(x, Locale[p]) /\ p \in lock.writers
  <2> HIDE DEF x
  <2> QED BY <1>1, <1>2 DEF Phase, Asked, Computed, Writing, Holds
<1>4. Counts' /\ PageOK' /\ IsContent(file') /\ Locks' /\ lock' = lock
  BY DEF Write, Untouched, ConfigFileInv, Counts, PageOK, Locks
<1>5. process' = [process EXCEPT ![p] = x]
  BY DEF Write
<1> HIDE DEF x
<1> QED BY <1>1, <1>3, <1>4, <1>5, ProcessStep

\* syncing it,
LEMMA SyncStep == ASSUME ConfigFileInv, NEW p \in Processes, Sync(p) PROVE ConfigFileInv'
<1> DEFINE x == [process[p] EXCEPT !.pc = "rename", !.temporary = "whole"]
<1>1. Fields \subseteq DOMAIN x /\ x.pc = "rename" /\ x.temporary = "whole" /\ x.request = process[p].request
      /\ x.config = process[p].config /\ x.read = process[p].read
  BY DEF ConfigFileInv, Shaped, Fields
<1>2. process[p].pc = "sync" /\ Asked(process[p]) /\ Holds(p) /\ Computed(process[p], Locale[p])
  BY DEF Sync, ConfigFileInv, Processing
<1>3. Phase(x) /\ Asked(x) /\ Computed(x, Locale[p]) /\ p \in lock.writers
  <2> HIDE DEF x
  <2> QED BY <1>1, <1>2 DEF Phase, Asked, Computed, Writing, Holds
<1>4. Counts' /\ PageOK' /\ IsContent(file') /\ Locks' /\ lock' = lock
  BY DEF Sync, ConfigFileInv, Counts, PageOK, Locks
<1>5. process' = [process EXCEPT ![p] = x]
  BY DEF Sync
<1> HIDE DEF x
<1> QED BY <1>1, <1>3, <1>4, <1>5, ProcessStep

\* The configuration that a process puts in place was computed from one.
LEMMA Renames ==
  ASSUME ConfigFileInv, NEW p \in Processes, process[p].pc = "rename"
  PROVE  /\ Locale[p] \in Languages /\ IsContent(process[p].read) /\ process[p].request \in AllUpdates
         /\ \E c \in Decode(process[p].read, Locale[p]) :
              process[p].config \in Apply(c, process[p].request, Locale[p])
         /\ IsConfig(process[p].config)
<1>1. Locale[p] \in Languages
  BY ConfigFileAssumption
<1>2. Computed(process[p], Locale[p])
  BY DEF ConfigFileInv, Processing
<1>3. /\ IsContent(process[p].read) /\ process[p].request \in AllUpdates
      /\ \E c \in Decode(process[p].read, Locale[p]) :
           process[p].config \in Apply(c, process[p].request, Locale[p])
  BY <1>2 DEF Computed, Writing
<1> QED BY <1>1, <1>3, Decoded, Applied

\* the rename,
LEMMA RenameStep == ASSUME ConfigFileInv, NEW p \in Processes, Rename(p) PROVE ConfigFileInv'
<1> DEFINE x == [process[p] EXCEPT !.pc = "stored", !.temporary = "none"]
<1>1. Fields \subseteq DOMAIN x /\ x.pc = "stored" /\ x.temporary = "none" /\ x.request = process[p].request
  BY DEF ConfigFileInv, Shaped, Fields
<1>2. process[p].pc = "rename" /\ Asked(process[p]) /\ Holds(p)
  BY DEF Rename, ConfigFileInv, Processing
<1>3. Phase(x) /\ Asked(x) /\ Computed(x, Locale[p]) /\ p \in lock.writers
  <2> HIDE DEF x
  <2> QED BY <1>1, <1>2 DEF Phase, Asked, Computed, Writing, Holds
<1>4. IsContent(file')
  BY <1>2, Renames, Marshalled DEF Rename
<1>5. Counts' /\ PageOK' /\ Locks' /\ lock' = lock
  BY DEF Rename, ConfigFileInv, Counts, PageOK, Locks
<1>6. process' = [process EXCEPT ![p] = x]
  BY DEF Rename
<1> HIDE DEF x
<1> QED BY <1>1, <1>3, <1>4, <1>5, <1>6, ProcessStep DEF Writing

\* and letting go of the lock in any way.
LEMMA UnlockingStep ==
  ASSUME ConfigFileInv, NEW p \in Processes, Finish(p) \/ Fail(p) \/ Crash(p) PROVE ConfigFileInv'
<1>1. PageOK'
  BY DEF Finish, Fail, Crash, ConfigFileInv, PageOK
<1>2. Counts'
  BY ConfigFileAssumption DEF Finish, Fail, Crash, ConfigFileInv, Counts
<1> QED BY <1>1, <1>2, Unlocks DEF Finish, Fail, Crash

\* An edit by hand keeps the invariant.
LEMMA EditStep == ASSUME ConfigFileInv, Edit PROVE ConfigFileInv'
<1>1. IsContent(file')
  BY ConfigFileAssumption DEF Edit, IsContent
<1>2. Counts'
  BY ConfigFileAssumption DEF Edit, ConfigFileInv, Counts
<1> QED BY <1>1, <1>2 DEF Edit, ConfigFileInv, Shaped, Locks, Processing, Holds, PageOK

\* The invariant holds in every state: processes hold what they have read from
\* behind the lock, and the file and the page hold configurations.
THEOREM ConfigFileInvariant == ConfigFileSpec => []ConfigFileInv
<1>1. ConfigFileInv /\ [ConfigFileNext]_configFileVars => ConfigFileInv'
  <2> SUFFICES ASSUME ConfigFileInv, [ConfigFileNext]_configFileVars PROVE ConfigFileInv'
    OBVIOUS
  <2>1. CASE UNCHANGED configFileVars
    BY <2>1 DEF configFileVars, ConfigFileInv, Shaped, Locks, Processing, Holds, PageOK, Counts
  <2>2. CASE Edit
    BY <2>2, EditStep
  <2>3. ASSUME NEW p \in Processes, Ask(p) \/ Lock(p) \/ Goes(p) \/ Fail(p) \/ Crash(p) PROVE ConfigFileInv'
    BY <2>3, AskStep, LockStep, LoadStep, ChangeStep, WriteStep, SyncStep, RenameStep, UnlockingStep DEF Goes
  <2> QED BY <2>1, <2>2, <2>3 DEF ConfigFileNext
<1> QED BY <1>1, InitiallyInv, PTL DEF ConfigFileSpec

\* The configuration file, its temporary files, its lock and the processes that use
\* them are always in a state that the code knows.
THEOREM ConfigFileTypes == ConfigFileSpec => []ConfigFileTypeOK
<1>1. ConfigFileInv => ConfigFileTypeOK
  BY DEF ConfigFileInv, IsContent, Locks, Processing, Phase, Holds, Writing, Counts, ConfigFileTypeOK
<1> QED BY <1>1, ConfigFileInvariant, PTL

------------------------------------------------------------------------------
\* Refinement

\* Nobody writes beside a process that holds the lock to update.
LEMMA OneWriter ==
  ASSUME ConfigFileInv, NEW p \in Processes, NEW q \in Processes,
         process[p].pc \in Writing, process[q].pc \in Writing
  PROVE  p = q
  BY DEF ConfigFileInv, Processing, Holds, Locks

\* What is exposed once process p has left the writing phases.
LEMMA NothingExposed ==
  ASSUME ConfigFileInv, NEW p \in Processes, process[p].pc \in Writing,
         \A q \in Processes \ {p} : process'[q] = process[q], process'[p].pc \notin Writing
  PROVE  Exposed' = {}
<1>1. \A q \in Processes : process'[q].pc \notin Writing
  BY OneWriter
<1> QED BY <1>1 DEF Exposed, Writing

\* The step of one process leaves the others where they are.
LEMMA Elsewhere ==
  ASSUME ConfigFileInv, NEW p \in Processes, NEW x, process' = [process EXCEPT ![p] = x]
  PROVE  process'[p] = x /\ \A q \in Processes \ {p} : process'[q] = process[q]
  BY DEF ConfigFileInv, Shaped

\* Steps that only move a process to, in or out of the phases before writing.
LEMMA ExposedStays ==
  ASSUME ConfigFileInv, NEW p \in Processes, NEW x, process' = [process EXCEPT ![p] = x], file' = file,
         process[p].pc \in Writing <=> x.pc \in Writing,
         process[p].pc \in Writing => x.read = process[p].read
  PROVE  Exposed' = Exposed
<1>1. process'[p] = x /\ \A q \in Processes \ {p} : process'[q] = process[q]
  BY Elsewhere
<1>2. \A q \in Processes : /\ process[q].pc \in Writing <=> process'[q].pc \in Writing
                           /\ process[q].pc \in Writing => process'[q].read = process[q].read
  BY <1>1
<1> QED BY <1>2 DEF Exposed, Writing

\* What the abstract store calls an update.
LEMMA RenameUpdates ==
  ASSUME ConfigFileInv, NEW p \in Processes, Rename(p)
  PROVE  Abstract!Update
<1>1. process[p].pc = "rename" /\ file' = Whole(Marshal(process[p].config, Locale[p]))
  BY DEF Rename
<1>2. Exposed' = {}
  <2>1. process' = [process EXCEPT ![p] = [@ EXCEPT !.pc = "stored", !.temporary = "none"]]
    BY DEF Rename
  <2>2. process'[p].pc = "stored"
    BY <2>1 DEF ConfigFileInv, Shaped, Fields
  <2>3. \A q \in Processes \ {p} : process'[q] = process[q]
    BY <2>1, Elsewhere
  <2> QED BY <1>1, <2>2, <2>3, NothingExposed DEF Writing
<1>3. process[p].read \in {file} \cup Exposed
  BY <1>1 DEF Exposed
<1>4. /\ Locale[p] \in Languages /\ process[p].request \in AllUpdates
      /\ \E c \in Decode(process[p].read, Locale[p]) :
           process[p].config \in Apply(c, process[p].request, Locale[p])
  BY <1>1, Renames
<1>5. \E content \in {file} \cup Exposed, r \in AllUpdates, locale \in Languages :
        \E c \in Decode(content, locale) : \E d \in Apply(c, r, locale) : file' = Whole(Marshal(d, locale))
  BY <1>1, <1>3, <1>4
<1> QED BY <1>2, <1>5, SameDecode, SameApply, SameFile DEF Abstract!Update

\* An edit by hand is an edit by hand there.
LEMMA EditIsByHand == ASSUME ConfigFileInv, Edit PROVE Abstract!EditByHand
  BY DEF Edit, Abstract!EditByHand, Exposed

\* Whatever a process does with its lock and its temporary file, an update is one
\* step of the file from a configuration that it held, or had before a hand edit.
THEOREM UpdatesOneStep == ConfigFileSpec => UpdatesAreAtomic
<1>1. ConfigFileInit => Exposed = {}
  BY DEF ConfigFileInit, Exposed, Idle
<1>2. ConfigFileInv /\ [ConfigFileNext]_configFileVars => [Abstract!AtomicNext]_<<file, Exposed>>
  <2> SUFFICES ASSUME ConfigFileInv, [ConfigFileNext]_configFileVars
               PROVE  [Abstract!AtomicNext]_<<file, Exposed>>
    OBVIOUS
  <2>1. CASE UNCHANGED configFileVars
    BY <2>1 DEF configFileVars, Exposed
  <2>2. CASE Edit
    BY <2>2, EditIsByHand DEF Abstract!AtomicNext
  <2>3. ASSUME NEW p \in Processes, Ask(p) PROVE UNCHANGED <<file, Exposed>>
    <3>1. PICK r : process' = [process EXCEPT ![p] = [@ EXCEPT !.pc = "lock", !.request = r]]
      BY <2>3 DEF Ask
    <3>2. [process[p] EXCEPT !.pc = "lock", !.request = r].pc = "lock"
      BY DEF ConfigFileInv, Shaped, Fields
    <3> QED BY <2>3, <3>1, <3>2, ExposedStays DEF Ask, Writing
  <2>4. ASSUME NEW p \in Processes, Lock(p) PROVE UNCHANGED <<file, Exposed>>
    <3>1. [process[p] EXCEPT !.pc = "locked"].pc = "locked"
      BY DEF ConfigFileInv, Shaped, Fields
    <3> QED BY <2>4, <3>1, ExposedStays DEF Lock, Writing
  <2>5. ASSUME NEW p \in Processes, Load(p) PROVE UNCHANGED <<file, Exposed>>
    BY <2>5, ExposedStays DEF Load, Writing, Idle
  <2>6. ASSUME NEW p \in Processes, Change(p) PROVE UNCHANGED <<file, Exposed>>
    <3>1. PICK c : process' = [process EXCEPT ![p] = [@ EXCEPT !.pc = "write", !.config = c, !.read = file]]
      BY <2>6 DEF Change
    <3> DEFINE x == [process[p] EXCEPT !.pc = "write", !.config = c, !.read = file]
    <3>2. x.read = file /\ process[p].pc = "locked" /\ file' = file
      BY <2>6 DEF Change, ConfigFileInv, Shaped, Fields
    <3>3. process'[p] = x /\ \A q \in Processes \ {p} : process'[q] = process[q]
      <4> HIDE DEF x
      <4> QED BY <3>1, Elsewhere DEF x
    <3> HIDE DEF x
    <3> QED BY <3>2, <3>3 DEF Exposed
  <2>7. ASSUME NEW p \in Processes, Write(p) PROVE UNCHANGED <<file, Exposed>>
    <3>1. [process[p] EXCEPT !.pc = "sync", !.temporary = "part"].pc = "sync"
          /\ [process[p] EXCEPT !.pc = "sync", !.temporary = "part"].read = process[p].read
      BY DEF ConfigFileInv, Shaped, Fields
    <3> QED BY <2>7, <3>1, ExposedStays DEF Write, Untouched, Writing
  <2>8. ASSUME NEW p \in Processes, Sync(p) PROVE UNCHANGED <<file, Exposed>>
    <3>1. [process[p] EXCEPT !.pc = "rename", !.temporary = "whole"].pc = "rename"
          /\ [process[p] EXCEPT !.pc = "rename", !.temporary = "whole"].read = process[p].read
      BY DEF ConfigFileInv, Shaped, Fields
    <3> QED BY <2>8, <3>1, ExposedStays DEF Sync, Writing
  <2>9. ASSUME NEW p \in Processes, Rename(p) PROVE Abstract!AtomicNext
    BY <2>9, RenameUpdates DEF Abstract!AtomicNext
  <2>10. ASSUME NEW p \in Processes, Finish(p) \/ Fail(p) \/ Crash(p)
         PROVE  Abstract!Forget \/ UNCHANGED <<file, Exposed>>
    <3>1. file' = file /\ process' = [process EXCEPT ![p] = Idle]
      BY <2>10 DEF Finish, Fail, Crash
    <3>2. process'[p] = Idle /\ \A q \in Processes \ {p} : process'[q] = process[q]
      BY <3>1, Elsewhere
    <3>3. CASE process[p].pc \in Writing
      <4>1. Idle.pc = "idle"
        BY DEF Idle
      <4>2. process'[p].pc \notin Writing
        BY <3>2, <4>1 DEF Writing
      <4> QED BY <3>1, <3>2, <3>3, <4>2, NothingExposed DEF Abstract!Forget
    <3>4. CASE process[p].pc \notin Writing
      BY <3>1, <3>4, ExposedStays DEF Idle, Writing
    <3> QED BY <3>3, <3>4
  <2>11. ASSUME NEW p \in Processes, Ask(p) \/ Lock(p) \/ Goes(p) \/ Fail(p) \/ Crash(p)
         PROVE  Abstract!AtomicNext \/ UNCHANGED <<file, Exposed>>
    BY <2>3, <2>4, <2>5, <2>6, <2>7, <2>8, <2>9, <2>10, <2>11 DEF Goes, Abstract!AtomicNext
  <2> QED BY <2>1, <2>2, <2>11 DEF ConfigFileNext
<1> QED BY <1>1, <1>2, ConfigFileInvariant, PTL DEF ConfigFileSpec, UpdatesAreAtomic, Abstract!AtomicSpec

------------------------------------------------------------------------------
\* What updates leave alone

\* The file changes by hand or when a process puts its configuration in place.
LEMMA FileChanges ==
  ASSUME ConfigFileInv, [ConfigFileNext]_configFileVars, file' # file, edited' = edited
  PROVE  \E p \in Processes : Rename(p)
<1>1. ~Edit
  BY DEF Edit, ConfigFileInv, Counts
<1>2. ConfigFileNext
  BY DEF configFileVars
<1>3. ASSUME NEW p \in Processes, Ask(p) \/ Lock(p) \/ Goes(p) \/ Fail(p) \/ Crash(p) PROVE Rename(p)
  BY <1>3 DEF Ask, Lock, Goes, Load, Change, Refused, Write, Untouched, Sync, Finish, Fail, Crash
<1> QED BY <1>1, <1>2, <1>3 DEF ConfigFileNext

\* Without an edit in between, a process renames what it computed from the file.
LEMMA RenamesCurrent ==
  ASSUME ConfigFileInv, NEW p \in Processes, Rename(p), Exposed = {}
  PROVE  process[p].read = file
  BY DEF Rename, Exposed

\* No update brings the implicit credentials back, whatever else it changes and
\* whichever process makes it.
THEOREM ImplicitNeverReturns == ConfigFileSpec => ImplicitStaysOff
<1> DEFINE Step == \A old \in Stored, new \in Stored' :
                      edited' = edited /\ Exposed = {} /\ old.methods.given => new.methods.given
<1>1. ConfigFileInv /\ [ConfigFileNext]_configFileVars => Step
  <2> SUFFICES ASSUME ConfigFileInv, [ConfigFileNext]_configFileVars, edited' = edited, Exposed = {},
                      NEW old \in Stored, NEW new \in Stored', old.methods.given
               PROVE  new.methods.given
    OBVIOUS
  <2>1. file.state = "whole" /\ old = file.text /\ file'.state = "whole" /\ new = file'.text
    BY DEF Stored
  <2>2. CASE file' = file
    BY <2>1, <2>2
  <2>3. CASE file' # file
    <3>1. PICK p \in Processes : Rename(p)
      BY <2>3, FileChanges
    <3>2. process[p].pc = "rename" /\ file' = Whole(Marshal(process[p].config, Locale[p]))
      BY <3>1 DEF Rename
    <3>3. PICK c \in Decode(file, Locale[p]) : process[p].config \in Apply(c, process[p].request, Locale[p])
      BY <3>1, <3>2, Renames, RenamesCurrent
    <3>4. IsConfig(c) /\ c.methods = old.methods
      BY <2>1, <3>2, <3>3, Renames, Decoded DEF ConfigFileInv
    <3>5. process[p].config.methods.given
      BY <3>2, <3>3, <3>4, Renames, Applied
    <3>6. new = Marshal(process[p].config, Locale[p])
      BY <2>1, <3>2 DEF Whole
    <3> QED BY <3>2, <3>5, <3>6, Renames, Marshalled
  <2> QED BY <2>2, <2>3
<1> QED BY <1>1, ConfigFileInvariant, PTL DEF ConfigFileSpec, ImplicitStaysOff

\* A template gets into the file by an update of the templates only, in whatever
\* language the processes are and to whatever language the configuration goes.
THEOREM DefaultsAlwaysFollow == ConfigFileSpec => DefaultsFollowLanguage
<1> DEFINE Step == \A k \in Kinds, new \in Stored' :
                     /\ edited' = edited /\ Exposed = {} /\ new.prompts[k] # Blank
                     /\ \A old \in Stored : old.prompts[k] = Blank
                     => \E p \in Processes : process[p].pc = "rename" /\ process[p].request.op = "SetPrompts"
<1>1. ConfigFileInv /\ [ConfigFileNext]_configFileVars => Step
  <2> SUFFICES ASSUME ConfigFileInv, [ConfigFileNext]_configFileVars, edited' = edited, Exposed = {},
                      NEW k \in Kinds, NEW new \in Stored', new.prompts[k] # Blank,
                      \A old \in Stored : old.prompts[k] = Blank
               PROVE  \E p \in Processes : process[p].pc = "rename" /\ process[p].request.op = "SetPrompts"
    OBVIOUS
  <2>1. file'.state = "whole" /\ new = file'.text
    BY DEF Stored
  <2>2. file' # file
    BY <2>1 DEF Stored
  <2>3. PICK p \in Processes : Rename(p)
    BY <2>2, FileChanges
  <2>4. process[p].pc = "rename" /\ file' = Whole(Marshal(process[p].config, Locale[p]))
    BY <2>3 DEF Rename
  <2>5. PICK c \in Decode(file, Locale[p]) : process[p].config \in Apply(c, process[p].request, Locale[p])
    BY <2>3, <2>4, Renames, RenamesCurrent
  <2>6. new = Marshal(process[p].config, Locale[p])
    BY <2>1, <2>4 DEF Whole
  <2>7. IsContent(file) /\ (file.state = "whole" => file.text.prompts[k] = Blank)
    BY DEF ConfigFileInv, Stored
  <2>8. process[p].request.op = "SetPrompts"
    BY <2>4, <2>5, <2>6, <2>7, Renames, LeftOut
  <2> QED BY <2>4, <2>8
<1> QED BY <1>1, ConfigFileInvariant, PTL DEF ConfigFileSpec, DefaultsFollowLanguage

=============================================================================
