------------------------------ MODULE ConfigFile ------------------------------
(***************************************************************************)
(* The configuration file: internal/config/store.go under the handlers of  *)
(* internal/rpc and the commands of internal/cli.  Processes take a flock  *)
(* on a file of its own, shared to read and exclusive to update; an update *)
(* reads the file, changes the configuration, writes a temporary file and  *)
(* renames it.  Processes die in between; people edit the file without the *)
(* lock.  The settings page of the WebUI loads the templates, and saves    *)
(* all of them with the ones that were edited.                             *)
(***************************************************************************)
EXTENDS Config

CONSTANTS
    Processes, Server,     \* the server is the process that the page talks to
    Locale,                \* by process: the language of its environment
    Requests,              \* updates that are asked for, besides the page's
    Files,                 \* what the file may hold at first
    Edits,                 \* what people save by hand
    MaxRequests, MaxEdits, MaxCrashes

Templates == Texts \cup {Blank, BadText} \cup {BuiltIn(k, l) : k \in Kinds, l \in Languages}

\* Configurations have templates that somebody wrote, or the built-in ones.
Templated(c) == \A k \in Kinds : c.prompts[k] \in Templates
IsConfig(c) == /\ {"language", "methods", "prompts"} \subseteq DOMAIN c
               /\ c.language \in Languages \cup {"auto"}
               /\ "given" \in DOMAIN c.methods
               /\ Templated(c)

ASSUME ConfigFileAssumption ==
    /\ \A k \in Kinds, l \in Languages : BuiltIn(k, l) # Blank
    /\ Locale \in [Processes -> Languages]
    /\ \A content \in Files \cup Edits :
         /\ content.state \in {"absent", "broken", "whole"}
         /\ content.state = "whole" => IsConfig(content.text)
    /\ \A r \in Requests : /\ r.op # "SetPrompts"
                           /\ r.op = "SetLanguage" => r.language \in Languages \cup {"auto"}
    /\ {MaxRequests, MaxEdits, MaxCrashes} \subseteq Nat

VARIABLES
    file, lock,
    process,   \* by process: pc, request, configuration, content read, temporary file
    page,      \* the settings page: open, its templates, the kinds that anyone edited
    asked, edited, crashed

configFileVars == <<file, lock, process, page, asked, edited, crashed>>

Idle == [pc |-> "idle", request |-> [op |-> "none"], config |-> Blank, read |-> Blank, temporary |-> "none"]

\* Update takes the lock exclusively, Load shares it.
\* A slip one could make: only look.
NeverAlone(r) == FALSE
Exclusive(r) == r.op # "Load"

\* A slip one could make: a writer that does not wait for readers.
WritersOnly(p) == lock.writers = {}
Free(p) == IF Exclusive(process[p].request) THEN lock.readers \cup lock.writers = {} ELSE lock.writers = {}

\* The deferred unlock, and the kernel's when the process dies.
\* A slip one could make: unlock after an update only.
UpdatesUnlock(p) == [lock EXCEPT !.writers = @ \ {p}]
Unlocked(p) == [readers |-> lock.readers \ {p}, writers |-> lock.writers \ {p}]

\* What the page sends: its templates, some of them edited.
PageRequests ==
    IF ~page.open THEN {}
    ELSE {[op |-> "SetPrompts", prompts |-> [page.templates EXCEPT ![k] = t]]
          : k \in Kinds, t \in Texts \cup {Blank, BadText}}

Ask(p) ==
    /\ process[p].pc = "idle" /\ asked < MaxRequests
    /\ \E r \in Requests \cup {[op |-> "Load"]} \cup (IF p = Server THEN PageRequests ELSE {}) :
         /\ process' = [process EXCEPT ![p] = [@ EXCEPT !.pc = "lock", !.request = r]]
         /\ page' = IF r.op # "SetPrompts" THEN page
                    ELSE [page EXCEPT !.touched = @ \cup {k \in Kinds : r.prompts[k] # page.templates[k]}]
    /\ asked' = asked + 1
    /\ UNCHANGED <<file, lock, edited, crashed>>

Lock(p) ==
    /\ process[p].pc = "lock" /\ Free(p)
    /\ lock' = IF Exclusive(process[p].request) THEN [lock EXCEPT !.writers = @ \cup {p}]
               ELSE [lock EXCEPT !.readers = @ \cup {p}]
    /\ process' = [process EXCEPT ![p] = [@ EXCEPT !.pc = "locked"]]
    /\ UNCHANGED <<file, page, asked, edited, crashed>>

\* Load; the server's answer is what the page shows.
Load(p) ==
    /\ process[p].pc = "locked" /\ process[p].request.op = "Load"
    /\ \E c \in Decode(file, Locale[p]) :
         page' = IF p = Server THEN [page EXCEPT !.open = TRUE, !.templates = c.prompts] ELSE page
    /\ lock' = Unlocked(p) /\ process' = [process EXCEPT ![p] = Idle]
    /\ UNCHANGED <<file, asked, edited, crashed>>

\* The configurations that the update leads to.
Outcomes(p) == UNION {Apply(c, process[p].request, Locale[p]) : c \in Decode(file, Locale[p])}

Change(p) ==
    /\ process[p].pc = "locked" /\ process[p].request.op # "Load"
    /\ \E c \in Outcomes(p) :
         process' = [process EXCEPT ![p] = [@ EXCEPT !.pc = "write", !.config = c, !.read = file]]
    /\ UNCHANGED <<file, lock, page, asked, edited, crashed>>

\* The file does not decode, or the change is refused.
Refused(p) ==
    /\ process[p].pc = "locked"
    /\ IF process[p].request.op = "Load" THEN Decode(file, Locale[p]) = {} ELSE Outcomes(p) = {}

\* The temporary file is written in pieces, synced, and put in place at once.
\* A slip one could make: write the file itself.
InPlace == Broken
Untouched == file

Write(p) ==
    /\ process[p].pc = "write"
    /\ process' = [process EXCEPT ![p] = [@ EXCEPT !.pc = "sync", !.temporary = "part"]]
    /\ file' = Untouched
    /\ UNCHANGED <<lock, page, asked, edited, crashed>>

Sync(p) ==
    /\ process[p].pc = "sync"
    /\ process' = [process EXCEPT ![p] = [@ EXCEPT !.pc = "rename", !.temporary = "whole"]]
    /\ UNCHANGED <<file, lock, page, asked, edited, crashed>>

Rename(p) ==
    /\ process[p].pc = "rename"
    /\ file' = Whole(Marshal(process[p].config, Locale[p]))
    /\ process' = [process EXCEPT ![p] = [@ EXCEPT !.pc = "stored", !.temporary = "none"]]
    /\ UNCHANGED <<lock, page, asked, edited, crashed>>

\* The directory is synced; its failure is reported although the file is in place.
Finish(p) ==
    /\ process[p].pc = "stored"
    /\ lock' = Unlocked(p) /\ process' = [process EXCEPT ![p] = Idle]
    /\ UNCHANGED <<file, page, asked, edited, crashed>>

\* Any call of the file system may fail before the rename; the temporary file is removed.
Fail(p) ==
    /\ process[p].pc \in {"lock", "locked", "write", "sync", "rename"}
    /\ lock' = Unlocked(p) /\ process' = [process EXCEPT ![p] = Idle]
    /\ UNCHANGED <<file, page, asked, edited, crashed>>

\* A process dies; its temporary file stays behind, under a name nobody reads.
Crash(p) ==
    /\ crashed < MaxCrashes /\ process[p].pc # "idle"
    /\ lock' = Unlocked(p) /\ process' = [process EXCEPT ![p] = Idle]
    /\ crashed' = crashed + 1
    /\ UNCHANGED <<file, page, asked, edited>>

\* An editor knows nothing of the lock.
Edit ==
    /\ edited < MaxEdits
    /\ file' \in Edits
    /\ edited' = edited + 1
    /\ UNCHANGED <<lock, process, page, asked, crashed>>

------------------------------------------------------------------------------
ConfigFileInit ==
    /\ file \in Files /\ lock = [readers |-> {}, writers |-> {}]
    /\ process = [p \in Processes |-> Idle]
    /\ page = [open |-> FALSE, templates |-> [k \in Kinds |-> Blank], touched |-> {}]
    /\ asked = 0 /\ edited = 0 /\ crashed = 0

Goes(p) == Load(p) \/ Change(p) \/ (Refused(p) /\ Fail(p)) \/ Write(p) \/ Sync(p) \/ Rename(p) \/ Finish(p)

ConfigFileNext == Edit \/ \E p \in Processes : Ask(p) \/ Lock(p) \/ Goes(p) \/ Fail(p) \/ Crash(p)

\* A process that runs goes on, and a blocking flock is granted to who waits for it.
ConfigFileFairness == \A p \in Processes : WF_configFileVars(Goes(p)) /\ SF_configFileVars(Lock(p))

ConfigFileSpec == ConfigFileInit /\ [][ConfigFileNext]_configFileVars /\ ConfigFileFairness

------------------------------------------------------------------------------
\* Properties

Stored == IF file.state = "whole" THEN {file.text} ELSE {}

\* Processes go through the lock as flock grants it, and hold what they have
\* read from Change to the end of the update.
ConfigFileTypeOK ==
    /\ file.state \in {"absent", "broken", "whole"}
    /\ lock.readers \subseteq Processes /\ lock.writers \subseteq Processes
    /\ lock.writers # {} => lock.readers = {} /\ \E p \in Processes : lock.writers = {p}
    /\ \A p \in Processes :
         /\ process[p].pc \in {"idle", "lock", "locked", "write", "sync", "rename", "stored"}
         /\ process[p].temporary = CASE process[p].pc = "sync" -> "part"
                                     [] process[p].pc = "rename" -> "whole"
                                     [] OTHER -> "none"
         /\ process[p].pc \in {"write", "sync", "rename", "stored"} => p \in lock.writers
    /\ asked \in 0..MaxRequests /\ edited \in 0..MaxEdits /\ crashed \in 0..MaxCrashes

\* Whatever dies in whatever step, the file stays one that every process can
\* load, with hosts for all its credentials, as long as nobody edited it by hand.
FileIntact ==
    edited = 0 => \A locale \in Languages : Decode(file, locale) # {}

\* store.Update is atomic: no two updates start from the same configuration, an
\* update that fails or dies leaves nothing, and a file that does not decode is
\* left alone; see ConfigAtomic for what a hand edit may meet.
Exposed == {process[p].read : p \in {p \in Processes : process[p].pc \in {"write", "sync", "rename"}}} \ {file}

AllUpdates == Requests \cup {[op |-> "SetPrompts", prompts |-> t] : t \in [Kinds -> Templates]}

Abstract == INSTANCE ConfigAtomic WITH Updates <- AllUpdates, exposed <- Exposed
UpdatesAreAtomic == Abstract!AtomicSpec

\* Once credentials are listed, the implicit ones of github.com stay off, also
\* after the last of the list was removed: only a hand edit brings them back, or
\* an update that undoes one.
ImplicitStaysOff ==
    [][\A old \in Stored, new \in Stored' :
         edited' = edited /\ Exposed = {} /\ old.methods.given => new.methods.given]_configFileVars

\* A template gets into the file only when the page saves templates: switching
\* the language, and every other update by a process of whatever locale, leaves
\* the kinds that nobody customised to the built-in text of the language.
DefaultsFollowLanguage ==
    [][\A k \in Kinds, new \in Stored' :
         /\ edited' = edited /\ Exposed = {} /\ new.prompts[k] # Blank
         /\ \A old \in Stored : old.prompts[k] = Blank
         => \E p \in Processes : process[p].pc = "rename" /\ process[p].request.op = "SetPrompts"]_configFileVars

\* docs/design/agent-prompts.md: an environment that has not customised a
\* template does not write it to the file.  The page sends every template it
\* has loaded, so one loaded before the language changed is written as a text
\* of the user's.
OnlyEditedAreStored ==
    edited = 0 => \A c \in Stored : \A k \in Kinds : c.prompts[k] # Blank => k \in page.touched

\* Every request ends: no path out of an update keeps the lock.
RequestsEnd == \A p \in Processes : process[p].pc # "idle" ~> process[p].pc = "idle"
===============================================================================
