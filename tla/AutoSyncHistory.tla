---------------------------- MODULE AutoSyncHistory ----------------------------
(***************************************************************************)
(* AutoSync with two history variables: the calls whose run a later run    *)
(* has overtaken, and the time since an automatic refresh was granted.     *)
(***************************************************************************)
EXTENDS AutoSync

VARIABLES overtaken, sinceGrant

Granted(p) == phase[p] = "acquiring" /\ phase'[p] \in {"syncing", "recording"}
Running == {p \in Callers : phase[p] \in {"syncing", "recording"}}

HistoryInit == AutoSyncInit /\ overtaken = {} /\ sinceGrant = Lapsed

Passing == /\ Tick
           /\ sinceGrant' = IF sinceGrant < Lapsed THEN sinceGrant + 1 ELSE Lapsed
           /\ UNCHANGED overtaken

Calling(p) == /\ CallStep(p)
              /\ sinceGrant' = IF Granted(p) THEN 0 ELSE sinceGrant
              /\ overtaken' = IF p \notin Running /\ phase'[p] \in {"syncing", "recording"}
                              THEN Running ELSE overtaken \ {p}

HistoryNext == Passing \/ \E p \in Callers : Calling(p)

HistorySpec == /\ HistoryInit /\ [][HistoryNext]_<<autoSyncVars, overtaken, sinceGrant>>
               /\ AutoSyncFairness

------------------------------------------------------------------------------
\* The result of a run that a later one has overtaken is never recorded, however
\* late it ends: what is shown belongs to the run that started last.
NoOvertakenResult ==
    [][\A p \in overtaken : phase[p] = "recording" /\ phase'[p] = "idle"
                            => UNCHANGED <<open, result>>]_<<autoSyncVars, overtaken, sinceGrant>>

\* However calls of several processes interleave, two automatic refreshes are
\* granted an interval apart, less what a statement may wait for the database.
GrantsSpaced ==
    [][\A p \in Callers : Granted(p) => sinceGrant + MaxWait >= due[p]]_<<autoSyncVars, overtaken, sinceGrant>>

\* A run that holds the row ends with its result recorded, even when its caller
\* has gone, unless a statement failed or its process died.
HolderRecords ==
    [][owner # NoRun /\ owner' = NoRun => ~open' \/ failures' < failures]_<<autoSyncVars, overtaken, sinceGrant>>

\* Neither a run whose process died nor refreshes of single tasks, however many,
\* keep automatic refreshes away for ever.
GrantsResume == []<>(sinceGrant = 0)

==============================================================================
