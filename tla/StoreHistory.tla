---------------------------- MODULE StoreHistory -----------------------------
(***************************************************************************)
(* The store with the public IDs it has ever issued as a history variable. *)
(***************************************************************************)
EXTENDS Store

VARIABLE issued   \* by entity, the IDs of every row there has been

historyVars == <<storeVars, issued>>

Issued == [project |-> DOMAIN projects, feature |-> DOMAIN features, task |-> DOMAIN tasks]

HInit == StoreInit /\ issued = [e \in {"project", "feature", "task"} |-> {}]

HNext == /\ StoreNext
         /\ issued' = [e \in DOMAIN issued |-> issued[e] \cup Issued'[e]]

HSpec == HInit /\ [][HNext]_historyVars

\* A public ID names one row for good: a row that appears has an ID that no
\* row had before, deleted ones included (nextPublicID keeps its counter in a
\* table of its own instead of looking at the rows).
IdsNeverReused ==
    [][\A e \in DOMAIN issued : (Issued'[e] \ Issued[e]) \cap issued[e] = {}]_historyVars

==============================================================================
