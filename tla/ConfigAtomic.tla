----------------------------- MODULE ConfigAtomic -----------------------------
(***************************************************************************)
(* What internal/config/store.go promises of the configuration file: an    *)
(* update is one step from the configuration that the file holds to the    *)
(* one that it leaves.  Only who edits the file by hand, without the lock, *)
(* may see the edit undone: an update that had read the file before is     *)
(* `exposed' to it and starts from the older content.                      *)
(***************************************************************************)
EXTENDS Config

CONSTANTS Updates,    \* the updates that anyone may ask for
          Edits       \* what people save by hand

VARIABLES file, exposed

Update ==
    /\ exposed' = {}
    /\ \E content \in {file} \cup exposed, r \in Updates, locale \in Languages :
         \E c \in Decode(content, locale) : \E d \in Apply(c, r, locale) :
            file' = Whole(Marshal(d, locale))

EditByHand ==
    /\ file' \in Edits
    /\ exposed' \in SUBSET (exposed \cup {file})

Forget == exposed' = {} /\ UNCHANGED file

AtomicNext == Forget \/ EditByHand \/ Update

AtomicSpec == exposed = {} /\ [][AtomicNext]_<<file, exposed>>
===============================================================================
