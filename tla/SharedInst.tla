----------------------------- MODULE SharedInst -----------------------------
(***************************************************************************)
(* What realtime synchronisation promises on a persistent inst, without    *)
(* connections, messages or invocations: devices edit their own documents, *)
(* an edit is published once and for all, documents only ever take in      *)
(* published edits, and a device forgets that an edit of its own is        *)
(* unsaved only when the edit is published or the device was told that it  *)
(* was rejected.                                                           *)
(***************************************************************************)
CONSTANTS
    Clients,
    Updates     \* pairs: author first

VARIABLES
    docs,       \* the updates each device shows
    unsaved,    \* those of its own it still has to get saved
    published,  \* the updates that are saved
    rejected    \* the updates a device was told cannot be saved

vars == <<docs, unsaved, published, rejected>>

Init ==
    /\ docs = [c \in Clients |-> {}]
    /\ unsaved = [c \in Clients |-> {}]
    /\ published = {}
    /\ rejected = {}

Edit(c, u) ==
    /\ u[1] = c /\ u \notin docs[c]
    /\ docs' = [docs EXCEPT ![c] = @ \cup {u}]
    /\ unsaved' = [unsaved EXCEPT ![c] = @ \cup {u}]
    /\ UNCHANGED <<published, rejected>>

Publish(u) ==
    /\ u \in docs[u[1]]
    /\ published' = published \cup {u}
    /\ UNCHANGED <<docs, unsaved, rejected>>

Sync(c) ==
    /\ \E S \in SUBSET published : docs' = [docs EXCEPT ![c] = @ \cup S]
    /\ UNCHANGED <<unsaved, published, rejected>>

Confirm(c, u) ==
    /\ u \in unsaved[c] \cap published
    /\ unsaved' = [unsaved EXCEPT ![c] = @ \ {u}]
    /\ UNCHANGED <<docs, published, rejected>>

Reject(c, u) ==
    /\ u \in unsaved[c]
    /\ unsaved' = [unsaved EXCEPT ![c] = @ \ {u}]
    /\ rejected' = rejected \cup {u}
    /\ UNCHANGED <<docs, published>>

Next ==
    \/ \E c \in Clients, u \in Updates : Edit(c, u) \/ Confirm(c, u) \/ Reject(c, u)
    \/ \E u \in Updates : Publish(u)
    \/ \E c \in Clients : Sync(c)

Spec == Init /\ [][Next]_vars
=============================================================================
