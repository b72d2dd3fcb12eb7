---------------------------- MODULE UpdatesStore ----------------------------
(***************************************************************************)
(* What the addUpdates handler needs from the store of one branch: every   *)
(* writer is answered once, its update is part of the contents from the    *)
(* moment it is accepted until the branch is cleared, and a refused update *)
(* changes nothing.  Only a writer that was at work when the branch was    *)
(* cleared may, when it is accepted, leave any accepted updates behind.    *)
(* InstSync uses the store through exactly these steps: Store and          *)
(* ReplaceUpdates accept, MaxSizeReached and MergeFails refuse, and        *)
(* ClearUpdates clears.                                                    *)
(***************************************************************************)
CONSTANTS Writers,    \* the addUpdates invocations, one update each
          Initial     \* the updates a branch may start with

VARIABLES contents,   \* the updates a reader of the branch gets
          answer,     \* what each writer was told
          stale       \* writers that were at work when the branch was cleared

vars == <<contents, answer, stale>>

Init ==
    /\ contents \in {{}, Initial}
    /\ answer = [w \in Writers |-> "none"]
    /\ stale = {}

Accept(w) ==
    /\ answer[w] = "none"
    /\ contents' = contents \cup {w}
    /\ answer' = [answer EXCEPT ![w] = "accepted"]
    /\ UNCHANGED stale

AcceptStale(w) ==
    /\ answer[w] = "none" /\ w \in stale
    /\ answer' = [answer EXCEPT ![w] = "accepted"]
    /\ w \in contents'
    /\ contents' \subseteq Initial \cup {v \in Writers : answer'[v] = "accepted"}
    /\ UNCHANGED stale

Refuse(w) ==
    /\ answer[w] = "none"
    /\ answer' = [answer EXCEPT ![w] = "refused"]
    /\ UNCHANGED <<contents, stale>>

Clear ==
    /\ contents' = {}
    /\ stale \subseteq stale' /\ stale' \ stale \subseteq {w \in Writers : answer[w] = "none"}
    /\ UNCHANGED answer

Next == Clear \/ \E w \in Writers : Accept(w) \/ AcceptStale(w) \/ Refuse(w)

Spec == Init /\ [][Next]_vars
=============================================================================
