------------------------- MODULE RedisUpdatesStore --------------------------
(***************************************************************************)
(* RedisUpdatesStore for one branch, under the addUpdates invocations that *)
(* use it concurrently.  A Lua script is one atomic step; between the      *)
(* scripts of one invocation (add, then read, merge and replace when the   *)
(* branch is full) the other invocations run.                              *)
(*                                                                         *)
(* Every invocation writes one update, named after it.  An element of the  *)
(* Redis list is an encoded update: the set of updates merged into it.     *)
(* Timestamps are Date.now(), so they are above the 0 that stands for a    *)
(* missing merge time; the only other one is the -1 of an element that was *)
(* stored without a timestamp.                                             *)
(***************************************************************************)
EXTENDS Integers, Sequences

CONSTANTS
    Writers,        \* the addUpdates invocations
    Legacy,         \* updates a branch may hold from before there were timestamps
    Size(_),        \* length of the encoded merge of a set of updates
    MaxSize,        \* maxBranchSizeInBytes
    MergeUpdatesOnMaxSizeExceeded,
    MaxClears       \* bound: times a temporary branch is cleared

ASSUME StoreAssumption ==
    /\ MaxSize \in Nat \ {0}
    /\ MaxClears \in Nat
    /\ MergeUpdatesOnMaxSizeExceeded \in BOOLEAN
    /\ Legacy \cap Writers = {}
    /\ \A ups \in SUBSET (Writers \cup Legacy) : Size(ups) \in Nat

VARIABLES
    list,       \* the list at the branch key
    size,       \* the updateSize key
    mergeTime,  \* the mergeTime key: "none", or "string" once it was SET
    pc,         \* where each invocation is
    read,       \* what the invocation got from getUpdates()
    clears,
    stale       \* history: invocations that read the list before it was cleared

vars == <<list, size, mergeTime, pc, read, clears, stale>>

Updates == Writers \cup Legacy
Element(ups, ts) == [updates |-> ups, timestamp |-> ts]

(* The updates in a list and the sum of the lengths of its elements. *)
Contents(l) == UNION {l[i].updates : i \in 1 .. Len(l)}
SizeOf(l) ==
    LET sum[i \in 0 .. Len(l)] == IF i = 0 THEN 0 ELSE sum[i - 1] + Size(l[i].updates)
    IN  sum[Len(l)]

Init ==
    /\ \E old \in {{}, Legacy} : list = IF old = {} THEN <<>> ELSE <<Element(old, -1)>>
    /\ size = SizeOf(list)
    /\ mergeTime = "none"
    /\ pc = [w \in Writers |-> "add"]
    /\ read = [w \in Writers |-> <<>>]
    /\ clears = 0
    /\ stale = {}

-----------------------------------------------------------------------------
Goto(w, label) == pc' = [pc EXCEPT ![w] = label]

(* The script answers "max_size_reached" and changes nothing. *)
MaxSizeReached(w, label) == Goto(w, label) /\ UNCHANGED <<list, size, mergeTime>>

(* Mutants of AddUpdates: elements get no timestamp; the update is pushed      *)
(* before the size is checked; the size is checked without the update.        *)
AddUpdatesNoTimestamp(w) ==
    /\ pc[w] = "add"
    /\ list' = Append(list, Element({w}, 0))
    /\ Goto(w, "accepted")
    /\ UNCHANGED <<size, mergeTime, read, clears, stale>>

AddUpdatesPushFirst(w) ==
    /\ pc[w] = "add"
    /\ list' = Append(list, Element({w}, 1))
    /\ size' = size + Size({w})
    /\ Goto(w, IF size + Size({w}) > MaxSize THEN "refused" ELSE "accepted")
    /\ UNCHANGED <<mergeTime, read, clears, stale>>

AddUpdatesLateCheck(w) ==
    /\ pc[w] = "add"
    /\ IF size > MaxSize
       THEN MaxSizeReached(w, "full")
       ELSE /\ list' = Append(list, Element({w}, 1))
            /\ size' = size + Size({w})
            /\ Goto(w, "accepted")
            /\ UNCHANGED mergeTime
    /\ UNCHANGED <<read, clears, stale>>

(* The script of addUpdates(). *)
AddUpdates(w) ==
    LET requiredSize == size + Size({w}) IN
    /\ pc[w] = "add"
    /\ IF requiredSize > MaxSize
       THEN MaxSizeReached(w, IF MergeUpdatesOnMaxSizeExceeded THEN "full" ELSE "refused")
       ELSE /\ list' = Append(list, Element({w}, 1))
            /\ size' = requiredSize
            /\ Goto(w, "accepted")
            /\ UNCHANGED mergeTime
    /\ UNCHANGED <<read, clears, stale>>

GetUpdates(w) ==
    /\ pc[w] = "full"
    /\ read' = [read EXCEPT ![w] = list]
    /\ Goto(w, "replace")
    /\ UNCHANGED <<list, size, mergeTime, clears, stale>>

(* Mutant of LTrim: the whole list is deleted. *)
LTrimAll(l, start) == <<>>

(* LTRIM list start -1 *)
LTrim(l, start) == SubSeq(l, start + 1, Len(l))

(* replaceUpdates() throws: on the null timestamps of an empty list, or in    *)
(* the script, which compares the string that GET returns with a number once  *)
(* the merge time is set.  The handler keeps the answer of addUpdates().      *)
Throws(w) == Goto(w, "refused") /\ UNCHANGED <<list, size, mergeTime>>

(* mergeUpdates() of what was read and the new update, then replaceUpdates(). *)
ReplaceUpdates(w) ==
    LET merged          == Contents(read[w]) \cup {w}
        addedSize       == Size(merged)
        sizeDelta       == addedSize - SizeOf(read[w])
        lastUpdateIndex == Len(read[w]) - 1
        trim            == read[w][1].timestamp > 0
        grownBy         == IF trim THEN sizeDelta ELSE addedSize
    IN
    /\ pc[w] = "replace"
    /\ IF read[w] = <<>> THEN Throws(w)
       ELSE IF size + sizeDelta > MaxSize
       THEN MaxSizeReached(w, "refused")
       ELSE IF mergeTime # "none" THEN Throws(w)
       ELSE IF size + grownBy > MaxSize
       THEN MaxSizeReached(w, "refused")
       ELSE /\ list' = Append(IF trim THEN LTrim(list, lastUpdateIndex) ELSE list,
                              Element(merged, 1))
            /\ size' = size + grownBy
            /\ mergeTime' = IF trim THEN "string" ELSE mergeTime
            /\ Goto(w, "accepted")
    /\ read' = [read EXCEPT ![w] = <<>>]
    /\ UNCHANGED <<clears, stale>>

(* clearUpdates() deletes the list, and no other key. *)
ClearUpdates ==
    /\ clears < MaxClears
    /\ list' = <<>>
    /\ clears' = clears + 1
    /\ stale' = stale \cup {w \in Writers : pc[w] = "replace"}
    /\ UNCHANGED <<size, mergeTime, pc, read>>

Next ==
    \/ \E w \in Writers : AddUpdates(w) \/ GetUpdates(w) \/ ReplaceUpdates(w)
    \/ ClearUpdates

Spec == Init /\ [][Next]_vars

-----------------------------------------------------------------------------
TypeOK ==
    /\ list \in Seq([updates : SUBSET Updates, timestamp : {-1, 1}])
    /\ size \in Int
    /\ mergeTime \in {"none", "string"}
    /\ pc \in [Writers -> {"add", "full", "replace", "accepted", "refused"}]
    /\ read \in [Writers -> Seq([updates : SUBSET Updates, timestamp : {-1, 1}])]
    /\ clears \in 0 .. MaxClears
    /\ stale \subseteq Writers

(* Merging loses nothing: however the add, read and replace scripts of the    *)
(* invocations interleave, an accepted update stays in the branch until it is *)
(* cleared, a refused one is not added, and no merge takes an update out or   *)
(* brings a cleared one back.  The one exception is the merge of an           *)
(* invocation that read a temporary branch before it was cleared: its script  *)
(* trims by an index into the list that is gone.                              *)
Abstract == INSTANCE UpdatesStore WITH
    Initial <- Legacy,
    contents <- Contents(list),
    answer <- [w \in Writers |-> IF pc[w] \in {"accepted", "refused"}
                                 THEN pc[w] ELSE "none"]

ImplementsUpdatesStore == Abstract!Spec

(* The size the store accounts for never passes the limit, whichever of the   *)
(* two scripts and whichever way of replacing takes the update.               *)
AccountedSizeFits == size <= MaxSize

(* branchSizeInBytes is "The current size of the branch": what addUpdates()     *)
(* answers when it took the update is the size of what is stored.             *)
(* The code does not keep this; README.md, Disagreements, has the steps.      *)
SizeAnswered ==
    [][\A w \in Writers :
        pc[w] = "add" /\ pc'[w] = "accepted" => size' = SizeOf(list')]_vars

(* "should merge updates when the max size was exceeded if configured": the   *)
(* merge is refused only if its result would not fit.                        *)
(* The code does not keep this; README.md, Disagreements, has the steps.      *)
MergeSucceedsWhenItFits ==
    [][\A w \in Writers :
        pc[w] = "replace" /\ pc'[w] = "refused"
        => size + Size(Contents(read[w]) \cup {w}) - SizeOf(read[w]) > MaxSize]_vars
=============================================================================
