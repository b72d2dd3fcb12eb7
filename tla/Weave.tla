------------------------------- MODULE Weave --------------------------------
(***************************************************************************)
(* The weave of a causal tree (causal-trees/core2/Weave2.ts): the atoms of *)
(* the tree in doubly linked lists, one per root, in depth-first order,    *)
(* with lookup maps by ID and by hash, and a bounded reorder buffer for    *)
(* the atoms that arrived before their cause.  A weave is a value here;    *)
(* each method is an operator from weaves to weaves.                       *)
(*                                                                         *)
(* An atom is [site, time, prio, cause, causeHash, hash, cert]: its ID is  *)
(* the first three fields, cause the ID of the atom it was made under,     *)
(* causeHash that atom's hash, and cert tells a certificate, the one root  *)
(* made with a cardinality ({group: 'certificates', number: 1}).  Hashes   *)
(* are distinct naturals.  A node is an atom with a number that tells      *)
(* apart the nodes made for repeated deliveries of it.                     *)
(***************************************************************************)
EXTENDS Integers, Sequences, FiniteSets, SequencesExt

CONSTANT MaxReorderBufferSize

ASSUME BufferAssumption == MaxReorderBufferSize \in Nat

-----------------------------------------------------------------------------
(* Atom IDs.                                                               *)

Id(a) == <<a.site, a.time, a.prio>>

NoCause == <<>>

(* _compareAtomIds(a.id, b.id) < 0.                                        *)
Before(a, b) ==
    \/ a.prio > b.prio
    \/ a.prio = b.prio /\ a.time > b.time
    \/ a.prio = b.prio /\ a.time = b.time /\ a.site < b.site

-----------------------------------------------------------------------------
(* Pointers and maps: a key that is not in a function's domain is null.    *)

Null == [atom |-> [hash |-> 0], copy |-> 0]

At(f, k) == IF k \in DOMAIN f THEN f[k] ELSE Null

Put(f, k, n) ==
    [x \in IF n = Null THEN DOMAIN f \ {k} ELSE DOMAIN f \cup {k} |-> IF x = k THEN n ELSE f[x]]

(* The elements of s that are not to be dropped, in their order.           *)
Without(s, drop) ==
    LET left[k \in 0 .. Len(s)] ==
            IF k = 0 THEN <<>>
            ELSE IF s[k] \in drop THEN left[k - 1] ELSE Append(left[k - 1], s[k])
    IN left[Len(s)]

EmptyWeave ==
    [roots |-> <<>>, idMap |-> <<>>, hashMap |-> <<>>, buffer |-> <<>>,
     next |-> <<>>, prev |-> <<>>, cardinality |-> 0]

GetNode(w, id) == At(w.idMap, id)

Buffered(w, id) ==
    LET found == {k \in DOMAIN w.buffer : Id(w.buffer[k].atom) = id}
    IN IF found = {} THEN Null ELSE w.buffer[Min(found)]

(* A Map keeps the place of a key that is set again.                       *)
AddToBuffer(w, n) ==
    [w EXCEPT !.buffer =
        IF Buffered(w, Id(n.atom)) = Null
          THEN Append(@, n)
          ELSE [k \in DOMAIN @ |-> IF Id(@[k].atom) = Id(n.atom) THEN n ELSE @[k]]]

AddNodeToMaps(w, n) ==
    [w EXCEPT !.idMap = Put(@, Id(n.atom), n), !.hashMap = Put(@, n.atom.hash, n)]

Ids(list) == {Id(list[k].atom) : k \in DOMAIN list}

Hashes(list) == {list[k].atom.hash : k \in DOMAIN list}

(* The nodes of a list leave the maps.                                     *)
RemoveListFromMaps(w, list) ==
    [w EXCEPT !.idMap = [x \in DOMAIN @ \ Ids(list) |-> @[x]],
              !.hashMap = [x \in DOMAIN @ \ Hashes(list) |-> @[x]]]

(* They leave the buffer for the maps; of two nodes with one key the later *)
(* one stays.                                                              *)
Release(w, list) ==
    [w EXCEPT
       !.buffer = Without(@, {m \in Range(@) : Id(m.atom) \in Ids(list)}),
       !.idMap = [x \in DOMAIN @ \cup Ids(list) |->
                    IF x \in Ids(list)
                      THEN list[Max({k \in DOMAIN list : Id(list[k].atom) = x})] ELSE @[x]],
       !.hashMap = [x \in DOMAIN @ \cup Hashes(list) |->
                    IF x \in Hashes(list)
                      THEN list[Max({k \in DOMAIN list : list[k].atom.hash = x})] ELSE @[x]]]

-----------------------------------------------------------------------------
(* Iteration.                                                              *)

(* The nodes from n to the end of its list: as many steps as there are     *)
(* pointers reach it, unless the list is a ring, which the code would go   *)
(* around forever.                                                         *)
IterateFrom(w, n) ==
    LET bound == Cardinality(DOMAIN w.next) + 1
        node[k \in 0 .. bound] == IF k = 0 THEN n ELSE At(w.next, node[k - 1])
        ends == {k \in 0 .. bound : node[k] = Null}
    IN [k \in 1 .. (IF ends = {} THEN bound ELSE Min(ends)) |-> node[k - 1]]

(* Mutant of IterateCausalGroup: the group goes on over atoms as old as n. *)
IterateCausalGroupTies(w, n) ==
    LET list == IterateFrom(w, n)
        stop == {k \in 2 .. Len(list) : list[k].atom.time < n.atom.time}
    IN SubSeq(list, 2, IF stop = {} THEN Len(list) ELSE Min(stop) - 1)

(* The nodes after n up to the first that is not newer than n.             *)
IterateCausalGroup(w, n) ==
    LET list == IterateFrom(w, n)
        stop == {k \in 2 .. Len(list) : list[k].atom.time <= n.atom.time}
    IN SubSeq(list, 2, IF stop = {} THEN Len(list) ELSE Min(stop) - 1)

(* Mutant of LastInCausalGroup: the group ends with the last child. *)
LastInCausalGroupChild(w, n) ==
    Last(<<n>> \o SelectSeq(IterateCausalGroup(w, n), LAMBDA m : m.atom.cause = Id(n.atom)))

LastInCausalGroup(w, n) == Last(<<n>> \o IterateCausalGroup(w, n))

(* The places, in the list from n, of the later nodes with the cause of n; *)
(* the search ends with the first node whose cause is older than that.     *)
IterateSiblings(w, n) ==
    LET list == IterateFrom(w, n)
        stop == {k \in 2 .. Len(list) : /\ list[k].atom.cause # NoCause
                                        /\ n.atom.cause # NoCause
                                        /\ list[k].atom.cause[2] < n.atom.cause[2]}
    IN {k \in 2 .. Len(list) : /\ list[k].atom.cause = n.atom.cause
                               /\ \A j \in stop : k <= j}

-----------------------------------------------------------------------------
(* Linking.                                                                *)

(* Mutant of InsertNodeBefore: the node behind keeps its old neighbour. *)
InsertNodeBeforeOneWay(w, pos, start, end) ==
    LET prev == At(w.prev, pos)
    IN [w EXCEPT
          !.next = Put(IF prev = Null THEN @ ELSE Put(@, prev, start), end, pos),
          !.prev = IF prev = Null THEN @ ELSE Put(@, start, prev)]

InsertNodeBefore(w, pos, start, end) ==
    LET prev == At(w.prev, pos)
    IN [w EXCEPT
          !.next = Put(IF prev = Null THEN @ ELSE Put(@, prev, start), end, pos),
          !.prev = Put(IF prev = Null THEN @ ELSE Put(@, start, prev), pos, end)]

InsertNodeAfter(w, pos, start, end) ==
    LET next == At(w.next, pos)
    IN [w EXCEPT
          !.next = Put(Put(@, pos, start), end, next),
          !.prev = Put(IF next = Null THEN @ ELSE Put(@, next, end), start, pos)]

(* The list from start to end goes before the first child of cause that    *)
(* it sorts before, and otherwise behind the causal group of cause.        *)
InsertNodeUnder(w, cause, start, end) ==
    LET group == IterateCausalGroup(w, cause)
        after == {k \in DOMAIN group : /\ group[k].atom.cause = Id(cause.atom)
                                       /\ Before(start.atom, group[k].atom)}
    IN IF after # {}
         THEN InsertNodeBefore(w, group[Min(after)], start, end)
         ELSE InsertNodeAfter(w, Last(<<cause>> \o group), start, end)

InsertUnder(w, cause, n) == AddNodeToMaps(InsertNodeUnder(w, cause, n, n), n)

AddRoot(w, n) == AddNodeToMaps([w EXCEPT !.roots = Append(@, n)], n)

HasMissingChildren(w, n) ==
    \E k \in DOMAIN w.buffer : w.buffer[k].atom.cause = Id(n.atom)

(* The buffered children of n are linked under it, each with the list that *)
(* hangs from it; they leave the buffer unless n is buffered itself.       *)
AddMissingChildren(w, n, reorderBuffer) ==
    LET Adopt(v, child) ==
            LET list == IterateFrom(v, child)
            IN InsertNodeUnder(IF reorderBuffer THEN v ELSE Release(v, list),
                               n, child, Last(list))
        adopted[k \in 0 .. Len(w.buffer)] ==
            IF k = 0 THEN w
            ELSE IF w.buffer[k].atom.cause = Id(n.atom)
                   THEN Adopt(adopted[k - 1], w.buffer[k])
                   ELSE adopted[k - 1]
    IN adopted[Len(w.buffer)]

RemoveSpan(w, start, end) ==
    LET next == At(w.next, end)
        prev == At(w.prev, start)
        cut == [w EXCEPT
                  !.next = Put(IF prev = Null THEN @ ELSE Put(@, prev, next), end, Null),
                  !.prev = Put(IF next = Null THEN @ ELSE Put(@, next, prev), start, Null)]
        gone == RemoveListFromMaps(cut, IterateFrom(cut, start))
    IN IF start.atom.cause = NoCause
         THEN [gone EXCEPT !.roots = Without(@, {start})]
         ELSE gone

RemoveNode(w, n) == RemoveSpan(w, n, LastInCausalGroup(w, n))

-----------------------------------------------------------------------------
(* The public operations.  A result is the weave, the result's type and    *)
(* the atoms addedWeaveAtoms() finds in it.                                *)

Result(w, type, added) == [weave |-> w, type |-> type, added |-> added]

AtomsOf(list) == [k \in DOMAIN list |-> list[k].atom]

(* Of two atoms with one ID the one with the lower hash stays.             *)
ResolveConflict(w, existing, n, cause) ==
    LET cleared == RemoveNode(w, existing)
    IN CASE existing.atom.hash = n.atom.hash -> Result(w, "atom_already_added", <<>>)
         [] existing.atom.hash < n.atom.hash -> Result(w, "conflict", <<existing.atom>>)
         [] OTHER -> Result(IF cause = Null THEN AddRoot(cleared, n)
                            ELSE InsertUnder(cleared, cause, n),
                            "conflict", <<n.atom>>)

(* Mutant of WithMissingChildren: the buffer is not searched. *)
WithMissingChildrenForgotten(w, n) == Result(w, "atom_added", <<n.atom>>)

WithMissingChildren(w, n) ==
    LET full == AddMissingChildren(w, n, FALSE)
    IN IF HasMissingChildren(w, n)
         THEN Result(full, "atoms_added",
                     AtomsOf(<<n>> \o IterateCausalGroup(full, n)))
         ELSE Result(w, "atom_added", <<n.atom>>)

(* Mutant of InsertRoot: a certificate is not counted. *)
InsertRootUncounted(w, n) ==
    LET existing == GetNode(w, Id(n.atom))
    IN CASE existing # Null -> ResolveConflict(w, existing, n, Null)
         [] existing = Null /\ n.atom.cert /\ w.cardinality >= 1 ->
              Result(w, "cardinality_violated", <<>>)
         [] OTHER -> WithMissingChildren(AddRoot(w, n), n)

InsertRoot(w, n) ==
    LET existing == GetNode(w, Id(n.atom))
        counted == IF n.atom.cert THEN [w EXCEPT !.cardinality = @ + 1] ELSE w
    IN CASE existing # Null -> ResolveConflict(w, existing, n, Null)
         [] existing = Null /\ n.atom.cert /\ w.cardinality >= 1 ->
              Result(w, "cardinality_violated", <<>>)
         [] OTHER -> WithMissingChildren(AddRoot(counted, n), n)

(* atomMatchesHash and the comparison of the timestamps.                   *)
Refusal(n, cause) ==
    CASE n.atom.causeHash # cause.atom.hash -> "hash_failed"
      [] OTHER -> IF n.atom.time <= cause.atom.time THEN "invalid_timestamp"
                  ELSE "none"

(* Mutant of InsertEarly: the buffer takes one atom too many. *)
InsertEarlyOffByOne(w, n) ==
    LET cause == Buffered(w, n.atom.cause)
        added == AddToBuffer(w, n)
        linked == IF cause = Null THEN added ELSE InsertNodeUnder(added, cause, n, n)
    IN CASE Len(w.buffer) > MaxReorderBufferSize -> Result(w, "cause_not_found", <<>>)
         [] Len(w.buffer) <= MaxReorderBufferSize /\ cause # Null
            /\ Refusal(n, cause) # "none" -> Result(w, Refusal(n, cause), <<>>)
         [] OTHER -> Result(AddMissingChildren(linked, n, TRUE), "saved", <<>>)

InsertEarly(w, n) ==
    LET cause == Buffered(w, n.atom.cause)
        added == AddToBuffer(w, n)
        linked == IF cause = Null THEN added ELSE InsertNodeUnder(added, cause, n, n)
    IN CASE Len(w.buffer) >= MaxReorderBufferSize -> Result(w, "cause_not_found", <<>>)
         [] Len(w.buffer) < MaxReorderBufferSize /\ cause # Null
            /\ Refusal(n, cause) # "none" -> Result(w, Refusal(n, cause), <<>>)
         [] OTHER -> Result(AddMissingChildren(linked, n, TRUE), "saved", <<>>)

Insert(w, n) ==
    LET cause == GetNode(w, n.atom.cause)
        existing == GetNode(w, Id(n.atom))
    IN CASE n.atom.cause = NoCause -> InsertRoot(w, n)
         [] n.atom.cause # NoCause /\ cause = Null -> InsertEarly(w, n)
         [] n.atom.cause # NoCause /\ cause # Null ->
              IF Refusal(n, cause) # "none" THEN Result(w, Refusal(n, cause), <<>>)
              ELSE IF existing # Null THEN ResolveConflict(w, existing, n, cause)
              ELSE WithMissingChildren(InsertUnder(w, cause, n), n)

(* remove(): the node of the atom's ID with its causal group.              *)
RemoveAtom(w, a) ==
    LET node == GetNode(w, Id(a)) IN IF node = Null THEN w ELSE RemoveNode(w, node)

(* removeSiblingsBefore(): from the first to the last older sibling.       *)
RemoveSiblingsBefore(w, a) ==
    LET node == GetNode(w, Id(a))
        list == IterateFrom(w, node)
        siblings == IterateSiblings(w, node)
    IN IF node = Null \/ siblings = {} THEN w
       ELSE RemoveSpan(w, list[Min(siblings)], LastInCausalGroup(w, list[Max(siblings)]))
=============================================================================
