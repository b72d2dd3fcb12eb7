----------------------------- MODULE CausalTree -----------------------------
(***************************************************************************)
(* The causal tree of one site (causal-trees/core2/CausalTree2.ts and      *)
(* SiteStatus.ts, as aux-common/aux-format-2/AuxCausalTree2.ts uses them): *)
(* a weave and the clocks of the site and of its remote site.  Atoms that  *)
(* other sites made reach it in any order and more than once, and with     *)
(* them the hashes of atoms to remove; the site makes atoms of its own.    *)
(*                                                                         *)
(* What the other sites made is chosen in the initial state: N atoms in    *)
(* the order of their timestamps.  Delete atoms are the only ones with a   *)
(* priority and nothing is made under them; a certificate is a root; two   *)
(* different atoms may share an ID, once in a history (a conflict).        *)
(***************************************************************************)
EXTENDS Weave

CONSTANTS
    N,              \* atoms made by other sites
    MaxRepeats,     \* deliveries of an atom that was delivered before
    MaxLocal,       \* atoms made here
    MaxRemovals,    \* removals received
    Conflicts       \* whether two atoms may share an ID

ASSUME BoundsAssumption ==
    /\ N \in Nat /\ MaxRepeats \in Nat /\ MaxLocal \in Nat /\ MaxRemovals \in Nat
    /\ Conflicts \in BOOLEAN

VARIABLES
    others,    \* the atoms other sites made, by hash
    weave,     \* tree.weave
    time,      \* tree.site.time
    remote,    \* tree.remoteSite.time
    made,      \* the atoms made here
    count,     \* how often the atom of each hash was inserted
    removals,  \* removals received
    refused,   \* history: atoms that were inserted and not kept
    removed,   \* history: atoms taken out of the weave
    repeated,  \* history: an ID arrived, or was kept, twice with one in the buffer
    last       \* the last operation, the type of its result and the hash removed

vars == <<others, weave, time, remote, made, count, removals, refused, removed,
          repeated, last>>

Site == N + 1        \* the IDs of this site and of its remote site
RemoteSite == N + 2

-----------------------------------------------------------------------------
(* What the other sites made.                                              *)

Causes == {c \in [1..N -> 0..(N - 1)] : \A k \in 1..N : c[k] < k}

Times(cause) ==
    {t \in [1..N -> 1..N] :
        \A k \in 1..N : /\ t[k] = 1 \/ (k > 1 /\ t[k] - t[k - 1] \in {0, 1})
                        /\ cause[k] # 0 => t[k] > t[cause[k]]}

Roots(cause) == {k \in 1..N : cause[k] = 0}

Leaves(cause) == {k \in 1..N : \A j \in 1..N : cause[j] # k} \ Roots(cause)

(* A twin has the ID of the atom before it: same site, time and kind.      *)
Twins(cause, when, deletes, certs) ==
    {0} \cup {k \in 2..N : /\ Conflicts
                           /\ when[k] = when[k - 1]
                           /\ (k \in deletes) = (k - 1 \in deletes)
                           /\ (k \in certs) = (k - 1 \in certs)}

AtomOf(cause, when, deletes, certs, twin, k) ==
    LET SiteOf(j) == IF j = twin THEN j - 1 ELSE j
        Prio(j) == IF j \in deletes THEN 1 ELSE 0
        c == cause[k]
    IN [site |-> SiteOf(k), time |-> when[k], prio |-> Prio(k),
        cause |-> IF c = 0 THEN NoCause ELSE <<SiteOf(c), when[c], Prio(c)>>,
        causeHash |-> c, hash |-> k, cert |-> k \in certs]

-----------------------------------------------------------------------------
(* The clocks.                                                             *)

(* calculateTimeFromId.                                                    *)
CalculateTime(site, t, a) ==
    IF a.site # site THEN Max({t, a.time}) + 1 ELSE Max({t, a.time})

(* Mutant of TimeAfterEach: only the first atom added is looked at. *)
TimeAfterEachFirst(site, t, added) ==
    IF added = <<>> THEN t ELSE CalculateTime(site, t, Head(added))

(* insertAtoms and applyAtoms step the clock for each atom in turn,        *)
(* updateSite takes the latest of the times the atoms give.                *)
TimeAfterEach(site, t, added) ==
    LET after[k \in 0 .. Len(added)] ==
            IF k = 0 THEN t ELSE CalculateTime(site, after[k - 1], added[k])
    IN after[Len(added)]

UpdateSite(site, t, added) ==
    IF added = <<>> THEN t
    ELSE Max({CalculateTime(site, t, added[k]) : k \in DOMAIN added})

-----------------------------------------------------------------------------
InWeave(w) == {w.idMap[id].atom : id \in DOMAIN w.idMap}

InBuffer(w) == {w.buffer[k].atom : k \in DOMAIN w.buffer}

Inserted == {a \in Range(others) \cup Range(made) : count[a.hash] > 0}

Repeats == Cardinality({hk \in (DOMAIN count) \X (2..(MaxRepeats + 1)) :
                            count[hk[1]] >= hk[2]})

Init ==
    /\ \E cause \in Causes : \E when \in Times(cause) :
         \E deletes \in SUBSET Leaves(cause), certs \in SUBSET Roots(cause) :
           \E twin \in Twins(cause, when, deletes, certs) :
             others = [k \in 1..N |-> AtomOf(cause, when, deletes, certs, twin, k)]
    /\ weave = EmptyWeave
    /\ time = 0
    /\ remote = 0
    /\ made = <<>>
    /\ count = [h \in 1..(N + MaxLocal) |-> 0]
    /\ removals = 0
    /\ refused = {}
    /\ removed = {}
    /\ repeated = FALSE
    /\ last = <<"none", "none", 0>>

(* What every insert of an atom leaves in the weave and in the histories.  *)
Inserting(op, a, w, r) ==
    /\ weave' = w
    /\ count' = [count EXCEPT ![a.hash] = @ + 1]
    /\ refused' = IF a \in InWeave(w) \cup InBuffer(w) THEN refused \ {a}
                  ELSE refused \cup {a}
    /\ removed' = (removed \cup (InWeave(weave) \ InWeave(w))) \ InWeave(w)
    /\ repeated' = \/ repeated \/ Buffered(weave, Id(a)) # Null
                   \/ r.type = "saved" /\ Id(a) \in DOMAIN weave.idMap
    /\ last' = <<op, r.type, 0>>
    /\ UNCHANGED <<others, removals>>

NodeOf(a) == [atom |-> a, copy |-> count[a.hash] + 1]

(* insertAtoms, applyAtoms: one atom of a message.                         *)
InsertAtom(a) ==
    /\ count[a.hash] = 0 \/ Repeats < MaxRepeats
    /\ \E r \in {Insert(weave, NodeOf(a))} :
         /\ Inserting("insert", a, r.weave, r)
         /\ time' = TimeAfterEach(Site, time, r.added)
    /\ UNCHANGED <<remote, made>>

(* createAtom: under an atom of the weave, or a root.                      *)
NewAtom(site, t, cause, prio) ==
    [site |-> site, time |-> t + 1, prio |-> prio,
     cause |-> IF cause = Null THEN NoCause ELSE Id(cause.atom),
     causeHash |-> cause.atom.hash, hash |-> N + Len(made) + 1, cert |-> FALSE]

Parents == {n \in {weave.idMap[id] : id \in DOMAIN weave.idMap} : n.atom.prio = 0}

(* The atoms that may be made, and how: under the site's own clock, as its *)
(* certificate, and for the edits of a text that another user made through *)
(* this site.  A new value of a tag and the delete of a bot also remove    *)
(* the siblings they supersede.                                            *)
AddHere ==
    {<<"here", NewAtom(Site, time, Null, 0)>>}
      \cup {<<op, NewAtom(Site, time, n, p)>> :
               op \in {"here", "supersede"}, n \in Parents, p \in {0, 1}}

AddCertificate == {<<"cert", [NewAtom(Site, time, Null, 0) EXCEPT !.cert = TRUE]>>}

AddRemote ==
    {<<"remote", NewAtom(RemoteSite, remote, n, p)>> : n \in Parents, p \in {0, 1}}

(* addAtom and applyResult.  An atom the weave refuses is not sent.        *)
AddAtom(op, a) ==
    /\ Len(made) < MaxLocal
    /\ \E r \in {Insert(weave, NodeOf(a))} :
         /\ IF r.added = <<>>
              THEN /\ last' = <<op, r.type, 0>>
                   /\ UNCHANGED <<others, weave, made, count, removals, refused, removed,
                                  repeated>>
              ELSE /\ made' = Append(made, a)
                   /\ \E w \in {IF op = "supersede" THEN RemoveSiblingsBefore(r.weave, a)
                                ELSE r.weave} : Inserting(op, a, w, r)
         /\ time' = UpdateSite(Site, time, r.added)
         /\ remote' = UpdateSite(RemoteSite, remote, r.added)

(* removeAtoms: one hash of a message.                                     *)
RemoveHash(h) ==
    /\ removals < MaxRemovals
    /\ h \in DOMAIN weave.hashMap
    /\ removals' = removals + 1
    /\ weave' = RemoveAtom(weave, weave.hashMap[h].atom)
    /\ removed' = removed \cup (InWeave(weave) \ InWeave(weave'))
    /\ last' = <<"remove", "atom_removed", h>>
    /\ UNCHANGED <<others, time, remote, made, count, refused, repeated>>

Next ==
    \/ \E a \in Range(others) \cup Range(made) : InsertAtom(a)
    \/ \E add \in AddHere \cup AddCertificate \cup AddRemote : AddAtom(add[1], add[2])
    \/ \E h \in DOMAIN count : RemoveHash(h)

Spec == Init /\ [][Next]_vars

-----------------------------------------------------------------------------
RootAtoms(w) == {w.roots[k].atom : k \in DOMAIN w.roots}

-----------------------------------------------------------------------------
(* The maps are well formed, the clocks are numbers, the buffer keeps its  *)
(* limit and one certificate is counted.                                   *)
TypeOK ==
    /\ \A id \in DOMAIN weave.idMap : Id(weave.idMap[id].atom) = id
    /\ Len(weave.buffer) <= MaxReorderBufferSize
    /\ time \in Nat /\ remote \in Nat
    /\ weave.cardinality \in 0..1

Nodes(w) == {w.idMap[id] : id \in DOMAIN w.idMap} \cup Range(w.buffer)

(* Weave2.ts:702-765.  Unless an atom arrived again while it was waiting,  *)
(* the list of every node, in the weave and in the buffer, is linked both  *)
(* ways and ends: whatever is spliced in, released or cut out, iterateFrom *)
(* does not go around forever.                                             *)
ListsAreLinked ==
    ~repeated =>
      \A n \in Nodes(weave) :
        LET list == IterateFrom(weave, n)
        IN /\ At(weave.next, Last(list)) = Null
           /\ \A k \in 2 .. Len(list) : At(weave.prev, list[k]) = list[k - 1]

(* Weave2.ts insert.  An atom that arrived and was neither refused nor     *)
(* removed is in the weave, or waits in the buffer for a cause that is not *)
(* in the weave: no order of arrival leaves it stranded.                   *)
NothingStranded ==
    ~repeated =>
      \A a \in Inserted \ (refused \cup removed) :
        \/ a \in InWeave(weave)
        \/ a \in InBuffer(weave) /\ a.cause \notin DOMAIN weave.idMap

(* SiteStatus.ts:105, CausalTree2.ts insertAtoms.  An atom made by this    *)
(* site is accepted: the clock is past every atom of the weave, whatever   *)
(* arrived and in which order, unless one arrived again while it waited.   *)
AcceptedHere ==
    ~repeated =>
      /\ last[1] \in {"here", "supersede"}
           => last[2] = "atom_added" /\ made[Len(made)] \in InWeave(weave)
      /\ \A a \in InWeave(weave) : a.time <= time

(* Weave2.ts:304.  At most one certificate is ever in the tree.            *)
OneCertificate == Cardinality({a \in RootAtoms(weave) : a.cert}) <= 1
=============================================================================
