-------------------------- MODULE CausalTree_proofs --------------------------
(***************************************************************************)
(* Proofs about the causal tree, for any number of atoms, any buffer and   *)
(* any number of repeated deliveries, local atoms and removals.            *)
(*                                                                         *)
(* TreeInv: atoms have a hash each and the clocks are past those of their  *)
(* sites; the weave is Typed, that is its maps, pointers, roots and buffer *)
(* are over the nodes made so far.  It holds always.                       *)
(*                                                                         *)
(* LinkedInv holds as long as no ID was in the buffer twice.  It says that *)
(* the pointers represent a set G of chains (Rep): every node of the maps  *)
(* and of the buffer is in one chain, the chain of a root is all in the    *)
(* maps and starts with it, a chain without a root waits and starts with   *)
(* its oldest node, and no cause of a waiting node is in the maps.  Each   *)
(* operation is shown to splice chains together or to cut one: the sets G  *)
(* need not be computed, so that no reference listing is needed.           *)
(*                                                                         *)
(* The parts: functions and sequences; chains and iterateFrom; splicing    *)
(* and cutting; the typed weave; the clocks and the atoms; TreeInv; the    *)
(* lists of a weave; what each operation does to them; LinkedInv.          *)
(***************************************************************************)
EXTENDS CausalTree, SequenceTheorems, FiniteSetTheorems, WellFoundedInduction, TLAPS

-----------------------------------------------------------------------------
(* Induction on the naturals, by their least element.                      *)

(* The order of the naturals as a set of pairs. *)
Less == {ss \in Nat \X Nat : ss[1] < ss[2]}

(* A set of naturals that is not empty has a least element. *)
LEMMA LeastNat ==
    ASSUME NEW T, T \subseteq Nat, T # {}
    PROVE  \E x \in T : \A y \in T : ~(y < x)
<1>1. IsWellFoundedOn(Less, Nat)
  BY NatLessThanWellFounded DEF OpToRel, Less
<1>2. PICK x \in T : \A y \in T : ~(<<y, x>> \in Less)
  BY <1>1, WFMin
<1>3. \A y \in T : y < x => <<y, x>> \in Less
  BY DEF Less
<1> QED
  BY <1>2, <1>3

(* Induction up to n: what holds of 0, and of k whenever it holds of k - 1,*)
(* holds of all numbers up to n.                                           *)
LEMMA UpTo ==
    ASSUME NEW n \in Nat, NEW T, 0 \in T,
           \A k \in 1 .. n : k - 1 \in T => k \in T
    PROVE  \A k \in 0 .. n : k \in T
<1> DEFINE Bad == {k \in 0 .. n : k \notin T}
<1>1. SUFFICES ASSUME Bad # {} PROVE FALSE
  OBVIOUS
<1>2. PICK m \in Bad : \A y \in Bad : ~(y < m)
  <2>1. Bad \subseteq Nat
    OBVIOUS
  <2> HIDE DEF Bad
  <2> QED
    BY ONLY <1>1, <2>1, LeastNat
<1>3. m # 0 /\ m \in 1 .. n
  BY <1>2
<1>4. m - 1 \in 0 .. n /\ m - 1 < m
  BY <1>3
<1>5. m - 1 \in T
  BY <1>2, <1>4
<1> QED
  BY <1>2, <1>3, <1>5

-----------------------------------------------------------------------------
(* The least and the greatest of a set of numbers.                         *)

(* The least element that Min picks. *)
LEMMA MinIn ==
    ASSUME NEW S, S \subseteq Nat, S # {}
    PROVE  Min(S) \in S /\ \A y \in S : Min(S) <= y
<1>1. PICK x \in S : \A y \in S : ~(y < x)
  BY LeastNat
<1>2. \A y \in S : x <= y
  BY <1>1
<1> QED
  BY <1>1, <1>2 DEF Min

(* The greatest element that Max picks, of numbers that have a bound. *)
LEMMA MaxIn ==
    ASSUME NEW n \in Nat, NEW S, S \subseteq 0 .. n, S # {}
    PROVE  Max(S) \in S /\ \A y \in S : y <= Max(S)
<1> DEFINE T == {n - x : x \in S}
<1>1. T \subseteq Nat /\ T # {}
  <2>1. \A x \in S : n - x \in Nat
    OBVIOUS
  <2>2. PICK x : x \in S
    OBVIOUS
  <2>3. n - x \in T
    BY <2>2
  <2> QED
    BY <2>1, <2>3
<1>2. PICK t \in T : \A y \in T : ~(y < t)
  <2> HIDE DEF T
  <2> QED
    BY <1>1, LeastNat
<1>3. PICK x \in S : t = n - x
  BY <1>2
<1>4. \A y \in S : x >= y
  BY <1>2, <1>3
<1>5. Max(S) \in S /\ \A y \in S : Max(S) >= y
  BY <1>3, <1>4 DEF Max
<1> QED
  BY <1>5

-----------------------------------------------------------------------------
(* Sequences.                                                              *)

(* No element of the sequence s occurs twice in it. *)
Distinct(s) == \A i, j \in DOMAIN s : s[i] = s[j] => i = j

(* Without computes what its recursion says. *)
LEMMA WithoutUnfold ==
    ASSUME NEW S, NEW s \in Seq(S), NEW drop
    PROVE  \E f : /\ Without(s, drop) = f[Len(s)]
                  /\ f[0] = <<>>
                  /\ \A k \in 1 .. Len(s) :
                       f[k] = IF s[k] \in drop THEN f[k - 1] ELSE Append(f[k - 1], s[k])
<1> DEFINE n == Len(s)
           b == <<>>
           Step(k, v) == IF s[k] \in drop THEN v ELSE Append(v, s[k])
           Def(m, f) == [k \in 0 .. m |-> IF k = 0 THEN b ELSE Step(k, f[k - 1])]
<1>0. n \in Nat
  OBVIOUS
<1>1. \E f : f = Def(n, f)
  <2> HIDE DEF n, b, Step
  <2> DEFINE Bad == {m \in 0 .. n : ~\E f : f = Def(m, f)}
  <2>1. SUFFICES ASSUME Bad # {} PROVE FALSE
    <3>1. n \in 0 .. n
      BY <1>0
    <3> QED
      BY <2>1, <3>1
  <2>2. PICK m \in Bad : \A y \in Bad : ~(y < m)
    <3>1. Bad \subseteq Nat
      BY <1>0
    <3> HIDE DEF Bad
    <3> QED
      BY ONLY <2>1, <3>1, LeastNat
  <2>3. m \in 0 .. n /\ ~\E f : f = Def(m, f)
    BY <2>2
  <2>4. CASE m = 0
    <3>1. [k \in 0 .. 0 |-> b] = Def(0, [k \in 0 .. 0 |-> b])
      OBVIOUS
    <3> QED
      BY <2>3, <2>4, <3>1
  <2>5. CASE m # 0
    <3>1. m - 1 \in 0 .. n /\ m - 1 < m /\ m \in 1 .. n
      BY <1>0, <2>3, <2>5
    <3>2. PICK f : f = Def(m - 1, f)
      BY <2>2, <3>1
    <3> DEFINE g == [k \in 0 .. m |-> IF k = m THEN Step(m, f[m - 1]) ELSE f[k]]
    <3>3. ASSUME NEW k \in 0 .. m PROVE g[k] = Def(m, g)[k]
      <4>1. CASE k = 0
        BY <3>1, <3>2, <4>1
      <4>2. CASE k # 0 /\ k # m
        <5>1. k \in 0 .. m - 1 /\ k - 1 \in 0 .. m - 1 /\ k - 1 \in 0 .. m /\ k - 1 # m
          BY <3>1, <3>3, <4>2
        <5>2. f[k] = Step(k, f[k - 1])
          BY <3>2, <5>1, <4>2
        <5> QED
          BY <5>1, <5>2, <4>2
      <4>3. CASE k = m
        <5>1. m - 1 \in 0 .. m /\ m - 1 # m /\ m # 0
          BY <3>1
        <5> QED
          BY <5>1, <4>3
      <4> QED
        BY <4>1, <4>2, <4>3
    <3>4. g = Def(m, g)
      <4>1. g = [k \in 0 .. m |-> g[k]] /\ Def(m, g) = [k \in 0 .. m |-> Def(m, g)[k]]
        OBVIOUS
      <4> HIDE DEF g, Def
      <4> QED
        BY <3>3, <4>1
    <3> QED
      BY <2>3, <3>4
  <2> QED
    BY <2>4, <2>5
<1>2. PICK h : h = (CHOOSE f : f = Def(n, f))
  OBVIOUS
<1>3. h = Def(n, h)
  <2> HIDE DEF Def
  <2> QED
    BY <1>1, <1>2
<1>4. Without(s, drop) = h[n]
  BY <1>2 DEF Without
<1>5. h[0] = b /\ \A k \in 1 .. n : h[k] = Step(k, h[k - 1])
  <2> HIDE DEF n, b, Step
  <2>1. 0 \in 0 .. n /\ \A k \in 1 .. n : k \in 0 .. n /\ k # 0
    BY <1>0
  <2>2. \A k \in 0 .. n : h[k] = IF k = 0 THEN b ELSE Step(k, h[k - 1])
    BY <1>3
  <2> HIDE <1>3
  <2> QED
    BY <2>1, <2>2
<1> QED
  BY <1>4, <1>5

(* What a sequence is with one more element. *)
LEMMA AppendedElements ==
    ASSUME NEW S, NEW s \in Seq(S), NEW x \in S
    PROVE  /\ Append(s, x) \in Seq(S) /\ Len(Append(s, x)) = Len(s) + 1
           /\ Append(s, x)[Len(s) + 1] = x
           /\ \A i \in 1 .. Len(s) : Append(s, x)[i] = s[i]
           /\ Range(Append(s, x)) = Range(s) \cup {x}
           /\ Distinct(s) /\ x \notin Range(s) => Distinct(Append(s, x))
<1> DEFINE t == Append(s, x)
<1>1. /\ t \in Seq(S) /\ Len(t) = Len(s) + 1 /\ Len(s) \in Nat
      /\ DOMAIN t = 1 .. Len(s) + 1 /\ DOMAIN s = 1 .. Len(s)
  OBVIOUS
<1>2. t[Len(s) + 1] = x /\ \A i \in 1 .. Len(s) : t[i] = s[i]
  OBVIOUS
<1> HIDE DEF t
<1>3. \A i \in 1 .. Len(s) + 1 : i = Len(s) + 1 \/ i \in 1 .. Len(s)
  BY <1>1
<1>4. \A i \in 1 .. Len(s) : i \in 1 .. Len(s) + 1 /\ i # Len(s) + 1
  BY <1>1
<1>5. Len(s) + 1 \in 1 .. Len(s) + 1
  BY <1>1
<1>6. Range(t) = Range(s) \cup {x}
  BY <1>1, <1>2, <1>3, <1>4, <1>5 DEF Range
<1>7. ASSUME Distinct(s), x \notin Range(s) PROVE Distinct(t)
  <2>1. SUFFICES ASSUME NEW j \in DOMAIN t, NEW k \in DOMAIN t, j # k PROVE t[j] # t[k]
    BY DEF Distinct
  <2>2. \A i \in 1 .. Len(s) : s[i] # x
    BY <1>1, <1>7 DEF Range
  <2> QED
    BY <1>1, <1>2, <1>3, <1>7, <2>1, <2>2 DEF Distinct
<1> QED
  BY <1>1, <1>2, <1>6, <1>7 DEF t

(* What is left of a sequence: what is not dropped, in no more places, and *)
(* nothing twice that was there once.                                      *)
LEMMA WithoutElements ==
    ASSUME NEW S, NEW s \in Seq(S), NEW drop
    PROVE  /\ Without(s, drop) \in Seq(S)
           /\ Len(Without(s, drop)) <= Len(s)
           /\ Range(Without(s, drop)) = Range(s) \ drop
           /\ Distinct(s) => Distinct(Without(s, drop))
<1> DEFINE n == Len(s)
<1>1. n \in Nat
  OBVIOUS
<1>2. DOMAIN s = 1 .. n /\ \A k \in 1 .. n : s[k] \in S
  OBVIOUS
<1>3. PICK f : /\ Without(s, drop) = f[n]
               /\ f[0] = <<>>
               /\ \A k \in 1 .. n :
                    f[k] = IF s[k] \in drop THEN f[k - 1] ELSE Append(f[k - 1], s[k])
  BY WithoutUnfold
<1> HIDE DEF n
<1> DEFINE Upper(k) == {s[j] : j \in 1 .. k} \ drop
           T == {k \in 0 .. n : /\ f[k] \in Seq(S) /\ Len(f[k]) <= k
                                /\ Range(f[k]) = Upper(k)
                                /\ Distinct(s) => Distinct(f[k])}
<1>4. 0 \in T
  <2>1. Range(f[0]) = {} /\ Distinct(f[0]) /\ f[0] \in Seq(S) /\ Len(f[0]) <= 0
    BY <1>3 DEF Range, Distinct
  <2>2. Upper(0) = {} /\ 0 \in 0 .. n
    BY <1>1
  <2> QED
    BY <2>1, <2>2
<1>5. ASSUME NEW k \in 1 .. n, k - 1 \in T PROVE k \in T
  <2>1. /\ k - 1 \in 0 .. n /\ k \in 0 .. n /\ k \in 1 .. k
        /\ \A j \in 1 .. k : j = k \/ j \in 1 .. k - 1
        /\ \A j \in 1 .. k - 1 : j \in 1 .. k /\ j # k /\ j \in 1 .. n
    BY <1>1, <1>5
  <2>2. /\ f[k - 1] \in Seq(S) /\ s[k] \in S /\ Len(f[k - 1]) <= k - 1
        /\ Range(f[k - 1]) = Upper(k - 1) /\ (Distinct(s) => Distinct(f[k - 1]))
    BY <1>2, <1>5
  <2>3. f[k] = IF s[k] \in drop THEN f[k - 1] ELSE Append(f[k - 1], s[k])
    BY <1>3
  <2>4. CASE s[k] \in drop
    <3>1. Upper(k) = Upper(k - 1)
      BY <2>1, <2>4
    <3>2. Len(f[k - 1]) <= k
      BY <2>2
    <3> QED
      BY <3>1, <3>2, <2>1, <2>2, <2>3, <2>4
  <2>5. CASE s[k] \notin drop
    <3>1. Upper(k) = Upper(k - 1) \cup {s[k]}
      BY <2>1, <2>5
    <3>2. /\ Range(f[k]) = Range(f[k - 1]) \cup {s[k]}
          /\ Distinct(f[k - 1]) /\ s[k] \notin Range(f[k - 1]) => Distinct(f[k])
          /\ f[k] \in Seq(S) /\ Len(f[k]) = Len(f[k - 1]) + 1
      <4>1. PICK t : t = f[k - 1]
        OBVIOUS
      <4>2. t \in Seq(S) /\ f[k] = Append(t, s[k])
        BY <4>1, <2>2, <2>3, <2>5
      <4> QED
        BY ONLY <4>1, <4>2, <2>2, AppendedElements
    <3>3. ASSUME Distinct(s) PROVE s[k] \notin Upper(k - 1)
      BY <3>3, <2>1, <1>2 DEF Distinct
    <3>4. Len(f[k]) <= k
      BY <3>2, <2>2
    <3> HIDE DEF Upper
    <3> QED
      BY <3>1, <3>2, <3>3, <3>4, <2>1, <2>2
  <2> QED
    BY <2>4, <2>5
<1>6. \A k \in 0 .. n : k \in T
  <2> HIDE DEF T
  <2> QED
    BY ONLY <1>1, <1>4, <1>5, UpTo
<1>7. n \in 0 .. n /\ Range(s) = {s[j] : j \in 1 .. n}
  BY <1>1, <1>2 DEF Range
<1> QED
  BY <1>3, <1>6, <1>7 DEF n

-----------------------------------------------------------------------------
(* Atoms, nodes and pointers.                                              *)

(* The atoms that are made: a cause is older than what is made under it,   *)
(* nothing is made under a delete atom, certificates are roots.            *)
Atom == {a \in [site : Nat, time : Nat, prio : Nat,
                cause : {NoCause} \cup (Nat \X Nat \X {0}), causeHash : Nat,
                hash : Nat \ {0}, cert : BOOLEAN] :
           /\ a.cause # NoCause => a.cause[2] < a.time
           /\ a.cert => a.cause = NoCause}

Node == [atom : Atom, copy : Nat \ {0}]

(* The nodes of M that have a cause. *)
Under(M) == {m \in M : m.atom.cause # NoCause}

(* f has pointers to nodes of R for some nodes of D. *)
Pointers(f, D, R) ==
    /\ DOMAIN f \subseteq D /\ IsFiniteSet(DOMAIN f)
    /\ f \in [DOMAIN f -> R]

(* The null of the pointers and maps is not a node. *)
LEMMA NullIsNoNode == Null \notin Node
BY DEF Null, Node

(* What a node is made of. *)
LEMMA NodeFields ==
    ASSUME NEW n \in Node
    PROVE  /\ n # Null
           /\ n.atom \in Atom /\ n.copy \in Nat \ {0} /\ n.atom.time \in Nat
           /\ n.atom.prio \in Nat /\ n.atom.site \in Nat /\ n.atom.hash \in Nat \ {0}
           /\ n.atom.cert \in BOOLEAN
           /\ n.atom.cause # NoCause => n.atom.cause[2] \in Nat /\ n.atom.cause[2] < n.atom.time
           /\ n.atom.cert => n.atom.cause = NoCause
<1>1. n.atom \in Atom /\ n.copy \in Nat \ {0}
  BY DEF Node
<1>2. n # Null
  BY NullIsNoNode
<1>3. n.atom.cause \in {NoCause} \cup (Nat \X Nat \X {0})
  BY <1>1 DEF Atom
<1>4. n.atom.cause # NoCause => n.atom.cause[2] \in Nat
  BY <1>3
<1> QED
  BY <1>1, <1>2, <1>4 DEF Atom

(* A pointer that is set is the one that is read, the others stay. *)
LEMMA PutAt ==
    ASSUME NEW f, NEW k, NEW n, NEW x
    PROVE  At(Put(f, k, n), x) = IF x = k THEN n ELSE At(f, x)
<1>1. CASE n = Null
  <2>1. Put(f, k, n) = [y \in DOMAIN f \ {k} |-> IF y = k THEN n ELSE f[y]]
    BY <1>1 DEF Put
  <2> QED
    BY <1>1, <2>1 DEF At
<1>2. CASE n # Null
  <2>1. Put(f, k, n) = [y \in DOMAIN f \cup {k} |-> IF y = k THEN n ELSE f[y]]
    BY <1>2 DEF Put
  <2> QED
    BY <1>2, <2>1 DEF At
<1> QED
  BY <1>1, <1>2

(* Setting or clearing a pointer gives pointers. *)
LEMMA PutPointers ==
    ASSUME NEW D, NEW R, NEW f, Pointers(f, D, R), NEW k \in D, NEW n \in R \cup {Null}
    PROVE  Pointers(Put(f, k, n), D, R)
<1>1. CASE n = Null
  <2>1. Put(f, k, n) = [y \in DOMAIN f \ {k} |-> f[y]]
    BY <1>1 DEF Put
  <2>2. IsFiniteSet(DOMAIN f \ {k})
    BY FS_RemoveElement DEF Pointers
  <2> QED
    BY <2>1, <2>2 DEF Pointers
<1>2. CASE n # Null
  <2>1. Put(f, k, n) = [y \in DOMAIN f \cup {k} |-> IF y = k THEN n ELSE f[y]]
    BY <1>2 DEF Put
  <2>2. IsFiniteSet(DOMAIN f \cup {k})
    BY FS_AddElement DEF Pointers
  <2> QED
    BY <1>2, <2>1, <2>2 DEF Pointers
<1> QED
  BY <1>1, <1>2

(* Following a pointer gives a node or null. *)
LEMMA AtPointers ==
    ASSUME NEW D, NEW R, NEW f, Pointers(f, D, R), NEW x
    PROVE  /\ At(f, x) \in R \cup {Null}
           /\ x \notin D => At(f, x) = Null
           /\ At(f, x) # Null => x \in DOMAIN f
BY DEF At, Pointers

-----------------------------------------------------------------------------
(* Iteration.                                                              *)

(* The list that iterateFrom makes of the nodes it comes by, a function on *)
(* 0..bound.                                                               *)
Walk(bound, node) ==
    LET ends == {k \in 0 .. bound : node[k] = Null}
    IN [k \in 1 .. (IF ends = {} THEN bound ELSE Min(ends)) |-> node[k - 1]]

Walks(w, a, f) ==
    LET bound == Cardinality(DOMAIN w.next) + 1
    IN /\ IterateFrom(w, a) = Walk(bound, f)
       /\ f[0] = a
       /\ \A k \in 1 .. bound : f[k] = At(w.next, f[k - 1])

(* The walk along the next pointers computes what its recursion says. *)
LEMMA IterateFromUnfold ==
    ASSUME NEW w, IsFiniteSet(DOMAIN w.next), NEW a
    PROVE  \E f : Walks(w, a, f)
<1> DEFINE n == Cardinality(DOMAIN w.next) + 1
           b == a
           Step(k, v) == At(w.next, v)
           Def(m, f) == [k \in 0 .. m |-> IF k = 0 THEN b ELSE Step(k, f[k - 1])]
<1>0. n \in Nat
  BY FS_CardinalityType
<1>1. \E f : f = Def(n, f)
  <2> HIDE DEF n, b, Step
  <2> DEFINE Bad == {m \in 0 .. n : ~\E f : f = Def(m, f)}
  <2>1. SUFFICES ASSUME Bad # {} PROVE FALSE
    <3>1. n \in 0 .. n
      BY <1>0
    <3> QED
      BY <2>1, <3>1
  <2>2. PICK m \in Bad : \A y \in Bad : ~(y < m)
    <3>1. Bad \subseteq Nat
      BY <1>0
    <3> HIDE DEF Bad
    <3> QED
      BY ONLY <2>1, <3>1, LeastNat
  <2>3. m \in 0 .. n /\ ~\E f : f = Def(m, f)
    BY <2>2
  <2>4. CASE m = 0
    <3>1. [k \in 0 .. 0 |-> b] = Def(0, [k \in 0 .. 0 |-> b])
      OBVIOUS
    <3> QED
      BY <2>3, <2>4, <3>1
  <2>5. CASE m # 0
    <3>1. m - 1 \in 0 .. n /\ m - 1 < m /\ m \in 1 .. n
      BY <1>0, <2>3, <2>5
    <3>2. PICK f : f = Def(m - 1, f)
      BY <2>2, <3>1
    <3> DEFINE g == [k \in 0 .. m |-> IF k = m THEN Step(m, f[m - 1]) ELSE f[k]]
    <3>3. ASSUME NEW k \in 0 .. m PROVE g[k] = Def(m, g)[k]
      <4>1. CASE k = 0
        BY <3>1, <3>2, <4>1
      <4>2. CASE k # 0 /\ k # m
        <5>1. k \in 0 .. m - 1 /\ k - 1 \in 0 .. m - 1 /\ k - 1 \in 0 .. m /\ k - 1 # m
          BY <3>1, <3>3, <4>2
        <5>2. f[k] = Step(k, f[k - 1])
          BY <3>2, <5>1, <4>2
        <5> QED
          BY <5>1, <5>2, <4>2
      <4>3. CASE k = m
        <5>1. m - 1 \in 0 .. m /\ m - 1 # m /\ m # 0
          BY <3>1
        <5> QED
          BY <5>1, <4>3
      <4> QED
        BY <4>1, <4>2, <4>3
    <3>4. g = Def(m, g)
      <4>1. g = [k \in 0 .. m |-> g[k]] /\ Def(m, g) = [k \in 0 .. m |-> Def(m, g)[k]]
        OBVIOUS
      <4> HIDE DEF g, Def
      <4> QED
        BY <3>3, <4>1
    <3> QED
      BY <2>3, <3>4
  <2> QED
    BY <2>4, <2>5
<1>2. PICK h : h = (CHOOSE f : f = Def(n, f))
  OBVIOUS
<1>3. h = Def(n, h)
  <2> HIDE DEF Def
  <2> QED
    BY <1>1, <1>2
<1>4. IterateFrom(w, a) = Walk(n, h)
  BY <1>2 DEF IterateFrom, Walk
<1>5. h[0] = b /\ \A k \in 1 .. n : h[k] = Step(k, h[k - 1])
  <2> HIDE DEF n, b, Step
  <2>1. 0 \in 0 .. n /\ \A k \in 1 .. n : k \in 0 .. n /\ k # 0
    BY <1>0
  <2>2. \A k \in 0 .. n : h[k] = IF k = 0 THEN b ELSE Step(k, h[k - 1])
    BY <1>3
  <2> HIDE <1>3
  <2> QED
    BY <2>1, <2>2
<1> QED
  BY <1>4, <1>5 DEF Walks

(* What iterateFrom returns, whatever the pointers are: nodes that follow  *)
(* each other up to one without a next node, unless there are too many.    *)
Follows(w, M, n, list) ==
    /\ list \in Seq(M) /\ Len(list) \in 1 .. Cardinality(DOMAIN w.next) + 1
    /\ list[1] = n
    /\ \A k \in 2 .. Len(list) : list[k] = At(w.next, list[k - 1]) /\ list[k] \in Under(M)
    /\ \/ At(w.next, list[Len(list)]) = Null
       \/ Len(list) = Cardinality(DOMAIN w.next) + 1

(* iterateFrom starts with its node and goes from each to the next. *)
LEMMA IterateFromFollows ==
    ASSUME NEW w, NEW M, M \subseteq Node, Pointers(w.next, M, Under(M)), NEW n \in M
    PROVE  Follows(w, M, n, IterateFrom(w, n))
<1> DEFINE c == Cardinality(DOMAIN w.next)
<1>1. c \in Nat
  BY FS_CardinalityType DEF Pointers
<1>2. PICK f : /\ IterateFrom(w, n) = Walk(c + 1, f)
               /\ f[0] = n
               /\ \A k \in 1 .. c + 1 : f[k] = At(w.next, f[k - 1])
  <2>1. IsFiniteSet(DOMAIN w.next)
    BY DEF Pointers
  <2>2. PICK f : Walks(w, n, f)
    BY <2>1, IterateFromUnfold
  <2> QED
    BY <2>2 DEF Walks
<1>3. PICK list : list = IterateFrom(w, n)
  OBVIOUS
<1> SUFFICES Follows(w, M, n, list)
  BY <1>3
<1> HIDE DEF c
<1> DEFINE ends == {k \in 0 .. c + 1 : f[k] = Null}
           len == IF ends = {} THEN c + 1 ELSE Min(ends)
<1>4. list = [k \in 1 .. len |-> f[k - 1]]
  BY <1>2, <1>3 DEF Walk
<1>5. \A k \in 1 .. c + 1 : f[k] \in Under(M) \cup {Null}
  BY <1>2, AtPointers
<1>6. f[0] \in M /\ f[0] # Null
  BY <1>2, NullIsNoNode
<1>7. /\ len \in 1 .. c + 1
      /\ \A k \in 0 .. len - 1 : f[k] # Null
      /\ f[len] = Null \/ len = c + 1
  <2>1. CASE ends = {}
    BY <2>1, <1>1
  <2>2. CASE ends # {}
    <3>1. ends \subseteq Nat
      BY <1>1
    <3>2. Min(ends) \in ends /\ \A y \in ends : Min(ends) <= y
      <4> HIDE DEF ends
      <4> QED
        BY <2>2, <3>1, MinIn
    <3>3. len \in 0 .. c + 1 /\ f[len] = Null
      BY <3>2, <2>2
    <3>4. len # 0
      BY <3>3, <1>6
    <3>5. ASSUME NEW k \in 0 .. len - 1, f[k] = Null PROVE FALSE
      <4>1. k \in 0 .. c + 1 /\ k < len
        BY <3>5, <3>3, <1>1
      <4>2. k \in ends
        BY <4>1, <3>5
      <4>3. len <= k
        BY <4>2, <3>2, <2>2
      <4> QED
        BY <4>1, <4>3, <3>3, <1>1
    <3> QED
      BY <3>3, <3>4, <3>5, <1>1
  <2> QED
    BY <2>1, <2>2
<1> HIDE DEF len
<1>8. /\ \A k \in 1 .. len : list[k] = f[k - 1] /\ list[k] \in M
      /\ \A k \in 2 .. len : list[k] \in Under(M)
  <2>1. ASSUME NEW k \in 1 .. len PROVE list[k] = f[k - 1] /\ f[k - 1] # Null
    BY <1>4, <1>7, <1>1
  <2>2. ASSUME NEW k \in 2 .. len PROVE list[k] \in Under(M)
    <3>1. k \in 1 .. len /\ k - 1 \in 1 .. c + 1
      BY <1>1, <1>7, <2>2
    <3> QED
      BY <3>1, <2>1, <1>5
  <2>3. ASSUME NEW k \in 1 .. len PROVE list[k] \in M
    <3>1. CASE k = 1
      BY <3>1, <2>1, <1>6
    <3>2. CASE k # 1
      <4>1. k \in 2 .. len
        BY <3>2, <2>3, <1>7, <1>1
      <4> QED
        BY <4>1, <2>2 DEF Under
    <3> QED
      BY <3>1, <3>2
  <2> QED
    BY <2>1, <2>2, <2>3
<1>9. list \in Seq(M) /\ Len(list) = len
  BY <1>4, <1>8, <1>7, <1>1
<1>10. ASSUME NEW k \in 2 .. len PROVE list[k] = At(w.next, list[k - 1])
  <2>1. k - 1 \in 1 .. c + 1 /\ k - 1 \in 1 .. len /\ k \in 1 .. len
    BY <1>7, <1>1, <1>10
  <2>2. list[k] = f[k - 1] /\ list[k - 1] = f[(k - 1) - 1]
    BY <1>8, <2>1
  <2>3. f[k - 1] = At(w.next, f[(k - 1) - 1])
    BY <1>2, <2>1
  <2> QED
    BY <2>2, <2>3
<1>11. list[1] = n
  BY <1>7, <1>8, <1>2, <1>1
<1>12. At(w.next, list[len]) = Null \/ len = c + 1
  <2>1. CASE len # c + 1
    <3>1. f[len] = Null /\ len \in 1 .. c + 1 /\ len \in 1 .. len
      BY <2>1, <1>7, <1>1
    <3>2. list[len] = f[len - 1] /\ f[len] = At(w.next, f[len - 1])
      BY <3>1, <1>8, <1>2
    <3> QED
      BY <3>1, <3>2
  <2> QED
    BY <2>1
<1> QED
  BY <1>7, <1>8, <1>9, <1>10, <1>11, <1>12 DEF Follows, c

-----------------------------------------------------------------------------
(* Chains.                                                                 *)

(* The nodes of s are linked both ways, and nothing else to them. *)
Chain(w, s) ==
    /\ s \in Seq(Node) /\ Len(s) >= 1 /\ Distinct(s)
    /\ \A k \in 2 .. Len(s) : At(w.next, s[k - 1]) = s[k] /\ At(w.prev, s[k]) = s[k - 1]
    /\ At(w.prev, s[1]) = Null /\ At(w.next, s[Len(s)]) = Null

(* iterateFrom a node of a chain returns the rest of the chain. *)
From(s, i) == [k \in 1 .. Len(s) - i + 1 |-> s[i + k - 1]]

(* From a node of a chain it returns the rest of the chain and ends. *)
LEMMA IterateChain ==
    ASSUME NEW w, NEW M, M \subseteq Node, Pointers(w.next, M, Under(M)),
           NEW s \in Seq(M), Chain(w, s), NEW i \in 1 .. Len(s)
    PROVE  IterateFrom(w, s[i]) = From(s, i)
<1> DEFINE len == Len(s)
<1>0. /\ len \in Nat /\ i \in 1 .. len
      /\ \A k \in 1 .. len : s[k] \in M /\ s[k] # Null
  <2>1. \A k \in 1 .. len : s[k] \in M
    OBVIOUS
  <2> QED
    BY <2>1, NullIsNoNode
<1>1. /\ \A k \in 1 .. len - 1 : At(w.next, s[k]) = s[k + 1]
      /\ At(w.next, s[len]) = Null
      /\ \A k, l \in 1 .. len : s[k] = s[l] => k = l
  <2>1. \A k \in 1 .. len - 1 : k + 1 \in 2 .. len /\ (k + 1) - 1 = k
    BY <1>0
  <2>2. DOMAIN s = 1 .. len
    OBVIOUS
  <2>3. \A k \in 2 .. len : At(w.next, s[k - 1]) = s[k]
    BY DEF Chain
  <2>4. \A k \in 1 .. len - 1 : At(w.next, s[k]) = s[k + 1]
    BY <2>1, <2>3
  <2> QED
    BY <2>2, <2>4 DEF Chain, Distinct
<1>2. PICK list : list = IterateFrom(w, s[i])
  OBVIOUS
<1>3. Follows(w, M, s[i], list)
  BY <1>0, <1>2, IterateFromFollows
<1> DEFINE c == Cardinality(DOMAIN w.next)  m == Len(list)  r == len - i + 1
<1>4. c \in Nat /\ IsFiniteSet(DOMAIN w.next)
  BY FS_CardinalityType DEF Pointers
<1>5. len - 1 <= c
  <2>1. \A k \in 1 .. len - 1 : s[k] \in DOMAIN w.next
    <3>1. \A k \in 1 .. len - 1 : k + 1 \in 1 .. len /\ k \in 1 .. len
      BY <1>0
    <3>2. \A k \in 1 .. len - 1 : At(w.next, s[k]) # Null
      BY <3>1, <1>1, <1>0
    <3> QED
      BY <3>2 DEF At
  <2> DEFINE g == [k \in 1 .. len - 1 |-> s[k]]
  <2>2. g \in Injection(1 .. len - 1, DOMAIN w.next)
    <3>1. \A k \in 1 .. len - 1 : k \in 1 .. len
      BY <1>0
    <3> QED
      BY <2>1, <3>1, <1>1 DEF Injection, IsInjective
  <2>3. Cardinality(1 .. len - 1) <= c
    <3> HIDE DEF g
    <3> QED
      BY <1>4, <2>2, FS_Injection
  <2>4. 1 \in Int /\ len - 1 \in Int
    BY <1>0
  <2>5. Cardinality(1 .. len - 1) = IF 1 > len - 1 THEN 0 ELSE (len - 1) - 1 + 1
    BY <2>4, FS_Interval
  <2> QED
    BY <2>3, <2>5, <1>0, <1>4
<1>6. /\ list \in Seq(M) /\ m \in 1 .. c + 1 /\ list[1] = s[i]
      /\ \A k \in 2 .. m : list[k] = At(w.next, list[k - 1])
      /\ At(w.next, list[m]) = Null \/ m = c + 1
      /\ \A k \in 1 .. m : list[k] # Null
  <2>1. list \in Seq(M) /\ m \in Nat /\ \A k \in 1 .. m : list[k] \in M
    BY <1>3 DEF Follows
  <2>2. \A k \in 1 .. m : list[k] # Null
    BY <2>1, NullIsNoNode
  <2> QED
    BY <1>3, <2>2 DEF Follows
<1> HIDE DEF len, c, m
<1> DEFINE T == {k \in 0 .. m : k = 0 \/ (k <= r /\ list[k] = s[i + k - 1])}
<1>7. \A k \in 0 .. m : k \in T
  <2>1. 0 \in T
    BY <1>6, <1>4
  <2>2. ASSUME NEW k \in 1 .. m, k - 1 \in T PROVE k \in T
    <3>1. CASE k = 1
      BY <3>1, <1>6, <1>0, <1>4, <2>2
    <3>2. CASE k # 1
      <4>b. m \in Nat
        BY ONLY <1>6, <1>4
      <4>c. k \in 1 .. m
        BY <2>2
      <4>d. k \in Nat /\ k >= 2
        BY ONLY <4>b, <4>c, <3>2
      <4>0. m \in Nat /\ len \in Nat /\ i \in 1 .. len /\ k \in Nat /\ k \in 1 .. m /\ k >= 2
        BY ONLY <4>b, <4>c, <4>d, <1>0
      <4>a. k - 1 <= r /\ list[k - 1] = s[i + (k - 1) - 1]
        BY <2>2, <4>0
      <4>1. /\ k \in 2 .. m /\ k - 1 \in 1 .. m /\ k - 1 <= r /\ list[k - 1] = s[i + (k - 1) - 1]
            /\ i + (k - 1) - 1 \in 1 .. len
        BY ONLY <4>0, <4>a
      <4>2. list[k] = At(w.next, s[i + (k - 1) - 1]) /\ list[k] # Null
        BY <4>1, <1>6
      <4>3. i + (k - 1) - 1 # len
        BY <4>2, <1>1
      <4>4. i + (k - 1) - 1 \in 1 .. len - 1 /\ (i + (k - 1) - 1) + 1 = i + k - 1
        BY ONLY <4>0, <4>1, <4>3
      <4>5. list[k] = s[i + k - 1]
        BY <4>2, <4>4, <1>1
      <4>6. k <= r /\ k \in 0 .. m
        BY ONLY <4>0, <4>1, <4>4
      <4> QED
        BY <4>5, <4>6
    <3> QED
      BY <3>1, <3>2
  <2>3. m \in Nat
    BY <1>6, <1>4
  <2> HIDE DEF T
  <2> QED
    BY ONLY <2>1, <2>2, <2>3, UpTo
<1>8. m = r
  <2>1. m \in 1 .. c + 1 /\ m \in 0 .. m /\ m # 0
    BY <1>4, <1>6
  <2>2. m <= r /\ list[m] = s[i + m - 1]
    BY <1>7, <2>1
  <2>3. ASSUME m < r PROVE FALSE
    <3>1. i + m - 1 \in 1 .. len - 1 /\ (i + m - 1) + 1 \in 1 .. len
      BY <2>1, <2>3, <1>0, <1>4
    <3>2. At(w.next, list[m]) # Null
      BY <2>2, <3>1, <1>1, <1>0
    <3>3. m = c + 1
      BY <3>2, <1>6
    <3> QED
      BY <3>1, <3>3, <1>5, <1>0, <1>4
  <2> QED
    BY <2>1, <2>2, <2>3, <1>0, <1>4
<1>9. list = [k \in 1 .. m |-> list[k]]
  BY <1>6 DEF m
<1>10. \A k \in 1 .. m : list[k] = s[i + k - 1]
  <2>1. \A k \in 1 .. m : k \in 0 .. m /\ k # 0
    BY <1>6, <1>4
  <2> QED
    BY <2>1, <1>7
<1> QED
  BY <1>2, <1>8, <1>9, <1>10 DEF From, len

(* The causal group, whatever the pointers are: the part of the list after *)
(* its first node, up to place j, where the nodes are newer than that.     *)
GroupTo(list, i, j) ==
    /\ j \in i .. Len(list)
    /\ \A k \in i + 1 .. j : list[k].atom.time > list[i].atom.time
    /\ j < Len(list) => list[j + 1].atom.time <= list[i].atom.time

IsGroup(M, list, group, j) ==
    /\ GroupTo(list, 1, j)
    /\ group \in Seq(M) /\ Len(group) = j - 1
    /\ \A k \in 1 .. j - 1 : group[k] = list[k + 1] /\ group[k] \in Under(M)

(* iterateCausalGroup returns the nodes after n up to a place of the list. *)
LEMMA CausalGroup ==
    ASSUME NEW w, NEW M, M \subseteq Node, Pointers(w.next, M, Under(M)), NEW n \in M
    PROVE  LET list == IterateFrom(w, n)
               group == IterateCausalGroup(w, n)
           IN \E j : IsGroup(M, list, group, j)
<1>1. PICK list : list = IterateFrom(w, n)
  OBVIOUS
<1>2. Follows(w, M, n, list)
  BY <1>1, IterateFromFollows
<1> DEFINE m == Len(list)
           stop == {k \in 2 .. m : list[k].atom.time <= n.atom.time}
           j == IF stop = {} THEN m ELSE Min(stop) - 1
<1>3. /\ list \in Seq(M) /\ m \in Nat /\ m >= 1 /\ list[1] = n
      /\ \A k \in 1 .. m : list[k] \in M /\ list[k].atom.time \in Nat
      /\ \A k \in 2 .. m : list[k] \in Under(M)
  <2>1. list \in Seq(M) /\ m \in Nat /\ m >= 1 /\ \A k \in 1 .. m : list[k] \in M
    BY <1>2 DEF Follows
  <2>2. \A k \in 1 .. m : list[k].atom.time \in Nat
    BY <2>1, NodeFields
  <2> QED
    BY <2>1, <2>2, <1>2 DEF Follows
<1>4. n.atom.time \in Nat
  BY NodeFields
<1>5. IterateCausalGroup(w, n) = SubSeq(list, 2, j)
  BY <1>1 DEF IterateCausalGroup
<1> HIDE DEF m
<1>6. /\ j \in 1 .. m
      /\ \A k \in 2 .. j : list[k].atom.time > n.atom.time
      /\ j < m => list[j + 1].atom.time <= n.atom.time
  <2>1. CASE stop = {}
    BY <2>1, <1>3, <1>4
  <2>2. CASE stop # {}
    <3>1. Min(stop) \in stop /\ \A y \in stop : Min(stop) <= y
      <4>1. stop \subseteq Nat
        BY <1>3
      <4> HIDE DEF stop
      <4> QED
        BY <2>2, <4>1, MinIn
    <3>2. ASSUME NEW k \in 2 .. j PROVE list[k].atom.time > n.atom.time
      <4>1. k \in 2 .. m /\ k < Min(stop)
        BY <3>1, <3>2, <2>2, <1>3
      <4>2. k \notin stop
        BY <4>1, <3>1, <1>3
      <4> QED
        BY <4>1, <4>2, <1>3, <1>4
    <3>3. Min(stop) \in 2 .. m /\ list[Min(stop)].atom.time <= n.atom.time
      BY <3>1
    <3>4. j = Min(stop) - 1
      BY <2>2
    <3> HIDE DEF stop, j
    <3>5. j \in 1 .. m /\ j + 1 = Min(stop)
      BY <3>3, <3>4, <1>3
    <3> QED
      BY <3>2, <3>3, <3>5
  <2> QED
    BY <2>1, <2>2
<1> HIDE DEF j
<1>7. PICK group : group = IterateCausalGroup(w, n)
  OBVIOUS
<1>8. /\ group \in Seq(M) /\ Len(group) = j - 1
      /\ \A k \in 1 .. j - 1 : group[k] = list[k + 1]
  <2>1. 2 \in 1 .. m + 1 /\ j \in 2 - 1 .. m
    BY <1>3, <1>6
  <2>2. /\ SubSeq(list, 2, j) \in Seq(M)
        /\ Len(SubSeq(list, 2, j)) = IF 2 <= j THEN j - 2 + 1 ELSE 0
        /\ \A k \in 1 .. j - 2 + 1 : SubSeq(list, 2, j)[k] = list[2 + k - 1]
    BY <2>1, <1>3, SubSeqProperties DEF m
  <2>3. \A k \in 1 .. j - 1 : 2 + k - 1 = k + 1 /\ k \in 1 .. j - 2 + 1
    BY <1>6, <1>3
  <2> QED
    BY <2>2, <2>3, <1>5, <1>7, <1>6, <1>3
<1>9. \A k \in 1 .. j - 1 : group[k] \in Under(M)
  <2>1. \A k \in 1 .. j - 1 : k + 1 \in 2 .. m
    BY <1>6, <1>3
  <2> QED
    BY <2>1, <1>8, <1>3
<1>10. GroupTo(list, 1, j)
  BY <1>3, <1>6 DEF GroupTo, m
<1> QED
  BY <1>1, <1>7, <1>8, <1>9, <1>10 DEF IsGroup

(* The causal group of a node in a chain. *)
GroupAt(M, s, i, group, j) ==
    /\ GroupTo(s, i, j)
    /\ group \in Seq(M) /\ Len(group) = j - i
    /\ \A k \in 1 .. j - i : group[k] = s[i + k]

(* In a chain the group of a node is a stretch of newer nodes behind it. *)
LEMMA GroupInChain ==
    ASSUME NEW w, NEW M, M \subseteq Node, Pointers(w.next, M, Under(M)),
           NEW s \in Seq(M), Chain(w, s), NEW i \in 1 .. Len(s)
    PROVE  \E j : GroupAt(M, s, i, IterateCausalGroup(w, s[i]), j)
<1> DEFINE len == Len(s)
<1>0. len \in Nat /\ i \in 1 .. len /\ s[i] \in M
  OBVIOUS
<1>1. PICK list : list = IterateFrom(w, s[i])
  OBVIOUS
<1>2. list = From(s, i)
  BY <1>1, IterateChain
<1>3. /\ Len(list) = len - i + 1
      /\ \A k \in 1 .. len - i + 1 : list[k] = s[i + k - 1]
  BY <1>2, <1>0 DEF From
<1>4. PICK group : group = IterateCausalGroup(w, s[i])
  OBVIOUS
<1>5. PICK e : /\ GroupTo(list, 1, e)
               /\ group \in Seq(M) /\ Len(group) = e - 1
               /\ \A k \in 1 .. e - 1 : group[k] = list[k + 1]
  <2>1. \E e : IsGroup(M, list, group, e)
    BY <1>0, <1>1, <1>4, CausalGroup
  <2> QED
    BY <2>1 DEF IsGroup
<1> HIDE DEF len
<1>6. e \in 1 .. len - i + 1
  BY <1>3, <1>5 DEF GroupTo
<1> DEFINE j == e + i - 1
<1>7. j \in i .. len
  BY <1>0, <1>6
<1>8. \A k \in i + 1 .. j : s[k].atom.time > s[i].atom.time
  <2>1. TAKE k \in i + 1 .. j
  <2>2. k - i + 1 \in 1 + 1 .. e /\ k - i + 1 \in 1 .. len - i + 1 /\ i + (k - i + 1) - 1 = k
    BY <1>0, <1>6
  <2>3. list[k - i + 1] = s[k]
    BY <1>3, <2>2
  <2>4. list[1] = s[i]
    BY <1>0, <1>3
  <2>5. list[k - i + 1].atom.time > list[1].atom.time
    BY <1>5, <2>2 DEF GroupTo
  <2> QED
    BY <2>3, <2>4, <2>5
<1>9. j < len => s[j + 1].atom.time <= s[i].atom.time
  <2>1. SUFFICES ASSUME j < len PROVE s[j + 1].atom.time <= s[i].atom.time
    OBVIOUS
  <2>2. e < Len(list) /\ e + 1 \in 1 .. len - i + 1 /\ i + (e + 1) - 1 = j + 1
    BY <1>0, <1>3, <1>6, <2>1
  <2>3. list[e + 1] = s[j + 1]
    BY <1>3, <2>2
  <2>4. list[1] = s[i]
    BY <1>0, <1>3
  <2> QED
    BY <2>2, <2>3, <2>4, <1>5 DEF GroupTo
<1>10. \A k \in 1 .. j - i : group[k] = s[i + k]
  <2>1. TAKE k \in 1 .. j - i
  <2>2. k \in 1 .. e - 1 /\ k + 1 \in 1 .. len - i + 1 /\ i + (k + 1) - 1 = i + k
    BY <1>0, <1>6
  <2> QED
    BY <2>2, <1>3, <1>5
<1>11. Len(group) = j - i
  BY <1>0, <1>5, <1>6
<1>12. GroupTo(s, i, j)
  BY <1>7, <1>8, <1>9 DEF GroupTo, len
<1> HIDE DEF j
<1> QED
  BY <1>4, <1>5, <1>10, <1>11, <1>12 DEF GroupAt

-----------------------------------------------------------------------------
(* Linking.                                                                *)

(* A weave has these fields. *)
IsWeave(w) ==
    w = [roots |-> w.roots, idMap |-> w.idMap, hashMap |-> w.hashMap, buffer |-> w.buffer,
         next |-> w.next, prev |-> w.prev, cardinality |-> w.cardinality]

(* The pointers are among the nodes of M, and lead on to nodes with a cause. *)
Links(w, M) ==
    /\ IsWeave(w)
    /\ Pointers(w.next, M, Under(M))
    /\ Pointers(w.prev, M, M)

(* Only pointers differ. *)
Relinked(w, v) ==
    /\ v.roots = w.roots /\ v.idMap = w.idMap /\ v.hashMap = w.hashMap
    /\ v.buffer = w.buffer /\ v.cardinality = w.cardinality

(* What linking in front of a node makes of the pointers. *)
LinkedBefore(w, v, pos, start, end) ==
    LET prev == At(w.prev, pos)
    IN /\ \A x : At(v.next, x) = IF x = end THEN pos
                                 ELSE IF prev # Null /\ x = prev THEN start
                                 ELSE At(w.next, x)
       /\ \A x : At(v.prev, x) = IF x = pos THEN end
                                 ELSE IF prev # Null /\ x = start THEN prev
                                 ELSE At(w.prev, x)

(* _insertNodeBefore sets four pointers and nothing else. *)
LEMMA InsertNodeBeforeLinks ==
    ASSUME NEW w, NEW M, Links(w, M), NEW pos \in Under(M), NEW start \in Under(M), NEW end \in M
    PROVE  LET v == InsertNodeBefore(w, pos, start, end)
           IN Links(v, M) /\ Relinked(w, v) /\ LinkedBefore(w, v, pos, start, end)
<1>1. PICK prev : prev = At(w.prev, pos)
  OBVIOUS
<1>2. PICK f : f = Put(IF prev = Null THEN w.next ELSE Put(w.next, prev, start), end, pos)
  OBVIOUS
<1>3. PICK g : g = Put(IF prev = Null THEN w.prev ELSE Put(w.prev, start, prev), pos, end)
  OBVIOUS
<1>4. PICK v : v = InsertNodeBefore(w, pos, start, end)
  OBVIOUS
<1>5. v = [w EXCEPT !.next = f, !.prev = g]
  BY <1>1, <1>2, <1>3, <1>4 DEF InsertNodeBefore
<1>6. IsWeave(v) /\ Relinked(w, v) /\ v.next = f /\ v.prev = g
  <2>1. IsWeave(w)
    BY DEF Links
  <2> QED
    BY ONLY <1>5, <2>1 DEF IsWeave, Relinked
<1>7. prev \in M \cup {Null} /\ pos \in M /\ start \in M
  BY <1>1, AtPointers DEF Links, Under
<1>8. Pointers(f, M, Under(M))
  <2>1. CASE prev = Null
    BY <2>1, <1>2, PutPointers DEF Links
  <2>2. CASE prev # Null
    <3>1. PICK h : h = Put(w.next, prev, start)
      OBVIOUS
    <3>2. Pointers(h, M, Under(M))
      BY <3>1, <2>2, <1>7, PutPointers DEF Links
    <3>3. f = Put(h, end, pos)
      BY <3>1, <2>2, <1>2
    <3> QED
      BY <3>2, <3>3, PutPointers
  <2> QED
    BY <2>1, <2>2
<1>9. Pointers(g, M, M)
  <2>1. CASE prev = Null
    BY <2>1, <1>3, <1>7, PutPointers DEF Links
  <2>2. CASE prev # Null
    <3>1. PICK h : h = Put(w.prev, start, prev)
      OBVIOUS
    <3>2. Pointers(h, M, M)
      BY <3>1, <2>2, <1>7, PutPointers DEF Links
    <3>3. g = Put(h, pos, end)
      BY <3>1, <2>2, <1>3
    <3> QED
      BY <3>2, <3>3, <1>7, PutPointers
  <2> QED
    BY <2>1, <2>2
<1>10. \A x : At(f, x) = IF x = end THEN pos
                         ELSE IF prev # Null /\ x = prev THEN start ELSE At(w.next, x)
  BY <1>2, PutAt
<1>11. \A x : At(g, x) = IF x = pos THEN end
                         ELSE IF prev # Null /\ x = start THEN prev ELSE At(w.prev, x)
  BY <1>3, PutAt
<1>12. Links(v, M)
  BY <1>6, <1>8, <1>9 DEF Links
<1> QED
  BY <1>1, <1>4, <1>6, <1>10, <1>11, <1>12 DEF LinkedBefore

(* What linking behind a node makes of the pointers. *)
LinkedAfter(w, v, pos, start, end) ==
    LET next == At(w.next, pos)
    IN /\ \A x : At(v.next, x) = IF x = end THEN next
                                 ELSE IF x = pos THEN start
                                 ELSE At(w.next, x)
       /\ \A x : At(v.prev, x) = IF x = start THEN pos
                                 ELSE IF next # Null /\ x = next THEN end
                                 ELSE At(w.prev, x)

(* _insertNodeAfter sets four pointers and nothing else. *)
LEMMA InsertNodeAfterLinks ==
    ASSUME NEW w, NEW M, Links(w, M), NEW pos \in M, NEW start \in Under(M), NEW end \in M
    PROVE  LET v == InsertNodeAfter(w, pos, start, end)
           IN Links(v, M) /\ Relinked(w, v) /\ LinkedAfter(w, v, pos, start, end)
<1>1. PICK next : next = At(w.next, pos)
  OBVIOUS
<1>2. PICK f : f = Put(Put(w.next, pos, start), end, next)
  OBVIOUS
<1>3. PICK g : g = Put(IF next = Null THEN w.prev ELSE Put(w.prev, next, end), start, pos)
  OBVIOUS
<1>4. PICK v : v = InsertNodeAfter(w, pos, start, end)
  OBVIOUS
<1>5. v = [w EXCEPT !.next = f, !.prev = g]
  BY <1>1, <1>2, <1>3, <1>4 DEF InsertNodeAfter
<1>6. IsWeave(v) /\ Relinked(w, v) /\ v.next = f /\ v.prev = g
  <2>1. IsWeave(w)
    BY DEF Links
  <2> QED
    BY ONLY <1>5, <2>1 DEF IsWeave, Relinked
<1>7. next \in Under(M) \cup {Null} /\ start \in M
  BY <1>1, AtPointers DEF Links, Under
<1>8. Pointers(f, M, Under(M))
  <2>1. PICK h : h = Put(w.next, pos, start)
    OBVIOUS
  <2>2. Pointers(h, M, Under(M))
    BY <2>1, PutPointers DEF Links
  <2> QED
    BY <2>1, <2>2, <1>2, <1>7, PutPointers
<1>9. Pointers(g, M, M)
  <2>1. CASE next = Null
    BY <2>1, <1>3, <1>7, PutPointers DEF Links
  <2>2. CASE next # Null
    <3>1. PICK h : h = Put(w.prev, next, end)
      OBVIOUS
    <3>2. Pointers(h, M, M)
      BY <3>1, <2>2, <1>7, PutPointers DEF Links, Under
    <3>3. g = Put(h, start, pos)
      BY <3>1, <2>2, <1>3
    <3> QED
      BY <3>2, <3>3, <1>7, PutPointers
  <2> QED
    BY <2>1, <2>2
<1>10. \A x : At(f, x) = IF x = end THEN next ELSE IF x = pos THEN start ELSE At(w.next, x)
  BY <1>2, PutAt
<1>11. \A x : At(g, x) = IF x = start THEN pos
                         ELSE IF next # Null /\ x = next THEN end ELSE At(w.prev, x)
  BY <1>3, PutAt
<1>12. Links(v, M)
  BY <1>6, <1>8, <1>9 DEF Links
<1> QED
  BY <1>1, <1>4, <1>6, <1>10, <1>11, <1>12 DEF LinkedAfter

(* Whatever the pointers are, linking under a node disturbs nothing else. *)
LEMMA InsertNodeUnderLinks ==
    ASSUME NEW w, NEW M, M \subseteq Node, Links(w, M),
           NEW cause \in M, NEW start \in Under(M), NEW end \in M
    PROVE  LET v == InsertNodeUnder(w, cause, start, end)
           IN Links(v, M) /\ Relinked(w, v)
<1>1. PICK group : group = IterateCausalGroup(w, cause)
  OBVIOUS
<1>2. PICK list : list = IterateFrom(w, cause)
  OBVIOUS
<1>3. PICK j : IsGroup(M, list, group, j)
  BY <1>1, <1>2, CausalGroup DEF Links
<1>4. /\ group \in Seq(M) /\ j \in 1 .. Len(list) /\ Len(group) = j - 1
      /\ \A k \in 1 .. Len(group) : group[k] \in Under(M)
  BY <1>3 DEF IsGroup, GroupTo
<1>5. DOMAIN group = 1 .. Len(group) /\ Len(group) \in Nat
  BY <1>4
<1> DEFINE after == {k \in DOMAIN group : /\ group[k].atom.cause = Id(cause.atom)
                                          /\ Before(start.atom, group[k].atom)}
<1>6. CASE after # {}
  <2>1. Min(after) \in after
    <3>1. after \subseteq Nat
      BY <1>5
    <3> HIDE DEF after
    <3> QED
      BY <1>6, <3>1, MinIn
  <2>2. PICK pos : pos = group[Min(after)]
    OBVIOUS
  <2>3. pos \in Under(M)
    BY <2>1, <2>2, <1>4, <1>5
  <2>4. InsertNodeUnder(w, cause, start, end) = InsertNodeBefore(w, pos, start, end)
    BY <1>1, <1>6, <2>2 DEF InsertNodeUnder
  <2> QED
    BY <2>3, <2>4, InsertNodeBeforeLinks
<1>7. CASE after = {}
  <2>1. PICK pos : pos = Last(<<cause>> \o group)
    OBVIOUS
  <2>2. pos \in M
    <3>1. <<cause>> \o group \in Seq(M) /\ Len(<<cause>> \o group) = 1 + Len(group)
      BY <1>4, <1>5
    <3>2. 1 + Len(group) \in 1 .. Len(<<cause>> \o group)
      BY <3>1, <1>5
    <3> QED
      BY <3>1, <3>2, <2>1 DEF Last
  <2>3. InsertNodeUnder(w, cause, start, end) = InsertNodeAfter(w, pos, start, end)
    BY <1>1, <1>7, <2>1 DEF InsertNodeUnder
  <2> QED
    BY <2>2, <2>3, InsertNodeAfterLinks
<1> QED
  BY <1>6, <1>7

-----------------------------------------------------------------------------
(* A chain in a chain.                                                     *)

(* The sequence t in the sequence s, after its first p elements. *)
Splice(s, p, t) ==
    [k \in 1 .. Len(s) + Len(t) |->
       IF k <= p THEN s[k] ELSE IF k <= p + Len(t) THEN t[k - p] ELSE s[k - Len(t)]]

(* The pointers of w are set to link t into s there. *)
Spliced(w, v, s, p, t) ==
    /\ \A x : At(v.next, x) = IF x = t[Len(t)] THEN (IF p < Len(s) THEN s[p + 1] ELSE Null)
                              ELSE IF x = s[p] THEN t[1]
                              ELSE At(w.next, x)
    /\ \A x : At(v.prev, x) = IF x = t[1] THEN s[p]
                              ELSE IF p < Len(s) /\ x = s[p + 1] THEN t[Len(t)]
                              ELSE At(w.prev, x)

IsSplice(S, s, p, t, r) ==
    /\ r \in Seq(S) /\ Len(r) = Len(s) + Len(t)
    /\ r[1] = s[1]
    /\ Range(r) = Range(s) \cup Range(t)
    /\ \A k \in 1 .. p : r[k] = s[k]
    /\ \A k \in 1 .. Len(t) : r[p + k] = t[k]
    /\ \A k \in p + 1 .. Len(s) : r[k + Len(t)] = s[k]

(* What a sequence is with another one put into it. *)
LEMMA SpliceElements ==
    ASSUME NEW S, NEW s \in Seq(S), NEW t \in Seq(S), NEW p \in 1 .. Len(s)
    PROVE  IsSplice(S, s, p, t, Splice(s, p, t))
<1> DEFINE n == Len(s)  m == Len(t)
<1>1. n \in Nat /\ m \in Nat /\ p \in 1 .. n
  OBVIOUS
<1>2. PICK r : r = Splice(s, p, t)
  OBVIOUS
<1>3. /\ DOMAIN r = 1 .. n + m
      /\ \A k \in 1 .. n + m :
           r[k] = IF k <= p THEN s[k] ELSE IF k <= p + m THEN t[k - p] ELSE s[k - m]
      /\ r = [k \in 1 .. n + m |-> r[k]]
  BY <1>2 DEF Splice
<1>4. (\A k \in 1 .. n : s[k] \in S) /\ (\A k \in 1 .. m : t[k] \in S)
  OBVIOUS
<1>4a. Range(s) = {s[k] : k \in 1 .. n} /\ Range(t) = {t[k] : k \in 1 .. m}
  BY DEF Range
<1> HIDE DEF n, m
<1>5. \A k \in 1 .. p : k \in 1 .. n + m /\ r[k] = s[k]
  BY <1>1, <1>3
<1>6. \A k \in 1 .. m : p + k \in 1 .. n + m /\ r[p + k] = t[k]
  <2>1. TAKE k \in 1 .. m
  <2>2. p + k \in 1 .. n + m /\ ~(p + k <= p) /\ p + k <= p + m /\ (p + k) - p = k
    BY <1>1
  <2> QED
    BY <2>2, <1>3
<1>7. \A k \in p + 1 .. n : k + m \in 1 .. n + m /\ r[k + m] = s[k]
  <2>1. TAKE k \in p + 1 .. n
  <2>2. k + m \in 1 .. n + m /\ ~(k + m <= p) /\ ~(k + m <= p + m) /\ (k + m) - m = k
    BY <1>1
  <2> QED
    BY <2>2, <1>3
<1>8. \A k \in 1 .. n + m : \/ k \in 1 .. p /\ k \in 1 .. n
                            \/ k - p \in 1 .. m /\ p + (k - p) = k
                            \/ k - m \in p + 1 .. n /\ (k - m) + m = k /\ k - m \in 1 .. n
  BY <1>1
<1>9. \A k \in 1 .. n : k \in 1 .. p \/ k \in p + 1 .. n
  BY <1>1
<1>10. \A k \in 1 .. n + m : r[k] \in Range(s) \cup Range(t) /\ r[k] \in S
  <2>1. TAKE k \in 1 .. n + m
  <2>2. CASE k \in 1 .. p /\ k \in 1 .. n
    BY <2>2, <1>4, <1>4a, <1>5
  <2>3. CASE k - p \in 1 .. m /\ p + (k - p) = k
    <3>1. r[p + (k - p)] = t[k - p]
      BY <2>3, <1>6
    <3> QED
      BY <3>1, <2>3, <1>4, <1>4a
  <2>4. CASE k - m \in p + 1 .. n /\ (k - m) + m = k /\ k - m \in 1 .. n
    <3>1. r[(k - m) + m] = s[k - m]
      BY <2>4, <1>7
    <3> QED
      BY <3>1, <2>4, <1>4, <1>4a
  <2> QED
    BY <2>1, <2>2, <2>3, <2>4, <1>8
<1>11. Range(r) = Range(s) \cup Range(t)
  <2>1. Range(r) = {r[k] : k \in 1 .. n + m}
    BY <1>3 DEF Range
  <2>2. Range(s) \subseteq Range(r)
    <3>1. \A k \in 1 .. n : s[k] \in Range(r)
      BY <1>9, <1>5, <1>7, <2>1
    <3> QED
      BY <3>1, <1>4a
  <2>3. Range(t) \subseteq Range(r)
    BY <1>6, <1>4a, <2>1
  <2> QED
    BY <2>1, <2>2, <2>3, <1>10
<1>12. r \in Seq(S) /\ Len(r) = n + m
  <2>1. n + m \in Nat
    BY <1>1
  <2>2. r \in [1 .. n + m -> S]
    BY ONLY <1>3, <1>10
  <2> QED
    BY ONLY <2>1, <2>2
<1>13. r[1] = s[1]
  BY <1>1, <1>5
<1> QED
  BY <1>2, <1>5, <1>6, <1>7, <1>11, <1>12, <1>13 DEF n, m, IsSplice

(* Two chains that are relinked at a place are one chain. *)
LEMMA SpliceChain ==
    ASSUME NEW w, NEW v, NEW s, NEW t, Chain(w, s), Chain(w, t), Range(s) \cap Range(t) = {},
           NEW p \in 1 .. Len(s), Spliced(w, v, s, p, t)
    PROVE  Chain(v, Splice(s, p, t))
<1> DEFINE n == Len(s)  m == Len(t)
<1>1. /\ s \in Seq(Node) /\ t \in Seq(Node)
      /\ n \in Nat /\ m \in Nat /\ p \in 1 .. n /\ m >= 1
  BY DEF Chain
<1>2. PICK r : r = Splice(s, p, t)
  OBVIOUS
<1>3. /\ r \in Seq(Node) /\ Len(r) = n + m /\ r[1] = s[1]
      /\ \A k \in 1 .. p : r[k] = s[k]
      /\ \A k \in 1 .. m : r[p + k] = t[k]
      /\ \A k \in p + 1 .. n : r[k + m] = s[k]
  <2>1. IsSplice(Node, s, p, t, r)
    BY <1>1, <1>2, SpliceElements
  <2> QED
    BY <2>1 DEF IsSplice
<1>4. \A k \in 1 .. n, l \in 1 .. m : s[k] # t[l]
  BY <1>1 DEF Range
<1>5. /\ \A k, l \in 1 .. n : s[k] = s[l] => k = l
      /\ \A k, l \in 1 .. m : t[k] = t[l] => k = l
  <2>1. DOMAIN s = 1 .. n /\ DOMAIN t = 1 .. m
    BY <1>1
  <2> QED
    BY <2>1 DEF Chain, Distinct
<1>6. /\ \A k \in 2 .. n : At(w.next, s[k - 1]) = s[k] /\ At(w.prev, s[k]) = s[k - 1]
      /\ \A k \in 2 .. m : At(w.next, t[k - 1]) = t[k] /\ At(w.prev, t[k]) = t[k - 1]
      /\ At(w.prev, s[1]) = Null /\ At(w.next, s[n]) = Null
  BY DEF Chain
<1>7. /\ \A x : At(v.next, x) = IF x = t[m] THEN (IF p < n THEN s[p + 1] ELSE Null)
                                ELSE IF x = s[p] THEN t[1] ELSE At(w.next, x)
      /\ \A x : At(v.prev, x) = IF x = t[1] THEN s[p]
                                ELSE IF p < n /\ x = s[p + 1] THEN t[m] ELSE At(w.prev, x)
  BY DEF Spliced
<1> HIDE DEF n, m
<1>8. \A k \in 1 .. n + m : \/ k \in 1 .. p /\ k \in 1 .. n /\ r[k] = s[k]
                            \/ k - p \in 1 .. m /\ r[k] = t[k - p]
                            \/ k - m \in p + 1 .. n /\ k - m \in 1 .. n /\ r[k] = s[k - m]
  <2>1. TAKE k \in 1 .. n + m
  <2>2. CASE k <= p
    <3>1. k \in 1 .. p /\ k \in 1 .. n
      BY <1>1, <2>2
    <3> QED
      BY <3>1, <1>3
  <2>3. CASE k > p /\ k <= p + m
    <3>1. k - p \in 1 .. m /\ p + (k - p) = k
      BY <1>1, <2>3
    <3>2. r[p + (k - p)] = t[k - p]
      BY <3>1, <1>3
    <3> QED
      BY <3>1, <3>2
  <2>4. CASE k > p + m
    <3>1. k - m \in p + 1 .. n /\ (k - m) + m = k /\ k - m \in 1 .. n
      BY <1>1, <2>4
    <3>2. r[(k - m) + m] = s[k - m]
      BY <3>1, <1>3
    <3> QED
      BY <3>1, <3>2
  <2> QED
    BY <1>1, <2>2, <2>3, <2>4
<1>9. Distinct(r)
  <2>1. DOMAIN r = 1 .. n + m
    BY <1>3, <1>1
  <2>2. SUFFICES ASSUME NEW k \in 1 .. n + m, NEW l \in 1 .. n + m, r[k] = r[l] PROVE k = l
    BY <2>1 DEF Distinct
  <2>3. CASE k \in 1 .. p /\ k \in 1 .. n /\ r[k] = s[k]
    <3>1. CASE l \in 1 .. p /\ l \in 1 .. n /\ r[l] = s[l]
      BY <2>2, <2>3, <3>1, <1>5
    <3>2. CASE l - p \in 1 .. m /\ r[l] = t[l - p]
      BY <2>2, <2>3, <3>2, <1>4
    <3>3. CASE l - m \in p + 1 .. n /\ l - m \in 1 .. n /\ r[l] = s[l - m]
      <4>1. k = l - m
        BY <2>2, <2>3, <3>3, <1>5
      <4> QED
        BY <4>1, <2>3, <3>3, <1>1
    <3> QED
      BY <1>8, <3>1, <3>2, <3>3
  <2>4. CASE k - p \in 1 .. m /\ r[k] = t[k - p]
    <3>1. CASE l \in 1 .. p /\ l \in 1 .. n /\ r[l] = s[l]
      BY <2>2, <2>4, <3>1, <1>4
    <3>2. CASE l - p \in 1 .. m /\ r[l] = t[l - p]
      <4>1. k - p = l - p
        BY <2>2, <2>4, <3>2, <1>5
      <4> QED
        BY <4>1, <1>1
    <3>3. CASE l - m \in p + 1 .. n /\ l - m \in 1 .. n /\ r[l] = s[l - m]
      BY <2>2, <2>4, <3>3, <1>4
    <3> QED
      BY <1>8, <3>1, <3>2, <3>3
  <2>5. CASE k - m \in p + 1 .. n /\ k - m \in 1 .. n /\ r[k] = s[k - m]
    <3>1. CASE l \in 1 .. p /\ l \in 1 .. n /\ r[l] = s[l]
      <4>1. l = k - m
        BY <2>2, <2>5, <3>1, <1>5
      <4> QED
        BY <4>1, <2>5, <3>1, <1>1
    <3>2. CASE l - p \in 1 .. m /\ r[l] = t[l - p]
      BY <2>2, <2>5, <3>2, <1>4
    <3>3. CASE l - m \in p + 1 .. n /\ l - m \in 1 .. n /\ r[l] = s[l - m]
      <4>1. k - m = l - m
        BY <2>2, <2>5, <3>3, <1>5
      <4> QED
        BY <4>1, <1>1
    <3> QED
      BY <1>8, <3>1, <3>2, <3>3
  <2> QED
    BY <1>8, <2>3, <2>4, <2>5
<1>10. 1 \in 1 .. m /\ m \in 1 .. m /\ 1 \in 1 .. n /\ p \in 1 .. n
  BY <1>1
<1>11. ASSUME NEW k \in 2 .. n + m
       PROVE  At(v.next, r[k - 1]) = r[k] /\ At(v.prev, r[k]) = r[k - 1]
  <2>1. CASE k <= p
    <3>1. /\ k \in 2 .. n /\ k \in 1 .. p /\ k - 1 \in 1 .. p /\ k \in 1 .. n /\ k - 1 \in 1 .. n
          /\ k - 1 # p /\ (p < n => p + 1 \in 1 .. n) /\ k # p + 1
      BY <1>1, <1>11, <2>1
    <3>2. r[k] = s[k] /\ r[k - 1] = s[k - 1]
      BY <3>1, <1>3
    <3>3. s[k - 1] # t[m] /\ s[k - 1] # s[p] /\ s[k] # t[1] /\ (p < n => s[k] # s[p + 1])
      BY <3>1, <1>4, <1>5, <1>10
    <3>4. At(w.next, s[k - 1]) = s[k] /\ At(w.prev, s[k]) = s[k - 1]
      BY <3>1, <1>6
    <3> QED
      BY <3>2, <3>3, <3>4, <1>7
  <2>2. CASE k = p + 1
    <3>1. k - 1 = p /\ p \in 1 .. p
      BY <1>1, <2>2
    <3>2. r[k - 1] = s[p] /\ r[k] = t[1]
      BY <3>1, <1>3, <1>10, <2>2
    <3>3. s[p] # t[m]
      BY <1>4, <1>10
    <3> QED
      BY <3>2, <3>3, <1>7
  <2>3. CASE k > p + 1 /\ k <= p + m
    <3>1. PICK l \in 2 .. m : l = k - p
      BY <1>1, <2>3, <1>11
    <3>2. l - 1 \in 1 .. m /\ l \in 1 .. m /\ l - 1 # m /\ l # 1
          /\ p + l = k /\ p + (l - 1) = k - 1 /\ (p < n => p + 1 \in 1 .. n)
      BY <1>1, <3>1
    <3>3. r[k] = t[l] /\ r[k - 1] = t[l - 1]
      BY <3>2, <1>3
    <3>4. t[l - 1] # t[m] /\ t[l - 1] # s[p] /\ t[l] # t[1] /\ (p < n => t[l] # s[p + 1])
      BY <3>2, <1>4, <1>5, <1>10
    <3>5. At(w.next, t[l - 1]) = t[l] /\ At(w.prev, t[l]) = t[l - 1]
      BY <3>1, <1>6
    <3> QED
      BY <3>3, <3>4, <3>5, <1>7
  <2>4. CASE k = p + m + 1
    <3>1. p < n /\ p + 1 \in p + 1 .. n /\ p + 1 \in 1 .. n /\ (p + 1) + m = k /\ p + m = k - 1
      BY <1>1, <2>4, <1>11
    <3>2. r[k] = s[p + 1] /\ r[k - 1] = t[m]
      BY <3>1, <1>3, <1>10
    <3>3. s[p + 1] # t[1]
      BY <3>1, <1>4, <1>10
    <3> QED
      BY <3>1, <3>2, <3>3, <1>7
  <2>5. CASE k > p + m + 1
    <3>1. PICK l \in 2 .. n : l = k - m
      BY <1>1, <2>5, <1>11
    <3>2. /\ l - 1 \in p + 1 .. n /\ l \in p + 1 .. n /\ l - 1 \in 1 .. n /\ l \in 1 .. n
          /\ l - 1 # p /\ l # p + 1 /\ l + m = k /\ (l - 1) + m = k - 1
          /\ p + 1 \in 1 .. n
      BY <1>1, <3>1, <2>5
    <3>3. r[k] = s[l] /\ r[k - 1] = s[l - 1]
      BY <3>2, <1>3
    <3>4. s[l - 1] # t[m] /\ s[l - 1] # s[p] /\ s[l] # t[1] /\ s[l] # s[p + 1]
      BY <3>2, <1>4, <1>5, <1>10
    <3>5. At(w.next, s[l - 1]) = s[l] /\ At(w.prev, s[l]) = s[l - 1]
      BY <3>1, <1>6
    <3> QED
      BY <3>3, <3>4, <3>5, <1>7
  <2> QED
    BY <1>1, <1>11, <2>1, <2>2, <2>3, <2>4, <2>5
<1>12. At(v.prev, r[1]) = Null
  <2>1. s[1] # t[1] /\ (p < n => s[1] # s[p + 1])
    <3>1. p < n => p + 1 \in 1 .. n /\ p + 1 # 1
      BY <1>1
    <3> QED
      BY <3>1, <1>4, <1>5, <1>10
  <2> QED
    BY <2>1, <1>3, <1>6, <1>7
<1>13. At(v.next, r[n + m]) = Null
  <2>1. CASE p = n
    BY <2>1, <1>1, <1>3, <1>7, <1>10
  <2>2. CASE p # n
    <3>1. n \in p + 1 .. n /\ n \in 1 .. n
      BY <1>1, <2>2
    <3>2. r[n + m] = s[n] /\ s[n] # t[m] /\ s[n] # s[p]
      BY <3>1, <2>2, <1>3, <1>4, <1>5, <1>10
    <3> QED
      BY <3>2, <1>6, <1>7
  <2> QED
    BY <2>1, <2>2
<1>14. Len(r) >= 1
  BY <1>1, <1>3
<1> QED
  BY <1>2, <1>3, <1>9, <1>11, <1>12, <1>13, <1>14 DEF Chain

(* The other chains stay. *)
LEMMA SpliceOthers ==
    ASSUME NEW w, NEW v, NEW s, NEW t, Chain(w, s), Chain(w, t),
           NEW p \in 1 .. Len(s), Spliced(w, v, s, p, t),
           NEW u, Chain(w, u), Range(u) \cap (Range(s) \cup Range(t)) = {}
    PROVE  Chain(v, u)
<1>1. /\ s \in Seq(Node) /\ t \in Seq(Node) /\ u \in Seq(Node)
      /\ Len(s) \in Nat /\ Len(t) \in Nat /\ Len(u) \in Nat /\ p \in 1 .. Len(s) /\ Len(t) >= 1
      /\ Len(u) >= 1
  BY DEF Chain
<1>2. s[p] \in Range(s) /\ (p < Len(s) => s[p + 1] \in Range(s))
  <2>1. DOMAIN s = 1 .. Len(s) /\ p \in 1 .. Len(s) /\ (p < Len(s) => p + 1 \in 1 .. Len(s))
    BY <1>1
  <2> QED
    BY <2>1 DEF Range
<1>3. t[1] \in Range(t) /\ t[Len(t)] \in Range(t)
  <2>1. DOMAIN t = 1 .. Len(t) /\ 1 \in 1 .. Len(t) /\ Len(t) \in 1 .. Len(t)
    BY <1>1
  <2> QED
    BY <2>1 DEF Range
<1>4. \A k \in 1 .. Len(u) : u[k] \notin Range(s) /\ u[k] \notin Range(t)
  <2>1. DOMAIN u = 1 .. Len(u)
    BY <1>1
  <2> QED
    BY <2>1 DEF Range
<1>5. \A k \in 1 .. Len(u) : At(v.next, u[k]) = At(w.next, u[k]) /\ At(v.prev, u[k]) = At(w.prev, u[k])
  BY <1>2, <1>3, <1>4 DEF Spliced
<1>6. \A k \in 2 .. Len(u) : k \in 1 .. Len(u) /\ k - 1 \in 1 .. Len(u)
  BY <1>1
<1>7. 1 \in 1 .. Len(u) /\ Len(u) \in 1 .. Len(u)
  BY <1>1
<1> QED
  BY <1>5, <1>6, <1>7 DEF Chain

(* Linking under a node of a chain splices the list in behind the node, at *)
(* its causal group; in front of an older node, if it starts with a node   *)
(* that is no delete atom and newer than the one it is linked under.       *)
InsertedAt(w, v, s, i, j, p, t) ==
    /\ GroupTo(s, i, j)
    /\ p \in i .. j
    /\ Spliced(w, v, s, p, t)
    /\ p < Len(s) /\ t[1].atom.prio = 0 /\ t[1].atom.time > s[i].atom.time
         => s[p + 1].atom.time <= t[1].atom.time

(* _insertNodeUnder puts a chain into the causal group of the node it is   *)
(* put under: before a child that sorts later, or at the end.              *)
LEMMA InsertNodeUnderChain ==
    ASSUME NEW w, NEW M, M \subseteq Node, Links(w, M),
           NEW s \in Seq(M), Chain(w, s), NEW i \in 1 .. Len(s),
           NEW t \in Seq(M), Chain(w, t), Range(s) \cap Range(t) = {}, t[1] \in Under(M)
    PROVE  \E p, j : InsertedAt(w, InsertNodeUnder(w, s[i], t[1], t[Len(t)]), s, i, j, p, t)
<1> DEFINE n == Len(s)
<1>0. /\ n \in Nat /\ i \in 1 .. n /\ s[i] \in M
      /\ Len(t) \in Nat /\ Len(t) >= 1 /\ t[Len(t)] \in M
      /\ \A k \in 1 .. n : s[k] \in M
      /\ DOMAIN s = 1 .. n /\ DOMAIN t = 1 .. Len(t)
  <2>1. Len(t) \in Nat /\ Len(t) >= 1
    BY DEF Chain
  <2> QED
    BY <2>1
<1>1. PICK group : group = IterateCausalGroup(w, s[i])
  OBVIOUS
<1>2. PICK j : GroupAt(M, s, i, group, j)
  BY <1>1, GroupInChain DEF Links
<1>3. PICK v : v = InsertNodeUnder(w, s[i], t[1], t[Len(t)])
  OBVIOUS
<1>4. /\ GroupTo(s, i, j) /\ j \in i .. n
      /\ group \in Seq(M) /\ Len(group) = j - i
      /\ \A k \in 1 .. j - i : group[k] = s[i + k]
  BY <1>2 DEF GroupAt, GroupTo
<1>5. /\ \A k \in 2 .. n : At(w.next, s[k - 1]) = s[k] /\ At(w.prev, s[k]) = s[k - 1]
      /\ At(w.next, s[n]) = Null
  BY DEF Chain
<1>6. \A k \in 1 .. n : s[k] # Null /\ s[k].atom.time \in Nat /\ s[k].atom.prio \in Nat
  BY <1>0, NodeFields
<1>7. t[1].atom.time \in Nat /\ t[1].atom.prio \in Nat
  BY NodeFields DEF Under
<1>8. \A k \in 1 .. n, l \in 1 .. Len(t) : s[k] # t[l]
  BY <1>0 DEF Range
<1> DEFINE after == {k \in DOMAIN group : /\ group[k].atom.cause = Id(s[i].atom)
                                          /\ Before(t[1].atom, group[k].atom)}
<1>9. DOMAIN group = 1 .. j - i
  BY <1>4
<1> HIDE DEF n
<1>10. CASE after # {}
  <2>1. Min(after) \in after
    <3>1. after \subseteq Nat
      BY <1>9
    <3> HIDE DEF after
    <3> QED
      BY <1>10, <3>1, MinIn
  <2>2. PICK k \in 1 .. j - i : k = Min(after)
    BY <2>1, <1>9
  <2>3. k \in after
    BY <2>1, <2>2
  <2> DEFINE p == i + k - 1
  <2>4. /\ p \in i .. j /\ p + 1 \in 1 .. n /\ p < n /\ p \in 1 .. n /\ i + k = p + 1
        /\ p + 1 \in 2 .. n /\ (p + 1) - 1 = p
    BY <2>2, <1>0, <1>4
  <2>5. group[k] = s[p + 1]
    BY <2>2, <2>4, <1>4
  <2>6. Before(t[1].atom, s[p + 1].atom)
    BY <2>3, <2>5
  <2> HIDE DEF p
  <2>7. v = InsertNodeBefore(w, s[p + 1], t[1], t[Len(t)])
    BY <1>1, <1>3, <1>10, <2>2, <2>5 DEF InsertNodeUnder
  <2>8. s[p + 1] \in Under(M)
    <3>1. At(w.next, s[p]) = s[p + 1] /\ s[p + 1] # Null
      BY <2>4, <1>5, <1>6
    <3>2. At(w.next, s[p]) \in Under(M) \cup {Null}
      BY AtPointers DEF Links
    <3> QED
      BY <3>1, <3>2
  <2>9. At(w.prev, s[p + 1]) = s[p] /\ s[p] # Null
    BY <2>4, <1>5, <1>6
  <2>10. /\ \A x : At(v.next, x) = IF x = t[Len(t)] THEN s[p + 1]
                                   ELSE IF x = s[p] THEN t[1] ELSE At(w.next, x)
         /\ \A x : At(v.prev, x) = IF x = s[p + 1] THEN t[Len(t)]
                                   ELSE IF x = t[1] THEN s[p] ELSE At(w.prev, x)
    <3>1. t[1] \in Under(M) /\ t[Len(t)] \in M
      BY <1>0
    <3>2. LinkedBefore(w, v, s[p + 1], t[1], t[Len(t)])
      BY <2>7, <2>8, <3>1, InsertNodeBeforeLinks
    <3> QED
      BY <3>2, <2>9 DEF LinkedBefore
  <2>11. s[p + 1] # t[1]
    BY <1>0, <1>8, <2>4
  <2>12. Spliced(w, v, s, p, t)
    BY <2>4, <2>10, <2>11 DEF Spliced, n
  <2>13. t[1].atom.prio = 0 => s[p + 1].atom.time <= t[1].atom.time
    <3>1. /\ s[p + 1].atom.time \in Nat /\ s[p + 1].atom.prio \in Nat
          /\ t[1].atom.time \in Nat /\ t[1].atom.prio \in Nat
      BY <2>4, <1>6, <1>7
    <3> QED
      BY ONLY <3>1, <2>6 DEF Before
  <2> QED
    BY <1>3, <1>4, <2>4, <2>12, <2>13 DEF InsertedAt
<1>11. CASE after = {}
  <2>1. Last(<<s[i]>> \o group) = s[j]
    <3>1. /\ Len(<<s[i]>> \o group) = 1 + (j - i)
          /\ \A k \in 1 .. 1 + (j - i) :
               (<<s[i]>> \o group)[k] = IF k <= 1 THEN s[i] ELSE group[k - 1]
      BY <1>0, <1>4
    <3>2. 1 + (j - i) \in 1 .. 1 + (j - i) /\ (j # i => j - i \in 1 .. j - i)
          /\ (1 + (j - i)) - 1 = j - i /\ i + (j - i) = j
      BY <1>0, <1>4
    <3>3. CASE j = i
      BY <3>1, <3>2, <3>3, <1>0 DEF Last
    <3>4. CASE j # i
      <4>1. group[j - i] = s[j]
        BY <3>2, <3>4, <1>4
      <4>2. ~(1 + (j - i) <= 1)
        BY <3>4, <1>0, <1>4
      <4> QED
        BY <3>1, <3>2, <4>1, <4>2 DEF Last
    <3> QED
      BY <3>3, <3>4
  <2>2. v = InsertNodeAfter(w, s[j], t[1], t[Len(t)])
    BY <1>1, <1>3, <1>11, <2>1 DEF InsertNodeUnder
  <2>3. j \in 1 .. n /\ j \in i .. j
    BY <1>0, <1>4
  <2>4. At(w.next, s[j]) = IF j < n THEN s[j + 1] ELSE Null
    <3>1. CASE j < n
      <4>1. j + 1 \in 2 .. n /\ (j + 1) - 1 = j
        BY <2>3, <3>1, <1>0
      <4> QED
        BY <3>1, <4>1, <1>5
    <3>2. CASE j = n
      BY <3>2, <1>5, <1>0
    <3> QED
      BY <3>1, <3>2, <2>3, <1>0
  <2>5. j < n => s[j + 1] # Null /\ s[j + 1] # t[1] /\ s[j + 1].atom.time \in Nat
    <3>1. j < n => j + 1 \in 1 .. n
      BY <2>3, <1>0
    <3> QED
      BY <3>1, <1>0, <1>6, <1>8
  <2>6. s[j] \in M
    BY <2>3, <1>0
  <2>7. PICK nx : nx = At(w.next, s[j])
    OBVIOUS
  <2>8. /\ \A x : At(v.next, x) = IF x = t[Len(t)] THEN nx
                                  ELSE IF x = s[j] THEN t[1] ELSE At(w.next, x)
        /\ \A x : At(v.prev, x) = IF x = t[1] THEN s[j]
                                  ELSE IF nx # Null /\ x = nx THEN t[Len(t)]
                                  ELSE At(w.prev, x)
    <3>1. t[1] \in Under(M) /\ t[Len(t)] \in M
      BY <1>0
    <3>2. LinkedAfter(w, v, s[j], t[1], t[Len(t)])
      BY <2>2, <2>6, <3>1, InsertNodeAfterLinks
    <3> QED
      BY <3>2, <2>7 DEF LinkedAfter
  <2>9. Spliced(w, v, s, j, t)
    BY <2>4, <2>5, <2>7, <2>8 DEF Spliced, n
  <2>10. j < n /\ t[1].atom.time > s[i].atom.time => s[j + 1].atom.time <= t[1].atom.time
    <3>1. j < n => s[j + 1].atom.time <= s[i].atom.time
      BY <1>4 DEF GroupTo, n
    <3>2. s[i].atom.time \in Nat
      BY <1>0, <1>6
    <3> QED
      BY <3>1, <3>2, <2>5, <1>7
  <2> QED
    BY <1>3, <1>4, <2>3, <2>9, <2>10 DEF InsertedAt, n
<1> QED
  BY <1>10, <1>11

-----------------------------------------------------------------------------
(* A piece of a chain taken out.                                           *)

Cut(s, i, j) ==
    [k \in 1 .. Len(s) - (j - i + 1) |-> IF k < i THEN s[k] ELSE s[k + (j - i + 1)]]

Piece(s, i, j) == [k \in 1 .. j - i + 1 |-> s[i + k - 1]]

(* The pointers of w are set to close the gap. *)
CutOut(w, v, s, i, j) ==
    /\ \A x : At(v.next, x) = IF x = s[j] THEN Null
                              ELSE IF i > 1 /\ x = s[i - 1]
                                THEN (IF j < Len(s) THEN s[j + 1] ELSE Null)
                              ELSE At(w.next, x)
    /\ \A x : At(v.prev, x) = IF x = s[i] THEN Null
                              ELSE IF j < Len(s) /\ x = s[j + 1]
                                THEN (IF i > 1 THEN s[i - 1] ELSE Null)
                              ELSE At(w.prev, x)

(* What is left of the chain. *)
IsCut(v, s, i, j) ==
    /\ Chain(v, Cut(s, i, j))
    /\ Cut(s, i, j)[1] = s[1]
    /\ Range(Cut(s, i, j)) = Range(s) \ Range(Piece(s, i, j))

(* A chain that a stretch is cut out of is two chains. *)
LEMMA CutChain ==
    ASSUME NEW w, NEW v, NEW s, Chain(w, s),
           NEW i \in 2 .. Len(s), NEW j \in i .. Len(s), CutOut(w, v, s, i, j)
    PROVE  IsCut(v, s, i, j)
<1> DEFINE n == Len(s)  d == j - i + 1
<1>1. /\ s \in Seq(Node) /\ n \in Nat /\ i \in 2 .. n /\ j \in i .. n /\ d \in 1 .. n - 1
      /\ d = j - i + 1
      /\ \A k \in 1 .. n : s[k] \in Node
      /\ DOMAIN s = 1 .. n
  BY DEF Chain
<1>2. PICK r : r = Cut(s, i, j)
  OBVIOUS
<1>3. /\ DOMAIN r = 1 .. n - d
      /\ \A k \in 1 .. n - d : r[k] = IF k < i THEN s[k] ELSE s[k + d]
      /\ r = [k \in 1 .. n - d |-> r[k]]
  BY <1>2 DEF Cut
<1>4. /\ \A k, l \in 1 .. n : s[k] = s[l] => k = l
      /\ \A k \in 2 .. n : At(w.next, s[k - 1]) = s[k] /\ At(w.prev, s[k]) = s[k - 1]
      /\ At(w.prev, s[1]) = Null /\ At(w.next, s[n]) = Null
  BY <1>1 DEF Chain, Distinct
<1>5. /\ \A x : At(v.next, x) = IF x = s[j] THEN Null
                                ELSE IF x = s[i - 1] THEN (IF j < n THEN s[j + 1] ELSE Null)
                                ELSE At(w.next, x)
      /\ \A x : At(v.prev, x) = IF x = s[i] THEN Null
                                ELSE IF j < n /\ x = s[j + 1] THEN s[i - 1]
                                ELSE At(w.prev, x)
  <2>1. i > 1
    BY <1>1
  <2> QED
    BY <2>1 DEF CutOut
<1>5a. Range(Piece(s, i, j)) = {s[i + k - 1] : k \in 1 .. d}
  BY DEF Piece, Range
<1>5b. Range(s) = {s[k] : k \in 1 .. n}
  BY <1>1 DEF Range
<1> HIDE DEF n, d
<1>6. \A k \in 1 .. n - d : \/ k < i /\ k \in 1 .. n /\ r[k] = s[k]
                            \/ k >= i /\ k + d \in j + 1 .. n /\ k + d \in 1 .. n /\ r[k] = s[k + d]
  <2>1. TAKE k \in 1 .. n - d
  <2>2. CASE k < i
    BY <2>2, <1>1, <1>3
  <2>3. CASE k >= i
    <3>1. k + d \in j + 1 .. n /\ k + d \in 1 .. n /\ ~(k < i)
      BY <1>1, <2>3
    <3> QED
      BY <3>1, <2>3, <1>3
  <2> QED
    BY <1>1, <2>2, <2>3
<1>7. r \in Seq(Node) /\ Len(r) = n - d /\ Len(r) >= 1
  <2>1. n - d \in Nat /\ n - d >= 1
    BY <1>1
  <2>2. \A k \in 1 .. n - d : r[k] \in Node
    BY <1>1, <1>6
  <2> QED
    BY <2>1, <2>2, <1>3
<1>8. Distinct(r)
  <2>1. SUFFICES ASSUME NEW k \in 1 .. n - d, NEW l \in 1 .. n - d, r[k] = r[l] PROVE k = l
    BY <1>3 DEF Distinct
  <2>2. CASE k < i /\ k \in 1 .. n /\ r[k] = s[k]
    <3>1. CASE l < i /\ l \in 1 .. n /\ r[l] = s[l]
      BY <2>1, <2>2, <3>1, <1>4
    <3>2. CASE l >= i /\ l + d \in j + 1 .. n /\ l + d \in 1 .. n /\ r[l] = s[l + d]
      <4>1. k = l + d
        BY <2>1, <2>2, <3>2, <1>4
      <4> QED
        BY <4>1, <2>2, <3>2, <1>1
    <3> QED
      BY <3>1, <3>2, <1>6
  <2>3. CASE k >= i /\ k + d \in j + 1 .. n /\ k + d \in 1 .. n /\ r[k] = s[k + d]
    <3>1. CASE l < i /\ l \in 1 .. n /\ r[l] = s[l]
      <4>1. l = k + d
        BY <2>1, <2>3, <3>1, <1>4
      <4> QED
        BY <4>1, <2>3, <3>1, <1>1
    <3>2. CASE l >= i /\ l + d \in j + 1 .. n /\ l + d \in 1 .. n /\ r[l] = s[l + d]
      <4>1. k + d = l + d
        BY <2>1, <2>3, <3>2, <1>4
      <4> QED
        BY <4>1, <1>1
    <3> QED
      BY <3>1, <3>2, <1>6
  <2> QED
    BY <2>2, <2>3, <1>6
<1>9. ASSUME NEW k \in 2 .. n - d
      PROVE  At(v.next, r[k - 1]) = r[k] /\ At(v.prev, r[k]) = r[k - 1]
  <2>1. CASE k < i
    <3>1. /\ k \in 2 .. n /\ k \in 1 .. n /\ k - 1 \in 1 .. n /\ k - 1 < i /\ k \in 1 .. n - d
          /\ k - 1 \in 1 .. n - d /\ k - 1 # j /\ k - 1 # i - 1 /\ k # i /\ k # j + 1
          /\ j \in 1 .. n /\ i \in 1 .. n /\ i - 1 \in 1 .. n /\ (j < n => j + 1 \in 1 .. n)
      BY <1>1, <1>9, <2>1
    <3>2. r[k] = s[k] /\ r[k - 1] = s[k - 1]
      BY <3>1, <2>1, <1>3
    <3>3. s[k - 1] # s[j] /\ s[k - 1] # s[i - 1] /\ s[k] # s[i] /\ (j < n => s[k] # s[j + 1])
      BY <3>1, <1>4
    <3>4. At(w.next, s[k - 1]) = s[k] /\ At(w.prev, s[k]) = s[k - 1]
      BY <3>1, <1>4
    <3> QED
      BY <3>2, <3>3, <3>4, <1>5
  <2>2. CASE k = i
    <3>1. /\ j < n /\ k + d = j + 1 /\ j + 1 \in 1 .. n /\ k - 1 = i - 1 /\ k - 1 \in 1 .. n - d
          /\ k \in 1 .. n - d /\ ~(k < i) /\ k - 1 < i /\ i - 1 \in 1 .. n /\ i - 1 # j
          /\ j + 1 # i /\ j \in 1 .. n /\ i \in 1 .. n
      BY <1>1, <1>9, <2>2
    <3>2. r[k] = s[j + 1] /\ r[k - 1] = s[i - 1]
      BY <3>1, <1>3
    <3>3. s[i - 1] # s[j] /\ s[j + 1] # s[i]
      BY <3>1, <1>4
    <3> QED
      BY <3>1, <3>2, <3>3, <1>5
  <2>3. CASE k > i
    <3>1. PICK l \in 2 .. n : l = k + d
      BY <1>1, <1>9, <2>3
    <3>2. /\ l \in 1 .. n /\ l - 1 \in 1 .. n /\ (k - 1) + d = l - 1 /\ k - 1 \in 1 .. n - d
          /\ k \in 1 .. n - d /\ ~(k < i) /\ ~(k - 1 < i) /\ l - 1 # j /\ l - 1 # i - 1
          /\ l # i /\ l # j + 1 /\ j \in 1 .. n /\ i \in 1 .. n /\ i - 1 \in 1 .. n
          /\ (j < n => j + 1 \in 1 .. n)
      BY <1>1, <1>9, <2>3, <3>1
    <3>3. r[k] = s[l] /\ r[k - 1] = s[l - 1]
      BY <3>1, <3>2, <1>3
    <3>4. s[l - 1] # s[j] /\ s[l - 1] # s[i - 1] /\ s[l] # s[i] /\ (j < n => s[l] # s[j + 1])
      BY <3>2, <1>4
    <3>5. At(w.next, s[l - 1]) = s[l] /\ At(w.prev, s[l]) = s[l - 1]
      BY <3>1, <1>4
    <3> QED
      BY <3>3, <3>4, <3>5, <1>5
  <2> QED
    BY <1>1, <1>9, <2>1, <2>2, <2>3
<1>10. r[1] = s[1] /\ At(v.prev, r[1]) = Null
  <2>1. /\ 1 < i /\ 1 \in 1 .. n /\ 1 \in 1 .. n - d /\ i \in 1 .. n
        /\ 1 # j + 1 /\ 1 # i /\ (j < n => j + 1 \in 1 .. n)
    BY <1>1
  <2>2. s[1] # s[i] /\ (j < n => s[1] # s[j + 1]) /\ r[1] = s[1]
    BY <2>1, <1>3, <1>4
  <2> QED
    BY <2>2, <1>4, <1>5
<1>11. At(v.next, r[n - d]) = Null
  <2>1. CASE j = n
    <3>1. n - d = i - 1 /\ n - d \in 1 .. n - d /\ n - d < i /\ i - 1 \in 1 .. n /\ j \in 1 .. n
      BY <1>1, <2>1
    <3>2. r[n - d] = s[i - 1]
      BY <3>1, <1>3
    <3> QED
      BY <3>2, <2>1, <1>5
  <2>2. CASE j < n
    <3>1. n - d \in 1 .. n - d /\ ~(n - d < i) /\ (n - d) + d = n /\ n \in 1 .. n /\ j \in 1 .. n
          /\ i - 1 \in 1 .. n /\ n # j /\ n # i - 1
      BY <1>1, <2>2
    <3>2. r[n - d] = s[n] /\ s[n] # s[j] /\ s[n] # s[i - 1]
      BY <3>1, <1>3, <1>4
    <3> QED
      BY <3>2, <1>4, <1>5
  <2> QED
    BY <1>1, <2>1, <2>2
<1>12. Range(r) = Range(s) \ Range(Piece(s, i, j))
  <2>1. Range(r) = {r[k] : k \in 1 .. n - d}
    BY <1>3 DEF Range
  <2>2. ASSUME NEW k \in 1 .. n - d PROVE r[k] \in Range(s) \ Range(Piece(s, i, j))
    <3>1. PICK l \in 1 .. n : r[k] = s[l] /\ (l < i \/ l > j)
      <4>1. CASE k < i /\ k \in 1 .. n /\ r[k] = s[k]
        BY <4>1
      <4>2. CASE k >= i /\ k + d \in j + 1 .. n /\ k + d \in 1 .. n /\ r[k] = s[k + d]
        <5>1. k + d > j
          BY <4>2, <1>1
        <5> QED
          BY <4>2, <5>1
      <4> QED
        BY <4>1, <4>2, <1>6
    <3>2. ASSUME NEW q \in 1 .. d PROVE s[l] # s[i + q - 1]
      <4>a. q \in Nat /\ 1 <= q /\ q <= d
        BY <1>1
      <4>b. i + q - 1 \in i .. j
        BY ONLY <4>a, <1>1
      <4>1. i + q - 1 \in 1 .. n /\ i + q - 1 # l
        BY ONLY <4>b, <1>1, <3>1
      <4> QED
        BY <4>1, <1>4
    <3> QED
      BY <3>1, <3>2, <1>5a, <1>5b
  <2>3. ASSUME NEW l \in 1 .. n, s[l] \notin Range(Piece(s, i, j)) PROVE s[l] \in Range(r)
    <3>1. CASE l < i
      <4>1. l \in 1 .. n - d
        BY <1>1, <3>1
      <4> QED
        BY <4>1, <3>1, <2>1, <1>3
    <3>2. CASE l > j
      <4>1. l - d \in 1 .. n - d /\ ~(l - d < i) /\ (l - d) + d = l
        BY <1>1, <3>2
      <4>2. r[l - d] = s[l]
        BY <4>1, <1>3
      <4> QED
        BY <4>1, <4>2, <2>1
    <3>3. CASE i <= l /\ l <= j
      <4>1. l - i + 1 \in 1 .. d /\ i + (l - i + 1) - 1 = l
        BY <1>1, <3>3
      <4>2. s[i + (l - i + 1) - 1] \in Range(Piece(s, i, j))
        BY <4>1, <1>5a
      <4> QED
        BY <4>1, <4>2, <2>3
    <3> QED
      BY <1>1, <3>1, <3>2, <3>3
  <2> QED
    BY <2>1, <2>2, <2>3, <1>5b
<1> QED
  BY <1>2, <1>7, <1>8, <1>9, <1>10, <1>11, <1>12 DEF Chain, IsCut

(* The piece itself is a chain then. *)
LEMMA CutPiece ==
    ASSUME NEW w, NEW v, NEW s, Chain(w, s),
           NEW i \in 1 .. Len(s), NEW j \in i .. Len(s), CutOut(w, v, s, i, j)
    PROVE  /\ Chain(v, Piece(s, i, j))
           /\ Piece(s, i, j)[1] = s[i]
           /\ Range(Piece(s, i, j)) \subseteq Range(s)
<1> DEFINE n == Len(s)  d == j - i + 1
<1>1. /\ s \in Seq(Node) /\ n \in Nat /\ i \in 1 .. n /\ j \in i .. n /\ d \in 1 .. n
      /\ d = j - i + 1
      /\ \A k \in 1 .. n : s[k] \in Node
      /\ DOMAIN s = 1 .. n
  BY DEF Chain
<1>2. PICK r : r = Piece(s, i, j)
  OBVIOUS
<1>3. /\ DOMAIN r = 1 .. d
      /\ \A k \in 1 .. d : r[k] = s[i + k - 1]
      /\ r = [k \in 1 .. d |-> r[k]]
  BY <1>2 DEF Piece
<1>4. /\ \A k, l \in 1 .. n : s[k] = s[l] => k = l
      /\ \A k \in 2 .. n : At(w.next, s[k - 1]) = s[k] /\ At(w.prev, s[k]) = s[k - 1]
  BY <1>1 DEF Chain, Distinct
<1>5. /\ \A x : At(v.next, x) = IF x = s[j] THEN Null
                                ELSE IF i > 1 /\ x = s[i - 1]
                                  THEN (IF j < n THEN s[j + 1] ELSE Null)
                                ELSE At(w.next, x)
      /\ \A x : At(v.prev, x) = IF x = s[i] THEN Null
                                ELSE IF j < n /\ x = s[j + 1]
                                  THEN (IF i > 1 THEN s[i - 1] ELSE Null)
                                ELSE At(w.prev, x)
  BY DEF CutOut
<1> HIDE DEF n, d
<1>6. \A k \in 1 .. d : i + k - 1 \in 1 .. n /\ r[k] = s[i + k - 1] /\ r[k] \in Node
  BY <1>1, <1>3
<1>7. r \in Seq(Node) /\ Len(r) = d /\ d >= 1
  <2>1. d \in Nat /\ d >= 1
    BY <1>1
  <2>2. \A k \in 1 .. d : r[k] \in Node
    BY <1>6
  <2>3. r = [k \in 1 .. d |-> r[k]]
    BY <1>3
  <2>4. r \in Seq(Node) /\ Len(r) = d
    BY ONLY <2>1, <2>2, <2>3
  <2> QED
    BY <2>1, <2>4
<1>8. Distinct(r)
  <2>1. SUFFICES ASSUME NEW k \in 1 .. d, NEW l \in 1 .. d, r[k] = r[l] PROVE k = l
    BY <1>3 DEF Distinct
  <2>2. i + k - 1 = i + l - 1
    BY <2>1, <1>4, <1>6
  <2> QED
    BY <2>2, <1>1
<1>9. ASSUME NEW k \in 2 .. d
      PROVE  At(v.next, r[k - 1]) = r[k] /\ At(v.prev, r[k]) = r[k - 1]
  <2>1. PICK l \in 2 .. n : l = i + k - 1
    BY <1>1, <1>9
  <2>2. /\ k \in 1 .. d /\ k - 1 \in 1 .. d /\ i + (k - 1) - 1 = l - 1 /\ l \in 1 .. n
        /\ l - 1 \in 1 .. n /\ l - 1 # j /\ l - 1 # i - 1 /\ l # i /\ l # j + 1
        /\ j \in 1 .. n /\ (i > 1 => i - 1 \in 1 .. n) /\ (j < n => j + 1 \in 1 .. n)
    BY <1>1, <1>9, <2>1
  <2>3. r[k] = s[l] /\ r[k - 1] = s[l - 1]
    BY <2>1, <2>2, <1>3
  <2>4. /\ s[l - 1] # s[j] /\ (i > 1 => s[l - 1] # s[i - 1])
        /\ s[l] # s[i] /\ (j < n => s[l] # s[j + 1])
    BY <2>2, <1>1, <1>4
  <2>5. At(w.next, s[l - 1]) = s[l] /\ At(w.prev, s[l]) = s[l - 1]
    BY <2>1, <1>4
  <2> QED
    BY <2>3, <2>4, <2>5, <1>5
<1>10. r[1] = s[i] /\ r[d] = s[j]
  <2>1. 1 \in 1 .. d /\ d \in 1 .. d /\ i + 1 - 1 = i /\ i + d - 1 = j
    BY <1>1
  <2>2. r[1] = s[i + 1 - 1] /\ r[d] = s[i + d - 1]
    BY <2>1, <1>3
  <2> QED
    BY <2>1, <2>2
<1>11. At(v.prev, r[1]) = Null /\ At(v.next, r[d]) = Null
  BY <1>5, <1>10
<1>12. Range(r) \subseteq Range(s)
  BY <1>1, <1>3, <1>6 DEF Range
<1> QED
  BY <1>2, <1>7, <1>8, <1>9, <1>10, <1>11, <1>12 DEF Chain

(* The other chains stay. *)
LEMMA CutOthers ==
    ASSUME NEW w, NEW v, NEW s, Chain(w, s),
           NEW i \in 1 .. Len(s), NEW j \in i .. Len(s), CutOut(w, v, s, i, j),
           NEW u, Chain(w, u), Range(u) \cap Range(s) = {}
    PROVE  Chain(v, u)
<1>1. /\ s \in Seq(Node) /\ u \in Seq(Node) /\ Len(s) \in Nat /\ Len(u) \in Nat /\ Len(u) >= 1
      /\ DOMAIN s = 1 .. Len(s) /\ DOMAIN u = 1 .. Len(u)
      /\ i \in 1 .. Len(s) /\ j \in 1 .. Len(s) /\ (i > 1 => i - 1 \in 1 .. Len(s))
      /\ (j < Len(s) => j + 1 \in 1 .. Len(s))
  BY DEF Chain
<1>2. /\ s[i] \in Range(s) /\ s[j] \in Range(s) /\ (i > 1 => s[i - 1] \in Range(s))
      /\ (j < Len(s) => s[j + 1] \in Range(s))
  BY <1>1 DEF Range
<1>3. \A k \in 1 .. Len(u) : u[k] \notin Range(s)
  BY <1>1 DEF Range
<1>4. \A k \in 1 .. Len(u) : At(v.next, u[k]) = At(w.next, u[k]) /\ At(v.prev, u[k]) = At(w.prev, u[k])
  BY <1>2, <1>3 DEF CutOut
<1>5. \A k \in 2 .. Len(u) : k \in 1 .. Len(u) /\ k - 1 \in 1 .. Len(u)
  BY <1>1
<1>6. 1 \in 1 .. Len(u) /\ Len(u) \in 1 .. Len(u)
  BY <1>1
<1> QED
  BY <1>4, <1>5, <1>6 DEF Chain

-----------------------------------------------------------------------------
(* The maps, the buffer and the roots.                                     *)

(* They hold nodes of M; what waits has a cause. *)
Stored(w, M) ==
    /\ w.roots \in Seq(M)
    /\ w.buffer \in Seq(M) /\ Range(w.buffer) \subseteq Under(M)
    /\ Len(w.buffer) <= MaxReorderBufferSize
    /\ w.idMap \in [DOMAIN w.idMap -> M]
    /\ \A id \in DOMAIN w.idMap : Id(w.idMap[id].atom) = id
    /\ w.hashMap \in [DOMAIN w.hashMap -> M]
    /\ w.cardinality \in 0 .. 1

(* One certificate is a root, it was counted, and the one in the maps is it. *)
Certified(w) ==
    /\ \A x, y \in Range(w.roots) : x.atom.cert /\ y.atom.cert => x = y
    /\ (\E x \in Range(w.roots) : x.atom.cert) => w.cardinality = 1
    /\ \A id \in DOMAIN w.idMap : w.idMap[id].atom.cert => w.idMap[id] \in Range(w.roots)

(* What every weave is, whatever arrived, if the nodes of M were made. *)
Typed(w, M) == Links(w, M) /\ Stored(w, M) /\ Certified(w)

(* A weave of some nodes is one of more nodes. *)
LEMMA TypedMore ==
    ASSUME NEW w, NEW M, Typed(w, M), NEW L, M \subseteq L
    PROVE  Typed(w, L)
<1>1. Under(M) \subseteq Under(L)
  BY DEF Under
<1>2. Links(w, L)
  BY <1>1 DEF Typed, Links, Pointers
<1>3. Stored(w, L)
  <2>1. w.roots \in Seq(L) /\ w.buffer \in Seq(L)
    <3>1. w.roots \in Seq(M) /\ w.buffer \in Seq(M)
      BY DEF Typed, Stored
    <3> QED
      BY <3>1
  <2> QED
    BY <1>1, <2>1 DEF Typed, Stored
<1> QED
  BY <1>2, <1>3 DEF Typed

(* Other pointers. *)
LEMMA TypedRelinked ==
    ASSUME NEW w, NEW v, NEW M, Typed(w, M), Relinked(w, v), Links(v, M)
    PROVE  Typed(v, M)
BY DEF Typed, Relinked, Stored, Certified

-----------------------------------------------------------------------------
(* What each operation on them leaves.                                     *)

(* The maps have n, and nothing else is new in them. *)
MapsAdded(w, v, n) ==
    /\ v.next = w.next /\ v.prev = w.prev /\ v.buffer = w.buffer
    /\ DOMAIN v.idMap = DOMAIN w.idMap \cup {Id(n.atom)}
    /\ \A x \in DOMAIN v.idMap : v.idMap[x] = IF x = Id(n.atom) THEN n ELSE w.idMap[x]

(* _addNodeToMaps keeps the weave typed and adds the node under its ID. *)
LEMMA AddNodeToMapsTyped ==
    ASSUME NEW w, NEW M, M \subseteq Node, Typed(w, M), NEW n \in M,
           n.atom.cert => n \in Range(w.roots)
    PROVE  Typed(AddNodeToMaps(w, n), M) /\ MapsAdded(w, AddNodeToMaps(w, n), n)
<1>1. PICK v : v = AddNodeToMaps(w, n)
  OBVIOUS
<1>2. /\ IsWeave(v) /\ v.roots = w.roots /\ v.buffer = w.buffer
      /\ v.next = w.next /\ v.prev = w.prev /\ v.cardinality = w.cardinality
      /\ v.idMap = Put(w.idMap, Id(n.atom), n)
      /\ v.hashMap = Put(w.hashMap, n.atom.hash, n)
  <2>1. IsWeave(w)
    BY DEF Typed, Links
  <2>2. PICK f : f = Put(w.idMap, Id(n.atom), n)
    OBVIOUS
  <2>3. PICK g : g = Put(w.hashMap, n.atom.hash, n)
    OBVIOUS
  <2>4. v = [w EXCEPT !.idMap = f, !.hashMap = g]
    BY <1>1, <2>2, <2>3 DEF AddNodeToMaps
  <2> HIDE <1>1
  <2>5. /\ IsWeave(v) /\ v.roots = w.roots /\ v.buffer = w.buffer
        /\ v.next = w.next /\ v.prev = w.prev /\ v.cardinality = w.cardinality
        /\ v.idMap = f /\ v.hashMap = g
    BY ONLY <2>4, <2>1 DEF IsWeave
  <2> QED
    BY <2>2, <2>3, <2>5
<1>3. n # Null
  BY NullIsNoNode
<1>4. /\ v.idMap = [x \in DOMAIN w.idMap \cup {Id(n.atom)} |->
                      IF x = Id(n.atom) THEN n ELSE w.idMap[x]]
      /\ v.hashMap = [x \in DOMAIN w.hashMap \cup {n.atom.hash} |->
                        IF x = n.atom.hash THEN n ELSE w.hashMap[x]]
  BY <1>2, <1>3 DEF Put
<1>5. Links(v, M)
  BY <1>2 DEF Typed, Links
<1>6. Stored(v, M)
  <2>1. Stored(w, M)
    BY DEF Typed
  <2>2. /\ v.idMap \in [DOMAIN v.idMap -> M] /\ \A id \in DOMAIN v.idMap : Id(v.idMap[id].atom) = id
        /\ v.hashMap \in [DOMAIN v.hashMap -> M]
    BY <1>4, <2>1 DEF Stored
  <2> QED
    BY <1>2, <2>1, <2>2 DEF Stored
<1>7. Certified(v)
  <2>1. Certified(w)
    BY DEF Typed
  <2> QED
    BY <1>2, <1>4, <2>1 DEF Certified
<1>8. Typed(v, M)
  BY <1>5, <1>6, <1>7 DEF Typed
<1>9. MapsAdded(w, v, n)
  BY <1>2, <1>4 DEF MapsAdded
<1> QED
  BY <1>1, <1>8, <1>9

(* A root that is added keeps the weave typed. *)
LEMMA AddRootTyped ==
    ASSUME NEW w, NEW M, M \subseteq Node, Typed(w, M), NEW n \in M,
           n.atom.cert => w.cardinality = 1 /\ \A x \in Range(w.roots) : ~x.atom.cert
    PROVE  Typed(AddRoot(w, n), M) /\ MapsAdded(w, AddRoot(w, n), n)
<1>1. PICK u : u = [w EXCEPT !.roots = Append(@, n)]
  OBVIOUS
<1>2. /\ IsWeave(u) /\ u.roots = Append(w.roots, n) /\ u.idMap = w.idMap
      /\ u.hashMap = w.hashMap /\ u.buffer = w.buffer /\ u.next = w.next /\ u.prev = w.prev
      /\ u.cardinality = w.cardinality
  <2>1. IsWeave(w)
    BY DEF Typed, Links
  <2> QED
    BY ONLY <1>1, <2>1 DEF IsWeave
<1>3. u.roots \in Seq(M) /\ Range(u.roots) = Range(w.roots) \cup {n}
  <2>1. w.roots \in Seq(M)
    BY DEF Typed, Stored
  <2> QED
    BY <1>2, <2>1, AppendedElements
<1>4. Typed(u, M)
  <2>1. Links(u, M) /\ Stored(u, M)
    BY <1>2, <1>3 DEF Typed, Links, Stored
  <2>2. Certified(w)
    BY DEF Typed
  <2>3. Certified(u)
    BY <1>2, <1>3, <2>2 DEF Certified
  <2> QED
    BY <2>1, <2>3 DEF Typed
<1>5. n.atom.cert => n \in Range(u.roots)
  BY <1>3
<1>6. AddRoot(w, n) = AddNodeToMaps(u, n)
  BY <1>1 DEF AddRoot
<1> QED
  <2>1. Typed(AddRoot(w, n), M) /\ MapsAdded(u, AddRoot(w, n), n)
    BY <1>4, <1>5, <1>6, AddNodeToMapsTyped
  <2> QED
    BY <1>2, <2>1 DEF MapsAdded

(* An atom that waits already is replaced, another is put behind the others. *)
LEMMA AddToBufferTyped ==
    ASSUME NEW w, NEW M, M \subseteq Node, Typed(w, M), NEW n \in Under(M),
           Len(w.buffer) < MaxReorderBufferSize
    PROVE  LET v == AddToBuffer(w, n)
           IN /\ Typed(v, M)
              /\ v.next = w.next /\ v.prev = w.prev /\ v.idMap = w.idMap
              /\ Buffered(w, Id(n.atom)) = Null => v.buffer = Append(w.buffer, n)
<1>1. PICK v : v = AddToBuffer(w, n)
  OBVIOUS
<1>2. PICK b : b = IF Buffered(w, Id(n.atom)) = Null
                     THEN Append(w.buffer, n)
                     ELSE [k \in DOMAIN w.buffer |->
                             IF Id(w.buffer[k].atom) = Id(n.atom) THEN n ELSE w.buffer[k]]
  OBVIOUS
<1>3. v = [w EXCEPT !.buffer = b]
  BY <1>1, <1>2 DEF AddToBuffer
<1>4. /\ IsWeave(v) /\ v.roots = w.roots /\ v.idMap = w.idMap
      /\ v.hashMap = w.hashMap /\ v.buffer = b /\ v.next = w.next /\ v.prev = w.prev
      /\ v.cardinality = w.cardinality
  <2>1. IsWeave(w)
    BY DEF Typed, Links
  <2> QED
    BY ONLY <1>3, <2>1 DEF IsWeave
<1>5. /\ w.buffer \in Seq(M) /\ Range(w.buffer) \subseteq Under(M) /\ n \in M
      /\ Len(w.buffer) \in Nat /\ MaxReorderBufferSize \in Nat
  <2>1. w.buffer \in Seq(M)
    BY DEF Typed, Stored
  <2> QED
    BY <2>1, BufferAssumption DEF Typed, Stored, Under
<1>6. b \in Seq(M) /\ Range(b) \subseteq Under(M) /\ Len(b) <= MaxReorderBufferSize
  <2>1. CASE Buffered(w, Id(n.atom)) = Null
    <3>1. b = Append(w.buffer, n)
      BY <1>2, <2>1
    <3>2. /\ b \in Seq(M) /\ Len(b) = Len(w.buffer) + 1
          /\ Range(b) = Range(w.buffer) \cup {n}
      BY <1>5, <3>1, AppendedElements
    <3> QED
      BY <3>2, <1>5
  <2>2. CASE Buffered(w, Id(n.atom)) # Null
    <3>1. b = [k \in DOMAIN w.buffer |->
                 IF Id(w.buffer[k].atom) = Id(n.atom) THEN n ELSE w.buffer[k]]
      BY <1>2, <2>2
    <3>2. PICK l \in Nat : l = Len(w.buffer) /\ DOMAIN w.buffer = 1 .. l
      BY <1>5
    <3>3. \A k \in 1 .. l : w.buffer[k] \in Under(M) /\ w.buffer[k] \in M
      BY <1>5, <3>2 DEF Range
    <3>4. DOMAIN b = 1 .. l /\ \A k \in 1 .. l : b[k] \in Under(M) /\ b[k] \in M
      BY <3>1, <3>2, <3>3, <1>5
    <3>5. b = [k \in 1 .. l |-> b[k]]
      BY <3>1, <3>2
    <3>6. b \in Seq(M) /\ Len(b) = l
      BY <3>4, <3>5
    <3> QED
      BY <3>2, <3>4, <3>6, <1>5 DEF Range
  <2> QED
    BY <2>1, <2>2
<1>7. Typed(v, M)
  BY <1>4, <1>6 DEF Typed, Links, Stored, Certified
<1> QED
  BY <1>1, <1>2, <1>4, <1>7

(* What leaves the buffer is in the maps. *)
Released(w, v, list) ==
    /\ v.next = w.next /\ v.prev = w.prev
    /\ Range(v.buffer) = Range(w.buffer) \ {m \in Range(w.buffer) : Id(m.atom) \in Ids(list)}
    /\ Distinct(w.buffer) => Distinct(v.buffer)
    /\ DOMAIN v.idMap = DOMAIN w.idMap \cup Ids(list)
    /\ \A x \in DOMAIN w.idMap : x \notin Ids(list) => v.idMap[x] = w.idMap[x]
    /\ \A x \in Ids(list) : Id(v.idMap[x].atom) = x /\ v.idMap[x] \in Range(list)

(* The nodes of a list leave the buffer for the maps. *)
LEMMA ReleaseTyped ==
    ASSUME NEW w, NEW M, M \subseteq Node, Typed(w, M), NEW list \in Seq(M),
           Range(list) \subseteq Under(M)
    PROVE  Typed(Release(w, list), M) /\ Released(w, Release(w, list), list)
<1>1. PICK v : v = Release(w, list)
  OBVIOUS
<1>2. PICK b : b = Without(w.buffer, {m \in Range(w.buffer) : Id(m.atom) \in Ids(list)})
  OBVIOUS
<1> DEFINE byId(x) == {k \in DOMAIN list : Id(list[k].atom) = x}
           byHash(x) == {k \in DOMAIN list : list[k].atom.hash = x}
<1>3. PICK f : f = [x \in DOMAIN w.idMap \cup Ids(list) |->
                      IF x \in Ids(list) THEN list[Max(byId(x))] ELSE w.idMap[x]]
  OBVIOUS
<1>4. PICK g : g = [x \in DOMAIN w.hashMap \cup Hashes(list) |->
                      IF x \in Hashes(list) THEN list[Max(byHash(x))] ELSE w.hashMap[x]]
  OBVIOUS
<1>5. v = [w EXCEPT !.buffer = b, !.idMap = f, !.hashMap = g]
  BY <1>1, <1>2, <1>3, <1>4 DEF Release
<1>6. /\ IsWeave(v) /\ v.roots = w.roots /\ v.idMap = f
      /\ v.hashMap = g /\ v.buffer = b /\ v.next = w.next /\ v.prev = w.prev
      /\ v.cardinality = w.cardinality
  <2>1. IsWeave(w)
    BY DEF Typed, Links
  <2> QED
    BY ONLY <1>5, <2>1 DEF IsWeave
<1>7. /\ b \in Seq(M) /\ Len(b) <= Len(w.buffer)
      /\ Range(b) = Range(w.buffer) \ {m \in Range(w.buffer) : Id(m.atom) \in Ids(list)}
      /\ Distinct(w.buffer) => Distinct(b)
      /\ Len(w.buffer) \in Nat /\ Len(b) \in Nat
  <2>1. w.buffer \in Seq(M)
    BY DEF Typed, Stored
  <2>2. /\ b \in Seq(M) /\ Len(b) <= Len(w.buffer)
        /\ Range(b) = Range(w.buffer) \ {m \in Range(w.buffer) : Id(m.atom) \in Ids(list)}
        /\ Distinct(w.buffer) => Distinct(b)
    BY <1>2, <2>1, WithoutElements
  <2> QED
    BY <2>1, <2>2
<1>8. ASSUME NEW x \in Ids(list)
      PROVE  f[x] \in Range(list) /\ Id(f[x].atom) = x
  <2>1. byId(x) # {}
    BY DEF Ids
  <2>2. byId(x) \subseteq 0 .. Len(list) /\ Len(list) \in Nat
    <3>1. DOMAIN list = 1 .. Len(list) /\ Len(list) \in Nat
      OBVIOUS
    <3> QED
      BY <3>1
  <2>3. Max(byId(x)) \in byId(x)
    <3> HIDE DEF byId
    <3> QED
      BY <2>1, <2>2, MaxIn
  <2>4. f[x] = list[Max(byId(x))]
    BY <1>3
  <2> QED
    BY <2>3, <2>4 DEF Range
<1>9. ASSUME NEW x \in Hashes(list) PROVE g[x] \in Range(list)
  <2>1. byHash(x) # {}
    BY DEF Hashes
  <2>2. byHash(x) \subseteq 0 .. Len(list) /\ Len(list) \in Nat
    <3>1. DOMAIN list = 1 .. Len(list) /\ Len(list) \in Nat
      OBVIOUS
    <3> QED
      BY <3>1
  <2>3. Max(byHash(x)) \in byHash(x)
    <3> HIDE DEF byHash
    <3> QED
      BY <2>1, <2>2, MaxIn
  <2>4. g[x] = list[Max(byHash(x))]
    BY <1>4
  <2> QED
    BY <2>3, <2>4 DEF Range
<1> HIDE DEF byId, byHash
<1>10. Range(list) \subseteq M
  BY DEF Range
<1>11. Stored(w, M) /\ Certified(w)
  BY DEF Typed
<1>12. f \in [DOMAIN f -> M] /\ \A id \in DOMAIN f : Id(f[id].atom) = id
  BY <1>3, <1>8, <1>10, <1>11 DEF Stored
<1>13. g \in [DOMAIN g -> M]
  BY <1>4, <1>9, <1>10, <1>11 DEF Stored
<1>14. Stored(v, M)
  <2>1. Range(b) \subseteq Under(M)
    BY <1>7, <1>11 DEF Stored
  <2>2. Len(b) <= MaxReorderBufferSize
    BY <1>7, <1>11, BufferAssumption DEF Stored
  <2> QED
    BY <1>6, <1>7, <1>11, <1>12, <1>13, <2>1, <2>2 DEF Stored
<1>15. Certified(v)
  <2>1. \A m \in Range(list) : ~m.atom.cert
    <3>1. \A m \in Range(list) : m \in Node /\ m.atom.cause # NoCause
      BY <1>10 DEF Under
    <3> QED
      BY <3>1, NodeFields
  <2>2. ASSUME NEW id \in DOMAIN f, f[id].atom.cert PROVE f[id] \in Range(w.roots)
    <3>1. CASE id \in Ids(list)
      BY <3>1, <2>1, <2>2, <1>8
    <3>2. CASE id \notin Ids(list)
      BY <3>2, <2>2, <1>3, <1>11 DEF Certified
    <3> QED
      BY <3>1, <3>2
  <2> QED
    BY <2>2, <1>6, <1>11 DEF Certified
<1>16. Links(v, M)
  BY <1>6 DEF Typed, Links
<1>17. Released(w, v, list)
  <2>1. \A x \in DOMAIN w.idMap : x \notin Ids(list) => f[x] = w.idMap[x]
    BY <1>3
  <2>2. DOMAIN f = DOMAIN w.idMap \cup Ids(list)
    BY <1>3
  <2> QED
    BY <2>1, <2>2, <1>6, <1>7, <1>8 DEF Released
<1> QED
  BY <1>1, <1>14, <1>15, <1>16, <1>17 DEF Typed

(* The nodes of a list leave the maps. *)
LEMMA RemoveListFromMapsTyped ==
    ASSUME NEW w, NEW M, Typed(w, M), NEW list
    PROVE  LET v == RemoveListFromMaps(w, list)
           IN /\ Typed(v, M)
              /\ v.next = w.next /\ v.prev = w.prev /\ v.buffer = w.buffer /\ v.roots = w.roots
              /\ DOMAIN v.idMap = DOMAIN w.idMap \ Ids(list)
              /\ \A x \in DOMAIN v.idMap : v.idMap[x] = w.idMap[x]
<1>1. PICK v : v = RemoveListFromMaps(w, list)
  OBVIOUS
<1>2. PICK f : f = [x \in DOMAIN w.idMap \ Ids(list) |-> w.idMap[x]]
  OBVIOUS
<1>3. PICK g : g = [x \in DOMAIN w.hashMap \ Hashes(list) |-> w.hashMap[x]]
  OBVIOUS
<1>4. v = [w EXCEPT !.idMap = f, !.hashMap = g]
  BY <1>1, <1>2, <1>3 DEF RemoveListFromMaps
<1>5. /\ IsWeave(v) /\ v.roots = w.roots /\ v.idMap = f
      /\ v.hashMap = g /\ v.buffer = w.buffer /\ v.next = w.next /\ v.prev = w.prev
      /\ v.cardinality = w.cardinality
  <2>1. IsWeave(w)
    BY DEF Typed, Links
  <2> QED
    BY ONLY <1>4, <2>1 DEF IsWeave
<1>6. Stored(w, M) /\ Certified(w)
  BY DEF Typed
<1>7. Stored(v, M)
  BY <1>2, <1>3, <1>5, <1>6 DEF Stored
<1>8. Certified(v)
  BY <1>2, <1>5, <1>6 DEF Certified
<1>9. Links(v, M)
  BY <1>5 DEF Typed, Links
<1> QED
  BY <1>1, <1>2, <1>5, <1>7, <1>8, <1>9 DEF Typed

-----------------------------------------------------------------------------
(* The last node of a causal group.                                        *)

(* The last of a node and its group. *)
LEMMA LastOfGroup ==
    ASSUME NEW M, NEW n \in M, NEW group \in Seq(M)
    PROVE  Last(<<n>> \o group) = IF Len(group) = 0 THEN n ELSE group[Len(group)]
<1>1. PICK l \in Nat : l = Len(group)
  OBVIOUS
<1>2. /\ Len(<<n>> \o group) = 1 + l
      /\ \A k \in 1 .. 1 + l : (<<n>> \o group)[k] = IF k <= 1 THEN n ELSE group[k - 1]
  BY <1>1
<1>3. 1 + l \in 1 .. 1 + l /\ (l # 0 => ~(1 + l <= 1)) /\ (1 + l) - 1 = l
  BY <1>1
<1> QED
  BY <1>1, <1>2, <1>3 DEF Last

(* _lastInCausalGroup returns a node. *)
LEMMA LastInCausalGroupType ==
    ASSUME NEW w, NEW M, M \subseteq Node, Links(w, M), NEW n \in M
    PROVE  LastInCausalGroup(w, n) \in M
<1>1. PICK list : list = IterateFrom(w, n)
  OBVIOUS
<1>2. PICK group : group = IterateCausalGroup(w, n)
  OBVIOUS
<1>3. PICK j : IsGroup(M, list, group, j)
  BY <1>1, <1>2, CausalGroup DEF Links
<1>4. group \in Seq(M)
  BY <1>3 DEF IsGroup
<1>5. LastInCausalGroup(w, n) = IF Len(group) = 0 THEN n ELSE group[Len(group)]
  BY <1>2, <1>4, LastOfGroup DEF LastInCausalGroup
<1>6. Len(group) # 0 => group[Len(group)] \in M
  <2>1. Len(group) \in Nat /\ \A k \in 1 .. Len(group) : group[k] \in M
    BY <1>4
  <2>2. Len(group) # 0 => Len(group) \in 1 .. Len(group)
    BY <2>1
  <2> QED
    BY <2>1, <2>2
<1> QED
  BY <1>5, <1>6

-----------------------------------------------------------------------------
(* Adopting the children that waited.                                      *)

Adopt(v, node, child, rb) ==
    InsertNodeUnder(IF rb THEN v ELSE Release(v, IterateFrom(v, child)),
                    node, child, Last(IterateFrom(v, child)))

(* f tells the weave after each place of the buffer that is looked at. *)
Adopts(w, node, rb, f) ==
    /\ AddMissingChildren(w, node, rb) = f[Len(w.buffer)]
    /\ f[0] = w
    /\ \A k \in 1 .. Len(w.buffer) :
         f[k] = IF w.buffer[k].atom.cause = Id(node.atom)
                  THEN Adopt(f[k - 1], node, w.buffer[k], rb) ELSE f[k - 1]

(* The pass over the buffer computes what its recursion says. *)
LEMMA AddMissingChildrenUnfold ==
    ASSUME NEW w, NEW M, Typed(w, M), NEW node, NEW rb
    PROVE  \E f : Adopts(w, node, rb, f)
<1> DEFINE n == Len(w.buffer)
           b == w
           Step(k, v) == IF w.buffer[k].atom.cause = Id(node.atom) THEN Adopt(v, node, w.buffer[k], rb) ELSE v
           Def(m, f) == [k \in 0 .. m |-> IF k = 0 THEN b ELSE Step(k, f[k - 1])]
<1>0. n \in Nat
  BY DEF Typed, Stored
<1>1. \E f : f = Def(n, f)
  <2> HIDE DEF n, b, Step
  <2> DEFINE Bad == {m \in 0 .. n : ~\E f : f = Def(m, f)}
  <2>1. SUFFICES ASSUME Bad # {} PROVE FALSE
    <3>1. n \in 0 .. n
      BY <1>0
    <3> QED
      BY <2>1, <3>1
  <2>2. PICK m \in Bad : \A y \in Bad : ~(y < m)
    <3>1. Bad \subseteq Nat
      BY <1>0
    <3> HIDE DEF Bad
    <3> QED
      BY ONLY <2>1, <3>1, LeastNat
  <2>3. m \in 0 .. n /\ ~\E f : f = Def(m, f)
    BY <2>2
  <2>4. CASE m = 0
    <3>1. [k \in 0 .. 0 |-> b] = Def(0, [k \in 0 .. 0 |-> b])
      OBVIOUS
    <3> QED
      BY <2>3, <2>4, <3>1
  <2>5. CASE m # 0
    <3>1. m - 1 \in 0 .. n /\ m - 1 < m /\ m \in 1 .. n
      BY <1>0, <2>3, <2>5
    <3>2. PICK f : f = Def(m - 1, f)
      BY <2>2, <3>1
    <3> DEFINE g == [k \in 0 .. m |-> IF k = m THEN Step(m, f[m - 1]) ELSE f[k]]
    <3>3. ASSUME NEW k \in 0 .. m PROVE g[k] = Def(m, g)[k]
      <4>1. CASE k = 0
        BY <3>1, <3>2, <4>1
      <4>2. CASE k # 0 /\ k # m
        <5>1. k \in 0 .. m - 1 /\ k - 1 \in 0 .. m - 1 /\ k - 1 \in 0 .. m /\ k - 1 # m
          BY <3>1, <3>3, <4>2
        <5>2. f[k] = Step(k, f[k - 1])
          BY <3>2, <5>1, <4>2
        <5> QED
          BY <5>1, <5>2, <4>2
      <4>3. CASE k = m
        <5>1. m - 1 \in 0 .. m /\ m - 1 # m /\ m # 0
          BY <3>1
        <5> QED
          BY <5>1, <4>3
      <4> QED
        BY <4>1, <4>2, <4>3
    <3>4. g = Def(m, g)
      <4>1. g = [k \in 0 .. m |-> g[k]] /\ Def(m, g) = [k \in 0 .. m |-> Def(m, g)[k]]
        OBVIOUS
      <4> HIDE DEF g, Def
      <4> QED
        BY <3>3, <4>1
    <3> QED
      BY <2>3, <3>4
  <2> QED
    BY <2>4, <2>5
<1>2. PICK h : h = (CHOOSE f : f = Def(n, f))
  OBVIOUS
<1>3. h = Def(n, h)
  <2> HIDE DEF Def
  <2> QED
    BY <1>1, <1>2
<1>4. AddMissingChildren(w, node, rb) = h[n]
  BY <1>2 DEF AddMissingChildren, Adopt
<1>5. h[0] = b /\ \A k \in 1 .. n : h[k] = Step(k, h[k - 1])
  <2> HIDE DEF n, b, Step
  <2>1. 0 \in 0 .. n /\ \A k \in 1 .. n : k \in 0 .. n /\ k # 0
    BY <1>0
  <2>2. \A k \in 0 .. n : h[k] = IF k = 0 THEN b ELSE Step(k, h[k - 1])
    BY <1>3
  <2> HIDE <1>3
  <2> QED
    BY <2>1, <2>2
<1> QED
  BY <1>4, <1>5 DEF Adopts

(* The list of a node that has a cause. *)
LEMMA ListOfChild ==
    ASSUME NEW w, NEW M, M \subseteq Node, Links(w, M), NEW child \in Under(M)
    PROVE  LET list == IterateFrom(w, child)
           IN /\ list \in Seq(M) /\ Range(list) \subseteq Under(M)
              /\ Last(list) \in M /\ Last(list) = list[Len(list)]
              /\ list[1] = child /\ Len(list) \in Nat /\ Len(list) >= 1
<1>1. PICK list : list = IterateFrom(w, child)
  OBVIOUS
<1>2. Follows(w, M, child, list)
  <2>1. child \in M
    BY DEF Under
  <2> QED
    BY <1>1, <2>1, IterateFromFollows DEF Links
<1>3. /\ list \in Seq(M) /\ list[1] = child /\ Len(list) \in Nat /\ Len(list) >= 1
      /\ \A k \in 2 .. Len(list) : list[k] \in Under(M)
  BY <1>2 DEF Follows
<1>4. \A k \in 1 .. Len(list) : k = 1 \/ k \in 2 .. Len(list)
  BY <1>3
<1>5. Range(list) \subseteq Under(M)
  <2>1. DOMAIN list = 1 .. Len(list)
    BY <1>3
  <2> QED
    BY <1>3, <1>4, <2>1 DEF Range
<1>6. Last(list) \in M /\ Last(list) = list[Len(list)]
  <2>1. Len(list) \in 1 .. Len(list)
    BY <1>3
  <2> QED
    BY <1>3, <2>1 DEF Last
<1> QED
  BY <1>1, <1>3, <1>5, <1>6

(* Linking one child from the buffer keeps the weave typed. *)
LEMMA AdoptTyped ==
    ASSUME NEW w, NEW M, M \subseteq Node, Typed(w, M), NEW node \in M, NEW child \in Under(M),
           NEW rb \in BOOLEAN
    PROVE  Typed(Adopt(w, node, child, rb), M)
<1>1. PICK list : list = IterateFrom(w, child)
  OBVIOUS
<1>2. list \in Seq(M) /\ Range(list) \subseteq Under(M) /\ Last(list) \in M
  BY <1>1, ListOfChild DEF Typed
<1>3. PICK u : u = IF rb THEN w ELSE Release(w, list)
  OBVIOUS
<1>4. Typed(u, M)
  BY <1>2, <1>3, ReleaseTyped
<1>5. Adopt(w, node, child, rb) = InsertNodeUnder(u, node, child, Last(list))
  BY <1>1, <1>3 DEF Adopt
<1>6. Links(Adopt(w, node, child, rb), M) /\ Relinked(u, Adopt(w, node, child, rb))
  BY <1>2, <1>4, <1>5, InsertNodeUnderLinks DEF Typed
<1> QED
  BY <1>4, <1>6, TypedRelinked

(* So does linking them all. *)
LEMMA AddMissingChildrenTyped ==
    ASSUME NEW w, NEW M, M \subseteq Node, Typed(w, M), NEW node \in M, NEW rb \in BOOLEAN
    PROVE  Typed(AddMissingChildren(w, node, rb), M)
<1>1. PICK f : Adopts(w, node, rb, f)
  BY AddMissingChildrenUnfold
<1> DEFINE n == Len(w.buffer)
           T == {k \in 0 .. n : Typed(f[k], M)}
<1>2. /\ n \in Nat /\ w.buffer \in Seq(M) /\ \A k \in 1 .. n : w.buffer[k] \in Under(M)
  <2>1. w.buffer \in Seq(M) /\ Range(w.buffer) \subseteq Under(M)
    BY DEF Typed, Stored
  <2>2. n \in Nat /\ DOMAIN w.buffer = 1 .. n
    BY <2>1
  <2> QED
    BY <2>1, <2>2 DEF Range
<1>3. /\ AddMissingChildren(w, node, rb) = f[n] /\ f[0] = w
      /\ \A k \in 1 .. n : f[k] = IF w.buffer[k].atom.cause = Id(node.atom)
                                    THEN Adopt(f[k - 1], node, w.buffer[k], rb) ELSE f[k - 1]
  BY <1>1 DEF Adopts
<1> HIDE DEF n
<1>4. 0 \in T
  BY <1>2, <1>3
<1>5. ASSUME NEW k \in 1 .. n, k - 1 \in T PROVE k \in T
  <2>1. Typed(f[k - 1], M) /\ k \in 0 .. n
    BY <1>5, <1>2
  <2>2. PICK v : v = f[k - 1]
    OBVIOUS
  <2>3. Typed(Adopt(v, node, w.buffer[k], rb), M)
    BY <2>1, <2>2, <1>2, AdoptTyped
  <2> QED
    BY <2>1, <2>2, <2>3, <1>3
<1>6. \A k \in 0 .. n : k \in T
  <2> HIDE DEF T
  <2> QED
    BY ONLY <1>2, <1>4, <1>5, UpTo
<1>7. n \in 0 .. n
  BY <1>2
<1> QED
  BY <1>3, <1>6, <1>7

-----------------------------------------------------------------------------
(* Taking nodes out.                                                       *)

(* The list from start to end is cut out of the pointers of w. *)
SpanCut(w, u, start, end) ==
    LET next == At(w.next, end)
        prev == At(w.prev, start)
    IN /\ \A x : At(u.next, x) = IF x = end THEN Null
                                 ELSE IF prev # Null /\ x = prev THEN next
                                 ELSE At(w.next, x)
       /\ \A x : At(u.prev, x) = IF x = start THEN Null
                                 ELSE IF next # Null /\ x = next THEN prev
                                 ELSE At(w.prev, x)

(* v has the pointers of u, and not the nodes of list in its maps. *)
Taken(w, u, v, list, start) ==
    /\ v.next = u.next /\ v.prev = u.prev
    /\ v.buffer = w.buffer /\ v.cardinality = w.cardinality
    /\ DOMAIN v.idMap = DOMAIN w.idMap \ Ids(list)
    /\ \A x \in DOMAIN v.idMap : v.idMap[x] = w.idMap[x]
    /\ Range(v.roots) = Range(w.roots) \ (IF start.atom.cause = NoCause THEN {start} ELSE {})

SpanRemoved(w, v, M, start, end) ==
    \E u : /\ Links(u, M) /\ SpanCut(w, u, start, end)
           /\ Taken(w, u, v, IterateFrom(u, start), start)

(* _removeSpan keeps the weave typed and takes from the maps what it cut   *)
(* out.                                                                    *)
LEMMA RemoveSpanTyped ==
    ASSUME NEW w, NEW M, M \subseteq Node, Typed(w, M), NEW start \in M, NEW end \in M
    PROVE  LET v == RemoveSpan(w, start, end)
           IN Typed(v, M) /\ SpanRemoved(w, v, M, start, end)
<1>1. PICK next : next = At(w.next, end)
  OBVIOUS
<1>2. PICK prev : prev = At(w.prev, start)
  OBVIOUS
<1>3. PICK f : f = Put(IF prev = Null THEN w.next ELSE Put(w.next, prev, next), end, Null)
  OBVIOUS
<1>4. PICK g : g = Put(IF next = Null THEN w.prev ELSE Put(w.prev, next, prev), start, Null)
  OBVIOUS
<1>5. PICK u : u = [w EXCEPT !.next = f, !.prev = g]
  OBVIOUS
<1>6. IsWeave(u) /\ Relinked(w, u) /\ u.next = f /\ u.prev = g
  <2>1. IsWeave(w)
    BY DEF Typed, Links
  <2> QED
    BY ONLY <1>5, <2>1 DEF IsWeave, Relinked
<1>7. next \in Under(M) \cup {Null} /\ prev \in M \cup {Null}
  BY <1>1, <1>2, AtPointers DEF Typed, Links
<1>8. Pointers(f, M, Under(M))
  <2>1. CASE prev = Null
    BY <2>1, <1>3, PutPointers DEF Typed, Links
  <2>2. CASE prev # Null
    <3>1. PICK h : h = Put(w.next, prev, next)
      OBVIOUS
    <3>2. Pointers(h, M, Under(M))
      BY <3>1, <2>2, <1>7, PutPointers DEF Typed, Links
    <3>3. f = Put(h, end, Null)
      BY <3>1, <2>2, <1>3
    <3> QED
      BY <3>2, <3>3, PutPointers
  <2> QED
    BY <2>1, <2>2
<1>9. Pointers(g, M, M)
  <2>1. CASE next = Null
    BY <2>1, <1>4, PutPointers DEF Typed, Links
  <2>2. CASE next # Null
    <3>1. PICK h : h = Put(w.prev, next, prev)
      OBVIOUS
    <3>2. Pointers(h, M, M)
      BY <3>1, <2>2, <1>7, PutPointers DEF Typed, Links, Under
    <3>3. g = Put(h, start, Null)
      BY <3>1, <2>2, <1>4
    <3> QED
      BY <3>2, <3>3, PutPointers
  <2> QED
    BY <2>1, <2>2
<1>10. SpanCut(w, u, start, end)
  <2>1. \A x : At(f, x) = IF x = end THEN Null
                          ELSE IF prev # Null /\ x = prev THEN next ELSE At(w.next, x)
    BY <1>3, PutAt
  <2>2. \A x : At(g, x) = IF x = start THEN Null
                          ELSE IF next # Null /\ x = next THEN prev ELSE At(w.prev, x)
    BY <1>4, PutAt
  <2> QED
    BY <2>1, <2>2, <1>1, <1>2, <1>6 DEF SpanCut
<1>11. Links(u, M)
  BY <1>6, <1>8, <1>9 DEF Links
<1>12. Typed(u, M)
  BY <1>6, <1>11, TypedRelinked
<1>13. PICK list : list = IterateFrom(u, start)
  OBVIOUS
<1>14. PICK gone : gone = RemoveListFromMaps(u, list)
  OBVIOUS
<1>15. /\ Typed(gone, M)
       /\ gone.next = u.next /\ gone.prev = u.prev /\ gone.buffer = u.buffer
       /\ gone.roots = u.roots
       /\ DOMAIN gone.idMap = DOMAIN u.idMap \ Ids(list)
       /\ \A x \in DOMAIN gone.idMap : gone.idMap[x] = u.idMap[x]
  BY <1>12, <1>14, RemoveListFromMapsTyped
<1>15a. gone.cardinality = u.cardinality
  BY <1>11, <1>14 DEF RemoveListFromMaps, Links, IsWeave
<1>16. PICK v : v = RemoveSpan(w, start, end)
  OBVIOUS
<1>17. v = IF start.atom.cause = NoCause
             THEN [gone EXCEPT !.roots = Without(@, {start})] ELSE gone
  BY <1>1, <1>2, <1>3, <1>4, <1>5, <1>13, <1>14, <1>16 DEF RemoveSpan
<1>18. /\ u.idMap = w.idMap /\ u.buffer = w.buffer /\ u.roots = w.roots
       /\ u.cardinality = w.cardinality
  BY <1>6 DEF Relinked
<1>19. CASE start.atom.cause # NoCause
  <2>1. v = gone
    BY <1>17, <1>19
  <2>2. Taken(w, u, v, list, start)
    BY <2>1, <1>15, <1>15a, <1>18, <1>19 DEF Taken
  <2> QED
    BY <2>1, <2>2, <1>10, <1>11, <1>13, <1>15, <1>16 DEF SpanRemoved
<1>20. CASE start.atom.cause = NoCause
  <2>1. PICK roots : roots = Without(gone.roots, {start})
    OBVIOUS
  <2>2. v = [gone EXCEPT !.roots = roots]
    BY <1>17, <1>20, <2>1
  <2>3. /\ IsWeave(v) /\ v.roots = roots /\ v.idMap = gone.idMap /\ v.hashMap = gone.hashMap
        /\ v.buffer = gone.buffer /\ v.next = gone.next /\ v.prev = gone.prev
        /\ v.cardinality = gone.cardinality
    <3>1. IsWeave(gone)
      BY <1>15 DEF Typed, Links
    <3> QED
      BY ONLY <2>2, <3>1 DEF IsWeave
  <2>4. roots \in Seq(M) /\ Range(roots) = Range(gone.roots) \ {start}
    <3>1. gone.roots \in Seq(M)
      BY <1>15 DEF Typed, Stored
    <3> QED
      BY <3>1, <2>1, WithoutElements
  <2>5. \A id \in DOMAIN gone.idMap : gone.idMap[id] # start
    <3>1. Id(start.atom) \in Ids(list)
      <4>1. Follows(u, M, start, list)
        BY <1>11, <1>13, IterateFromFollows DEF Links
      <4>2. list \in Seq(M) /\ list[1] = start /\ Len(list) \in Nat /\ Len(list) >= 1
        <5>1. list \in Seq(M) /\ list[1] = start
          BY <4>1 DEF Follows
        <5>2. Len(list) \in Nat
          BY <5>1
        <5> QED
          BY <4>1, <5>1, <5>2 DEF Follows
      <4>3. 1 \in DOMAIN list
        BY <4>2
      <4> QED
        BY <4>2, <4>3 DEF Ids
    <3>2. \A id \in DOMAIN gone.idMap : Id(gone.idMap[id].atom) = id
      BY <1>15 DEF Typed, Stored
    <3> QED
      BY <3>1, <3>2, <1>15
  <2>6. Typed(v, M)
    <3>1. Links(gone, M) /\ Stored(gone, M) /\ Certified(gone)
      BY <1>15 DEF Typed
    <3>2. Links(v, M)
      BY <3>1, <2>3 DEF Links
    <3>3. Stored(v, M)
      BY <3>1, <2>3, <2>4 DEF Stored
    <3>4. Certified(v)
      BY <3>1, <2>3, <2>4, <2>5 DEF Certified
    <3> QED
      BY <3>2, <3>3, <3>4 DEF Typed
  <2>7. Taken(w, u, v, list, start)
    BY <2>3, <2>4, <1>15, <1>15a, <1>18, <1>20 DEF Taken
  <2> QED
    BY <2>6, <2>7, <1>10, <1>11, <1>13, <1>16 DEF SpanRemoved
<1> QED
  BY <1>19, <1>20

(* So does the removal of a node with its causal group. *)
LEMMA RemoveNodeTyped ==
    ASSUME NEW w, NEW M, M \subseteq Node, Typed(w, M), NEW n \in M
    PROVE  /\ Typed(RemoveNode(w, n), M)
           /\ SpanRemoved(w, RemoveNode(w, n), M, n, LastInCausalGroup(w, n))
<1>1. LastInCausalGroup(w, n) \in M
  BY LastInCausalGroupType DEF Typed
<1> QED
  BY <1>1, RemoveSpanTyped DEF RemoveNode

-----------------------------------------------------------------------------
(* insert keeps a weave typed, whatever was made arrives.                  *)

(* Atoms with one ID are of one kind. *)
OneKind(M) == \A x, y \in M : Id(x.atom) = Id(y.atom) => x.atom.cert = y.atom.cert

Atoms(M) == {m.atom : m \in M}

(* The weave of the result and the atoms it tells of. *)
TypedResult(r, M) ==
    /\ Typed(r.weave, M)
    /\ r.added \in Seq(Atoms(M))

(* The fields of a result. *)
LEMMA ResultFields ==
    \A w, type, added : /\ Result(w, type, added).weave = w
                        /\ Result(w, type, added).type = type
                        /\ Result(w, type, added).added = added
BY DEF Result

(* A result of a typed weave that tells of known atoms is typed. *)
LEMMA ResultTyped ==
    ASSUME NEW w, NEW M, Typed(w, M), NEW type, NEW added \in Seq(Atoms(M))
    PROVE  TypedResult(Result(w, type, added), M)
BY ResultFields DEF TypedResult

(* A node inserted under its cause keeps the weave typed. *)
LEMMA InsertUnderTyped ==
    ASSUME NEW w, NEW M, M \subseteq Node, Typed(w, M), NEW cause \in M, NEW n \in Under(M)
    PROVE  Typed(InsertUnder(w, cause, n), M)
<1>1. PICK u : u = InsertNodeUnder(w, cause, n, n)
  OBVIOUS
<1>2. n \in M /\ ~n.atom.cert
  BY NodeFields DEF Under
<1>3. Links(u, M) /\ Relinked(w, u)
  BY <1>1, <1>2, InsertNodeUnderLinks DEF Typed
<1>4. Typed(u, M)
  BY <1>3, TypedRelinked
<1> QED
  BY <1>1, <1>2, <1>4, AddNodeToMapsTyped DEF InsertUnder

(* The insert of an atom with the children that waited for it has a typed  *)
(* result.                                                                 *)
LEMMA WithMissingChildrenTyped ==
    ASSUME NEW w, NEW M, M \subseteq Node, Typed(w, M), NEW n \in M
    PROVE  TypedResult(WithMissingChildren(w, n), M)
<1>1. PICK full : full = AddMissingChildren(w, n, FALSE)
  OBVIOUS
<1>2. Typed(full, M)
  BY <1>1, AddMissingChildrenTyped
<1>3. PICK group : group = IterateCausalGroup(full, n)
  OBVIOUS
<1>4. group \in Seq(M)
  <2>1. PICK list : list = IterateFrom(full, n)
    OBVIOUS
  <2>2. PICK j : IsGroup(M, list, group, j)
    BY <1>2, <1>3, <2>1, CausalGroup DEF Typed, Links
  <2> QED
    BY <2>2 DEF IsGroup
<1>5. AtomsOf(<<n>> \o group) \in Seq(Atoms(M))
  <2>1. PICK s \in Seq(M) : s = <<n>> \o group
    <3>1. <<n>> \in Seq(M)
      OBVIOUS
    <3>2. <<n>> \o group \in Seq(M)
      BY <3>1, <1>4, ConcatProperties
    <3> QED
      BY <3>2
  <2>2. \A k \in 1 .. Len(s) : s[k] \in M
    BY <2>1
  <2>3. AtomsOf(s) = [k \in 1 .. Len(s) |-> s[k].atom] /\ Len(s) \in Nat
    BY <2>1 DEF AtomsOf
  <2>4. \A k \in 1 .. Len(s) : s[k].atom \in Atoms(M)
    BY <2>2 DEF Atoms
  <2> QED
    BY <2>1, <2>3, <2>4
<1>6. <<n.atom>> \in Seq(Atoms(M))
  <2>1. n.atom \in Atoms(M)
    BY DEF Atoms
  <2> QED
    BY <2>1
<1>7. CASE HasMissingChildren(w, n)
  <2>1. WithMissingChildren(w, n) = Result(full, "atoms_added", AtomsOf(<<n>> \o group))
    BY <1>1, <1>3, <1>7 DEF WithMissingChildren
  <2> QED
    BY <2>1, <1>2, <1>5, ResultFields DEF TypedResult
<1>8. CASE ~HasMissingChildren(w, n)
  <2>1. WithMissingChildren(w, n) = Result(w, "atom_added", <<n.atom>>)
    BY <1>8 DEF WithMissingChildren
  <2> QED
    BY <2>1, <1>6, ResultTyped
<1> QED
  BY <1>7, <1>8

(* A result that changes nothing is typed. *)
LEMMA UnchangedTyped ==
    ASSUME NEW w, NEW M, Typed(w, M), NEW type
    PROVE  TypedResult(Result(w, type, <<>>), M)
<1>1. <<>> \in Seq(Atoms(M))
  OBVIOUS
<1>2. Result(w, type, <<>>).weave = w /\ Result(w, type, <<>>).added = <<>>
  BY ResultFields
<1> QED
  BY <1>1, <1>2 DEF TypedResult

(* What is left when the node of a conflict is taken out. *)
LEMMA ClearedTyped ==
    ASSUME NEW w, NEW M, M \subseteq Node, OneKind(M), Typed(w, M), NEW n \in M,
           NEW existing \in M, w.idMap[Id(n.atom)] = existing, Id(n.atom) \in DOMAIN w.idMap
    PROVE  LET cleared == RemoveNode(w, existing)
           IN /\ Typed(cleared, M)
              /\ n.atom.cert => /\ cleared.cardinality = 1
                                /\ \A x \in Range(cleared.roots) : ~x.atom.cert
<1>1. PICK cleared : cleared = RemoveNode(w, existing)
  OBVIOUS
<1>2. Typed(cleared, M)
  BY <1>1, RemoveNodeTyped
<1>3. SpanRemoved(w, cleared, M, existing, LastInCausalGroup(w, existing))
  BY <1>1, RemoveNodeTyped
<1>4. /\ cleared.cardinality = w.cardinality
      /\ Range(cleared.roots) =
           Range(w.roots) \ (IF existing.atom.cause = NoCause THEN {existing} ELSE {})
  BY <1>3 DEF SpanRemoved, Taken
<1>5. ASSUME n.atom.cert
      PROVE  cleared.cardinality = 1 /\ \A x \in Range(cleared.roots) : ~x.atom.cert
  <2>1. existing.atom.cert
    <3>1. Id(existing.atom) = Id(n.atom)
      BY DEF Typed, Stored
    <3> QED
      BY <3>1, <1>5 DEF OneKind
  <2>2. existing.atom.cause = NoCause
    BY <2>1, NodeFields
  <2>3. Certified(w)
    BY DEF Typed
  <2>4. existing \in Range(w.roots)
    BY <2>1, <2>3 DEF Certified
  <2> QED
    BY <2>1, <2>2, <2>3, <2>4, <1>4 DEF Certified
<1> QED
  BY <1>1, <1>2, <1>5

(* Whichever of two atoms with one ID stays, the result is typed. *)
LEMMA ResolveConflictTyped ==
    ASSUME NEW w, NEW M, M \subseteq Node, OneKind(M), Typed(w, M), NEW n \in M,
           NEW existing \in M, w.idMap[Id(n.atom)] = existing, Id(n.atom) \in DOMAIN w.idMap,
           NEW cause \in M \cup {Null}, cause = Null <=> n.atom.cause = NoCause
    PROVE  TypedResult(ResolveConflict(w, existing, n, cause), M)
<1>1. PICK cleared : cleared = RemoveNode(w, existing)
  OBVIOUS
<1>2. /\ Typed(cleared, M)
      /\ n.atom.cert => cleared.cardinality = 1 /\ \A x \in Range(cleared.roots) : ~x.atom.cert
  BY <1>1, ClearedTyped
<1>6. PICK other : other = IF cause = Null THEN AddRoot(cleared, n)
                           ELSE InsertUnder(cleared, cause, n)
  OBVIOUS
<1>7. Typed(other, M)
  <2>1. CASE cause = Null
    BY <2>1, <1>2, <1>6, AddRootTyped
  <2>2. CASE cause # Null
    <3>1. n \in Under(M)
      BY <2>2 DEF Under
    <3> QED
      BY <2>2, <3>1, <1>2, <1>6, InsertUnderTyped
  <2> QED
    BY <2>1, <2>2
<1>8. <<n.atom>> \in Seq(Atoms(M)) /\ <<existing.atom>> \in Seq(Atoms(M))
  <2>1. n.atom \in Atoms(M) /\ existing.atom \in Atoms(M)
    BY DEF Atoms
  <2> QED
    BY <2>1
<1>9. CASE existing.atom.hash = n.atom.hash
  <2>1. ResolveConflict(w, existing, n, cause) = Result(w, "atom_already_added", <<>>)
    <3>1. n.atom.hash \in Nat
      BY NodeFields
    <3>2. ~(existing.atom.hash < n.atom.hash)
      BY <3>1, <1>9
    <3> QED
      BY <1>9, <3>2 DEF ResolveConflict
  <2> QED
    BY <2>1, UnchangedTyped
<1>10. CASE existing.atom.hash # n.atom.hash /\ existing.atom.hash < n.atom.hash
  <2>1. ResolveConflict(w, existing, n, cause) = Result(w, "conflict", <<existing.atom>>)
    BY <1>10 DEF ResolveConflict
  <2> QED
    BY <2>1, <1>8, ResultTyped
<1>11. CASE existing.atom.hash # n.atom.hash /\ ~(existing.atom.hash < n.atom.hash)
  <2>1. ResolveConflict(w, existing, n, cause) = Result(other, "conflict", <<n.atom>>)
    BY <1>1, <1>6, <1>11 DEF ResolveConflict
  <2> QED
    BY <2>1, <1>7, <1>8, ResultTyped
<1> QED
  BY <1>9, <1>10, <1>11

(* getNode finds the node of an ID, or null. *)
LEMMA GetNodeType ==
    ASSUME NEW w, NEW M, M \subseteq Node, Typed(w, M), NEW id
    PROVE  /\ GetNode(w, id) \in M \cup {Null}
           /\ GetNode(w, id) # Null <=> id \in DOMAIN w.idMap
           /\ id \in DOMAIN w.idMap => /\ GetNode(w, id) = w.idMap[id]
                                       /\ Id(GetNode(w, id).atom) = id
BY NullIsNoNode DEF GetNode, At, Typed, Stored

(* A root is counted if it is a certificate, and the first. *)
LEMMA CountedRootTyped ==
    ASSUME NEW w, NEW M, M \subseteq Node, Typed(w, M), NEW n \in M,
           ~(n.atom.cert /\ w.cardinality >= 1)
    PROVE  LET counted == IF n.atom.cert THEN [w EXCEPT !.cardinality = @ + 1] ELSE w
           IN /\ Typed(AddRoot(counted, n), M) /\ MapsAdded(w, AddRoot(counted, n), n)
<1>1. PICK counted : counted = IF n.atom.cert THEN [w EXCEPT !.cardinality = @ + 1] ELSE w
  OBVIOUS
<1>2. /\ Typed(counted, M)
      /\ n.atom.cert => counted.cardinality = 1 /\ \A x \in Range(counted.roots) : ~x.atom.cert
      /\ counted.next = w.next /\ counted.prev = w.prev /\ counted.buffer = w.buffer
      /\ counted.idMap = w.idMap
  <2>1. CASE ~n.atom.cert
    BY <1>1, <2>1
  <2>2. CASE n.atom.cert
    <3>1. Links(w, M) /\ Stored(w, M) /\ Certified(w) /\ IsWeave(w)
      BY DEF Typed, Links
    <3>2. w.cardinality \in 0 .. 1
      BY <3>1 DEF Stored
    <3>3. w.cardinality = 0
      BY <2>2, <3>2
    <3>4. counted = [w EXCEPT !.cardinality = @ + 1]
      BY <1>1, <2>2
    <3>5. /\ IsWeave(counted) /\ counted.roots = w.roots /\ counted.idMap = w.idMap
          /\ counted.hashMap = w.hashMap /\ counted.buffer = w.buffer
          /\ counted.next = w.next /\ counted.prev = w.prev
          /\ counted.cardinality = w.cardinality + 1
      BY ONLY <3>4, <3>1 DEF IsWeave
    <3>6. \A x \in Range(w.roots) : ~x.atom.cert
      BY <3>1, <3>3 DEF Certified
    <3>7. counted.cardinality = 1
      BY <3>3, <3>5
    <3>8. Links(counted, M) /\ Stored(counted, M) /\ Certified(counted)
      BY <3>1, <3>5, <3>6, <3>7 DEF Links, Stored, Certified
    <3> QED
      BY <3>5, <3>6, <3>7, <3>8 DEF Typed
  <2> QED
    BY <2>1, <2>2
<1>3. Typed(AddRoot(counted, n), M) /\ MapsAdded(counted, AddRoot(counted, n), n)
  BY <1>2, AddRootTyped
<1>4. MapsAdded(w, AddRoot(counted, n), n)
  BY <1>2, <1>3 DEF MapsAdded
<1> QED
  BY <1>1, <1>3, <1>4

(* The insert of a root has a typed result: one certificate at most is     *)
(* counted.                                                                *)
LEMMA InsertRootTyped ==
    ASSUME NEW w, NEW M, M \subseteq Node, OneKind(M), Typed(w, M), NEW n \in M,
           n.atom.cause = NoCause
    PROVE  TypedResult(InsertRoot(w, n), M)
<1>1. PICK existing : existing = GetNode(w, Id(n.atom))
  OBVIOUS
<1>2. CASE existing # Null
  <2>1. InsertRoot(w, n) = ResolveConflict(w, existing, n, Null)
    BY <1>1, <1>2 DEF InsertRoot
  <2>2. existing \in M /\ w.idMap[Id(n.atom)] = existing /\ Id(n.atom) \in DOMAIN w.idMap
    BY <1>1, <1>2, GetNodeType
  <2> QED
    BY <2>1, <2>2, ResolveConflictTyped
<1>3. CASE existing = Null /\ n.atom.cert /\ w.cardinality >= 1
  <2>1. InsertRoot(w, n) = Result(w, "cardinality_violated", <<>>)
    BY <1>1, <1>3 DEF InsertRoot
  <2> QED
    BY <2>1, UnchangedTyped
<1>4. CASE existing = Null /\ ~(n.atom.cert /\ w.cardinality >= 1)
  <2>1. PICK counted : counted = IF n.atom.cert THEN [w EXCEPT !.cardinality = @ + 1] ELSE w
    OBVIOUS
  <2>2. InsertRoot(w, n) = WithMissingChildren(AddRoot(counted, n), n)
    BY <1>1, <1>4, <2>1 DEF InsertRoot
  <2>3. Typed(AddRoot(counted, n), M)
    BY <2>1, <1>4, CountedRootTyped
  <2> QED
    BY <2>2, <2>3, WithMissingChildrenTyped
<1> QED
  BY <1>2, <1>3, <1>4

(* A lookup in the buffer finds a waiting node with the ID, or there is    *)
(* none.                                                                   *)
LEMMA BufferedType ==
    ASSUME NEW w, NEW M, M \subseteq Node, Typed(w, M), NEW id
    PROVE  /\ Buffered(w, id) # Null => /\ Buffered(w, id) \in Range(w.buffer)
                                        /\ Id(Buffered(w, id).atom) = id
           /\ Buffered(w, id) = Null => \A m \in Range(w.buffer) : Id(m.atom) # id
           /\ Range(w.buffer) \subseteq Under(M)
<1> DEFINE found == {k \in DOMAIN w.buffer : Id(w.buffer[k].atom) = id}
<1>1. Buffered(w, id) = IF found = {} THEN Null ELSE w.buffer[Min(found)]
  BY DEF Buffered
<1>2. found # {} => Min(found) \in found
  <2>1. w.buffer \in Seq(M)
    BY DEF Typed, Stored
  <2>2. found \subseteq Nat
    BY <2>1
  <2> HIDE DEF found
  <2> QED
    BY <2>2, MinIn
<1>3. Range(w.buffer) \subseteq Under(M) /\ Range(w.buffer) \subseteq Node
  BY DEF Typed, Stored, Under
<1>4. CASE found = {}
  BY <1>1, <1>3, <1>4 DEF Range
<1>5. CASE found # {}
  <2>1. Buffered(w, id) \in Range(w.buffer) /\ Id(Buffered(w, id).atom) = id
    BY <1>1, <1>2, <1>5 DEF Range
  <2>2. Buffered(w, id) # Null
    BY <2>1, <1>3, NullIsNoNode
  <2> QED
    BY <2>1, <2>2, <1>3
<1> QED
  BY <1>4, <1>5

(* The insert of an atom before its cause has a typed result: the buffer   *)
(* keeps its limit.                                                        *)
LEMMA InsertEarlyTyped ==
    ASSUME NEW w, NEW M, M \subseteq Node, Typed(w, M), NEW n \in Under(M)
    PROVE  TypedResult(InsertEarly(w, n), M)
<1>1. PICK cause : cause = Buffered(w, n.atom.cause)
  OBVIOUS
<1>2. PICK added : added = AddToBuffer(w, n)
  OBVIOUS
<1>3. PICK linked : linked = IF cause = Null THEN added ELSE InsertNodeUnder(added, cause, n, n)
  OBVIOUS
<1>4. Len(w.buffer) \in Nat /\ MaxReorderBufferSize \in Nat /\ n \in M
  <2>1. w.buffer \in Seq(M)
    BY DEF Typed, Stored
  <2> QED
    BY <2>1, BufferAssumption DEF Under
<1>4a. PICK size : size = Len(w.buffer)
  OBVIOUS
<1>4b. PICK refusal : refusal = Refusal(n, cause)
  OBVIOUS
<1>4c. PICK adopted : adopted = AddMissingChildren(linked, n, TRUE)
  OBVIOUS
<1>4d. InsertEarly(w, n) =
         CASE size >= MaxReorderBufferSize -> Result(w, "cause_not_found", <<>>)
           [] size < MaxReorderBufferSize /\ cause # Null /\ refusal # "none" ->
                Result(w, refusal, <<>>)
           [] OTHER -> Result(adopted, "saved", <<>>)
  BY <1>1, <1>2, <1>3, <1>4a, <1>4b, <1>4c, Zenon DEF InsertEarly
<1>5. CASE Len(w.buffer) >= MaxReorderBufferSize
  <2>1. InsertEarly(w, n) = Result(w, "cause_not_found", <<>>)
    BY <1>4, <1>4a, <1>4d, <1>5
  <2> QED
    BY <2>1, UnchangedTyped
<1>6. CASE Len(w.buffer) < MaxReorderBufferSize /\ cause # Null /\ Refusal(n, cause) # "none"
  <2>1. InsertEarly(w, n) = Result(w, Refusal(n, cause), <<>>)
    BY <1>4, <1>4a, <1>4b, <1>4d, <1>6
  <2> QED
    BY <2>1, UnchangedTyped
<1>7. CASE Len(w.buffer) < MaxReorderBufferSize /\ ~(cause # Null /\ Refusal(n, cause) # "none")
  <2>1. InsertEarly(w, n) = Result(AddMissingChildren(linked, n, TRUE), "saved", <<>>)
    <3>1. size < MaxReorderBufferSize /\ ~(size >= MaxReorderBufferSize)
      BY <1>4, <1>4a, <1>7
    <3>2. ~(cause # Null /\ refusal # "none")
      BY <1>4b, <1>7
    <3> QED
      BY ONLY <3>1, <3>2, <1>4c, <1>4d
  <2>2. Typed(added, M)
    BY <1>2, <1>7, AddToBufferTyped
  <2>3. Typed(linked, M)
    <3>1. CASE cause = Null
      BY <1>3, <2>2, <3>1
    <3>2. CASE cause # Null
      <4>1. cause \in M
        BY <1>1, <3>2, BufferedType DEF Under
      <4>2. Links(linked, M) /\ Relinked(added, linked)
        BY <1>3, <1>4, <2>2, <3>2, <4>1, InsertNodeUnderLinks DEF Typed
      <4> QED
        BY <2>2, <4>2, TypedRelinked
    <3> QED
      BY <3>1, <3>2
  <2>4. Typed(AddMissingChildren(linked, n, TRUE), M)
    BY <2>3, <1>4, AddMissingChildrenTyped
  <2> QED
    BY <2>1, <2>4, UnchangedTyped, ResultFields DEF TypedResult
<1> QED
  BY <1>4, <1>5, <1>6, <1>7

(* insert() has a typed result. *)
LEMMA InsertTyped ==
    ASSUME NEW w, NEW M, M \subseteq Node, OneKind(M), Typed(w, M), NEW n \in M
    PROVE  TypedResult(Insert(w, n), M)
<1>1. PICK cause : cause = GetNode(w, n.atom.cause)
  OBVIOUS
<1>2. PICK existing : existing = GetNode(w, Id(n.atom))
  OBVIOUS
<1>3. CASE n.atom.cause = NoCause
  <2>1. Insert(w, n) = InsertRoot(w, n)
    BY <1>3 DEF Insert
  <2> QED
    BY <2>1, <1>3, InsertRootTyped
<1>4. CASE n.atom.cause # NoCause /\ cause = Null
  <2>1. Insert(w, n) = InsertEarly(w, n)
    BY <1>1, <1>4 DEF Insert
  <2>2. n \in Under(M)
    BY <1>4 DEF Under
  <2> QED
    BY <2>1, <2>2, InsertEarlyTyped
<1>5. CASE n.atom.cause # NoCause /\ cause # Null
  <2>1. Insert(w, n) = IF Refusal(n, cause) # "none" THEN Result(w, Refusal(n, cause), <<>>)
                       ELSE IF existing # Null THEN ResolveConflict(w, existing, n, cause)
                       ELSE WithMissingChildren(InsertUnder(w, cause, n), n)
    BY <1>1, <1>2, <1>5 DEF Insert
  <2>2. n \in Under(M) /\ cause \in M
    BY <1>1, <1>5, GetNodeType DEF Under
  <2>3. CASE Refusal(n, cause) # "none"
    BY <2>1, <2>3, UnchangedTyped
  <2>4. CASE Refusal(n, cause) = "none" /\ existing # Null
    <3>1. existing \in M /\ w.idMap[Id(n.atom)] = existing /\ Id(n.atom) \in DOMAIN w.idMap
      BY <1>2, <2>4, GetNodeType
    <3> QED
      BY <2>1, <2>2, <2>4, <3>1, <1>5, ResolveConflictTyped
  <2>5. CASE Refusal(n, cause) = "none" /\ existing = Null
    <3>1. Typed(InsertUnder(w, cause, n), M)
      BY <2>2, InsertUnderTyped
    <3> QED
      BY <2>1, <2>5, <3>1, WithMissingChildrenTyped
  <2> QED
    BY <2>3, <2>4, <2>5
<1> QED
  BY <1>3, <1>4, <1>5

(* remove() keeps the weave typed. *)
LEMMA RemoveAtomTyped ==
    ASSUME NEW w, NEW M, M \subseteq Node, Typed(w, M), NEW a
    PROVE  Typed(RemoveAtom(w, a), M)
<1>1. GetNode(w, Id(a)) \in M \cup {Null}
  BY GetNodeType
<1> QED
  BY <1>1, RemoveNodeTyped DEF RemoveAtom

(* The places of the siblings are places of the list, behind the first. *)
LEMMA SiblingPlaces ==
    ASSUME NEW w, NEW M, M \subseteq Node, Links(w, M), NEW node \in M,
           IterateSiblings(w, node) # {}
    PROVE  LET list == IterateFrom(w, node)
               siblings == IterateSiblings(w, node)
           IN /\ Min(siblings) \in siblings /\ Max(siblings) \in siblings
              /\ Min(siblings) <= Max(siblings)
              /\ siblings \subseteq 2 .. Len(list)
              /\ list \in Seq(M) /\ Len(list) \in Nat
              /\ list[Min(siblings)] \in M /\ list[Max(siblings)] \in M
<1>1. PICK list : list = IterateFrom(w, node)
  OBVIOUS
<1>2. PICK siblings : siblings = IterateSiblings(w, node)
  OBVIOUS
<1>3. siblings \subseteq 2 .. Len(list)
  BY <1>1, <1>2 DEF IterateSiblings
<1>4. list \in Seq(M) /\ Len(list) \in Nat
  <2>1. Follows(w, M, node, list)
    BY <1>1, IterateFromFollows DEF Links
  <2>2. list \in Seq(M)
    BY <2>1 DEF Follows
  <2> QED
    BY <2>2
<1>5. siblings \subseteq Nat /\ siblings \subseteq 0 .. Len(list) /\ siblings # {}
  BY <1>2, <1>3, <1>4
<1>6. Min(siblings) \in siblings /\ \A y \in siblings : Min(siblings) <= y
  BY <1>5, MinIn
<1>7. Max(siblings) \in siblings
  BY <1>4, <1>5, MaxIn
<1>8. \A k \in siblings : list[k] \in M
  <2>1. \A k \in siblings : k \in 1 .. Len(list)
    BY <1>3, <1>4
  <2> QED
    BY <2>1, <1>4
<1> QED
  BY <1>1, <1>2, <1>3, <1>4, <1>6, <1>7, <1>8

(* removeSiblingsBefore() keeps the weave typed. *)
LEMMA RemoveSiblingsBeforeTyped ==
    ASSUME NEW w, NEW M, M \subseteq Node, Typed(w, M), NEW a
    PROVE  Typed(RemoveSiblingsBefore(w, a), M)
<1>1. PICK node : node = GetNode(w, Id(a))
  OBVIOUS
<1>2. PICK list : list = IterateFrom(w, node)
  OBVIOUS
<1>3. PICK siblings : siblings = IterateSiblings(w, node)
  OBVIOUS
<1>4. RemoveSiblingsBefore(w, a) =
        IF node = Null \/ siblings = {} THEN w
        ELSE RemoveSpan(w, list[Min(siblings)], LastInCausalGroup(w, list[Max(siblings)]))
  BY <1>1, <1>2, <1>3 DEF RemoveSiblingsBefore
<1>5. CASE node # Null /\ siblings # {}
  <2>1. node \in M
    BY <1>1, <1>5, GetNodeType
  <2>2. list[Min(siblings)] \in M /\ list[Max(siblings)] \in M
    BY <2>1, <1>2, <1>3, <1>5, SiblingPlaces DEF Typed
  <2>3. LastInCausalGroup(w, list[Max(siblings)]) \in M
    BY <2>2, LastInCausalGroupType DEF Typed
  <2> QED
    BY <2>2, <2>3, <1>4, <1>5, RemoveSpanTyped
<1> QED
  BY <1>4, <1>5

-----------------------------------------------------------------------------
(* The clocks.                                                             *)

(* The maximum of two numbers. *)
LEMMA MaxOfTwo ==
    ASSUME NEW x \in Nat, NEW y \in Nat
    PROVE  Max({x, y}) \in Nat /\ x <= Max({x, y}) /\ y <= Max({x, y})
<1>1. {x, y} \subseteq 0 .. x + y /\ x + y \in Nat /\ {x, y} # {}
  OBVIOUS
<1>2. Max({x, y}) \in {x, y} /\ \A z \in {x, y} : z <= Max({x, y})
  BY <1>1, MaxIn
<1> QED
  BY <1>2

(* calculateTimeFromId is past the clock and the atom. *)
LEMMA CalculateTimeBounds ==
    ASSUME NEW site, NEW t \in Nat, NEW a, a.time \in Nat
    PROVE  /\ CalculateTime(site, t, a) \in Nat
           /\ t <= CalculateTime(site, t, a) /\ a.time <= CalculateTime(site, t, a)
<1>1. PICK m : m = Max({t, a.time})
  OBVIOUS
<1>2. m \in Nat /\ t <= m /\ a.time <= m
  BY <1>1, MaxOfTwo
<1>3. CalculateTime(site, t, a) = IF a.site # site THEN m + 1 ELSE m
  BY <1>1 DEF CalculateTime
<1> QED
  BY <1>2, <1>3

(* f tells the clock after each atom. *)
Steps(site, t, added, f) ==
    /\ TimeAfterEach(site, t, added) = f[Len(added)]
    /\ f[0] = t
    /\ \A k \in 1 .. Len(added) : f[k] = CalculateTime(site, f[k - 1], added[k])

(* The clock stepped for each atom computes what its recursion says. *)
LEMMA TimeAfterEachUnfold ==
    ASSUME NEW A, NEW added \in Seq(A), NEW site, NEW t
    PROVE  \E f : Steps(site, t, added, f)
<1> DEFINE n == Len(added)
           b == t
           Step(k, v) == CalculateTime(site, v, added[k])
           Def(m, f) == [k \in 0 .. m |-> IF k = 0 THEN b ELSE Step(k, f[k - 1])]
<1>0. n \in Nat
  OBVIOUS
<1>1. \E f : f = Def(n, f)
  <2> HIDE DEF n, b, Step
  <2> DEFINE Bad == {m \in 0 .. n : ~\E f : f = Def(m, f)}
  <2>1. SUFFICES ASSUME Bad # {} PROVE FALSE
    <3>1. n \in 0 .. n
      BY <1>0
    <3> QED
      BY <2>1, <3>1
  <2>2. PICK m \in Bad : \A y \in Bad : ~(y < m)
    <3>1. Bad \subseteq Nat
      BY <1>0
    <3> HIDE DEF Bad
    <3> QED
      BY ONLY <2>1, <3>1, LeastNat
  <2>3. m \in 0 .. n /\ ~\E f : f = Def(m, f)
    BY <2>2
  <2>4. CASE m = 0
    <3>1. [k \in 0 .. 0 |-> b] = Def(0, [k \in 0 .. 0 |-> b])
      OBVIOUS
    <3> QED
      BY <2>3, <2>4, <3>1
  <2>5. CASE m # 0
    <3>1. m - 1 \in 0 .. n /\ m - 1 < m /\ m \in 1 .. n
      BY <1>0, <2>3, <2>5
    <3>2. PICK f : f = Def(m - 1, f)
      BY <2>2, <3>1
    <3> DEFINE g == [k \in 0 .. m |-> IF k = m THEN Step(m, f[m - 1]) ELSE f[k]]
    <3>3. ASSUME NEW k \in 0 .. m PROVE g[k] = Def(m, g)[k]
      <4>1. CASE k = 0
        BY <3>1, <3>2, <4>1
      <4>2. CASE k # 0 /\ k # m
        <5>1. k \in 0 .. m - 1 /\ k - 1 \in 0 .. m - 1 /\ k - 1 \in 0 .. m /\ k - 1 # m
          BY <3>1, <3>3, <4>2
        <5>2. f[k] = Step(k, f[k - 1])
          BY <3>2, <5>1, <4>2
        <5> QED
          BY <5>1, <5>2, <4>2
      <4>3. CASE k = m
        <5>1. m - 1 \in 0 .. m /\ m - 1 # m /\ m # 0
          BY <3>1
        <5> QED
          BY <5>1, <4>3
      <4> QED
        BY <4>1, <4>2, <4>3
    <3>4. g = Def(m, g)
      <4>1. g = [k \in 0 .. m |-> g[k]] /\ Def(m, g) = [k \in 0 .. m |-> Def(m, g)[k]]
        OBVIOUS
      <4> HIDE DEF g, Def
      <4> QED
        BY <3>3, <4>1
    <3> QED
      BY <2>3, <3>4
  <2> QED
    BY <2>4, <2>5
<1>2. PICK h : h = (CHOOSE f : f = Def(n, f))
  OBVIOUS
<1>3. h = Def(n, h)
  <2> HIDE DEF Def
  <2> QED
    BY <1>1, <1>2
<1>4. TimeAfterEach(site, t, added) = h[n]
  BY <1>2 DEF TimeAfterEach
<1>5. h[0] = b /\ \A k \in 1 .. n : h[k] = Step(k, h[k - 1])
  <2> HIDE DEF n, b, Step
  <2>1. 0 \in 0 .. n /\ \A k \in 1 .. n : k \in 0 .. n /\ k # 0
    BY <1>0
  <2>2. \A k \in 0 .. n : h[k] = IF k = 0 THEN b ELSE Step(k, h[k - 1])
    BY <1>3
  <2> HIDE <1>3
  <2> QED
    BY <2>1, <2>2
<1> QED
  BY <1>4, <1>5 DEF Steps

(* The clock is past what it was and past every atom that was added. *)
Past(after, t, added) ==
    /\ after \in Nat /\ t <= after
    /\ \A k \in DOMAIN added : added[k].time <= after

(* It ends past every atom that was added. *)
LEMMA TimeAfterEachPast ==
    ASSUME NEW A, NEW added \in Seq(A), \A a \in A : a.time \in Nat, NEW site, NEW t \in Nat
    PROVE  Past(TimeAfterEach(site, t, added), t, added)
<1>1. PICK f : Steps(site, t, added, f)
  BY TimeAfterEachUnfold
<1> DEFINE n == Len(added)
           T == {k \in 0 .. n : /\ f[k] \in Nat /\ t <= f[k]
                                /\ \A j \in 1 .. k : added[j].time <= f[k]}
<1>2. /\ n \in Nat /\ DOMAIN added = 1 .. n
      /\ \A k \in 1 .. n : added[k].time \in Nat
  OBVIOUS
<1>3. /\ TimeAfterEach(site, t, added) = f[n] /\ f[0] = t
      /\ \A k \in 1 .. n : f[k] = CalculateTime(site, f[k - 1], added[k])
  BY <1>1 DEF Steps
<1> HIDE DEF n
<1>4. 0 \in T
  BY <1>2, <1>3
<1>5. ASSUME NEW k \in 1 .. n, k - 1 \in T PROVE k \in T
  <2>1. k \in 0 .. n /\ \A j \in 1 .. k : j = k \/ j \in 1 .. k - 1
    BY <1>2, <1>5
  <2>2. f[k - 1] \in Nat /\ t <= f[k - 1] /\ \A j \in 1 .. k - 1 : added[j].time <= f[k - 1]
    BY <1>5
  <2>3. PICK v \in Nat : v = f[k - 1]
    BY <2>2
  <2>4. /\ f[k] \in Nat /\ v <= f[k] /\ added[k].time <= f[k]
    BY <2>3, <1>2, <1>3, CalculateTimeBounds
  <2>5. ASSUME NEW j \in 1 .. k PROVE added[j].time <= f[k]
    <3>1. CASE j = k
      BY <3>1, <2>4
    <3>2. CASE j \in 1 .. k - 1
      <4>1. added[j].time <= v /\ added[j].time \in Nat
        <5>1. j \in 1 .. n
          BY <3>2, <1>2, <1>5
        <5> QED
          BY <5>1, <3>2, <2>2, <2>3, <1>2
      <4> QED
        BY <4>1, <2>3, <2>4
    <3> QED
      BY <2>1, <3>1, <3>2
  <2>6. t <= f[k]
    BY <2>2, <2>3, <2>4
  <2> QED
    BY <2>1, <2>4, <2>5, <2>6
<1>6. \A k \in 0 .. n : k \in T
  <2> HIDE DEF T
  <2> QED
    BY ONLY <1>2, <1>4, <1>5, UpTo
<1>7. n \in 0 .. n
  BY <1>2
<1> QED
  BY <1>2, <1>3, <1>6, <1>7 DEF Past

(* updateSite ends past every atom that was added. *)
LEMMA UpdateSitePast ==
    ASSUME NEW A, NEW added \in Seq(A), \A a \in A : a.time \in Nat, NEW site, NEW t \in Nat
    PROVE  Past(UpdateSite(site, t, added), t, added)
<1> DEFINE n == Len(added)
           f(k) == CalculateTime(site, t, added[k])
           T == {k \in 0 .. n : \E b \in Nat : \A j \in 1 .. k : f(j) <= b}
<1>1. /\ n \in Nat /\ DOMAIN added = 1 .. n
      /\ \A k \in 1 .. n : added[k].time \in Nat
  OBVIOUS
<1>2. CASE added = <<>>
  BY <1>2 DEF UpdateSite, Past
<1>3. CASE added # <<>>
  <2>1. n >= 1
    BY <1>1, <1>3
  <2>2. \A k \in 1 .. n : f(k) \in Nat /\ t <= f(k) /\ added[k].time <= f(k)
    BY <1>1, CalculateTimeBounds
  <2>3. UpdateSite(site, t, added) = Max({f(k) : k \in DOMAIN added})
    BY <1>3 DEF UpdateSite
  <2>4. UpdateSite(site, t, added) = Max({f(k) : k \in 1 .. n})
    BY <1>1, <2>3
  <2> HIDE DEF n, f
  <2>5. 0 \in T
    <3>1. \A j \in 1 .. 0 : f(j) <= 0
      OBVIOUS
    <3> QED
      BY <3>1, <1>1
  <2>6. ASSUME NEW k \in 1 .. n, k - 1 \in T PROVE k \in T
    <3>1. PICK b \in Nat : \A j \in 1 .. k - 1 : f(j) <= b
      BY <2>6
    <3>2. b + f(k) \in Nat
      BY <2>2
    <3>3. ASSUME NEW j \in 1 .. k PROVE f(j) <= b + f(k)
      <4>1. f(j) \in Nat /\ f(k) \in Nat /\ (j = k \/ j \in 1 .. k - 1)
        BY <2>2, <3>3, <1>1
      <4> QED
        BY <4>1, <3>1
    <3>4. k \in 0 .. n
      BY <1>1
    <3> QED
      BY <3>2, <3>3, <3>4
  <2>7. \A k \in 0 .. n : k \in T
    <3> HIDE DEF T
    <3> QED
      BY ONLY <1>1, <2>5, <2>6, UpTo
  <2>8. PICK b \in Nat : \A j \in 1 .. n : f(j) <= b
    <3>1. n \in 0 .. n
      BY <1>1
    <3> QED
      BY <3>1, <2>7
  <2>9. PICK S : S = {f(k) : k \in 1 .. n}
    OBVIOUS
  <2>10. S \subseteq 0 .. b /\ S # {} /\ \A k \in 1 .. n : f(k) \in S
    <3>1. 1 \in 1 .. n
      BY <1>1, <2>1
    <3> QED
      BY <3>1, <2>2, <2>8, <2>9
  <2>11. Max(S) \in S /\ \A y \in S : y <= Max(S)
    BY <2>10, MaxIn
  <2>12. PICK m \in Nat : m = Max(S)
    <3>1. \A y \in 0 .. b : y \in Nat
      BY <2>8
    <3>2. Max(S) \in Nat
      BY ONLY <2>10, <2>11, <3>1
    <3> QED
      BY <3>2
  <2>13. \A k \in 1 .. n : f(k) <= m
    BY <2>10, <2>11, <2>12
  <2>14. ASSUME NEW k \in 1 .. n PROVE t <= m /\ added[k].time <= m
    <3>1. f(k) \in Nat /\ added[k].time \in Nat /\ f(k) <= m
      BY <1>1, <2>2, <2>13
    <3> QED
      BY <3>1, <2>2, <2>12
  <2>15. 1 \in 1 .. n
    BY <1>1, <2>1
  <2> QED
    BY <1>1, <2>4, <2>9, <2>12, <2>14, <2>15 DEF Past
<1> QED
  BY <1>2, <1>3

-----------------------------------------------------------------------------
(* The state: what is known of the atoms, and the typed weave.             *)

KnownAtoms == Range(others) \cup Range(made)

(* Atoms have a hash each; those of one ID are certificates or are not;    *)
(* the clocks are past the atoms of their sites.                           *)
AtomsInv ==
    /\ KnownAtoms \subseteq Atom
    /\ made \in Seq(Atom) /\ Len(made) <= MaxLocal
    /\ count \in [1 .. (N + MaxLocal) -> Nat] /\ time \in Nat /\ remote \in Nat
    /\ \A a \in KnownAtoms : a.hash \in 1 .. (N + Len(made))
    /\ \A a, b \in KnownAtoms : a.hash = b.hash => a = b
    /\ \A a, b \in KnownAtoms : Id(a) = Id(b) => a.cert = b.cert
    /\ \A a \in KnownAtoms :
         /\ a.site = Site => a.time <= time
         /\ a.site = RemoteSite => a.time <= remote
         /\ a.cause # NoCause /\ a.cause[1] = Site => a.cause[2] <= time

(* The nodes made so far. *)
NodesMade == {n \in Node : n.atom \in KnownAtoms /\ n.copy <= count[n.atom.hash]}

WeaveInv == Typed(weave, NodesMade)

TreeInv == AtomsInv /\ WeaveInv

(* Nodes whose atoms have one ID are certificates or are not. *)
LEMMA NodesMadeOneKind == ASSUME AtomsInv PROVE OneKind(NodesMade) /\ NodesMade \subseteq Node
BY DEF AtomsInv, NodesMade, OneKind

(* A new weave is typed. *)
LEMMA EmptyWeaveTyped == ASSUME NEW M PROVE Typed(EmptyWeave, M)
<1>1. PICK w : w = EmptyWeave
  OBVIOUS
<1>2. /\ IsWeave(w) /\ w.roots = <<>> /\ w.idMap = <<>> /\ w.hashMap = <<>> /\ w.buffer = <<>>
      /\ w.next = <<>> /\ w.prev = <<>> /\ w.cardinality = 0
  BY <1>1 DEF EmptyWeave, IsWeave
<1>3. DOMAIN <<>> = {} /\ Len(<<>>) = 0 /\ Range(<<>>) = {} /\ \A S : <<>> \in Seq(S)
  BY DEF Range
<1>4. \A S : <<>> \in [DOMAIN <<>> -> S]
  BY <1>3
<1>5. IsFiniteSet({})
  BY FS_EmptySet
<1>6. Links(w, M)
  BY <1>2, <1>3, <1>4, <1>5 DEF Links, Pointers
<1>7. Stored(w, M)
  BY <1>2, <1>3, <1>4, BufferAssumption DEF Stored
<1>8. Certified(w)
  BY <1>2, <1>3 DEF Certified
<1> QED
  BY <1>1, <1>6, <1>7, <1>8 DEF Typed

-----------------------------------------------------------------------------
(* The initial atoms.                                                      *)

(* What the initial state chooses. *)
Chosen(cause, when, deletes, certs, twin) ==
    /\ cause \in Causes /\ when \in Times(cause)
    /\ deletes \subseteq Leaves(cause) /\ certs \subseteq Roots(cause)
    /\ twin \in Twins(cause, when, deletes, certs)

(* The atoms that the other sites made are atoms, with the hash and the    *)
(* site of their place.                                                    *)
LEMMA ChosenAtoms ==
    ASSUME NEW cause, NEW when, NEW deletes, NEW certs, NEW twin,
           Chosen(cause, when, deletes, certs, twin), NEW k \in 1 .. N
    PROVE  LET a == AtomOf(cause, when, deletes, certs, twin, k)
           IN /\ a \in Atom /\ a.hash = k /\ a.site \in 1 .. N
              /\ a.site = (IF k = twin THEN k - 1 ELSE k) /\ a.cert = (k \in certs)
              /\ a.cause # NoCause => a.cause[1] \in 1 .. N
<1>1. N \in Nat
  BY BoundsAssumption
<1>2. cause \in [1 .. N -> 0 .. (N - 1)] /\ when \in [1 .. N -> 1 .. N]
  BY DEF Chosen, Causes, Times
<1>3. twin = 0 \/ twin \in 2 .. N
  BY DEF Chosen, Twins
<1> DEFINE SiteOf(j) == IF j = twin THEN j - 1 ELSE j
           Prio(j) == IF j \in deletes THEN 1 ELSE 0
<1>3a. \A j \in 1 .. N : SiteOf(j) \in 1 .. N
  BY <1>1, <1>3
<1>3b. \A j \in 1 .. N : when[j] \in Nat
  BY <1>1, <1>2
<1>4. PICK c : c = cause[k]
  OBVIOUS
<1>5. PICK id : id = IF c = 0 THEN NoCause ELSE <<SiteOf(c), when[c], Prio(c)>>
  OBVIOUS
<1>6. PICK a : a = [site |-> SiteOf(k), time |-> when[k], prio |-> Prio(k), cause |-> id,
                    causeHash |-> c, hash |-> k, cert |-> k \in certs]
  OBVIOUS
<1>7. AtomOf(cause, when, deletes, certs, twin, k) = a
  BY <1>4, <1>5, <1>6 DEF AtomOf
<1>8. SiteOf(k) \in 1 .. N /\ when[k] \in Nat /\ Prio(k) \in Nat /\ c \in 0 .. (N - 1) /\ k \in Nat \ {0}
  <2>1. SiteOf(k) \in 1 .. N /\ when[k] \in Nat
    BY <1>3a, <1>3b
  <2>2. Prio(k) \in Nat /\ k \in Nat \ {0}
    BY <1>1
  <2>3. c \in 0 .. (N - 1)
    BY <1>2, <1>4
  <2> QED
    BY <2>1, <2>2, <2>3
<1>9. ASSUME c # 0
      PROVE  /\ id = <<SiteOf(c), when[c], 0>> /\ SiteOf(c) \in 1 .. N /\ when[c] \in Nat
             /\ when[c] < when[k]
  <2>1. c \in 1 .. N
    BY <1>1, <1>8, <1>9
  <2>2. c \notin Leaves(cause)
    BY <2>1, <1>4 DEF Leaves
  <2>3. Prio(c) = 0
    BY <2>2 DEF Chosen
  <2>4. when[k] > when[c]
    BY <1>4, <1>9 DEF Chosen, Times
  <2>5. id = <<SiteOf(c), when[c], Prio(c)>>
    BY <1>5, <1>9
  <2>6. when[c] < when[k]
    <3>1. when[c] \in Nat /\ when[k] \in Nat
      BY <2>1, <1>3b
    <3> QED
      BY <2>4, <3>1
  <2>7. SiteOf(c) \in 1 .. N /\ when[c] \in Nat
    BY <2>1, <1>3a, <1>3b
  <2> HIDE DEF SiteOf, Prio
  <2> QED
    BY <2>3, <2>5, <2>6, <2>7
<1>10. id \in {NoCause} \cup (Nat \X Nat \X {0})
  <2>1. CASE c = 0
    BY <2>1, <1>5
  <2>2. CASE c # 0
    <3>1. SiteOf(c) \in Nat
      BY <2>2, <1>1, <1>9
    <3> QED
      BY <3>1, <2>2, <1>9
  <2> QED
    BY <2>1, <2>2
<1>11. k \in certs => id = NoCause
  BY <1>4, <1>5 DEF Chosen, Roots
<1>12. id # NoCause => id[1] \in 1 .. N /\ id[2] < when[k]
  <2>1. c # 0 => id[1] = SiteOf(c) /\ id[2] = when[c]
    BY <1>9
  <2> QED
    BY <2>1, <1>5, <1>9
<1> HIDE DEF SiteOf, Prio
<1>13. SiteOf(k) \in Nat /\ c \in Nat
  BY <1>1, <1>8
<1>14. a \in Atom
  <2>1. a \in [site : Nat, time : Nat, prio : Nat, cause : {NoCause} \cup (Nat \X Nat \X {0}),
               causeHash : Nat, hash : Nat \ {0}, cert : BOOLEAN]
    BY <1>6, <1>8, <1>10, <1>13
  <2>2. a.cause = id /\ a.time = when[k] /\ a.cert = (k \in certs)
    BY <1>6
  <2> QED
    BY <2>1, <2>2, <1>11, <1>12 DEF Atom
<1>15. a.hash = k /\ a.site = SiteOf(k) /\ a.cert = (k \in certs) /\ a.cause = id
  BY <1>6
<1> QED
  BY <1>7, <1>8, <1>12, <1>14, <1>15 DEF SiteOf

(* The initial state has the atoms that AtomsInv says. *)
LEMMA InitAtoms == Init => AtomsInv
<1> SUFFICES ASSUME Init PROVE AtomsInv
  OBVIOUS
<1>1. PICK cause, when, deletes, certs, twin :
        /\ Chosen(cause, when, deletes, certs, twin)
        /\ others = [k \in 1 .. N |-> AtomOf(cause, when, deletes, certs, twin, k)]
  BY DEF Init, Chosen
<1>2. N \in Nat /\ MaxLocal \in Nat
  BY BoundsAssumption
<1>3. made = <<>> /\ time = 0 /\ remote = 0 /\ count = [h \in 1 .. (N + MaxLocal) |-> 0]
  BY DEF Init
<1>4. Range(made) = {} /\ Len(made) = 0 /\ made \in Seq(Atom)
  BY <1>3 DEF Range
<1>5. \A a \in KnownAtoms : \E k \in 1 .. N : a = others[k]
  BY <1>1, <1>4 DEF KnownAtoms, Range
<1> DEFINE SiteOf(j) == IF j = twin THEN j - 1 ELSE j
<1>6. \A k \in 1 .. N : /\ others[k] \in Atom /\ others[k].hash = k /\ others[k].site \in 1 .. N
                        /\ others[k].site = SiteOf(k)
                        /\ others[k].cert = (k \in certs)
                        /\ others[k].cause # NoCause => others[k].cause[1] \in 1 .. N
  <2>1. TAKE k \in 1 .. N
  <2>2. others[k] = AtomOf(cause, when, deletes, certs, twin, k)
    BY <1>1
  <2> QED
    BY <2>2, <1>1, ChosenAtoms
<1>7. Site \notin 1 .. N /\ RemoteSite \notin 1 .. N
  BY <1>2 DEF Site, RemoteSite
<1>8. \A k, l \in 1 .. N : SiteOf(k) = SiteOf(l) => (k \in certs) = (l \in certs)
  <2>1. twin = 0 \/ (twin \in 2 .. N /\ (twin \in certs) = (twin - 1 \in certs))
    BY <1>1 DEF Chosen, Twins
  <2>2. TAKE k, l \in 1 .. N
  <2>3. SiteOf(k) = SiteOf(l) => k = l \/ (k = twin /\ l = twin - 1) \/ (l = twin /\ k = twin - 1)
    BY <1>2
  <2>4. k = twin \/ l = twin => twin # 0
    BY <1>2
  <2> QED
    BY <2>1, <2>3, <2>4
<1> HIDE DEF SiteOf
<1>9. \A k, l \in 1 .. N : Id(others[k]) = Id(others[l]) => others[k].cert = others[l].cert
  BY <1>6, <1>8 DEF Id
<1>10. KnownAtoms \subseteq Atom
  BY <1>5, <1>6
<1>11. \A a \in KnownAtoms : a.hash \in 1 .. (N + Len(made))
  BY <1>2, <1>4, <1>5, <1>6
<1>12. \A a, b \in KnownAtoms : a.hash = b.hash => a = b
  BY <1>5, <1>6
<1>13. \A a, b \in KnownAtoms : Id(a) = Id(b) => a.cert = b.cert
  BY <1>5, <1>9
<1>14. \A a \in KnownAtoms : a.site # Site /\ a.site # RemoteSite
                             /\ (a.cause # NoCause => a.cause[1] # Site)
  BY <1>5, <1>6, <1>7
<1>15. count \in [1 .. (N + MaxLocal) -> Nat] /\ time \in Nat /\ remote \in Nat
  BY <1>3
<1> QED
  BY <1>2, <1>4, <1>10, <1>11, <1>12, <1>13, <1>14, <1>15 DEF AtomsInv

-----------------------------------------------------------------------------
(* The steps keep what is known of the atoms, and the weave typed.         *)

Told(r, a) == \E k \in DOMAIN r.added : r.added[k] = a

(* The atom is told of, if any is, when its ID is new. *)
Tells(r, a) == r.added # <<>> => Told(r, a)

(* The result of an atom that is inserted tells of it. *)
LEMMA WithMissingChildrenTold ==
    ASSUME NEW w, NEW M, M \subseteq Node, Typed(w, M), NEW n \in M
    PROVE  Told(WithMissingChildren(w, n), n.atom)
<1>1. PICK full : full = AddMissingChildren(w, n, FALSE)
  OBVIOUS
<1>2. Typed(full, M)
  BY <1>1, AddMissingChildrenTyped
<1>3. PICK group : group = IterateCausalGroup(full, n)
  OBVIOUS
<1>4. group \in Seq(M)
  <2>1. PICK list : list = IterateFrom(full, n)
    OBVIOUS
  <2>2. PICK j : IsGroup(M, list, group, j)
    BY <1>2, <1>3, <2>1, CausalGroup DEF Typed, Links
  <2> QED
    BY <2>2 DEF IsGroup
<1>5. 1 \in DOMAIN AtomsOf(<<n>> \o group) /\ AtomsOf(<<n>> \o group)[1] = n.atom
  <2>1. PICK s : s = <<n>> \o group
    OBVIOUS
  <2>2. DOMAIN s = 1 .. 1 + Len(group) /\ Len(group) \in Nat /\ s[1] = n
    BY <1>4, <2>1
  <2>3. 1 \in DOMAIN s
    BY <2>2
  <2>4. DOMAIN AtomsOf(s) = DOMAIN s /\ AtomsOf(s)[1] = s[1].atom
    BY <2>3 DEF AtomsOf
  <2> QED
    BY <2>1, <2>2, <2>3, <2>4
<1>6. CASE HasMissingChildren(w, n)
  <2>1. WithMissingChildren(w, n) = Result(full, "atoms_added", AtomsOf(<<n>> \o group))
    BY <1>1, <1>3, <1>6 DEF WithMissingChildren
  <2>2. WithMissingChildren(w, n).added = AtomsOf(<<n>> \o group)
    BY <2>1, ResultFields
  <2> QED
    BY <2>2, <1>5 DEF Told
<1>7. CASE ~HasMissingChildren(w, n)
  <2>1. WithMissingChildren(w, n) = Result(w, "atom_added", <<n.atom>>)
    BY <1>7 DEF WithMissingChildren
  <2>2. WithMissingChildren(w, n).added = <<n.atom>>
    BY <2>1, ResultFields
  <2>3. 1 \in DOMAIN <<n.atom>> /\ <<n.atom>>[1] = n.atom
    OBVIOUS
  <2> QED
    BY <2>2, <2>3 DEF Told
<1> QED
  BY <1>6, <1>7

(* The same, in the words of Tells. *)
LEMMA WithMissingChildrenTells ==
    ASSUME NEW w, NEW M, M \subseteq Node, Typed(w, M), NEW n \in M
    PROVE  Tells(WithMissingChildren(w, n), n.atom)
BY WithMissingChildrenTold DEF Tells

(* A result that tells of nothing. *)
LEMMA NothingTold == \A w, type, a : Tells(Result(w, type, <<>>), a)
BY ResultFields DEF Tells

(* insert() of an atom with a new ID tells of it, or of nothing. *)
LEMMA InsertTells ==
    ASSUME NEW w, NEW M, M \subseteq Node, Typed(w, M), NEW n \in M,
           Id(n.atom) \notin DOMAIN w.idMap
    PROVE  Tells(Insert(w, n), n.atom)
<1>1. PICK cause : cause = GetNode(w, n.atom.cause)
  OBVIOUS
<1>2. GetNode(w, Id(n.atom)) = Null
  BY GetNodeType
<1>3. CASE n.atom.cause = NoCause
  <2>1. Insert(w, n) = InsertRoot(w, n)
    BY <1>3 DEF Insert
  <2>2. CASE n.atom.cert /\ w.cardinality >= 1
    <3>1. InsertRoot(w, n) = Result(w, "cardinality_violated", <<>>)
      BY <1>2, <2>2 DEF InsertRoot
    <3> QED
      BY <2>1, <3>1, NothingTold
  <2>3. CASE ~(n.atom.cert /\ w.cardinality >= 1)
    <3>1. PICK u : /\ InsertRoot(w, n) = WithMissingChildren(u, n)
                   /\ u = AddRoot(IF n.atom.cert THEN [w EXCEPT !.cardinality = @ + 1] ELSE w, n)
      BY <1>2, <2>3 DEF InsertRoot
    <3>2. Typed(u, M)
      BY <1>3, <2>3, <3>1, <1>2, CountedRootTyped
    <3> QED
      BY <2>1, <3>1, <3>2, WithMissingChildrenTells
  <2> QED
    BY <2>2, <2>3
<1>4. CASE n.atom.cause # NoCause /\ cause = Null
  <2>1. Insert(w, n) = InsertEarly(w, n)
    BY <1>1, <1>4 DEF Insert
  <2>2. \E v, type : InsertEarly(w, n) = Result(v, type, <<>>)
    <3>1. PICK waits : waits = Buffered(w, n.atom.cause)
      OBVIOUS
    <3>2. PICK refusal : refusal = Refusal(n, waits)
      OBVIOUS
    <3>3. PICK size : size = Len(w.buffer)
      OBVIOUS
    <3>4. PICK u : u = AddMissingChildren(IF waits = Null THEN AddToBuffer(w, n)
                         ELSE InsertNodeUnder(AddToBuffer(w, n), waits, n, n), n, TRUE)
      OBVIOUS
    <3>5. InsertEarly(w, n) =
            CASE size >= MaxReorderBufferSize -> Result(w, "cause_not_found", <<>>)
              [] size < MaxReorderBufferSize /\ waits # Null /\ refusal # "none" ->
                   Result(w, refusal, <<>>)
              [] OTHER -> Result(u, "saved", <<>>)
      BY <3>1, <3>2, <3>3, <3>4, Zenon DEF InsertEarly
    <3>6. size \in Nat /\ MaxReorderBufferSize \in Nat
      <4>1. w.buffer \in Seq(M)
        BY DEF Typed, Stored
      <4> QED
        BY <4>1, <3>3, BufferAssumption
    <3>7. CASE size >= MaxReorderBufferSize
      <4>1. ~(size < MaxReorderBufferSize)
        BY <3>6, <3>7
      <4>2. InsertEarly(w, n) = Result(w, "cause_not_found", <<>>)
        BY ONLY <3>5, <3>7, <4>1
      <4> QED
        BY <4>2
    <3>8. CASE ~(size >= MaxReorderBufferSize) /\ size < MaxReorderBufferSize /\ waits # Null /\ refusal # "none"
      <4>1. InsertEarly(w, n) = Result(w, refusal, <<>>)
        BY ONLY <3>5, <3>8
      <4> QED
        BY <4>1
    <3>9. CASE ~(size >= MaxReorderBufferSize) /\ ~(size < MaxReorderBufferSize /\ waits # Null /\ refusal # "none")
      <4>1. InsertEarly(w, n) = Result(u, "saved", <<>>)
        BY ONLY <3>5, <3>9
      <4> QED
        BY <4>1
    <3>10. size >= MaxReorderBufferSize \/ size < MaxReorderBufferSize
      BY <3>6
    <3> QED
      BY <3>7, <3>8, <3>9, <3>10
  <2> QED
    BY <2>1, <2>2, NothingTold
<1>5. CASE n.atom.cause # NoCause /\ cause # Null
  <2>1. Insert(w, n) = IF Refusal(n, cause) # "none" THEN Result(w, Refusal(n, cause), <<>>)
                       ELSE WithMissingChildren(InsertUnder(w, cause, n), n)
    BY <1>1, <1>2, <1>5 DEF Insert
  <2>2. n \in Under(M) /\ cause \in M
    BY <1>1, <1>5, GetNodeType DEF Under
  <2>3. Typed(InsertUnder(w, cause, n), M)
    BY <2>2, InsertUnderTyped
  <2> QED
    BY <2>1, <2>3, NothingTold, WithMissingChildrenTells
<1> QED
  BY <1>3, <1>4, <1>5

-----------------------------------------------------------------------------
(* Nodes that are made stay made. *)
LEMMA MadeMore ==
    ASSUME TreeInv, KnownAtoms \subseteq KnownAtoms',
           \A h \in DOMAIN count : count'[h] >= count[h], count' \in [DOMAIN count -> Nat]
    PROVE  NodesMade \subseteq NodesMade' /\ Typed(weave, NodesMade')
<1>1. ASSUME NEW n \in NodesMade PROVE n \in NodesMade'
  <2>1. n \in Node /\ n.atom \in KnownAtoms /\ n.copy <= count[n.atom.hash] /\ n.copy \in Nat
    BY DEF NodesMade, Node
  <2>2. n.atom.hash \in DOMAIN count /\ count[n.atom.hash] \in Nat
    <3>1. n.atom.hash \in 1 .. (N + Len(made))
      BY <2>1 DEF TreeInv, AtomsInv
    <3>2. /\ Len(made) <= MaxLocal /\ DOMAIN count = 1 .. (N + MaxLocal) /\ Len(made) \in Nat
          /\ count \in [1 .. (N + MaxLocal) -> Nat] /\ N \in Nat /\ MaxLocal \in Nat
      BY BoundsAssumption DEF TreeInv, AtomsInv
    <3>3. n.atom.hash \in 1 .. (N + MaxLocal)
      BY <3>1, <3>2
    <3> QED
      BY <3>2, <3>3
  <2>3. count'[n.atom.hash] >= count[n.atom.hash] /\ count'[n.atom.hash] \in Nat
    BY <2>2
  <2>4. n.copy <= count'[n.atom.hash]
    BY ONLY <2>1, <2>2, <2>3
  <2> QED
    BY <2>1, <2>4 DEF NodesMade
<1>2. Typed(weave, NodesMade)
  BY DEF TreeInv, WeaveInv
<1> QED
  BY <1>1, <1>2, TypedMore

(* An atom's next node is made when its count is stepped, and was not before. *)
LEMMA NodeOfMade ==
    ASSUME TreeInv, NEW a \in Atom, a \in KnownAtoms', a.hash \in DOMAIN count,
           a \in KnownAtoms \/ \A b \in KnownAtoms : b.hash # a.hash,
           count' = [count EXCEPT ![a.hash] = @ + 1], KnownAtoms \subseteq KnownAtoms'
    PROVE  /\ NodeOf(a) \in NodesMade' /\ NodeOf(a) \notin NodesMade
           /\ NodesMade \subseteq NodesMade' /\ Typed(weave, NodesMade')
           /\ count' \in [DOMAIN count -> Nat]
<1>1. DOMAIN count = 1 .. (N + MaxLocal) /\ count \in [1 .. (N + MaxLocal) -> Nat]
  BY DEF TreeInv, AtomsInv
<1>2. PICK c \in Nat : c = count[a.hash]
  BY <1>1
<1>3. /\ count' \in [DOMAIN count -> Nat] /\ count'[a.hash] = c + 1
      /\ \A h \in DOMAIN count : count'[h] >= count[h]
  BY <1>1, <1>2
<1>4. NodeOf(a) = [atom |-> a, copy |-> c + 1]
  BY <1>2 DEF NodeOf
<1>5. PICK n : n = [atom |-> a, copy |-> c + 1]
  OBVIOUS
<1>6. n \in Node /\ n.atom = a /\ n.copy = c + 1
  BY <1>5 DEF Node
<1>7. n \in NodesMade'
  BY <1>3, <1>6 DEF NodesMade
<1>8. n \notin NodesMade
  <2>1. ~(c + 1 <= count[a.hash])
    BY <1>2
  <2> QED
    BY <2>1, <1>6 DEF NodesMade
<1>9. NodesMade \subseteq NodesMade' /\ Typed(weave, NodesMade')
  BY <1>3, MadeMore
<1> QED
  BY <1>3, <1>4, <1>5, <1>7, <1>8, <1>9

-----------------------------------------------------------------------------
(* The actions.                                                            *)

(* What follows of the atoms when none is made. *)
LEMMA AtomsStay ==
    ASSUME AtomsInv, others' = others, made' = made,
           count' \in [DOMAIN count -> Nat], time' \in Nat, remote' \in Nat,
           time <= time', remote <= remote'
    PROVE  AtomsInv' /\ KnownAtoms' = KnownAtoms
<1>1. KnownAtoms' = KnownAtoms
  BY DEF KnownAtoms
<1>2. count' \in [1 .. (N + MaxLocal) -> Nat]
  BY DEF AtomsInv
<1>3. time \in Nat /\ remote \in Nat
  BY DEF AtomsInv
<1>4. ASSUME NEW a \in KnownAtoms'
      PROVE  /\ a.site = Site => a.time <= time'
             /\ a.site = RemoteSite => a.time <= remote'
             /\ a.cause # NoCause /\ a.cause[1] = Site => a.cause[2] <= time'
  <2>1. /\ a.site = Site => a.time <= time
        /\ a.site = RemoteSite => a.time <= remote
        /\ a.cause # NoCause /\ a.cause[1] = Site => a.cause[2] <= time
    BY <1>1 DEF AtomsInv
  <2>2. a \in Atom
    BY <1>1 DEF AtomsInv
  <2>3. a.time \in Nat /\ (a.cause # NoCause => a.cause[2] \in Nat)
    <3>1. a.cause \in {NoCause} \cup (Nat \X Nat \X {0})
      BY <2>2 DEF Atom
    <3> QED
      BY <3>1, <2>2 DEF Atom
  <2>4. a.site = Site => a.time <= time'
    BY ONLY <2>1, <2>3, <1>3, time <= time', time' \in Nat
  <2>5. a.site = RemoteSite => a.time <= remote'
    BY ONLY <2>1, <2>3, <1>3, remote <= remote', remote' \in Nat
  <2>6. a.cause # NoCause /\ a.cause[1] = Site => a.cause[2] <= time'
    BY ONLY <2>1, <2>3, <1>3, time <= time', time' \in Nat
  <2> QED
    BY <2>4, <2>5, <2>6
<1> QED
  BY <1>1, <1>2, <1>4 DEF AtomsInv

(* The times of the atoms are numbers. *)
LEMMA AtomTimes ==
    ASSUME AtomsInv, NEW M, M \subseteq Node
    PROVE  \A a \in Atoms(M) : a.time \in Nat
BY NodeFields DEF Atoms

(* What insertAtoms does to the weave, and what it needs to know of it. *)
LEMMA InsertAtomInv ==
    ASSUME TreeInv, NEW a \in KnownAtoms, InsertAtom(a)
    PROVE  /\ TreeInv' /\ KnownAtoms' = KnownAtoms
           /\ NodeOf(a) \in NodesMade' /\ NodeOf(a) \notin NodesMade
           /\ NodesMade \subseteq NodesMade' /\ Typed(weave, NodesMade')
           /\ NodesMade' \subseteq Node /\ OneKind(NodesMade')
           /\ Past(time', time, Insert(weave, NodeOf(a)).added)
<1>1. PICK r : r = Insert(weave, NodeOf(a))
  OBVIOUS
<1>2. /\ Inserting("insert", a, r.weave, r) /\ time' = TimeAfterEach(Site, time, r.added)
      /\ remote' = remote /\ made' = made
  BY <1>1 DEF InsertAtom
<1>3. weave' = r.weave /\ count' = [count EXCEPT ![a.hash] = @ + 1] /\ others' = others
  BY <1>2 DEF Inserting
<1>4. KnownAtoms' = KnownAtoms /\ AtomsInv
  BY <1>2, <1>3 DEF KnownAtoms, TreeInv
<1>5. a \in Atom /\ a.hash \in DOMAIN count
  <2>1. a \in Atom /\ a.hash \in 1 .. (N + Len(made))
    BY <1>4 DEF AtomsInv
  <2>2. DOMAIN count = 1 .. (N + MaxLocal) /\ Len(made) \in Nat /\ Len(made) <= MaxLocal
    BY <1>4 DEF AtomsInv
  <2>3. N \in Nat /\ MaxLocal \in Nat
    BY BoundsAssumption
  <2> QED
    BY ONLY <2>1, <2>2, <2>3
<1>6. /\ NodeOf(a) \in NodesMade' /\ NodeOf(a) \notin NodesMade
      /\ NodesMade \subseteq NodesMade' /\ Typed(weave, NodesMade')
      /\ count' \in [DOMAIN count -> Nat]
  BY <1>3, <1>4, <1>5, NodeOfMade
<1>7. NodesMade' \subseteq Node /\ OneKind(NodesMade')
  <2>1. NodesMade' \subseteq Node
    BY DEF NodesMade
  <2>2. \A n \in NodesMade' : n.atom \in KnownAtoms
    BY <1>4 DEF NodesMade
  <2> QED
    BY <2>1, <2>2, <1>4 DEF AtomsInv, OneKind
<1>8. TypedResult(r, NodesMade')
  BY <1>1, <1>6, <1>7, InsertTyped
<1>9. time' \in Nat /\ time <= time' /\ Past(time', time, r.added)
  <2>1. r.added \in Seq(Atoms(NodesMade')) /\ \A b \in Atoms(NodesMade') : b.time \in Nat
    BY <1>4, <1>7, <1>8, AtomTimes DEF TypedResult
  <2>2. time \in Nat
    BY <1>4 DEF AtomsInv
  <2>3. Past(TimeAfterEach(Site, time, r.added), time, r.added)
    BY <2>1, <2>2, TimeAfterEachPast
  <2> QED
    BY <2>3, <1>2 DEF Past
<1>10. AtomsInv'
  <2>1. remote \in Nat /\ remote <= remote
    BY <1>4 DEF AtomsInv
  <2> QED
    BY <2>1, <1>2, <1>3, <1>4, <1>6, <1>9, AtomsStay
<1>11. WeaveInv'
  BY <1>3, <1>8 DEF TypedResult, WeaveInv
<1> QED
  BY <1>1, <1>4, <1>6, <1>7, <1>9, <1>10, <1>11 DEF TreeInv

-----------------------------------------------------------------------------
(* An atom of the site: under its clock or its remote site's, and under a  *)
(* node of the weave that is no delete atom, or a root.                    *)
IsNew(op, a) ==
    /\ a \in [site : {Site, RemoteSite}, time : Nat, prio : {0, 1},
              cause : {NoCause} \cup (Nat \X Nat \X {0}), causeHash : Nat,
              hash : {N + Len(made) + 1}, cert : BOOLEAN]
    /\ a.site = Site => a.time > time
    /\ a.site = RemoteSite => a.time > remote
    /\ a.cert => a.cause = NoCause
    /\ a.cause # NoCause =>
         /\ a.cause \in DOMAIN weave.idMap
         /\ a.causeHash = weave.idMap[a.cause].atom.hash
         /\ a.cause[2] = weave.idMap[a.cause].atom.time
    /\ op \in {"here", "supersede"} =>
         a.site = Site /\ a.time = time + 1 /\ ~a.cert

(* createAtom makes atoms as IsNew says. *)
LEMMA NewAtoms ==
    ASSUME TreeInv, NEW add \in AddHere \cup AddCertificate \cup AddRemote
    PROVE  IsNew(add[1], add[2])
<1>1. /\ time \in Nat /\ remote \in Nat /\ made \in Seq(Atom) /\ Len(made) \in Nat
      /\ N \in Nat /\ Site \in Nat /\ RemoteSite \in Nat
      /\ Site # RemoteSite
  BY BoundsAssumption DEF TreeInv, AtomsInv, Site, RemoteSite
<1>2. ASSUME NEW n \in Parents
      PROVE  /\ n \in Node /\ Id(n.atom) \in Nat \X Nat \X {0} /\ n.atom.hash \in Nat
             /\ Id(n.atom) \in DOMAIN weave.idMap /\ weave.idMap[Id(n.atom)] = n
             /\ Id(n.atom)[2] = n.atom.time /\ n # Null /\ Id(n.atom) # NoCause
  <2>1. PICK id \in DOMAIN weave.idMap : n = weave.idMap[id] /\ n.atom.prio = 0
    BY <1>2 DEF Parents
  <2>2. n \in Node /\ Id(n.atom) = id
    <3>1. weave.idMap \in [DOMAIN weave.idMap -> NodesMade] /\ Id(weave.idMap[id].atom) = id
      BY <2>1 DEF TreeInv, WeaveInv, Typed, Stored
    <3> QED
      BY <3>1, <2>1 DEF NodesMade
  <2>3. n.atom.site \in Nat /\ n.atom.time \in Nat /\ n.atom.hash \in Nat /\ n # Null
    BY <2>2, NodeFields
  <2>4. Id(n.atom) = <<n.atom.site, n.atom.time, 0>>
    BY <2>1 DEF Id
  <2>5. Id(n.atom) # NoCause /\ Id(n.atom)[2] = n.atom.time
    BY <2>4 DEF NoCause
  <2>6. Id(n.atom) \in Nat \X Nat \X {0}
    BY ONLY <2>3, <2>4
  <2>7. Id(n.atom) \in DOMAIN weave.idMap /\ weave.idMap[Id(n.atom)] = n
    BY <2>1, <2>2
  <2> QED
    BY ONLY <2>2, <2>3, <2>5, <2>6, <2>7
<1>3. ASSUME NEW site \in {Site, RemoteSite}, NEW t, t = (IF site = Site THEN time ELSE remote),
             NEW n \in Parents, NEW p \in {0, 1}
      PROVE  /\ \A op : (op \in {"here", "supersede"} => site = Site)
                        => IsNew(op, NewAtom(site, t, n, p))
  <2>1. PICK a : a = NewAtom(site, t, n, p)
    OBVIOUS
  <2>2. a = [site |-> site, time |-> t + 1, prio |-> p, cause |-> Id(n.atom),
             causeHash |-> n.atom.hash, hash |-> N + Len(made) + 1, cert |-> FALSE]
    BY <2>1, <1>2 DEF NewAtom
  <2>3. /\ a.site = site /\ a.time = t + 1 /\ a.cause = Id(n.atom)
        /\ a.causeHash = n.atom.hash /\ a.cert = FALSE /\ t \in Nat /\ t + 1 \in Nat
    BY <2>2, <1>1, <1>3
  <2>4. a \in [site : {Site, RemoteSite}, time : Nat, prio : {0, 1},
               cause : {NoCause} \cup (Nat \X Nat \X {0}), causeHash : Nat,
               hash : {N + Len(made) + 1}, cert : BOOLEAN]
    BY <2>2, <2>3, <1>2, <1>3
  <2>5. (a.site = Site => a.time > time) /\ (a.site = RemoteSite => a.time > remote)
    BY <2>3, <1>1, <1>3
  <2>6. a.cause[2] = n.atom.time /\ weave.idMap[a.cause] = n /\ a.cause \in DOMAIN weave.idMap
    BY <2>3, <1>2
  <2>7. site = Site => a.time = time + 1
    BY <2>3, <1>3
  <2> QED
    BY <2>1, <2>3, <2>4, <2>5, <2>6, <2>7 DEF IsNew
<1>4. ASSUME NEW cert \in BOOLEAN, NEW a,
             a = [site |-> Site, time |-> time + 1, prio |-> 0, cause |-> NoCause,
                  causeHash |-> 0, hash |-> N + Len(made) + 1, cert |-> cert]
      PROVE  \A op : (op \in {"here", "supersede"} => ~cert) => IsNew(op, a)
  <2>1. a.site = Site /\ a.time = time + 1 /\ a.cause = NoCause /\ a.cert = cert
    BY <1>4
  <2>2. a \in [site : {Site, RemoteSite}, time : Nat, prio : {0, 1},
               cause : {NoCause} \cup (Nat \X Nat \X {0}), causeHash : Nat,
               hash : {N + Len(made) + 1}, cert : BOOLEAN]
    BY <1>1, <1>4
  <2>3. (a.site = Site => a.time > time) /\ (a.site = RemoteSite => a.time > remote)
    BY <2>1, <1>1
  <2> QED
    BY <2>1, <2>2, <2>3 DEF IsNew
<1>5. PICK root : root = NewAtom(Site, time, Null, 0)
  OBVIOUS
<1>6. root = [site |-> Site, time |-> time + 1, prio |-> 0, cause |-> NoCause,
              causeHash |-> 0, hash |-> N + Len(made) + 1, cert |-> FALSE]
  <2>1. Null.atom.hash = 0
    BY DEF Null
  <2> QED
    BY <1>5, <2>1 DEF NewAtom
<1>7. CASE add = <<"here", root>>
  BY <1>4, <1>6, <1>7
<1>8. CASE add \in AddCertificate
  <2>1. PICK a : a = [root EXCEPT !.cert = TRUE]
    OBVIOUS
  <2>2. a = [site |-> Site, time |-> time + 1, prio |-> 0, cause |-> NoCause,
             causeHash |-> 0, hash |-> N + Len(made) + 1, cert |-> TRUE]
    BY <1>6, <2>1
  <2>3. add = <<"cert", a>>
    BY <1>5, <1>8, <2>1 DEF AddCertificate
  <2>4. "cert" \notin {"here", "supersede"}
    OBVIOUS
  <2> QED
    BY <2>2, <2>3, <2>4, <1>4
<1>9. CASE add \in {<<op, NewAtom(Site, time, n, p)>> :
                      op \in {"here", "supersede"}, n \in Parents, p \in {0, 1}}
  <2>1. PICK op \in {"here", "supersede"}, n \in Parents, p \in {0, 1} :
          add = <<op, NewAtom(Site, time, n, p)>>
    BY <1>9
  <2> QED
    BY <2>1, <1>3
<1>10. CASE add \in AddRemote
  <2>1. PICK n \in Parents, p \in {0, 1} :
          add = <<"remote", NewAtom(RemoteSite, remote, n, p)>>
    BY <1>10 DEF AddRemote
  <2>2. "remote" \notin {"here", "supersede"}
    OBVIOUS
  <2> QED
    BY <2>1, <2>2, <1>1, <1>3
<1> QED
  BY <1>5, <1>7, <1>8, <1>9, <1>10 DEF AddHere

(* No atom that is known has the ID or the hash of a new one. *)
LEMMA NewAtomIsNew ==
    ASSUME TreeInv, NEW op, NEW a, IsNew(op, a)
    PROVE  /\ \A b \in KnownAtoms : Id(b) # Id(a) /\ b.hash # a.hash
           /\ Id(a) \notin DOMAIN weave.idMap
           /\ a.hash = N + Len(made) + 1 /\ Len(made) \in Nat /\ N \in Nat
<1>1. a.site \in {Site, RemoteSite} /\ a.time \in Nat /\ a.hash = N + Len(made) + 1
  BY DEF IsNew
<1>2. Len(made) \in Nat /\ N \in Nat /\ time \in Nat /\ remote \in Nat
  BY BoundsAssumption DEF TreeInv, AtomsInv
<1>3. ASSUME NEW b \in KnownAtoms PROVE Id(b) # Id(a) /\ b.hash # a.hash
  <2>1. /\ b.site = Site => b.time <= time
        /\ b.site = RemoteSite => b.time <= remote
        /\ b.hash \in 1 .. (N + Len(made)) /\ b \in Atom
    BY DEF TreeInv, AtomsInv
  <2>2. b.time \in Nat
    BY <2>1 DEF Atom
  <2>3. SUFFICES ASSUME Id(b) = Id(a) PROVE FALSE
    BY <1>1, <1>2, <2>1
  <2>4. b.site = a.site /\ b.time = a.time
    BY <2>3 DEF Id
  <2>5. (a.site = Site => a.time > time) /\ (a.site = RemoteSite => a.time > remote)
    BY DEF IsNew
  <2> QED
    BY <1>1, <1>2, <2>1, <2>2, <2>4, <2>5
<1>4. ASSUME Id(a) \in DOMAIN weave.idMap PROVE FALSE
  <2>1. weave.idMap[Id(a)] \in NodesMade /\ Id(weave.idMap[Id(a)].atom) = Id(a)
    BY <1>4 DEF TreeInv, WeaveInv, Typed, Stored
  <2> QED
    BY <2>1, <1>3 DEF NodesMade
<1> QED
  BY <1>1, <1>2, <1>3, <1>4

(* An atom older than its cause is refused. *)
LEMMA NewAtomKept ==
    ASSUME TreeInv, NEW op, NEW a, IsNew(op, a), Insert(weave, NodeOf(a)).added # <<>>
    PROVE  a \in Atom
<1>1. a.cause # NoCause => a.cause[2] < a.time
  <2>1. SUFFICES ASSUME a.cause # NoCause, ~(a.cause[2] < a.time) PROVE FALSE
    OBVIOUS
  <2>2. PICK cause : cause = GetNode(weave, a.cause)
    OBVIOUS
  <2>3. /\ a.cause \in DOMAIN weave.idMap /\ weave.idMap[a.cause] \in Node
        /\ a.causeHash = weave.idMap[a.cause].atom.hash
        /\ a.cause[2] = weave.idMap[a.cause].atom.time
    BY <2>1 DEF IsNew, TreeInv, WeaveInv, Typed, Stored, NodesMade
  <2>4. cause = weave.idMap[a.cause] /\ cause # Null
    BY <2>2, <2>3, NullIsNoNode DEF GetNode, At
  <2>5. cause.atom.time \in Nat /\ a.time \in Nat
    BY <2>3, <2>4, NodeFields DEF IsNew
  <2>6. a.time <= cause.atom.time
    BY <2>1, <2>3, <2>4, <2>5
  <2>7. PICK n : n = NodeOf(a)
    OBVIOUS
  <2>8. n.atom = a
    BY <2>7 DEF NodeOf
  <2>9. Refusal(n, cause) = "invalid_timestamp"
    BY <2>3, <2>4, <2>6, <2>8 DEF Refusal
  <2>10. Insert(weave, n) = Result(weave, "invalid_timestamp", <<>>)
    BY <2>1, <2>2, <2>4, <2>8, <2>9 DEF Insert
  <2> QED
    BY <2>7, <2>10, ResultFields
<1>2. a.hash \in Nat \ {0} /\ a.site \in Nat /\ a.prio \in Nat
  BY NewAtomIsNew, BoundsAssumption DEF IsNew, Site, RemoteSite
<1>3. a \in [site : Nat, time : Nat, prio : Nat,
             cause : {NoCause} \cup (Nat \X Nat \X {0}), causeHash : Nat,
             hash : Nat \ {0}, cert : BOOLEAN]
  BY <1>2 DEF IsNew
<1> QED
  BY <1>1, <1>3 DEF IsNew, Atom

(* addAtom when the atom is kept. *)
Kept(op, a, r) ==
    /\ Len(made) < MaxLocal
    /\ r = Insert(weave, NodeOf(a)) /\ r.added # <<>>
    /\ made' = Append(made, a)
    /\ \E w : /\ w = IF op = "supersede" THEN RemoveSiblingsBefore(r.weave, a) ELSE r.weave
              /\ Inserting(op, a, w, r)
    /\ time' = UpdateSite(Site, time, r.added)
    /\ remote' = UpdateSite(RemoteSite, remote, r.added)

(* What is known of the atoms after addAtom kept one. *)
LEMMA KeptAtoms ==
    ASSUME TreeInv, NEW op, NEW a, IsNew(op, a), NEW r, Kept(op, a, r)
    PROVE  /\ KnownAtoms' = KnownAtoms \cup {a} /\ a \in Atom
           /\ made' \in Seq(Atom) /\ Len(made') = Len(made) + 1 /\ made'[Len(made')] = a
           /\ a.hash \in DOMAIN count
           /\ NodeOf(a) \in NodesMade' /\ NodeOf(a) \notin NodesMade
           /\ NodesMade \subseteq NodesMade' /\ Typed(weave, NodesMade')
           /\ NodesMade' \subseteq Node /\ OneKind(NodesMade')
           /\ count' \in [DOMAIN count -> Nat]
<1>1. a \in Atom
  BY NewAtomKept DEF Kept
<1>2. /\ made \in Seq(Atom) /\ Len(made) \in Nat /\ Len(made) < MaxLocal
      /\ DOMAIN count = 1 .. (N + MaxLocal) /\ N \in Nat /\ MaxLocal \in Nat
  BY BoundsAssumption DEF TreeInv, AtomsInv, Kept
<1>3. made' = Append(made, a) /\ others' = others /\ count' = [count EXCEPT ![a.hash] = @ + 1]
  BY DEF Kept, Inserting
<1>4. /\ made' \in Seq(Atom) /\ Len(made') = Len(made) + 1 /\ made'[Len(made')] = a
      /\ Range(made') = Range(made) \cup {a}
  <2>1. PICK m : m = Append(made, a)
    OBVIOUS
  <2>2. m \in Seq(Atom) /\ Len(m) = Len(made) + 1 /\ m[Len(made) + 1] = a
    BY <1>1, <1>2, <2>1
  <2>3. Range(m) = Range(made) \cup {a}
    BY <1>1, <1>2, <2>1, AppendedElements
  <2> QED
    BY <1>3, <2>1, <2>2, <2>3
<1>5. KnownAtoms' = KnownAtoms \cup {a}
  BY <1>3, <1>4 DEF KnownAtoms
<1>6. a.hash \in DOMAIN count
  BY <1>2, NewAtomIsNew
<1>7. \A b \in KnownAtoms : b.hash # a.hash /\ Id(b) # Id(a)
  BY NewAtomIsNew
<1>8. /\ NodeOf(a) \in NodesMade' /\ NodeOf(a) \notin NodesMade
      /\ NodesMade \subseteq NodesMade' /\ Typed(weave, NodesMade')
      /\ count' \in [DOMAIN count -> Nat]
  BY <1>1, <1>3, <1>5, <1>6, <1>7, NodeOfMade
<1>9. NodesMade' \subseteq Node
  BY DEF NodesMade
<1>10. OneKind(NodesMade')
  <2>1. \A b, c \in KnownAtoms' : Id(b) = Id(c) => b.cert = c.cert
    BY <1>5, <1>7 DEF TreeInv, AtomsInv
  <2> QED
    BY <2>1 DEF OneKind, NodesMade
<1> QED
  BY <1>1, <1>4, <1>5, <1>6, <1>8, <1>9, <1>10

(* addAtom keeps the invariant, and the clocks step past the atom. *)
LEMMA KeptInv ==
    ASSUME TreeInv, NEW op, NEW a, IsNew(op, a), NEW r, Kept(op, a, r)
    PROVE  /\ TreeInv' /\ time <= time' /\ remote <= remote' /\ a.time <= time'
           /\ TypedResult(r, NodesMade')
           /\ Past(time', time, r.added) /\ \A b \in Atoms(NodesMade') : b.time \in Nat
<1>1. /\ KnownAtoms' = KnownAtoms \cup {a} /\ a \in Atom
      /\ made' \in Seq(Atom) /\ Len(made') = Len(made) + 1
      /\ NodeOf(a) \in NodesMade' /\ Typed(weave, NodesMade')
      /\ NodesMade' \subseteq Node /\ OneKind(NodesMade')
      /\ count' \in [DOMAIN count -> Nat]
  BY KeptAtoms
<1>2. TypedResult(r, NodesMade')
  BY <1>1, InsertTyped DEF Kept
<1>3. Tells(r, a)
  <2>1. NodeOf(a).atom = a
    BY DEF NodeOf
  <2>2. Id(NodeOf(a).atom) \notin DOMAIN weave.idMap
    BY <2>1, NewAtomIsNew
  <2> QED
    BY <1>1, <2>1, <2>2, InsertTells DEF Kept
<1>4. r.added \in Seq(Atoms(NodesMade')) /\ \A b \in Atoms(NodesMade') : b.time \in Nat
  BY <1>1, <1>2, AtomTimes DEF TypedResult, TreeInv
<1>5. time \in Nat /\ remote \in Nat
  BY DEF TreeInv, AtomsInv
<1>6. Past(time', time, r.added) /\ Past(remote', remote, r.added)
  BY <1>4, <1>5, UpdateSitePast DEF Kept
<1>7. /\ time' \in Nat /\ remote' \in Nat /\ time <= time' /\ remote <= remote'
      /\ a.time <= time' /\ a.time <= remote'
  <2>1. PICK k \in DOMAIN r.added : r.added[k] = a
    BY <1>3 DEF Tells, Told, Kept
  <2> QED
    BY <2>1, <1>6 DEF Past
<1>8. a.time \in Nat /\ (a.cause # NoCause => a.cause[2] \in Nat /\ a.cause[2] < a.time)
  <2>1. a.cause \in {NoCause} \cup (Nat \X Nat \X {0})
    BY <1>1 DEF Atom
  <2> QED
    BY <2>1, <1>1 DEF Atom
<1>9. ASSUME NEW b \in KnownAtoms'
      PROVE  /\ b.site = Site => b.time <= time'
             /\ b.site = RemoteSite => b.time <= remote'
             /\ b.cause # NoCause /\ b.cause[1] = Site => b.cause[2] <= time'
  <2>1. CASE b = a
    <3>1. b.cause # NoCause => b.cause[2] <= time'
      BY <2>1, <1>7, <1>8
    <3> QED
      BY <2>1, <3>1, <1>7
  <2>2. CASE b \in KnownAtoms
    <3>1. /\ b.site = Site => b.time <= time
          /\ b.site = RemoteSite => b.time <= remote
          /\ b.cause # NoCause /\ b.cause[1] = Site => b.cause[2] <= time
          /\ b \in Atom
      BY <2>2 DEF TreeInv, AtomsInv
    <3>2. b.time \in Nat /\ (b.cause # NoCause => b.cause[2] \in Nat)
      <4>1. b.cause \in {NoCause} \cup (Nat \X Nat \X {0})
        BY <3>1 DEF Atom
      <4> QED
        BY <4>1, <3>1 DEF Atom
    <3>3. b.site = Site => b.time <= time'
      BY ONLY <3>1, <3>2, <1>5, <1>7
    <3>4. b.site = RemoteSite => b.time <= remote'
      BY ONLY <3>1, <3>2, <1>5, <1>7
    <3>5. b.cause # NoCause /\ b.cause[1] = Site => b.cause[2] <= time'
      BY ONLY <3>1, <3>2, <1>5, <1>7
    <3> QED
      BY <3>3, <3>4, <3>5
  <2> QED
    BY <2>1, <2>2, <1>1
<1>10. /\ \A b \in KnownAtoms : Id(b) # Id(a) /\ b.hash # a.hash
       /\ a.hash = N + Len(made) + 1 /\ Len(made) \in Nat /\ N \in Nat /\ MaxLocal \in Nat
       /\ Len(made) < MaxLocal
  BY NewAtomIsNew, BoundsAssumption DEF Kept
<1>11. \A b \in KnownAtoms' : b.hash \in 1 .. (N + Len(made'))
  <2>1. \A b \in KnownAtoms : b.hash \in 1 .. (N + Len(made))
    BY DEF TreeInv, AtomsInv
  <2>2. a.hash \in 1 .. (N + Len(made'))
    BY <1>1, <1>10
  <2>3. \A h \in 1 .. (N + Len(made)) : h \in 1 .. (N + Len(made'))
    BY <1>1, <1>10
  <2> QED
    BY <1>1, <2>1, <2>2, <2>3
<1>12. \A b, c \in KnownAtoms' : /\ b.hash = c.hash => b = c
                                 /\ Id(b) = Id(c) => b.cert = c.cert
  BY <1>1, <1>10 DEF TreeInv, AtomsInv
<1>13. Len(made') <= MaxLocal
  BY <1>1, <1>10
<1>14. KnownAtoms' \subseteq Atom /\ count' \in [1 .. (N + MaxLocal) -> Nat]
  BY <1>1 DEF TreeInv, AtomsInv
<1>15. AtomsInv'
  BY <1>1, <1>7, <1>9, <1>11, <1>12, <1>13, <1>14 DEF AtomsInv
<1>16. WeaveInv'
  <2>1. weave' = r.weave \/ weave' = RemoveSiblingsBefore(r.weave, a)
    BY DEF Kept, Inserting
  <2> QED
    BY <1>1, <1>2, <2>1, RemoveSiblingsBeforeTyped DEF TypedResult, WeaveInv
<1> QED
  BY <1>2, <1>4, <1>6, <1>7, <1>15, <1>16 DEF TreeInv

(* A step that changes none of these keeps the invariant. *)
LEMMA StutterInv ==
    ASSUME TreeInv, UNCHANGED <<others, weave, time, remote, made, count>>
    PROVE  TreeInv' /\ KnownAtoms' = KnownAtoms /\ NodesMade' = NodesMade
<1>1. KnownAtoms' = KnownAtoms
  BY DEF KnownAtoms
<1>2. NodesMade' = NodesMade
  BY <1>1 DEF NodesMade
<1>3. AtomsInv'
  BY <1>1 DEF TreeInv, AtomsInv
<1>4. WeaveInv'
  BY <1>2 DEF TreeInv, WeaveInv
<1> QED
  BY <1>1, <1>2, <1>3, <1>4 DEF TreeInv

(* addAtom keeps the atom or leaves everything as it is. *)
LEMMA AddAtomKeeps ==
    ASSUME TreeInv, NEW op, NEW a, AddAtom(op, a)
    PROVE  \E r : \/ Kept(op, a, r)
                  \/ /\ r = Insert(weave, NodeOf(a)) /\ r.added = <<>>
                     /\ UNCHANGED <<others, weave, time, remote, made, count, removals,
                                    refused, removed, repeated>>
                     /\ last' = <<op, r.type, 0>>
<1>1. PICK r : r = Insert(weave, NodeOf(a))
  OBVIOUS
<1>2. CASE r.added = <<>>
  <2>1. UpdateSite(Site, time, r.added) = time /\ UpdateSite(RemoteSite, remote, r.added) = remote
    BY <1>2 DEF UpdateSite
  <2> QED
    BY <1>1, <1>2, <2>1 DEF AddAtom
<1>3. CASE r.added # <<>>
  <2>1. Kept(op, a, r)
    BY <1>1, <1>3 DEF AddAtom, Kept
  <2> QED
    BY <2>1
<1> QED
  BY <1>2, <1>3

(* removeAtoms keeps the invariant. *)
LEMMA RemoveHashInv ==
    ASSUME TreeInv, NEW h, RemoveHash(h)
    PROVE  /\ TreeInv' /\ KnownAtoms' = KnownAtoms /\ NodesMade' = NodesMade
           /\ weave.hashMap[h] \in NodesMade
<1>1. KnownAtoms' = KnownAtoms
  BY DEF KnownAtoms, RemoveHash
<1>2. NodesMade' = NodesMade
  BY <1>1 DEF NodesMade, RemoveHash
<1>3. AtomsInv'
  BY <1>1 DEF TreeInv, AtomsInv, RemoveHash
<1>4. Typed(weave, NodesMade) /\ NodesMade \subseteq Node
  BY DEF TreeInv, WeaveInv, NodesMade
<1>5. weave.hashMap[h] \in NodesMade
  BY <1>4 DEF RemoveHash, Typed, Stored
<1>6. Typed(weave', NodesMade')
  BY <1>2, <1>4, RemoveAtomTyped DEF RemoveHash
<1> QED
  BY <1>1, <1>2, <1>3, <1>5, <1>6 DEF TreeInv, WeaveInv

(* The invariant holds at first. *)
LEMMA InitTree == Init => TreeInv
<1> SUFFICES ASSUME Init PROVE TreeInv
  OBVIOUS
<1>1. weave = EmptyWeave
  BY DEF Init
<1> QED
  BY <1>1, InitAtoms, EmptyWeaveTyped DEF TreeInv, WeaveInv

(* Every step keeps it. *)
LEMMA NextTree == TreeInv /\ [Next]_vars => TreeInv'
<1> SUFFICES ASSUME TreeInv, [Next]_vars PROVE TreeInv'
  OBVIOUS
<1>1. ASSUME NEW a \in Range(others) \cup Range(made), InsertAtom(a) PROVE TreeInv'
  BY <1>1, InsertAtomInv DEF KnownAtoms
<1>2. ASSUME NEW add \in AddHere \cup AddCertificate \cup AddRemote, AddAtom(add[1], add[2])
      PROVE  TreeInv'
  <2>1. IsNew(add[1], add[2])
    BY NewAtoms
  <2>2. PICK r : \/ Kept(add[1], add[2], r)
                 \/ UNCHANGED <<others, weave, time, remote, made, count>>
    BY <1>2, AddAtomKeeps
  <2> QED
    BY <2>1, <2>2, KeptInv, StutterInv
<1>3. ASSUME NEW h, RemoveHash(h) PROVE TreeInv'
  BY <1>3, RemoveHashInv
<1>4. CASE UNCHANGED vars
  BY <1>4, StutterInv DEF vars
<1> QED
  BY <1>1, <1>2, <1>3, <1>4 DEF Next

(* The invariant of the atoms and of the typed weave holds in every state, *)
(* whatever arrives, is made and is removed (CausalTree2.ts insertAtoms,   *)
(* removeAtoms, addAtom).                                                  *)
THEOREM TreeAlways == Spec => []TreeInv
BY InitTree, NextTree, PTL DEF Spec

(* The maps are well formed, the clocks are numbers, the buffer keeps its  *)
(* limit and one certificate is counted (Weave2.ts insert, _addNodeToMaps).*)
THEOREM TreeIsTyped == Spec => []TypeOK
<1>1. TreeInv => TypeOK
  BY DEF TreeInv, AtomsInv, WeaveInv, Typed, Stored, TypeOK
<1> QED
  BY <1>1, TreeAlways, PTL

(* At most one certificate is in the tree (Weave2.ts _insertRoot and its   *)
(* cardinality check).                                                     *)
THEOREM OneCertificateCounted == Spec => []OneCertificate
<1>1. TreeInv => OneCertificate
  <2> SUFFICES ASSUME TreeInv PROVE OneCertificate
    OBVIOUS
  <2> DEFINE certs == {a \in RootAtoms(weave) : a.cert}
  <2>1. \A a, b \in certs : a = b
    BY DEF TreeInv, WeaveInv, Typed, Certified, RootAtoms, Range
  <2>2. CASE certs = {}
    BY <2>2, FS_EmptySet DEF OneCertificate
  <2>3. CASE certs # {}
    <3>1. PICK a : certs = {a}
      BY <2>1, <2>3
    <3> HIDE DEF certs
    <3>2. Cardinality(certs) = 1
      BY <3>1, FS_Singleton
    <3> QED
      BY <3>2 DEF certs, OneCertificate
  <2> QED
    BY <2>2, <2>3
<1> QED
  BY <1>1, TreeAlways, PTL

-----------------------------------------------------------------------------
(* The lists of a weave.                                                   *)

InMap(w) == {w.idMap[id] : id \in DOMAIN w.idMap}

Waiting(w) == Range(w.buffer)

(* G has chains of nodes of M that have no node in common, each with its   *)
(* oldest node first.                                                      *)
Lists(w, M, G) ==
    /\ \A s \in G : s \in Seq(M) /\ Chain(w, s)
    /\ \A s, t \in G : Range(s) \cap Range(t) # {} => s = t
    /\ \A s \in G : \A k \in 2 .. Len(s) : s[k].atom.time > s[1].atom.time

(* The elements of a sequence. *)
LEMMA RangeOf ==
    ASSUME NEW M, NEW s \in Seq(M)
    PROVE  /\ Range(s) \subseteq M
           /\ \A k \in 1 .. Len(s) : s[k] \in Range(s)
           /\ \A x \in Range(s) : \E k \in 1 .. Len(s) : x = s[k]
           /\ Len(s) \in Nat
BY DEF Range

(* A node that nothing points to or from is a list. *)
LEMMA ListsAlone ==
    ASSUME NEW w, NEW M, M \subseteq Node, NEW G, Lists(w, M, G), NEW n \in M,
           At(w.next, n) = Null, At(w.prev, n) = Null, \A s \in G : n \notin Range(s)
    PROVE  Lists(w, M, G \cup {<<n>>})
<1>1. PICK t : t = <<n>>
  OBVIOUS
<1>2. /\ t \in Seq(M) /\ t \in Seq(Node) /\ Len(t) = 1 /\ t[1] = n /\ DOMAIN t = {1}
      /\ Range(t) = {n}
  BY <1>1 DEF Range
<1>3. Chain(w, t)
  <2>1. \A k \in 2 .. Len(t) : FALSE
    BY <1>2
  <2>2. Distinct(t)
    BY <1>2 DEF Distinct
  <2> QED
    BY <1>2, <2>1, <2>2 DEF Chain
<1>4. \A k \in 2 .. Len(t) : FALSE
  BY <1>2
<1>5. \A s \in G : Range(s) \cap Range(t) = {}
  BY <1>2
<1>6. \A s \in G \cup {t} : s \in Seq(M) /\ Chain(w, s)
  BY <1>2, <1>3 DEF Lists
<1>7. \A s, u \in G \cup {t} : Range(s) \cap Range(u) # {} => s = u
  BY <1>5 DEF Lists
<1>8. \A s \in G \cup {t} : \A k \in 2 .. Len(s) : s[k].atom.time > s[1].atom.time
  BY <1>4 DEF Lists
<1> QED
  BY <1>1, <1>6, <1>7, <1>8 DEF Lists

(* The lists s and t have become u. *)
Merged(w, v, M, G, s, i, t, u) ==
    /\ Links(v, M) /\ Relinked(w, v)
    /\ Lists(v, M, (G \ {s, t}) \cup {u})
    /\ \E p, j : InsertedAt(w, v, s, i, j, p, t) /\ IsSplice(M, s, p, t, u)

(* _insertNodeUnder of a list under a node of another makes one list of the*)
(* two.                                                                    *)
LEMMA ListsMerge ==
    ASSUME NEW w, NEW M, M \subseteq Node, Links(w, M), NEW G, Lists(w, M, G),
           NEW s \in G, NEW i \in 1 .. Len(s), NEW t \in G, t # s, t[1] \in Under(M),
           t[1].atom.time > s[i].atom.time
    PROVE  \E u : Merged(w, InsertNodeUnder(w, s[i], t[1], t[Len(t)]), M, G, s, i, t, u)
<1>1. /\ s \in Seq(M) /\ t \in Seq(M) /\ Chain(w, s) /\ Chain(w, t)
      /\ Range(s) \cap Range(t) = {}
      /\ Len(s) \in Nat /\ Len(t) \in Nat /\ Len(t) >= 1 /\ Len(s) >= 1
  BY DEF Lists, Chain
<1>2. PICK v : v = InsertNodeUnder(w, s[i], t[1], t[Len(t)])
  OBVIOUS
<1>3. \E p, j : InsertedAt(w, v, s, i, j, p, t)
  BY <1>1, <1>2, InsertNodeUnderChain
<1>4. PICK p, j : InsertedAt(w, v, s, i, j, p, t)
  BY <1>3
<1>5. Links(v, M) /\ Relinked(w, v)
  <2>1. s[i] \in M /\ t[Len(t)] \in M
    <3>1. Len(t) \in 1 .. Len(t)
      BY <1>1
    <3> QED
      BY <1>1, <3>1
  <2> QED
    BY <2>1, <1>2, InsertNodeUnderLinks
<1>6. p \in 1 .. Len(s) /\ Spliced(w, v, s, p, t)
  <2>1. j \in i .. Len(s) /\ p \in i .. j
    BY <1>4 DEF InsertedAt, GroupTo
  <2> QED
    BY <2>1, <1>1, <1>4 DEF InsertedAt
<1>7. PICK u : u = Splice(s, p, t)
  OBVIOUS
<1>8. IsSplice(M, s, p, t, u)
  BY <1>1, <1>6, <1>7, SpliceElements
<1>9. Chain(v, u) /\ u \in Seq(M) /\ Range(u) = Range(s) \cup Range(t)
  <2>1. Chain(v, u)
    BY <1>1, <1>6, <1>7, SpliceChain
  <2> QED
    BY <2>1, <1>8 DEF IsSplice
<1>10. ASSUME NEW x \in G \ {s, t}
       PROVE  x \in Seq(M) /\ Chain(v, x) /\ Range(x) \cap Range(u) = {}
  <2>1. x \in Seq(M) /\ Chain(w, x) /\ Range(x) \cap Range(s) = {} /\ Range(x) \cap Range(t) = {}
    BY DEF Lists
  <2>2. Range(x) \cap (Range(s) \cup Range(t)) = {}
    BY <2>1
  <2>3. Chain(v, x)
    BY <1>1, <1>6, <2>1, <2>2, SpliceOthers
  <2> QED
    BY <1>9, <2>1, <2>2, <2>3
<1>11. \A k \in 2 .. Len(u) : u[k].atom.time > u[1].atom.time
  <2>1. TAKE k \in 2 .. Len(u)
  <2>2. /\ u[1] = s[1] /\ u[k] \in Range(u) /\ Len(u) \in Nat /\ u[1] \in Range(u)
    <3>1. k \in 1 .. Len(u) /\ 1 \in 1 .. Len(u) /\ Len(u) \in Nat
      BY <1>9
    <3> QED
      BY <3>1, <1>8, <1>9, RangeOf DEF IsSplice
  <2>3. u[k] # u[1]
    <3>1. k \in DOMAIN u /\ 1 \in DOMAIN u /\ k # 1
      BY <1>9
    <3> QED
      BY <3>1, <1>9 DEF Chain, Distinct
  <2>4. s[1] \in M /\ s[i] \in M /\ t[1] \in M
    BY <1>1, RangeOf DEF Under
  <2>5. s[1].atom.time \in Nat /\ s[i].atom.time \in Nat /\ t[1].atom.time \in Nat
    BY <2>4, NodeFields
  <2>6. s[1].atom.time <= s[i].atom.time
    <3>1. CASE i = 1
      BY <3>1, <2>5
    <3>2. CASE i # 1
      <4>1. i \in 2 .. Len(s)
        BY <1>1, <3>2
      <4>2. s[i].atom.time > s[1].atom.time
        BY <4>1 DEF Lists
      <4> QED
        BY <4>2, <2>5
    <3> QED
      BY <3>1, <3>2
  <2>7. CASE u[k] \in Range(s)
    <3>1. PICK l \in 1 .. Len(s) : u[k] = s[l]
      BY <1>1, <2>7, RangeOf
    <3>2. l # 1
      BY <2>2, <2>3, <3>1
    <3>3. l \in 2 .. Len(s)
      BY <1>1, <3>2
    <3>4. s[l].atom.time > s[1].atom.time
      BY <3>3 DEF Lists
    <3> QED
      BY <3>1, <3>4, <2>2
  <2>8. CASE u[k] \in Range(t)
    <3>1. PICK l \in 1 .. Len(t) : u[k] = t[l]
      BY <1>1, <2>8, RangeOf
    <3>2. t[l].atom.time >= t[1].atom.time /\ t[l].atom.time \in Nat
      <4>1. t[l].atom.time \in Nat
        BY <1>1, RangeOf, NodeFields
      <4>2. CASE l = 1
        BY <4>2, <4>1
      <4>3. CASE l # 1
        <5>1. l \in 2 .. Len(t)
          BY <1>1, <4>3
        <5>2. t[l].atom.time > t[1].atom.time
          BY <5>1 DEF Lists
        <5> QED
          BY <5>2, <4>1, <2>5
      <4> QED
        BY <4>2, <4>3
    <3>3. t[l].atom.time > s[1].atom.time
      <4>1. \A x, y, z, q \in Nat : x >= y /\ y > z /\ q <= z => x > q
        OBVIOUS
      <4> QED
        BY <3>2, <2>5, <2>6, <4>1
    <3> QED
      BY <3>1, <3>3, <2>2
  <2> QED
    BY <1>9, <2>2, <2>7, <2>8
<1>12. \A x \in (G \ {s, t}) \cup {u} : x \in Seq(M) /\ Chain(v, x)
  BY <1>9, <1>10
<1>13. \A x, y \in (G \ {s, t}) \cup {u} : Range(x) \cap Range(y) # {} => x = y
  BY <1>10 DEF Lists
<1>14. \A x \in (G \ {s, t}) \cup {u} : \A k \in 2 .. Len(x) : x[k].atom.time > x[1].atom.time
  BY <1>11 DEF Lists
<1>15. Lists(v, M, (G \ {s, t}) \cup {u})
  BY <1>12, <1>13, <1>14 DEF Lists
<1> QED
  BY <1>2, <1>4, <1>5, <1>8, <1>15 DEF Merged

-----------------------------------------------------------------------------
(* Taking a piece of a list out: the whole list, or not its first node.    *)
LeftOf(s, i, j) == IF i = 1 THEN {} ELSE {Cut(s, i, j)}

(* The piece has left the list. *)
ListCut(v, M, G, s, i, j) ==
    /\ Lists(v, M, (G \ {s}) \cup LeftOf(s, i, j))
    /\ i # 1 => /\ Cut(s, i, j)[1] = s[1]
                /\ Range(Cut(s, i, j)) = Range(s) \ Range(Piece(s, i, j))
    /\ i = 1 => Range(Piece(s, i, j)) = Range(s)
    /\ IterateFrom(v, s[i]) = Piece(s, i, j)
    /\ Range(Piece(s, i, j)) \subseteq Range(s)

(* A stretch cut out of a list, or a whole list, is in none of the lists   *)
(* that are left.                                                          *)
LEMMA ListsCut ==
    ASSUME NEW w, NEW v, NEW M, M \subseteq Node, NEW G, Lists(w, M, G), Links(v, M),
           NEW s \in G, NEW i \in 1 .. Len(s), NEW j \in i .. Len(s),
           i = 1 => j = Len(s), CutOut(w, v, s, i, j)
    PROVE  ListCut(v, M, G, s, i, j)
<1>1. /\ s \in Seq(M) /\ Chain(w, s) /\ Len(s) \in Nat /\ Len(s) >= 1
  BY DEF Lists, Chain
<1>2. PICK q : q = Piece(s, i, j)
  OBVIOUS
<1>3. Chain(v, q) /\ q[1] = s[i] /\ Range(q) \subseteq Range(s)
  BY <1>1, <1>2, CutPiece
<1>4. q \in Seq(M)
  <2>1. q \in Seq(Node)
    BY <1>3 DEF Chain
  <2>2. \A k \in 1 .. Len(q) : q[k] \in M
    <3>1. \A k \in 1 .. Len(q) : q[k] \in Range(q)
      BY <2>1, RangeOf
    <3> QED
      BY <3>1, <1>1, <1>3, RangeOf
  <2> QED
    BY <2>1, <2>2
<1>5. IterateFrom(v, s[i]) = q
  <2>1. Len(q) \in Nat /\ Len(q) >= 1 /\ 1 \in 1 .. Len(q)
    BY <1>3 DEF Chain
  <2>2. IterateFrom(v, q[1]) = From(q, 1)
    BY <2>1, <1>3, <1>4, IterateChain DEF Links
  <2>3. From(q, 1) = q
    <3>1. From(q, 1) = [k \in 1 .. Len(q) - 1 + 1 |-> q[1 + k - 1]]
      BY DEF From
    <3>2. Len(q) - 1 + 1 = Len(q) /\ \A k \in 1 .. Len(q) : 1 + k - 1 = k
      BY <2>1
    <3>3. q = [k \in 1 .. Len(q) |-> q[k]]
      BY <1>4
    <3>4. From(q, 1) = [k \in 1 .. Len(q) |-> q[k]]
      BY <3>1, <3>2
    <3> QED
      BY <3>3, <3>4
  <2> QED
    BY <2>2, <2>3, <1>3
<1>6. i = 1 => Range(q) = Range(s)
  <2>1. SUFFICES ASSUME i = 1 PROVE Range(s) \subseteq Range(q)
    BY <1>3
  <2>2. j = Len(s)
    BY <2>1
  <2>3. \A k \in 1 .. Len(s) : k \in DOMAIN q /\ q[k] = s[k]
    BY <1>1, <1>2, <2>1, <2>2 DEF Piece
  <2>4. \A x \in Range(s) : \E k \in 1 .. Len(s) : x = s[k]
    BY <1>1, RangeOf
  <2> QED
    BY <2>3, <2>4 DEF Range
<1>7. ASSUME NEW x \in G \ {s}
      PROVE  x \in Seq(M) /\ Chain(v, x) /\ Range(x) \cap Range(s) = {}
  <2>1. x \in Seq(M) /\ Chain(w, x) /\ Range(x) \cap Range(s) = {}
    BY DEF Lists
  <2> QED
    BY <1>1, <2>1, CutOthers
<1>8. CASE i = 1
  <2>1. Lists(v, M, G \ {s})
    BY <1>7 DEF Lists
  <2>2. (G \ {s}) \cup LeftOf(s, i, j) = G \ {s}
    BY <1>8 DEF LeftOf
  <2> QED
    BY <2>1, <2>2, <1>2, <1>3, <1>5, <1>6, <1>8 DEF ListCut
<1>9. CASE i # 1
  <2>1. i \in 2 .. Len(s)
    BY <1>1, <1>9
  <2>2. PICK c : c = Cut(s, i, j)
    OBVIOUS
  <2>3. Chain(v, c) /\ c[1] = s[1] /\ Range(c) = Range(s) \ Range(q)
    <3>1. IsCut(v, s, i, j)
      <4>1. Chain(w, s) /\ j \in i .. Len(s) /\ CutOut(w, v, s, i, j)
        BY <1>1
      <4> QED
        BY ONLY <4>1, <2>1, CutChain
    <3> QED
      BY <3>1, <1>2, <2>2 DEF IsCut
  <2>4. c \in Seq(Node) /\ Len(c) \in Nat /\ Len(c) >= 1
    BY <2>3 DEF Chain
  <2>5. c \in Seq(M)
    <3>1. \A k \in 1 .. Len(c) : c[k] \in M
      BY <2>3, <2>4, <1>1, RangeOf
    <3> QED
      BY <2>4, <3>1
  <2>6. \A k \in 2 .. Len(c) : c[k].atom.time > c[1].atom.time
    <3>1. TAKE k \in 2 .. Len(c)
    <3>2. k \in 1 .. Len(c) /\ k # 1 /\ 1 \in 1 .. Len(c)
      BY <2>4
    <3>3. c[k] \in Range(s)
      BY <2>3, <2>4, <3>2, RangeOf
    <3>4. PICK l \in 1 .. Len(s) : c[k] = s[l]
      BY <3>3, <1>1, RangeOf
    <3>5. c[k] # c[1]
      <4>1. k \in DOMAIN c /\ 1 \in DOMAIN c
        BY <2>4, <3>2
      <4> QED
        BY <4>1, <3>2, <2>3 DEF Chain, Distinct
    <3>6. l \in 2 .. Len(s)
      <4>1. l # 1
        BY <3>4, <3>5, <2>3
      <4> QED
        BY <4>1, <1>1
    <3>7. s[l].atom.time > s[1].atom.time
      BY <3>6 DEF Lists
    <3> QED
      BY <3>4, <3>7, <2>3
  <2>7. PICK H : H = (G \ {s}) \cup {c}
    OBVIOUS
  <2>8. \A x \in H : x \in Seq(M) /\ Chain(v, x)
    BY <2>3, <2>5, <2>7, <1>7
  <2>9. \A x, y \in H : Range(x) \cap Range(y) # {} => x = y
    BY <2>3, <2>7, <1>7 DEF Lists
  <2>10. \A x \in H : \A k \in 2 .. Len(x) : x[k].atom.time > x[1].atom.time
    BY <2>6, <2>7 DEF Lists
  <2>11. Lists(v, M, H)
    BY <2>8, <2>9, <2>10 DEF Lists
  <2>12. H = (G \ {s}) \cup LeftOf(s, i, j)
    BY <1>9, <2>2, <2>7 DEF LeftOf
  <2> QED
    BY <2>2, <2>3, <2>11, <2>12, <1>2, <1>3, <1>5, <1>9 DEF ListCut
<1> QED
  BY <1>8, <1>9

-----------------------------------------------------------------------------
(* Where the lists are.                                                    *)

(* The list of a root is in the maps, a list without one waits. *)
Kinds(w, G) ==
    \A s \in G : \/ s[1].atom.cause = NoCause /\ Range(s) \subseteq InMap(w)
                 \/ s[1].atom.cause # NoCause /\ Range(s) \subseteq Waiting(w)

Covered(w, G) == \A x \in InMap(w) \cup Waiting(w) : \E s \in G : x \in Range(s)

(* What waits behind the first node of a list has a cause that waits. *)
Heads(w, G, P) ==
    \A s \in G : \A x \in Range(s) \cap Waiting(w) :
        \/ x = s[1]
        \/ x \notin P /\ \E y \in Waiting(w) : x.atom.cause = Id(y.atom)

Together(G, x, y) == \E s \in G : x \in Range(s) /\ y \in Range(s)

(* What waits is in the list of its cause, if that waits too. *)
WithCause(w, G, P) ==
    \A x \in Waiting(w) \ P, y \in Waiting(w) : x.atom.cause = Id(y.atom) => Together(G, x, y)

(* No two that wait have one ID, and none has the ID of a node in the maps. *)
Apart(w) ==
    /\ Distinct(w.buffer)
    /\ \A x, y \in Waiting(w) : Id(x.atom) = Id(y.atom) => x = y
    /\ \A x \in Waiting(w) : Id(x.atom) \notin DOMAIN w.idMap

(* The cause of what waits is not in the maps. *)
Orphans(w, P) ==
    /\ P \subseteq Waiting(w)
    /\ \A x \in Waiting(w) \ P : x.atom.cause \notin DOMAIN w.idMap

(* G is the lists of w, but for the nodes of P, which are not yet linked   *)
(* under the node that was inserted.                                       *)
Rep(w, M, G, P) ==
    /\ Lists(w, M, G)
    /\ Kinds(w, G) /\ Covered(w, G) /\ Heads(w, G, P) /\ WithCause(w, G, P)
    /\ Apart(w) /\ Orphans(w, P)

(* The children of n that wait. *)
Children(w, n) == {x \in Waiting(w) : x.atom.cause = Id(n.atom)}

(* The nodes in the maps and in the buffer. *)
LEMMA WaitingNodes ==
    ASSUME NEW w, NEW M, M \subseteq Node, Typed(w, M)
    PROVE  /\ InMap(w) \subseteq M /\ Waiting(w) \subseteq Under(M)
           /\ \A x \in InMap(w) : Id(x.atom) \in DOMAIN w.idMap /\ w.idMap[Id(x.atom)] = x
           /\ \A x, y \in InMap(w) : Id(x.atom) = Id(y.atom) => x = y
BY DEF InMap, Waiting, Typed, Stored

(* A node that is not yet made is in no list. *)
LEMMA FreshNode ==
    ASSUME NEW w, NEW L, L \subseteq Node, Typed(w, L), NEW G, Kinds(w, G), NEW n, n \notin L
    PROVE  /\ At(w.next, n) = Null /\ At(w.prev, n) = Null
           /\ \A s \in G : n \notin Range(s)
           /\ n \notin InMap(w) /\ n \notin Waiting(w)
<1>1. n \notin DOMAIN w.next /\ n \notin DOMAIN w.prev
  BY DEF Typed, Links, Pointers
<1>2. InMap(w) \subseteq L /\ Waiting(w) \subseteq L
  BY WaitingNodes DEF Under
<1>3. \A s \in G : Range(s) \subseteq L
  BY <1>2 DEF Kinds
<1> QED
  BY <1>1, <1>2, <1>3 DEF At

-----------------------------------------------------------------------------
(* A new node joins the lists G, which become H: alone, or in the list of  *)
(* its cause c.                                                            *)
Grown(G, H, n, c) ==
    /\ \A g \in G : \E h \in H : Range(g) \subseteq Range(h)
    /\ \A h \in H : \/ h \in G
                    \/ c = Null /\ h[1] = n /\ Range(h) = {n}
                    \/ /\ c # Null
                       /\ \E g \in G : /\ c \in Range(g)
                                       /\ h[1] = g[1] /\ Range(h) = Range(g) \cup {n}
    /\ \E h \in H : n \in Range(h) /\ (c # Null => c \in Range(h))

(* Nothing in the list of n is newer than n where n is followed. *)
Newest(H, n) ==
    \E h \in H : \E i \in 1 .. Len(h) : h[i] = n /\ GroupTo(h, i, i)

(* A node that is linked to nothing is a list of its own. *)
LEMMA GrowAlone ==
    ASSUME NEW w, NEW M, M \subseteq Node, NEW G, Lists(w, M, G), NEW n \in M,
           At(w.next, n) = Null, At(w.prev, n) = Null, \A s \in G : n \notin Range(s)
    PROVE  \E H : Lists(w, M, H) /\ Grown(G, H, n, Null) /\ Newest(H, n)
<1>1. PICK t : t = <<n>>
  OBVIOUS
<1>2. PICK H : H = G \cup {t}
  OBVIOUS
<1>3. Lists(w, M, H)
  BY <1>1, <1>2, ListsAlone
<1>4. t[1] = n /\ Range(t) = {n} /\ Len(t) = 1
  BY <1>1 DEF Range
<1>5. Grown(G, H, n, Null)
  BY <1>2, <1>4 DEF Grown
<1>6. GroupTo(t, 1, 1) /\ 1 \in 1 .. Len(t)
  <2>1. 1 \in 1 .. Len(t) /\ ~(1 < Len(t)) /\ \A k \in 1 + 1 .. 1 : FALSE
    BY <1>4
  <2> QED
    BY <2>1 DEF GroupTo
<1> QED
  BY <1>2, <1>3, <1>4, <1>5, <1>6 DEF Newest

(* A new node goes into the list of the node it is put under. *)
LEMMA GrowUnder ==
    ASSUME NEW w, NEW M, M \subseteq Node, Links(w, M), NEW G, Lists(w, M, G),
           NEW n \in Under(M), At(w.next, n) = Null, At(w.prev, n) = Null,
           \A s \in G : n \notin Range(s),
           NEW c, NEW s \in G, c \in Range(s), n.atom.time > c.atom.time
    PROVE  LET v == InsertNodeUnder(w, c, n, n)
           IN /\ Links(v, M) /\ Relinked(w, v)
              /\ \E H : Lists(v, M, H) /\ Grown(G, H, n, c) /\ (n.atom.prio = 0 => Newest(H, n))
<1>1. PICK t : t = <<n>>
  OBVIOUS
<1>2. PICK G1 : G1 = G \cup {t}
  OBVIOUS
<1>3. Lists(w, M, G1) /\ n \in M
  BY <1>1, <1>2, ListsAlone DEF Under
<1>4. t[1] = n /\ t[Len(t)] = n /\ Range(t) = {n} /\ Len(t) = 1
  BY <1>1 DEF Range
<1>5. s \in Seq(M) /\ Len(s) \in Nat
  BY DEF Lists
<1>6. PICK i \in 1 .. Len(s) : c = s[i]
  BY <1>5, RangeOf
<1>7. s \in G1 /\ t \in G1 /\ t # s
  BY <1>2, <1>4
<1>8. PICK v : v = InsertNodeUnder(w, c, n, n)
  OBVIOUS
<1>9. PICK u : Merged(w, v, M, G1, s, i, t, u)
  BY <1>3, <1>4, <1>6, <1>7, <1>8, ListsMerge
<1>10. PICK H : H = (G1 \ {s, t}) \cup {u}
  OBVIOUS
<1>11. Lists(v, M, H) /\ Links(v, M) /\ Relinked(w, v)
  BY <1>9, <1>10 DEF Merged
<1>12. PICK p, j : InsertedAt(w, v, s, i, j, p, t) /\ IsSplice(M, s, p, t, u)
  BY <1>9 DEF Merged
<1>13. u[1] = s[1] /\ Range(u) = Range(s) \cup {n}
  BY <1>4, <1>12 DEF IsSplice
<1>14. c # Null
  BY <1>5, <1>6, RangeOf, NullIsNoNode
<1>15. Grown(G, H, n, c)
  <2>1. \A g \in G : \E h \in H : Range(g) \subseteq Range(h)
    <3>1. TAKE g \in G
    <3>2. CASE g = s
      BY <3>2, <1>10, <1>13
    <3>3. CASE g # s
      <4>1. g \in H
        BY <3>3, <1>2, <1>4, <1>10
      <4> QED
        BY <4>1
    <3> QED
      BY <3>2, <3>3
  <2>2. \A h \in H : h \in G \/ h = u
    BY <1>2, <1>10
  <2>3. u \in H /\ n \in Range(u) /\ c \in Range(u)
    BY <1>10, <1>13
  <2> QED
    BY <2>1, <2>2, <2>3, <1>13, <1>14 DEF Grown
<1>16. ASSUME n.atom.prio = 0 PROVE Newest(H, n)
  <2>1. /\ j \in i .. Len(s) /\ p \in i .. j
        /\ p < Len(s) => s[p + 1].atom.time <= n.atom.time
    BY <1>4, <1>6, <1>12, <1>16 DEF InsertedAt, GroupTo
  <2>2. /\ Len(u) = Len(s) + 1
        /\ \A k \in 1 .. 1 : u[p + k] = t[k]
        /\ \A k \in p + 1 .. Len(s) : u[k + 1] = s[k]
    BY <1>4, <1>12 DEF IsSplice
  <2>3. p \in Nat /\ p <= Len(s) /\ p + 1 \in 1 .. Len(u)
    BY <1>5, <2>1, <2>2
  <2>4. u[p + 1] = n
    BY <2>2, <1>4
  <2>5. p + 1 < Len(u) => u[(p + 1) + 1].atom.time <= u[p + 1].atom.time
    <3>1. SUFFICES ASSUME p + 1 < Len(u) PROVE u[(p + 1) + 1].atom.time <= u[p + 1].atom.time
      OBVIOUS
    <3>2. p < Len(s) /\ p + 1 \in p + 1 .. Len(s)
      BY <1>5, <2>2, <2>3, <3>1
    <3>3. u[(p + 1) + 1] = s[p + 1]
      BY <2>2, <3>2
    <3> QED
      BY <2>1, <2>4, <3>2, <3>3
  <2>6. GroupTo(u, p + 1, p + 1)
    <3>1. PICK q : q = p + 1
      OBVIOUS
    <3>2. q \in q .. Len(u) /\ \A k \in q + 1 .. q : FALSE
      BY <2>2, <2>3, <3>1, <1>5
    <3>3. GroupTo(u, q, q)
      BY <2>5, <3>1, <3>2 DEF GroupTo
    <3> QED
      BY <3>1, <3>3
  <2> QED
    BY <2>3, <2>4, <2>6, <1>10 DEF Newest
<1> QED
  BY <1>8, <1>11, <1>15, <1>16

-----------------------------------------------------------------------------
(* Lists are a matter of the pointers. *)
LEMMA ListsSame ==
    ASSUME NEW w, NEW v, v.next = w.next, v.prev = w.prev, NEW M, NEW G, Lists(w, M, G)
    PROVE  Lists(v, M, G)
BY DEF Lists, Chain

(* n has come to the maps. *)
Mapped(w, v, n) ==
    /\ v.buffer = w.buffer
    /\ DOMAIN v.idMap = DOMAIN w.idMap \cup {Id(n.atom)}
    /\ \A x \in DOMAIN v.idMap : v.idMap[x] = IF x = Id(n.atom) THEN n ELSE w.idMap[x]

(* The lists are those of the weave again once the new node is in the maps,*)
(* but for the children that wait for it.                                  *)
LEMMA RepMapped ==
    ASSUME NEW w, NEW v, NEW M, M \subseteq Node, Typed(w, M), NEW L, NEW G, Rep(w, L, G, {}),
           NEW n \in M, Mapped(w, v, n),
           Id(n.atom) \notin DOMAIN w.idMap, \A x \in Waiting(w) : Id(x.atom) # Id(n.atom),
           NEW H, NEW c, Grown(G, H, n, c), Lists(v, M, H),
           c = Null => n.atom.cause = NoCause, c # Null => c \in InMap(w)
    PROVE  /\ Rep(v, M, H, Children(v, n))
           /\ InMap(v) = InMap(w) \cup {n} /\ Waiting(v) = Waiting(w)
<1> DEFINE P == Children(v, n)
<1>1. Waiting(v) = Waiting(w)
  BY DEF Mapped, Waiting
<1>2. InMap(v) = InMap(w) \cup {n}
  <2>1. \A x \in DOMAIN w.idMap : x # Id(n.atom) /\ x \in DOMAIN v.idMap /\ v.idMap[x] = w.idMap[x]
    BY DEF Mapped
  <2>2. Id(n.atom) \in DOMAIN v.idMap /\ v.idMap[Id(n.atom)] = n
    BY DEF Mapped
  <2>3. \A x \in DOMAIN v.idMap : x = Id(n.atom) \/ x \in DOMAIN w.idMap
    BY DEF Mapped
  <2> QED
    BY <2>1, <2>2, <2>3 DEF InMap
<1>3. /\ Kinds(w, G) /\ Covered(w, G) /\ Heads(w, G, {}) /\ WithCause(w, G, {})
      /\ Apart(w) /\ Orphans(w, {}) /\ Lists(w, L, G)
  BY DEF Rep
<1>4. n \notin Waiting(w) /\ \A x \in InMap(w) : x \notin Waiting(w)
  <2>1. \A x \in InMap(w) : Id(x.atom) \in DOMAIN w.idMap
    BY WaitingNodes
  <2> QED
    BY <2>1, <1>3 DEF Apart
<1>5. Kinds(v, H)
  <2> SUFFICES ASSUME NEW h \in H
               PROVE  \/ h[1].atom.cause = NoCause /\ Range(h) \subseteq InMap(v)
                      \/ h[1].atom.cause # NoCause /\ Range(h) \subseteq Waiting(v)
    BY DEF Kinds
  <2>1. CASE h \in G
    BY <2>1, <1>1, <1>2, <1>3 DEF Kinds
  <2>2. CASE c = Null /\ h[1] = n /\ Range(h) = {n}
    BY <2>2, <1>2
  <2>3. ASSUME NEW g \in G, c # Null, c \in Range(g), h[1] = g[1], Range(h) = Range(g) \cup {n}
        PROVE  h[1].atom.cause = NoCause /\ Range(h) \subseteq InMap(v)
    <3>1. g[1].atom.cause = NoCause /\ Range(g) \subseteq InMap(w)
      BY <2>3, <1>3, <1>4 DEF Kinds
    <3> QED
      BY <3>1, <2>3, <1>2
  <2> QED
    BY <2>1, <2>2, <2>3 DEF Grown
<1>6. Covered(v, H)
  <2>1. \A x \in InMap(w) \cup Waiting(w) : \E h \in H : x \in Range(h)
    BY <1>3 DEF Covered, Grown
  <2>2. \E h \in H : n \in Range(h)
    BY DEF Grown
  <2> QED
    BY <2>1, <2>2, <1>1, <1>2 DEF Covered
<1>7. Heads(v, H, P)
  <2> SUFFICES ASSUME NEW h \in H, NEW x \in Range(h) \cap Waiting(v), x # h[1]
               PROVE  x \notin P /\ \E y \in Waiting(v) : x.atom.cause = Id(y.atom)
    BY DEF Heads
  <2>1. \E g \in G : x \in Range(g) /\ x # g[1]
    <3>1. x # n
      BY <1>1, <1>4
    <3> QED
      BY <3>1 DEF Grown
  <2>2. PICK y \in Waiting(w) : x.atom.cause = Id(y.atom)
    BY <2>1, <1>1, <1>3 DEF Heads
  <2> QED
    BY <2>2, <1>1 DEF Children
<1>8. WithCause(v, H, P)
  <2>1. \A x \in Waiting(w), y \in Waiting(w) : x.atom.cause = Id(y.atom) => Together(G, x, y)
    BY <1>3 DEF WithCause
  <2>2. \A x, y : Together(G, x, y) => Together(H, x, y)
    BY DEF Together, Grown
  <2> QED
    BY <2>1, <2>2, <1>1 DEF WithCause
<1>9. Apart(v)
  BY <1>1, <1>3 DEF Apart, Mapped
<1>10. Orphans(v, P)
  BY <1>1, <1>3 DEF Orphans, Children, Mapped
<1> QED
  BY <1>1, <1>2, <1>5, <1>6, <1>7, <1>8, <1>9, <1>10 DEF Rep

(* n has come to the buffer. *)
LEMMA RepWaiting ==
    ASSUME NEW w, NEW v, NEW M, M \subseteq Node, Typed(w, M), NEW L, NEW G, Rep(w, L, G, {}),
           NEW n \in Under(M), v.buffer = Append(w.buffer, n), v.idMap = w.idMap,
           Id(n.atom) \notin DOMAIN w.idMap, \A x \in Waiting(w) : Id(x.atom) # Id(n.atom),
           n.atom.cause \notin DOMAIN w.idMap,
           NEW H, NEW c, Grown(G, H, n, c), Lists(v, M, H),
           c = Null => \A x \in Waiting(w) : Id(x.atom) # n.atom.cause,
           c # Null => c \in Waiting(w) /\ Id(c.atom) = n.atom.cause
    PROVE  /\ Rep(v, M, H, Children(v, n))
           /\ InMap(v) = InMap(w) /\ Waiting(v) = Waiting(w) \cup {n}
<1> DEFINE P == Children(v, n)
<1>1. /\ Waiting(v) = Waiting(w) \cup {n} /\ n \notin Waiting(w) /\ n \in M
      /\ Distinct(w.buffer) => Distinct(v.buffer)
  <2>1. w.buffer \in Seq(M) /\ n \in M
    BY DEF Typed, Stored, Under
  <2>2. Range(v.buffer) = Range(w.buffer) \cup {n}
    BY <2>1, AppendedElements
  <2>3. n \notin Range(w.buffer)
    BY DEF Waiting
  <2>4. Distinct(w.buffer) => Distinct(v.buffer)
    BY <2>1, <2>3, AppendedElements
  <2> QED
    BY <2>1, <2>2, <2>3, <2>4 DEF Waiting
<1>2. InMap(v) = InMap(w)
  BY DEF InMap
<1>3. /\ Kinds(w, G) /\ Covered(w, G) /\ Heads(w, G, {}) /\ WithCause(w, G, {})
      /\ Apart(w) /\ Orphans(w, {}) /\ Lists(w, L, G)
  BY DEF Rep
<1>4. \A x \in InMap(w) : x \notin Waiting(w)
  <2>1. \A x \in InMap(w) : Id(x.atom) \in DOMAIN w.idMap
    BY WaitingNodes
  <2> QED
    BY <2>1, <1>3 DEF Apart
<1>5. n.atom.cause # NoCause /\ n.atom.cause # Id(n.atom)
  <2>1. n.atom.cause # NoCause /\ n \in Node
    BY DEF Under
  <2>2. n.atom.cause[2] < n.atom.time /\ n.atom.cause[2] \in Nat /\ n.atom.time \in Nat
    BY <2>1, NodeFields
  <2>3. Id(n.atom)[2] = n.atom.time
    BY DEF Id
  <2> QED
    BY <2>1, <2>2, <2>3
<1>6. Kinds(v, H)
  <2> SUFFICES ASSUME NEW h \in H
               PROVE  \/ h[1].atom.cause = NoCause /\ Range(h) \subseteq InMap(v)
                      \/ h[1].atom.cause # NoCause /\ Range(h) \subseteq Waiting(v)
    BY DEF Kinds
  <2>1. CASE h \in G
    BY <2>1, <1>1, <1>2, <1>3 DEF Kinds
  <2>2. CASE c = Null /\ h[1] = n /\ Range(h) = {n}
    BY <2>2, <1>1, <1>5
  <2>3. ASSUME NEW g \in G, c # Null, c \in Range(g), h[1] = g[1], Range(h) = Range(g) \cup {n}
        PROVE  h[1].atom.cause # NoCause /\ Range(h) \subseteq Waiting(v)
    <3>1. g[1].atom.cause # NoCause /\ Range(g) \subseteq Waiting(w)
      BY <2>3, <1>3, <1>4 DEF Kinds
    <3> QED
      BY <3>1, <2>3, <1>1
  <2> QED
    BY <2>1, <2>2, <2>3 DEF Grown
<1>7. Covered(v, H)
  <2>1. \A x \in InMap(w) \cup Waiting(w) : \E h \in H : x \in Range(h)
    BY <1>3 DEF Covered, Grown
  <2>2. \E h \in H : n \in Range(h)
    BY DEF Grown
  <2> QED
    BY <2>1, <2>2, <1>1, <1>2 DEF Covered
<1>8. Heads(v, H, P)
  <2> SUFFICES ASSUME NEW h \in H, NEW x \in Range(h) \cap Waiting(v), x # h[1]
               PROVE  x \notin P /\ \E y \in Waiting(v) : x.atom.cause = Id(y.atom)
    BY DEF Heads
  <2>1. CASE x = n
    <3>1. c # Null
      <4>1. SUFFICES ASSUME c = Null PROVE FALSE
        OBVIOUS
      <4>2. h \in G
        BY <4>1, <2>1 DEF Grown
      <4>3. n \in InMap(w)
        BY <4>2, <2>1, <1>1, <1>3 DEF Kinds
      <4> QED
        BY <4>3, WaitingNodes
    <3> QED
      BY <2>1, <3>1, <1>1, <1>5 DEF Children
  <2>2. CASE x # n
    <3>1. \E g \in G : x \in Range(g) /\ x # g[1]
      BY <2>2 DEF Grown
    <3>2. PICK y \in Waiting(w) : x.atom.cause = Id(y.atom)
      BY <2>2, <3>1, <1>1, <1>3 DEF Heads
    <3> QED
      BY <3>2, <1>1 DEF Children
  <2> QED
    BY <2>1, <2>2
<1>9. WithCause(v, H, P)
  <2> SUFFICES ASSUME NEW x \in Waiting(v) \ P, NEW y \in Waiting(v), x.atom.cause = Id(y.atom)
               PROVE  Together(H, x, y)
    BY DEF WithCause
  <2>1. y # n
    BY DEF Children
  <2>2. CASE x = n
    <3>1. c # Null /\ c \in Waiting(w) /\ Id(c.atom) = Id(y.atom)
      BY <2>1, <2>2, <1>1
    <3>2. c = y
      BY <2>1, <3>1, <1>1, <1>3 DEF Apart
    <3> QED
      BY <2>2, <3>1, <3>2 DEF Together, Grown
  <2>3. CASE x # n
    <3>1. Together(G, x, y)
      BY <2>1, <2>3, <1>1, <1>3 DEF WithCause
    <3> QED
      BY <3>1 DEF Together, Grown
  <2> QED
    BY <2>2, <2>3
<1>10. Apart(v)
  BY <1>1, <1>3 DEF Apart
<1>11. Orphans(v, P)
  BY <1>1, <1>3 DEF Orphans, Children
<1> QED
  BY <1>1, <1>2, <1>6, <1>7, <1>8, <1>9, <1>10, <1>11 DEF Rep

-----------------------------------------------------------------------------
(* A child of n that is pending is the first node of a list, which is not  *)
(* the list of n.                                                          *)
LEMMA FromFirst ==
    ASSUME NEW M, NEW s \in Seq(M), Len(s) >= 1
    PROVE  From(s, 1) = s /\ Last(s) = s[Len(s)]
<1>1. From(s, 1) = [k \in 1 .. Len(s) - 1 + 1 |-> s[1 + k - 1]]
  BY DEF From
<1>2. Len(s) - 1 + 1 = Len(s) /\ \A k \in 1 .. Len(s) : 1 + k - 1 = k
  OBVIOUS
<1>3. s = [k \in 1 .. Len(s) |-> s[k]]
  OBVIOUS
<1>4. From(s, 1) = [k \in 1 .. Len(s) |-> s[k]]
  BY <1>1, <1>2
<1> QED
  BY <1>3, <1>4 DEF Last

(* s is the list of n, at place i, and t the list that starts with child. *)
ChildOf(v, M, G, n, child, s, i, t) ==
    /\ s \in G /\ t \in G /\ t # s /\ i \in 1 .. Len(s) /\ s[i] = n
    /\ t[1] = child /\ t[1] \in Under(M) /\ t[1].atom.time > s[i].atom.time
    /\ t \in Seq(M) /\ s \in Seq(M)
    /\ IterateFrom(v, child) = t /\ Last(t) = t[Len(t)]
    /\ Range(t) \subseteq Waiting(v) /\ child \in Range(t)
    /\ n \in Range(s)
    /\ Range(s) \cap Range(t) = {}

(* A child that waits for n is the head of a list of its own. *)
LEMMA PendingHead ==
    ASSUME NEW v, NEW M, M \subseteq Node, Typed(v, M), NEW G, NEW P, Rep(v, M, G, P),
           NEW n, n \in InMap(v) \cup Waiting(v), NEW child \in P, child.atom.cause = Id(n.atom)
    PROVE  \E s, i, t : ChildOf(v, M, G, n, child, s, i, t)
<1>1. /\ Lists(v, M, G) /\ Kinds(v, G) /\ Covered(v, G) /\ Heads(v, G, P) /\ Orphans(v, P)
  BY DEF Rep
<1>2. /\ child \in Waiting(v) /\ child \in Under(M) /\ child \in Node /\ n \in Node
      /\ child.atom.cause # NoCause
  BY <1>1, WaitingNodes DEF Orphans, Under
<1>3. child.atom.time > n.atom.time /\ child.atom.time \in Nat /\ n.atom.time \in Nat
  <2>1. child.atom.cause[2] < child.atom.time /\ child.atom.time \in Nat /\ n.atom.time \in Nat
    BY <1>2, NodeFields
  <2>2. Id(n.atom)[2] = n.atom.time
    BY DEF Id
  <2> QED
    BY <2>1, <2>2
<1>4. PICK s \in G : n \in Range(s)
  BY <1>1 DEF Covered
<1>5. PICK t \in G : child \in Range(t)
  BY <1>1, <1>2 DEF Covered
<1>6. t[1] = child
  BY <1>1, <1>2, <1>5 DEF Heads
<1>7. s \in Seq(M) /\ t \in Seq(M) /\ Chain(v, t) /\ Len(t) \in Nat /\ Len(t) >= 1
  BY <1>1 DEF Lists, Chain
<1>8. PICK i \in 1 .. Len(s) : s[i] = n
  BY <1>4, <1>7, RangeOf
<1>9. t # s
  <2>1. SUFFICES ASSUME t = s PROVE FALSE
    OBVIOUS
  <2>2. CASE i = 1
    BY <2>1, <2>2, <1>3, <1>6, <1>8
  <2>3. CASE i # 1
    <3>1. i \in 2 .. Len(s)
      BY <1>7, <2>3
    <3>2. n.atom.time > child.atom.time
      BY <3>1, <2>1, <1>1, <1>6, <1>8 DEF Lists
    <3> QED
      BY <3>2, <1>3
  <2> QED
    BY <2>2, <2>3
<1>10. IterateFrom(v, child) = t /\ Last(t) = t[Len(t)]
  <2>1. From(t, 1) = t /\ Last(t) = t[Len(t)]
    BY <1>7, FromFirst
  <2>2. 1 \in 1 .. Len(t)
    BY <1>7
  <2>3. IterateFrom(v, t[1]) = From(t, 1)
    BY <1>7, <2>2, IterateChain DEF Typed, Links
  <2> QED
    BY <2>1, <2>3, <1>6
<1>11. Range(t) \subseteq Waiting(v)
  BY <1>1, <1>2, <1>6 DEF Kinds
<1>12. Range(s) \cap Range(t) = {}
  BY <1>1, <1>9 DEF Lists
<1>13. ChildOf(v, M, G, n, child, s, i, t)
  BY <1>2, <1>3, <1>4, <1>5, <1>6, <1>7, <1>8, <1>9, <1>10, <1>11, <1>12 DEF ChildOf
<1> QED
  BY <1>13

-----------------------------------------------------------------------------
(* v is w with some lists linked, and the nodes P still left. *)
PartJoined(w, M, v, P) ==
    /\ Typed(v, M) /\ v.buffer = w.buffer /\ v.idMap = w.idMap
    /\ \E H : Rep(v, M, H, P)

(* It is adopted while n waits. *)
LEMMA RepAdopted ==
    ASSUME NEW v, NEW M, M \subseteq Node, Typed(v, M), NEW G, NEW P, Rep(v, M, G, P),
           NEW n \in Waiting(v), NEW child \in P, child.atom.cause = Id(n.atom)
    PROVE  PartJoined(v, M, Adopt(v, n, child, TRUE), P \ {child})
<1>1. PICK s, i, t : ChildOf(v, M, G, n, child, s, i, t)
  BY PendingHead
<1>2. PICK u : u = Adopt(v, n, child, TRUE)
  OBVIOUS
<1>3. u = InsertNodeUnder(v, s[i], t[1], t[Len(t)])
  BY <1>1, <1>2 DEF Adopt, ChildOf
<1>4. /\ Lists(v, M, G) /\ Kinds(v, G) /\ Covered(v, G) /\ Heads(v, G, P) /\ WithCause(v, G, P)
      /\ Apart(v) /\ Orphans(v, P)
  BY DEF Rep
<1>5. PICK q : Merged(v, u, M, G, s, i, t, q)
  BY <1>1, <1>3, <1>4, ListsMerge DEF ChildOf, Typed
<1>6. Links(u, M) /\ Relinked(v, u) /\ Lists(u, M, (G \ {s, t}) \cup {q})
  BY <1>5 DEF Merged
<1>7. Typed(u, M) /\ u.buffer = v.buffer /\ u.idMap = v.idMap
  BY <1>6, TypedRelinked DEF Relinked
<1>8. InMap(u) = InMap(v) /\ Waiting(u) = Waiting(v)
  BY <1>7 DEF InMap, Waiting
<1>9. q[1] = s[1] /\ Range(q) = Range(s) \cup Range(t)
  BY <1>5 DEF Merged, IsSplice
<1>10. PICK H : H = (G \ {s, t}) \cup {q}
  OBVIOUS
<1>11. /\ s \in G /\ t \in G /\ t[1] = child /\ child \in Range(t) /\ n \in Range(s)
       /\ Range(t) \subseteq Waiting(v)
  BY <1>1 DEF ChildOf
<1>12. n \notin InMap(v)
  <2>1. Id(n.atom) \notin DOMAIN v.idMap
    BY <1>4 DEF Apart
  <2> QED
    BY <2>1, WaitingNodes
<1>13. Kinds(u, H)
  <2>1. s[1].atom.cause # NoCause /\ Range(s) \subseteq Waiting(v)
    BY <1>4, <1>11, <1>12 DEF Kinds
  <2> QED
    BY <2>1, <1>4, <1>8, <1>9, <1>10, <1>11 DEF Kinds
<1>14. \A g \in G : \E h \in H : Range(g) \subseteq Range(h)
  <2>1. TAKE g \in G
  <2>2. CASE g \in {s, t}
    BY <2>2, <1>9, <1>10
  <2>3. CASE g \notin {s, t}
    BY <2>3, <1>10
  <2> QED
    BY <2>2, <2>3
<1>15. Covered(u, H)
  <2>1. \A x \in InMap(v) \cup Waiting(v) : \E g \in G : x \in Range(g)
    BY <1>4 DEF Covered
  <2>2. \A x \in InMap(v) \cup Waiting(v) : \E h \in H : x \in Range(h)
    BY <2>1, <1>14
  <2> QED
    BY <2>2, <1>8 DEF Covered
<1>16. Heads(u, H, P \ {child})
  <2> SUFFICES ASSUME NEW h \in H, NEW x \in Range(h) \cap Waiting(v), x # h[1]
               PROVE  x \notin P \ {child} /\ \E y \in Waiting(v) : x.atom.cause = Id(y.atom)
    BY <1>8 DEF Heads
  <2>1. CASE x = child
    BY <2>1
  <2>2. CASE x # child
    <3>1. \E g \in G : x \in Range(g) /\ x # g[1]
      BY <2>2, <1>9, <1>10, <1>11
    <3> QED
      BY <3>1, <1>4 DEF Heads
  <2> QED
    BY <2>1, <2>2
<1>17. WithCause(u, H, P \ {child})
  <2> SUFFICES ASSUME NEW x \in Waiting(v) \ (P \ {child}), NEW y \in Waiting(v),
                      x.atom.cause = Id(y.atom)
               PROVE  Together(H, x, y)
    BY <1>8 DEF WithCause
  <2>1. CASE x = child
    <3>1. y = n
      BY <2>1, <1>4 DEF Apart
    <3>2. q \in H /\ x \in Range(q) /\ y \in Range(q)
      BY <3>1, <2>1, <1>9, <1>10, <1>11
    <3> QED
      BY <3>2 DEF Together
  <2>2. CASE x # child
    <3>1. Together(G, x, y)
      BY <2>2, <1>4 DEF WithCause
    <3> QED
      BY <3>1, <1>14 DEF Together
  <2> QED
    BY <2>1, <2>2
<1>18. Apart(u)
  BY <1>4, <1>7, <1>8 DEF Apart
<1>19. Orphans(u, P \ {child})
  <2>1. child.atom.cause \notin DOMAIN v.idMap
    BY <1>4 DEF Apart
  <2> QED
    BY <2>1, <1>4, <1>7, <1>8 DEF Orphans
<1>20. Rep(u, M, H, P \ {child})
  BY <1>6, <1>10, <1>13, <1>15, <1>16, <1>17, <1>18, <1>19 DEF Rep
<1>21. PartJoined(v, M, u, P \ {child})
  BY <1>7, <1>20 DEF PartJoined
<1> QED
  BY <1>2, <1>21

-----------------------------------------------------------------------------
(* A waiting list is released into the maps. *)
Freed(v, r, t) ==
    /\ r.next = v.next /\ r.prev = v.prev
    /\ Waiting(r) = Waiting(v) \ Range(t)
    /\ InMap(r) = InMap(v) \cup Range(t)
    /\ DOMAIN r.idMap = DOMAIN v.idMap \cup Ids(t)
    /\ Ids(t) = {Id(x.atom) : x \in Range(t)}
    /\ Apart(r)

(* The nodes of a list that waited are in the maps and no more in the      *)
(* buffer.                                                                 *)
LEMMA ReleaseFrees ==
    ASSUME NEW v, NEW M, M \subseteq Node, Typed(v, M), Apart(v),
           NEW t \in Seq(M), Range(t) \subseteq Waiting(v)
    PROVE  Typed(Release(v, t), M) /\ Freed(v, Release(v, t), t)
<1>1. PICK r : r = Release(v, t)
  OBVIOUS
<1>2. Range(t) \subseteq Under(M) /\ Waiting(v) \subseteq Under(M)
  BY WaitingNodes
<1>3. Typed(r, M) /\ Released(v, r, t)
  BY <1>1, <1>2, ReleaseTyped
<1>4. Ids(t) = {Id(x.atom) : x \in Range(t)}
  BY DEF Ids, Range
<1>5. \A x, y \in Waiting(v) : Id(x.atom) = Id(y.atom) => x = y
  BY DEF Apart
<1>6. Waiting(r) = Waiting(v) \ Range(t)
  <2>1. Waiting(r) = Waiting(v) \ {m \in Waiting(v) : Id(m.atom) \in Ids(t)}
    BY <1>3 DEF Released, Waiting
  <2>2. \A m \in Waiting(v) : Id(m.atom) \in Ids(t) <=> m \in Range(t)
    BY <1>4, <1>5
  <2> QED
    BY <2>1, <2>2
<1>7. \A x \in DOMAIN v.idMap : x \notin Ids(t) /\ r.idMap[x] = v.idMap[x]
  <2>1. \A x \in DOMAIN v.idMap : x \notin Ids(t)
    BY <1>4 DEF Apart
  <2> QED
    BY <2>1, <1>3 DEF Released
<1>8. DOMAIN r.idMap = DOMAIN v.idMap \cup Ids(t)
  BY <1>3 DEF Released
<1>9. \A m \in Range(t) : r.idMap[Id(m.atom)] = m
  <2>1. TAKE m \in Range(t)
  <2>2. Id(m.atom) \in Ids(t)
    BY <1>4
  <2>3. Id(r.idMap[Id(m.atom)].atom) = Id(m.atom) /\ r.idMap[Id(m.atom)] \in Range(t)
    BY <2>2, <1>3 DEF Released
  <2> QED
    BY <2>3, <1>5
<1>10. InMap(r) = InMap(v) \cup Range(t)
  <2>1. \A x \in DOMAIN r.idMap : r.idMap[x] \in InMap(v) \cup Range(t)
    <3>1. TAKE x \in DOMAIN r.idMap
    <3>2. CASE x \in DOMAIN v.idMap
      BY <3>2, <1>7 DEF InMap
    <3>3. CASE x \in Ids(t)
      BY <3>3, <1>3 DEF Released
    <3> QED
      BY <3>2, <3>3, <1>8
  <2>2. \A x \in DOMAIN v.idMap : v.idMap[x] \in InMap(r)
    BY <1>7, <1>8 DEF InMap
  <2>3. \A m \in Range(t) : m \in InMap(r)
    <3>1. TAKE m \in Range(t)
    <3>2. Id(m.atom) \in DOMAIN r.idMap
      BY <1>4, <1>8
    <3> QED
      BY <3>2, <1>9 DEF InMap
  <2>4. InMap(r) \subseteq InMap(v) \cup Range(t)
    BY <2>1 DEF InMap
  <2>5. InMap(v) \subseteq InMap(r)
    BY <2>2 DEF InMap
  <2> QED
    BY <2>3, <2>4, <2>5
<1>11. Apart(r)
  <2>1. Distinct(r.buffer)
    BY <1>3 DEF Released, Apart
  <2>2. \A x \in Waiting(r) : Id(x.atom) \notin DOMAIN r.idMap
    <3>1. TAKE x \in Waiting(r)
    <3>2. x \in Waiting(v) /\ x \notin Range(t)
      BY <1>6
    <3>3. Id(x.atom) \notin Ids(t)
      BY <3>2, <1>4, <1>5
    <3>4. Id(x.atom) \notin DOMAIN v.idMap
      BY <3>2 DEF Apart
    <3> QED
      BY <3>3, <3>4, <1>8
  <2> QED
    BY <2>1, <2>2, <1>5, <1>6 DEF Apart
<1>12. Freed(v, r, t)
  BY <1>3, <1>4, <1>6, <1>8, <1>10, <1>11 DEF Freed, Released
<1> QED
  BY <1>1, <1>3, <1>12

-----------------------------------------------------------------------------
(* The nodes of S are in the causal group of n. *)
Grouped(H, n, S) ==
    \E h \in H : \E i \in 1 .. Len(h) : \E j :
        /\ h[i] = n /\ GroupTo(h, i, j)
        /\ \A x \in S : \E k \in i + 1 .. j : x = h[k]

(* A place of a list has one causal group. *)
LEMMA OneGroup ==
    ASSUME NEW s \in Seq(Node), NEW i \in 1 .. Len(s), NEW j, NEW l,
           GroupTo(s, i, j), GroupTo(s, i, l)
    PROVE  j = l
<1>1. j \in i .. Len(s) /\ l \in i .. Len(s) /\ Len(s) \in Nat /\ i \in Nat
  BY DEF GroupTo
<1>2. \A k \in 1 .. Len(s) : s[k].atom.time \in Nat
  BY RangeOf, NodeFields
<1>3. CASE j < l
  <2>1. j + 1 \in i + 1 .. l /\ j < Len(s) /\ j + 1 \in 1 .. Len(s)
    BY <1>1, <1>3
  <2>2. s[j + 1].atom.time > s[i].atom.time /\ s[j + 1].atom.time <= s[i].atom.time
    BY <2>1 DEF GroupTo
  <2> QED
    BY <2>1, <2>2, <1>2
<1>4. CASE l < j
  <2>1. l + 1 \in i + 1 .. j /\ l < Len(s) /\ l + 1 \in 1 .. Len(s)
    BY <1>1, <1>4
  <2>2. s[l + 1].atom.time > s[i].atom.time /\ s[l + 1].atom.time <= s[i].atom.time
    BY <2>1 DEF GroupTo
  <2> QED
    BY <2>1, <2>2, <1>2
<1> QED
  BY <1>1, <1>3, <1>4

(* The group of s[i], which was up to j, has grown by t. *)
GroupGrown(s, t, q, i, j) ==
    /\ i \in 1 .. Len(q) /\ q[i] = s[i]
    /\ GroupTo(q, i, j + Len(t))
    /\ \A k \in i + 1 .. j : \E l \in i + 1 .. j + Len(t) : s[k] = q[l]
    /\ \A x \in Range(t) : \E l \in i + 1 .. j + Len(t) : x = q[l]

(* A list that is linked under n is in its causal group, with what was. *)
LEMMA GroupGrows ==
    ASSUME NEW w, NEW v, NEW M, M \subseteq Node, NEW s \in Seq(M), NEW t \in Seq(M), NEW q,
           NEW i \in 1 .. Len(s), NEW p, NEW j,
           InsertedAt(w, v, s, i, j, p, t), IsSplice(M, s, p, t, q),
           \A k \in 1 .. Len(t) : t[k].atom.time > s[i].atom.time
    PROVE  GroupGrown(s, t, q, i, j)
<1>1. PICK n \in Nat : n = Len(s)
  OBVIOUS
<1>2. PICK m \in Nat : m = Len(t)
  OBVIOUS
<1>3. /\ i \in 1 .. n /\ j \in i .. n /\ p \in i .. j
      /\ \A k \in i + 1 .. j : s[k].atom.time > s[i].atom.time
      /\ j < n => s[j + 1].atom.time <= s[i].atom.time
  BY <1>1 DEF InsertedAt, GroupTo
<1>4. /\ Len(q) = n + m
      /\ \A k \in 1 .. p : q[k] = s[k]
      /\ \A k \in 1 .. m : q[p + k] = t[k]
      /\ \A k \in p + 1 .. n : q[k + m] = s[k]
  BY <1>1, <1>2 DEF IsSplice
<1>5. i \in 1 .. p /\ i \in 1 .. n + m /\ q[i] = s[i]
  BY <1>3, <1>4
<1>6. ASSUME NEW k \in i + 1 .. j PROVE \E l \in i + 1 .. j + m : s[k] = q[l]
  <2>1. CASE k <= p
    <3>1. k \in 1 .. p /\ k \in i + 1 .. j + m
      BY <1>3, <2>1
    <3> QED
      BY <3>1, <1>4
  <2>2. CASE k > p
    <3>1. k \in p + 1 .. n /\ k + m \in i + 1 .. j + m
      BY <1>3, <2>2
    <3> QED
      BY <3>1, <1>4
  <2> QED
    BY <1>3, <2>1, <2>2
<1>7. ASSUME NEW k \in 1 .. m PROVE \E l \in i + 1 .. j + m : t[k] = q[l]
  <2>1. p + k \in i + 1 .. j + m
    BY <1>3
  <2> QED
    BY <2>1, <1>4
<1>8. ASSUME NEW k \in i + 1 .. j + m PROVE q[k].atom.time > q[i].atom.time
  <2>1. CASE k <= p
    <3>1. k \in 1 .. p /\ k \in i + 1 .. j
      BY <1>3, <2>1
    <3> QED
      BY <3>1, <1>3, <1>4, <1>5
  <2>2. CASE p < k /\ k <= p + m
    <3>1. k - p \in 1 .. m /\ p + (k - p) = k
      BY <1>3, <2>2
    <3>2. q[k] = t[k - p]
      BY <3>1, <1>4
    <3> QED
      BY <3>1, <3>2, <1>2, <1>5
  <2>3. CASE p + m < k
    <3>1. k - m \in p + 1 .. n /\ k - m \in i + 1 .. j /\ (k - m) + m = k
      BY <1>3, <2>3
    <3>2. q[k] = s[k - m]
      BY <3>1, <1>4
    <3> QED
      BY <3>1, <3>2, <1>3, <1>5
  <2> QED
    BY <1>3, <2>1, <2>2, <2>3
<1>9. j + m < n + m => q[(j + m) + 1].atom.time <= q[i].atom.time
  <2>1. SUFFICES ASSUME j + m < n + m PROVE q[(j + m) + 1].atom.time <= q[i].atom.time
    OBVIOUS
  <2>2. j < n /\ j + 1 \in p + 1 .. n /\ (j + 1) + m = (j + m) + 1
    BY <1>3, <2>1
  <2>3. q[(j + m) + 1] = s[j + 1]
    BY <2>2, <1>4
  <2> QED
    BY <2>2, <2>3, <1>3, <1>5
<1>10. j + m \in i .. n + m
  BY <1>3
<1>11. GroupTo(q, i, j + m)
  <2>1. PICK e : e = j + m
    OBVIOUS
  <2>2. /\ e \in i .. Len(q)
        /\ \A k \in i + 1 .. e : q[k].atom.time > q[i].atom.time
        /\ e < Len(q) => q[e + 1].atom.time <= q[i].atom.time
    BY <2>1, <1>4, <1>8, <1>9, <1>10
  <2> QED
    BY <2>1, <2>2 DEF GroupTo
<1>12. \A x \in Range(t) : \E k \in 1 .. m : x = t[k]
  BY <1>2, RangeOf
<1>13. \A x \in Range(t) : \E l \in i + 1 .. j + m : x = q[l]
  BY <1>7, <1>12
<1>14. i \in 1 .. Len(q)
  BY <1>4, <1>5
<1>15. \A k \in i + 1 .. j : \E l \in i + 1 .. j + m : s[k] = q[l]
  BY <1>6
<1> QED
  BY ONLY <1>2, <1>5, <1>11, <1>13, <1>14, <1>15 DEF GroupGrown

-----------------------------------------------------------------------------
(* What a child brings with it from the buffer into the list of n. *)
BroughtIn(v, u, M, n, Q, S) ==
    /\ Typed(u, M)
    /\ \E T : /\ T \subseteq Waiting(v) /\ Waiting(u) = Waiting(v) \ T
              /\ InMap(u) = InMap(v) \cup T
              /\ \E H : Rep(u, M, H, Q) /\ Grouped(H, n, S \cup T)

(* It is adopted by a node in the maps: its list is released. *)
LEMMA RepReleased ==
    ASSUME NEW v, NEW M, M \subseteq Node, Typed(v, M), NEW G, NEW P, Rep(v, M, G, P),
           NEW n \in InMap(v), P \subseteq Children(v, n), NEW child \in P,
           NEW S, Grouped(G, n, S)
    PROVE  BroughtIn(v, Adopt(v, n, child, FALSE), M, n, P \ {child}, S)
<1>0. child.atom.cause = Id(n.atom)
  BY DEF Children
<1>1. PICK s, i, t : ChildOf(v, M, G, n, child, s, i, t)
  BY <1>0, PendingHead
<1>2. PICK u : u = Adopt(v, n, child, FALSE)
  OBVIOUS
<1>3. PICK r : r = Release(v, t)
  OBVIOUS
<1>4. u = InsertNodeUnder(r, s[i], t[1], t[Len(t)])
  BY <1>1, <1>2, <1>3 DEF Adopt, ChildOf
<1>5. /\ Lists(v, M, G) /\ Kinds(v, G) /\ Covered(v, G) /\ Heads(v, G, P) /\ WithCause(v, G, P)
      /\ Apart(v) /\ Orphans(v, P)
  BY DEF Rep
<1>6. Typed(r, M) /\ Freed(v, r, t)
  BY <1>1, <1>3, <1>5, ReleaseFrees DEF ChildOf
<1>7. Lists(r, M, G)
  BY <1>5, <1>6, ListsSame DEF Freed
<1>8. PICK q : Merged(r, u, M, G, s, i, t, q)
  BY <1>1, <1>4, <1>6, <1>7, ListsMerge DEF ChildOf, Typed
<1>9. Links(u, M) /\ Relinked(r, u) /\ Lists(u, M, (G \ {s, t}) \cup {q})
  BY <1>8 DEF Merged
<1>10. Typed(u, M) /\ u.buffer = r.buffer /\ u.idMap = r.idMap
  BY <1>6, <1>9, TypedRelinked DEF Relinked
<1>11. /\ InMap(u) = InMap(v) \cup Range(t) /\ Waiting(u) = Waiting(v) \ Range(t)
       /\ Apart(u) /\ DOMAIN u.idMap = DOMAIN v.idMap \cup Ids(t)
       /\ Ids(t) = {Id(x.atom) : x \in Range(t)}
  BY <1>6, <1>10 DEF InMap, Waiting, Freed, Apart
<1>12. q[1] = s[1] /\ Range(q) = Range(s) \cup Range(t)
  BY <1>8 DEF Merged, IsSplice
<1>13. PICK H : H = (G \ {s, t}) \cup {q}
  OBVIOUS
<1>14. /\ s \in G /\ t \in G /\ t[1] = child /\ child \in Range(t) /\ n \in Range(s)
       /\ Range(t) \subseteq Waiting(v) /\ i \in 1 .. Len(s) /\ s[i] = n
       /\ s \in Seq(M) /\ t \in Seq(M) /\ t[1].atom.time > s[i].atom.time
  BY <1>1 DEF ChildOf
<1>15. n \notin Waiting(v)
  <2>1. Id(n.atom) \in DOMAIN v.idMap
    BY WaitingNodes
  <2> QED
    BY <2>1, <1>5 DEF Apart
<1>16. \A g \in G : g # t => Range(g) \cap Range(t) = {}
  BY <1>5, <1>14 DEF Lists
<1>17. \A x \in Waiting(v) \ P, y \in Range(t) :
         x.atom.cause = Id(y.atom) => x \in Range(t)
  <2>1. TAKE x \in Waiting(v) \ P, y \in Range(t)
  <2>2. HAVE x.atom.cause = Id(y.atom)
  <2>3. PICK g \in G : x \in Range(g) /\ y \in Range(g)
    BY <2>2, <1>5, <1>14 DEF WithCause, Together
  <2> QED
    BY <2>3, <1>16
<1>18. Kinds(u, H)
  <2>1. s[1].atom.cause = NoCause /\ Range(s) \subseteq InMap(v)
    BY <1>5, <1>14, <1>15 DEF Kinds
  <2>2. \A h \in H : h = q \/ (h \in G /\ h # t)
    BY <1>13
  <2>3. q[1].atom.cause = NoCause /\ Range(q) \subseteq InMap(u)
    BY <2>1, <1>11, <1>12
  <2>4. ASSUME NEW h \in G, h # t
        PROVE  \/ h[1].atom.cause = NoCause /\ Range(h) \subseteq InMap(u)
               \/ h[1].atom.cause # NoCause /\ Range(h) \subseteq Waiting(u)
    BY <2>4, <1>5, <1>11, <1>16 DEF Kinds
  <2> QED
    BY <2>2, <2>3, <2>4 DEF Kinds
<1>19. \A g \in G : \E h \in H : Range(g) \subseteq Range(h)
  <2>1. TAKE g \in G
  <2>2. CASE g \in {s, t}
    BY <2>2, <1>12, <1>13
  <2>3. CASE g \notin {s, t}
    BY <2>3, <1>13
  <2> QED
    BY <2>2, <2>3
<1>20. Covered(u, H)
  <2>1. \A x \in InMap(v) \cup Waiting(v) : \E g \in G : x \in Range(g)
    BY <1>5 DEF Covered
  <2>2. \A x \in InMap(v) \cup Waiting(v) : \E h \in H : x \in Range(h)
    BY <2>1, <1>19
  <2>3. InMap(u) \cup Waiting(u) \subseteq InMap(v) \cup Waiting(v)
    BY <1>11, <1>14
  <2> QED
    BY <2>2, <2>3 DEF Covered
<1>21. Heads(u, H, P \ {child})
  <2> SUFFICES ASSUME NEW h \in H, NEW x \in Range(h) \cap Waiting(u), x # h[1]
               PROVE  x \notin P \ {child} /\ \E y \in Waiting(u) : x.atom.cause = Id(y.atom)
    BY DEF Heads
  <2>1. h \in G /\ h # t
    <3>1. h # q
      <4>1. Range(s) \subseteq InMap(v)
        BY <1>5, <1>14, <1>15 DEF Kinds
      <4>2. \A z \in InMap(v) : z \notin Waiting(v)
        <5>1. \A z \in InMap(v) : Id(z.atom) \in DOMAIN v.idMap
          BY WaitingNodes
        <5> QED
          BY <5>1, <1>5 DEF Apart
      <4> QED
        BY <4>1, <4>2, <1>11, <1>12
    <3> QED
      BY <3>1, <1>13
  <2>2. x \in Waiting(v) /\ x \notin Range(t)
    BY <1>11
  <2>3. PICK y \in Waiting(v) : x.atom.cause = Id(y.atom) /\ x \notin P
    BY <2>1, <2>2, <1>5 DEF Heads
  <2>4. y \notin Range(t)
    BY <2>2, <2>3, <1>17
  <2> QED
    BY <2>3, <2>4, <1>11
<1>22. WithCause(u, H, P \ {child})
  <2> SUFFICES ASSUME NEW x \in Waiting(u) \ (P \ {child}), NEW y \in Waiting(u),
                      x.atom.cause = Id(y.atom)
               PROVE  Together(H, x, y)
    BY DEF WithCause
  <2>1. x # child /\ x \in Waiting(v) \ P /\ y \in Waiting(v)
    BY <1>11, <1>14
  <2>2. Together(G, x, y)
    BY <2>1, <1>5 DEF WithCause
  <2> QED
    BY <2>2, <1>19 DEF Together
<1>23. Orphans(u, P \ {child})
  <2>1. P \ {child} \subseteq Waiting(u)
    <3> SUFFICES ASSUME NEW y \in P \ {child} PROVE y \in Waiting(u)
      OBVIOUS
    <3>2. y \in Waiting(v)
      BY <1>5 DEF Orphans
    <3>3. y \notin Range(t)
      BY <3>2, <1>5, <1>14 DEF Heads
    <3> QED
      BY <3>2, <3>3, <1>11
  <2>2. ASSUME NEW x \in Waiting(u) \ (P \ {child}) PROVE x.atom.cause \notin DOMAIN u.idMap
    <3>1. x # child /\ x \in Waiting(v) \ P /\ x \notin Range(t)
      BY <1>11, <1>14
    <3>2. x.atom.cause \notin DOMAIN v.idMap
      BY <3>1, <1>5 DEF Orphans
    <3>3. x.atom.cause \notin Ids(t)
      BY <3>1, <1>11, <1>17
    <3> QED
      BY <3>2, <3>3, <1>11
  <2> QED
    BY <2>1, <2>2 DEF Orphans
<1>24. Rep(u, M, H, P \ {child})
  BY <1>9, <1>11, <1>13, <1>18, <1>20, <1>21, <1>22, <1>23 DEF Rep
<1>25. Grouped(H, n, S \cup Range(t))
  <2>0. PICK h \in G : \E a \in 1 .. Len(h) : \E b :
          /\ h[a] = n /\ GroupTo(h, a, b)
          /\ \A x \in S : \E k \in a + 1 .. b : x = h[k]
    BY DEF Grouped
  <2>0a. PICK a \in 1 .. Len(h) : \E b :
          /\ h[a] = n /\ GroupTo(h, a, b)
          /\ \A x \in S : \E k \in a + 1 .. b : x = h[k]
    BY <2>0
  <2>1. PICK b :
          /\ h[a] = n /\ GroupTo(h, a, b)
          /\ \A x \in S : \E k \in a + 1 .. b : x = h[k]
    BY <2>0a
  <2>2. h \in Seq(M) /\ Chain(v, h) /\ h \in Seq(Node) /\ Chain(v, s) /\ s \in Seq(Node)
    BY <1>5, <1>14 DEF Lists, Chain
  <2>3. h = s
    <3>1. n \in Range(h)
      BY <2>1, <2>2, RangeOf
    <3> QED
      BY <3>1, <1>5, <1>14 DEF Lists
  <2>4. a = i
    <3>1. a \in DOMAIN s /\ i \in DOMAIN s
      BY <2>1, <2>2, <2>3, <1>14
    <3> QED
      BY <3>1, <2>1, <2>2, <2>3, <1>14 DEF Chain, Distinct
  <2>5. PICK p, j : InsertedAt(r, u, s, i, j, p, t) /\ IsSplice(M, s, p, t, q)
    BY <1>8 DEF Merged
  <2>6. j = b
    <3>1. GroupTo(s, i, j) /\ GroupTo(s, i, b)
      BY <2>1, <2>3, <2>4, <2>5 DEF InsertedAt
    <3> QED
      BY <3>1, <2>2, <1>14, OneGroup
  <2>7. \A k \in 1 .. Len(t) : t[k].atom.time > s[i].atom.time
    <3>1. TAKE k \in 1 .. Len(t)
    <3>2. t[k].atom.time \in Nat /\ t[1].atom.time \in Nat /\ s[i].atom.time \in Nat /\ Len(t) \in Nat
      <4>1. t[k] \in M /\ s[i] \in M /\ Len(t) \in Nat /\ 1 \in 1 .. Len(t)
        BY <1>14, RangeOf
      <4>2. t[1] \in M
        BY <4>1, <1>14
      <4> QED
        BY <4>1, <4>2, NodeFields
    <3>3. CASE k = 1
      BY <3>3, <1>14
    <3>4. CASE k # 1
      <4>1. k \in 2 .. Len(t)
        BY <3>2, <3>4
      <4>2. t[k].atom.time > t[1].atom.time
        BY <4>1, <1>5, <1>14 DEF Lists
      <4> QED
        BY <4>2, <3>2, <1>14
    <3> QED
      BY <3>3, <3>4
  <2>8. /\ i \in 1 .. Len(q) /\ q[i] = s[i]
        /\ GroupTo(q, i, j + Len(t))
        /\ \A k \in i + 1 .. j : \E l \in i + 1 .. j + Len(t) : s[k] = q[l]
        /\ \A x \in Range(t) : \E l \in i + 1 .. j + Len(t) : x = q[l]
    <3>1. GroupGrown(s, t, q, i, j)
      BY <2>5, <2>7, <1>14, GroupGrows
    <3> QED
      BY <3>1 DEF GroupGrown
  <2>9. \A x \in S : \E k \in i + 1 .. j : x = s[k]
    BY <2>1, <2>3, <2>4, <2>6
  <2>10. \A x \in S \cup Range(t) : \E l \in i + 1 .. j + Len(t) : x = q[l]
    BY <2>8, <2>9
  <2>11. q \in H /\ q[i] = n
    BY <2>8, <1>13, <1>14
  <2> QED
    BY <2>8, <2>10, <2>11 DEF Grouped
<1>26. \E T : /\ T \subseteq Waiting(v) /\ Waiting(u) = Waiting(v) \ T
              /\ InMap(u) = InMap(v) \cup T
              /\ \E K : Rep(u, M, K, P \ {child}) /\ Grouped(K, n, S \cup T)
  BY <1>11, <1>14, <1>24, <1>25
<1> QED
  <2>1. BroughtIn(v, u, M, n, P \ {child}, S)
    BY ONLY <1>10, <1>26 DEF BroughtIn
  <2> QED
    BY <1>2, <2>1

-----------------------------------------------------------------------------
(* All the children that wait are adopted, one after the other.            *)

(* Those behind place k of the buffer are left. *)
Pending(w, n, k) ==
    {x \in Children(w, n) : \E l \in k + 1 .. Len(w.buffer) : x = w.buffer[l]}

(* The children that are still to be linked, as the pass over the buffer   *)
(* goes on.                                                                *)
LEMMA PendingSteps ==
    ASSUME NEW w, NEW M, w.buffer \in Seq(M), Distinct(w.buffer), NEW n
    PROVE  /\ Pending(w, n, 0) = Children(w, n) /\ Pending(w, n, Len(w.buffer)) = {}
           /\ \A k \in 1 .. Len(w.buffer) :
                IF w.buffer[k].atom.cause = Id(n.atom)
                  THEN /\ w.buffer[k] \in Pending(w, n, k - 1)
                       /\ Pending(w, n, k) = Pending(w, n, k - 1) \ {w.buffer[k]}
                  ELSE Pending(w, n, k) = Pending(w, n, k - 1)
<1>1. PICK b : b = w.buffer
  OBVIOUS
<1>2. PICK m \in Nat : m = Len(b)
  BY <1>1
<1>3. /\ \A i, j \in 1 .. m : b[i] = b[j] => i = j
      /\ \A i \in 1 .. m : b[i] \in Range(b)
      /\ \A x \in Range(b) : \E i \in 1 .. m : x = b[i]
  BY <1>1, <1>2, RangeOf DEF Distinct
<1>4. \A x : x \in Children(w, n) <=> x \in Range(b) /\ x.atom.cause = Id(n.atom)
  BY <1>1 DEF Children, Waiting
<1>5. \A k : Pending(w, n, k) = {x \in Children(w, n) : \E l \in k + 1 .. m : x = b[l]}
  BY <1>1, <1>2 DEF Pending
<1>6. Pending(w, n, 0) = Children(w, n)
  <2>1. \A l \in 1 .. m : l \in 0 + 1 .. m
    BY <1>2
  <2>2. \A x \in Children(w, n) : \E l \in 0 + 1 .. m : x = b[l]
    BY <2>1, <1>3, <1>4
  <2>3. Pending(w, n, 0) = {x \in Children(w, n) : \E l \in 0 + 1 .. m : x = b[l]}
    BY ONLY <1>5
  <2> QED
    BY ONLY <2>2, <2>3
<1>7. Pending(w, n, m) = {}
  <2>1. \A l \in m + 1 .. m : FALSE
    BY <1>2
  <2> QED
    BY <2>1, <1>5
<1>8. ASSUME NEW k \in 1 .. m
      PROVE  IF b[k].atom.cause = Id(n.atom)
               THEN b[k] \in Pending(w, n, k - 1) /\ Pending(w, n, k) = Pending(w, n, k - 1) \ {b[k]}
               ELSE Pending(w, n, k) = Pending(w, n, k - 1)
  <2>1. /\ k \in (k - 1) + 1 .. m
        /\ \A l \in (k - 1) + 1 .. m : l = k \/ l \in k + 1 .. m
        /\ \A l \in k + 1 .. m : l \in (k - 1) + 1 .. m /\ l # k /\ l \in 1 .. m
    BY <1>2
  <2>2. \A x : x \in Pending(w, n, k - 1) <=> x \in Children(w, n) /\ \E l \in (k - 1) + 1 .. m : x = b[l]
    BY <1>5
  <2>3. \A x : x \in Pending(w, n, k) <=> x \in Children(w, n) /\ \E l \in k + 1 .. m : x = b[l]
    BY <1>5
  <2>4. \A x : x \in Pending(w, n, k) <=> x \in Pending(w, n, k - 1) /\ x # b[k]
    BY <2>1, <2>2, <2>3, <1>3
  <2>5. b[k].atom.cause = Id(n.atom) => b[k] \in Pending(w, n, k - 1)
    BY <2>1, <2>2, <1>3, <1>4
  <2>6. b[k].atom.cause # Id(n.atom) => b[k] \notin Pending(w, n, k - 1)
    BY <2>2, <1>4
  <2>7. CASE b[k].atom.cause = Id(n.atom)
    <3>1. Pending(w, n, k) = Pending(w, n, k - 1) \ {b[k]}
      BY ONLY <2>4
    <3> QED
      BY <3>1, <2>5, <2>7
  <2>8. CASE b[k].atom.cause # Id(n.atom)
    <3>1. Pending(w, n, k) = Pending(w, n, k - 1)
      <4>1. Pending(w, n, k) \subseteq Pending(w, n, k - 1)
        BY <2>4
      <4>2. Pending(w, n, k - 1) \subseteq Pending(w, n, k)
        BY <2>4, <2>6, <2>8
      <4> QED
        BY <4>1, <4>2
    <3> QED
      BY <3>1, <2>8
  <2> QED
    BY <2>7, <2>8
<1> QED
  BY <1>1, <1>2, <1>6, <1>7, <1>8

(* v is w with some lists released under n, and the children P still left. *)
PartFreed(w, M, n, v, P) ==
    /\ Typed(v, M)
    /\ \E T : /\ T \subseteq Waiting(w) /\ Waiting(v) = Waiting(w) \ T
              /\ InMap(v) = InMap(w) \cup T
              /\ \E H : Rep(v, M, H, P) /\ Grouped(H, n, T)

(* One child is linked under n, and what hangs from it leaves the buffer. *)
LEMMA PartFreedStep ==
    ASSUME NEW w, NEW M, M \subseteq Node, NEW n \in InMap(w), NEW v, NEW P,
           PartFreed(w, M, n, v, P), \A x \in P : x.atom.cause = Id(n.atom), NEW child \in P
    PROVE  PartFreed(w, M, n, Adopt(v, n, child, FALSE), P \ {child})
<1>1. PICK u : u = Adopt(v, n, child, FALSE)
  OBVIOUS
<1>2. PICK T : /\ T \subseteq Waiting(w) /\ Waiting(v) = Waiting(w) \ T
               /\ InMap(v) = InMap(w) \cup T
               /\ \E H : Rep(v, M, H, P) /\ Grouped(H, n, T)
  BY DEF PartFreed
<1>3. PICK G : Rep(v, M, G, P) /\ Grouped(G, n, T)
  BY <1>2
<1>4. n \in InMap(v) /\ P \subseteq Children(v, n) /\ Typed(v, M)
  BY <1>2, <1>3 DEF Rep, Orphans, Children, PartFreed
<1>5. BroughtIn(v, u, M, n, P \ {child}, T)
  BY <1>1, <1>3, <1>4, RepReleased
<1>6. PICK S : /\ S \subseteq Waiting(v) /\ Waiting(u) = Waiting(v) \ S
               /\ InMap(u) = InMap(v) \cup S
               /\ \E H : Rep(u, M, H, P \ {child}) /\ Grouped(H, n, T \cup S)
  BY <1>5 DEF BroughtIn
<1>7. PICK R : R = T \cup S
  OBVIOUS
<1>8. /\ R \subseteq Waiting(w) /\ Waiting(u) = Waiting(w) \ R
      /\ InMap(u) = InMap(w) \cup R
      /\ \E H : Rep(u, M, H, P \ {child}) /\ Grouped(H, n, R)
  BY <1>2, <1>6, <1>7
<1> QED
  BY <1>1, <1>5, <1>8 DEF PartFreed, BroughtIn

(* After the pass no child of n waits. *)
LEMMA AllFreed ==
    ASSUME NEW w, NEW M, M \subseteq Node, NEW n \in InMap(w), Distinct(w.buffer),
           PartFreed(w, M, n, w, Children(w, n))
    PROVE  PartFreed(w, M, n, AddMissingChildren(w, n, FALSE), {})
<1>0. Typed(w, M)
  BY DEF PartFreed
<1>1. PICK f : Adopts(w, n, FALSE, f)
  BY <1>0, AddMissingChildrenUnfold
<1> DEFINE m == Len(w.buffer)
           T == {k \in 0 .. m : PartFreed(w, M, n, f[k], Pending(w, n, k))}
<1>2. m \in Nat /\ w.buffer \in Seq(M)
  BY <1>0 DEF Typed, Stored
<1>3. /\ AddMissingChildren(w, n, FALSE) = f[m] /\ f[0] = w
      /\ \A k \in 1 .. m : f[k] = IF w.buffer[k].atom.cause = Id(n.atom)
                                    THEN Adopt(f[k - 1], n, w.buffer[k], FALSE) ELSE f[k - 1]
  BY <1>1 DEF Adopts
<1>4. /\ Pending(w, n, 0) = Children(w, n) /\ Pending(w, n, m) = {}
      /\ \A k \in 1 .. m :
           IF w.buffer[k].atom.cause = Id(n.atom)
             THEN /\ w.buffer[k] \in Pending(w, n, k - 1)
                  /\ Pending(w, n, k) = Pending(w, n, k - 1) \ {w.buffer[k]}
             ELSE Pending(w, n, k) = Pending(w, n, k - 1)
  BY <1>2, PendingSteps
<1> HIDE DEF m
<1>5. 0 \in T
  BY <1>2, <1>3, <1>4
<1>6. ASSUME NEW k \in 1 .. m, k - 1 \in T PROVE k \in T
  <2>1. PartFreed(w, M, n, f[k - 1], Pending(w, n, k - 1)) /\ k \in 0 .. m
    BY <1>6, <1>2
  <2>2. CASE w.buffer[k].atom.cause = Id(n.atom)
    <3>1. \A x \in Pending(w, n, k - 1) : x.atom.cause = Id(n.atom)
      BY DEF Pending, Children
    <3>2. w.buffer[k] \in Pending(w, n, k - 1)
      BY <2>2, <1>4
    <3>3. PartFreed(w, M, n, Adopt(f[k - 1], n, w.buffer[k], FALSE),
                    Pending(w, n, k - 1) \ {w.buffer[k]})
      BY <2>1, <3>1, <3>2, PartFreedStep
    <3> QED
      BY <2>1, <2>2, <3>3, <1>3, <1>4
  <2>3. CASE w.buffer[k].atom.cause # Id(n.atom)
    BY <2>1, <2>3, <1>3, <1>4
  <2> QED
    BY <2>2, <2>3
<1>7. \A k \in 0 .. m : k \in T
  <2> HIDE DEF T
  <2> QED
    BY ONLY <1>2, <1>5, <1>6, UpTo
<1>8. m \in 0 .. m
  BY <1>2
<1> QED
  BY <1>3, <1>4, <1>7, <1>8

(* The same where n waits. *)
LEMMA AllJoined ==
    ASSUME NEW w, NEW M, M \subseteq Node, NEW n \in Waiting(w), Distinct(w.buffer),
           PartJoined(w, M, w, Children(w, n))
    PROVE  PartJoined(w, M, AddMissingChildren(w, n, TRUE), {})
<1>0. Typed(w, M)
  BY DEF PartJoined
<1>1. PICK f : Adopts(w, n, TRUE, f)
  BY <1>0, AddMissingChildrenUnfold
<1> DEFINE m == Len(w.buffer)
           T == {k \in 0 .. m : PartJoined(w, M, f[k], Pending(w, n, k))}
<1>2. m \in Nat /\ w.buffer \in Seq(M)
  BY <1>0 DEF Typed, Stored
<1>3. /\ AddMissingChildren(w, n, TRUE) = f[m] /\ f[0] = w
      /\ \A k \in 1 .. m : f[k] = IF w.buffer[k].atom.cause = Id(n.atom)
                                    THEN Adopt(f[k - 1], n, w.buffer[k], TRUE) ELSE f[k - 1]
  BY <1>1 DEF Adopts
<1>4. /\ Pending(w, n, 0) = Children(w, n) /\ Pending(w, n, m) = {}
      /\ \A k \in 1 .. m :
           IF w.buffer[k].atom.cause = Id(n.atom)
             THEN /\ w.buffer[k] \in Pending(w, n, k - 1)
                  /\ Pending(w, n, k) = Pending(w, n, k - 1) \ {w.buffer[k]}
             ELSE Pending(w, n, k) = Pending(w, n, k - 1)
  BY <1>2, PendingSteps
<1> HIDE DEF m
<1>5. 0 \in T
  BY <1>2, <1>3, <1>4
<1>6. ASSUME NEW k \in 1 .. m, k - 1 \in T PROVE k \in T
  <2>1. PartJoined(w, M, f[k - 1], Pending(w, n, k - 1)) /\ k \in 0 .. m
    BY <1>6, <1>2
  <2>2. CASE w.buffer[k].atom.cause = Id(n.atom)
    <3>1. PICK v : v = f[k - 1]
      OBVIOUS
    <3>2. PICK G : Rep(v, M, G, Pending(w, n, k - 1))
      BY <2>1, <3>1 DEF PartJoined
    <3>3. Typed(v, M) /\ v.buffer = w.buffer /\ v.idMap = w.idMap
      BY <2>1, <3>1 DEF PartJoined
    <3>4. n \in Waiting(v)
      BY <3>3 DEF Waiting
    <3>5. w.buffer[k] \in Pending(w, n, k - 1)
      BY <2>2, <1>4
    <3>6. PICK u : u = Adopt(v, n, w.buffer[k], TRUE)
      OBVIOUS
    <3>7. PartJoined(v, M, u, Pending(w, n, k - 1) \ {w.buffer[k]})
      BY <2>2, <3>2, <3>3, <3>4, <3>5, <3>6, RepAdopted
    <3>8. PartJoined(w, M, u, Pending(w, n, k))
      BY <2>2, <3>3, <3>7, <1>4 DEF PartJoined
    <3> QED
      BY <2>1, <2>2, <3>1, <3>6, <3>8, <1>3
  <2>3. CASE w.buffer[k].atom.cause # Id(n.atom)
    BY <2>1, <2>3, <1>3, <1>4
  <2> QED
    BY <2>2, <2>3
<1>7. \A k \in 0 .. m : k \in T
  <2> HIDE DEF T
  <2> QED
    BY ONLY <1>2, <1>5, <1>6, UpTo
<1>8. m \in 0 .. m
  BY <1>2
<1> QED
  BY <1>3, <1>4, <1>7, <1>8

-----------------------------------------------------------------------------
(* What an insert returns.                                                 *)

(* The lists of the result are whole, what waited in w waits or is in the  *)
(* maps, and what has come to the maps is told of.                         *)
Sound(w, r, M) ==
    /\ \E H : Rep(r.weave, M, H, {})
    /\ Waiting(w) \subseteq Waiting(r.weave) \cup InMap(r.weave)
    /\ \A m \in InMap(r.weave) : m \in InMap(w) \/ Told(r, m.atom)

(* A result that changes nothing is sound. *)
LEMMA UnchangedSound ==
    ASSUME NEW w, NEW M, NEW G, Rep(w, M, G, {}), NEW type, NEW added
    PROVE  Sound(w, Result(w, type, added), M)
BY ResultFields DEF Sound

(* The elements behind the first. *)
LEMMA BehindFirst ==
    ASSUME NEW M, NEW n, NEW group \in Seq(M), NEW e \in 1 .. Len(group)
    PROVE  LET s == <<n>> \o group IN e + 1 \in DOMAIN s /\ s[e + 1] = group[e]
<1>1. PICK l \in Nat : l = Len(group)
  OBVIOUS
<1>2. /\ DOMAIN (<<n>> \o group) = 1 .. 1 + l
      /\ \A k \in 1 .. 1 + l : (<<n>> \o group)[k] = IF k <= 1 THEN n ELSE group[k - 1]
  BY <1>1
<1>3. e + 1 \in 1 .. 1 + l /\ ~(e + 1 <= 1) /\ (e + 1) - 1 = e
  BY <1>1
<1> QED
  BY <1>2, <1>3

(* The nodes of the group of n are told of. *)
LEMMA GroupTold ==
    ASSUME NEW w, NEW M, M \subseteq Node, Links(w, M), NEW G, Lists(w, M, G),
           NEW n \in M, NEW T, Grouped(G, n, T), NEW m \in T, NEW type, NEW v
    PROVE  Told(Result(v, type, AtomsOf(<<n>> \o IterateCausalGroup(w, n))), m.atom)
<1>1. PICK h \in G : \E i \in 1 .. Len(h) : \E j :
        /\ h[i] = n /\ GroupTo(h, i, j)
        /\ \A x \in T : \E k \in i + 1 .. j : x = h[k]
  BY DEF Grouped
<1>2. PICK i \in 1 .. Len(h) : \E j :
        /\ h[i] = n /\ GroupTo(h, i, j)
        /\ \A x \in T : \E k \in i + 1 .. j : x = h[k]
  BY <1>1
<1>3. PICK j : /\ h[i] = n /\ GroupTo(h, i, j)
               /\ \A x \in T : \E k \in i + 1 .. j : x = h[k]
  BY <1>2
<1>4. h \in Seq(M) /\ Chain(w, h) /\ h \in Seq(Node) /\ Len(h) \in Nat
  BY DEF Lists, Chain
<1>5. PICK group : group = IterateCausalGroup(w, n)
  OBVIOUS
<1>6. \E l : GroupAt(M, h, i, group, l)
  BY <1>3, <1>4, <1>5, GroupInChain DEF Links
<1>7. PICK l : GroupAt(M, h, i, group, l)
  BY <1>6
<1>8. l = j
  BY <1>3, <1>4, <1>7, OneGroup DEF GroupAt
<1>9. PICK k \in i + 1 .. j : m = h[k]
  BY <1>3
<1>10. /\ group \in Seq(M) /\ Len(group) = j - i
       /\ \A e \in 1 .. j - i : group[e] = h[i + e]
  BY <1>7, <1>8 DEF GroupAt
<1>11. j \in i .. Len(h) /\ i \in Nat /\ j \in Nat
  BY <1>3, <1>4 DEF GroupTo
<1>12. PICK e \in 1 .. j - i : e = k - i /\ i + e = k
  BY <1>9, <1>11
<1>13. group[e] = m
  BY <1>9, <1>10, <1>12
<1>14. PICK s : s = <<n>> \o group
  OBVIOUS
<1>15. e + 1 \in DOMAIN s /\ s[e + 1] = m
  <2>1. e \in 1 .. Len(group) /\ group \in Seq(M)
    BY <1>10, <1>12
  <2>2. e + 1 \in DOMAIN s /\ s[e + 1] = group[e]
    BY ONLY <2>1, <1>14, BehindFirst
  <2> QED
    BY <2>2, <1>13
<1>16. e + 1 \in DOMAIN AtomsOf(s) /\ AtomsOf(s)[e + 1] = m.atom
  BY <1>15 DEF AtomsOf
<1>17. PICK r : r = Result(v, type, AtomsOf(s))
  OBVIOUS
<1>18. r.added = AtomsOf(s)
  BY <1>17, ResultFields
<1>19. Told(r, m.atom)
  BY <1>16, <1>18 DEF Told
<1> QED
  BY <1>5, <1>14, <1>17, <1>19

(* n has come to the maps of w, with the children it has in the buffer. *)
LEMMA Gathered ==
    ASSUME NEW w, NEW M, M \subseteq Node, Typed(w, M), NEW n \in InMap(w),
           NEW G, Rep(w, M, G, Children(w, n)), n.atom.prio = 0 => Newest(G, n)
    PROVE  Sound(w, WithMissingChildren(w, n), M)
<1>1. HasMissingChildren(w, n) <=> Children(w, n) # {}
  BY DEF HasMissingChildren, Children, Waiting, Range
<1>2. CASE ~HasMissingChildren(w, n)
  <2>1. WithMissingChildren(w, n) = Result(w, "atom_added", <<n.atom>>)
    BY <1>2 DEF WithMissingChildren
  <2>2. Rep(w, M, G, {})
    BY <1>1, <1>2
  <2> QED
    BY <2>1, <2>2, UnchangedSound
<1>3. CASE HasMissingChildren(w, n)
  <2>1. n.atom.prio = 0
    <3>1. PICK x \in Waiting(w) : x.atom.cause = Id(n.atom)
      BY <1>1, <1>3 DEF Children
    <3>2. x \in Node /\ x.atom.cause # NoCause
      BY WaitingNodes DEF Under
    <3>3. x.atom.cause \in Nat \X Nat \X {0}
      BY <3>2 DEF Node, Atom
    <3>4. x.atom.cause[3] = 0
      BY <3>3
    <3>5. Id(n.atom)[3] = n.atom.prio
      BY DEF Id
    <3> QED
      BY <3>1, <3>4, <3>5
  <2>2. Grouped(G, n, {})
    BY <2>1 DEF Newest, Grouped
  <2>3. Distinct(w.buffer)
    BY DEF Rep, Apart
  <2>4. PartFreed(w, M, n, w, Children(w, n))
    <3>1. Waiting(w) = Waiting(w) \ {} /\ InMap(w) = InMap(w) \cup {}
      OBVIOUS
    <3> QED
      BY <2>2, <3>1 DEF PartFreed
  <2>5. PICK full : full = AddMissingChildren(w, n, FALSE)
    OBVIOUS
  <2>6. PartFreed(w, M, n, full, {})
    BY <2>3, <2>4, <2>5, AllFreed
  <2>7. PICK T : /\ T \subseteq Waiting(w) /\ Waiting(full) = Waiting(w) \ T
                 /\ InMap(full) = InMap(w) \cup T
                 /\ \E H : Rep(full, M, H, {}) /\ Grouped(H, n, T)
    BY <2>6 DEF PartFreed
  <2>8. PICK H : Rep(full, M, H, {}) /\ Grouped(H, n, T)
    BY <2>7
  <2>9. PICK r : r = Result(full, "atoms_added",
                            AtomsOf(<<n>> \o IterateCausalGroup(full, n)))
    OBVIOUS
  <2>10. WithMissingChildren(w, n) = r
    BY <1>3, <2>5, <2>9 DEF WithMissingChildren
  <2>11. ASSUME NEW m \in T PROVE Told(r, m.atom)
    <3>1. n \in M /\ Links(full, M) /\ Lists(full, M, H)
      BY <2>6, <2>8, WaitingNodes DEF PartFreed, Typed, Rep
    <3> QED
      BY <2>8, <2>9, <3>1, GroupTold
  <2>12. r.weave = full
    BY <2>9, ResultFields
  <2>13. Waiting(w) \subseteq Waiting(full) \cup InMap(full)
    BY <2>7
  <2>14. \A m \in InMap(full) : m \in InMap(w) \/ Told(r, m.atom)
    BY <2>7, <2>11
  <2>15. Sound(w, r, M)
    BY <2>8, <2>12, <2>13, <2>14 DEF Sound
  <2> QED
    BY <2>10, <2>15
<1> QED
  BY <1>2, <1>3

(* The same, when n was not there before. *)
LEMMA NewGathered ==
    ASSUME NEW w, NEW v, NEW M, M \subseteq Node, Typed(v, M),
           NEW n \in M, InMap(v) = InMap(w) \cup {n}, Waiting(v) = Waiting(w),
           NEW G, Rep(v, M, G, Children(v, n)), n.atom.prio = 0 => Newest(G, n)
    PROVE  Sound(w, WithMissingChildren(v, n), M)
<1>1. PICK r : r = WithMissingChildren(v, n)
  OBVIOUS
<1>2. Sound(v, r, M)
  BY <1>1, Gathered
<1>3. Told(r, n.atom)
  BY <1>1, WithMissingChildrenTold
<1> QED
  BY <1>1, <1>2, <1>3 DEF Sound

-----------------------------------------------------------------------------
(* Taking nodes out of the lists.                                          *)

(* The nodes and the IDs of a stretch of a list. *)
LEMMA PieceElements ==
    ASSUME NEW M, NEW s \in Seq(M), NEW i \in 1 .. Len(s), NEW j \in i .. Len(s)
    PROVE  /\ Range(Piece(s, i, j)) = {s[k] : k \in i .. j}
           /\ Ids(Piece(s, i, j)) = {Id(x.atom) : x \in Range(Piece(s, i, j))}
<1>1. PICK p : p = Piece(s, i, j)
  OBVIOUS
<1>2. DOMAIN p = 1 .. j - i + 1 /\ \A k \in 1 .. j - i + 1 : p[k] = s[i + k - 1]
  BY <1>1 DEF Piece
<1>3. \A k \in 1 .. j - i + 1 : i + k - 1 \in i .. j
  OBVIOUS
<1>4. \A k \in i .. j : k - i + 1 \in 1 .. j - i + 1 /\ i + (k - i + 1) - 1 = k
  OBVIOUS
<1>5. \A k \in i .. j : s[k] \in Range(p)
  <2>1. TAKE k \in i .. j
  <2>2. k - i + 1 \in DOMAIN p /\ p[k - i + 1] = s[i + (k - i + 1) - 1]
    BY <1>2, <1>4
  <2>3. p[k - i + 1] = s[k]
    BY <2>2, <1>4
  <2> QED
    BY <2>2, <2>3 DEF Range
<1>6. \A x \in Range(p) : \E k \in i .. j : x = s[k]
  BY <1>2, <1>3 DEF Range
<1>7. Range(p) = {s[k] : k \in i .. j}
  BY <1>5, <1>6
<1>8. Ids(p) = {Id(x.atom) : x \in Range(p)}
  BY DEF Ids, Range
<1> QED
  BY <1>1, <1>7, <1>8

(* _removeSpan cuts the stretch out of its list. *)
LEMMA SpanCutOut ==
    ASSUME NEW w, NEW u, NEW s, Chain(w, s), NEW i \in 1 .. Len(s), NEW j \in i .. Len(s),
           SpanCut(w, u, s[i], s[j])
    PROVE  CutOut(w, u, s, i, j)
<1>1. /\ s \in Seq(Node) /\ Len(s) \in Nat /\ Len(s) >= 1
      /\ \A k \in 2 .. Len(s) : At(w.next, s[k - 1]) = s[k] /\ At(w.prev, s[k]) = s[k - 1]
      /\ At(w.prev, s[1]) = Null /\ At(w.next, s[Len(s)]) = Null
      /\ \A k \in 1 .. Len(s) : s[k] # Null
  <2>1. s \in Seq(Node)
    BY DEF Chain
  <2>2. \A k \in 1 .. Len(s) : s[k] # Null
    BY <2>1, RangeOf, NullIsNoNode
  <2> QED
    BY <2>1, <2>2 DEF Chain
<1>2. PICK next : next = At(w.next, s[j])
  OBVIOUS
<1>3. PICK prev : prev = At(w.prev, s[i])
  OBVIOUS
<1>4. next = IF j < Len(s) THEN s[j + 1] ELSE Null
  <2>1. CASE j < Len(s)
    <3>1. j + 1 \in 2 .. Len(s) /\ (j + 1) - 1 = j
      BY <1>1, <2>1
    <3>2. At(w.next, s[(j + 1) - 1]) = s[j + 1]
      BY <3>1, <1>1
    <3> QED
      BY <3>1, <3>2, <2>1, <1>2
  <2>2. CASE ~(j < Len(s))
    <3>1. j = Len(s)
      BY <2>2, <1>1
    <3> QED
      BY <3>1, <2>2, <1>1, <1>2
  <2> QED
    BY <2>1, <2>2
<1>5. prev = IF i > 1 THEN s[i - 1] ELSE Null
  <2>1. CASE i > 1
    <3>1. i \in 2 .. Len(s)
      BY <1>1, <2>1
    <3> QED
      BY <3>1, <2>1, <1>1, <1>3
  <2>2. CASE ~(i > 1)
    <3>1. i = 1
      BY <2>2, <1>1
    <3> QED
      BY <3>1, <2>2, <1>1, <1>3
  <2> QED
    BY <2>1, <2>2
<1>6. (next # Null) = (j < Len(s)) /\ (prev # Null) = (i > 1)
  <2>1. j < Len(s) => s[j + 1] # Null
    <3>1. j < Len(s) => j + 1 \in 1 .. Len(s)
      BY <1>1
    <3> QED
      BY <3>1, <1>1
  <2>2. i > 1 => s[i - 1] # Null
    <3>1. i > 1 => i - 1 \in 1 .. Len(s)
      BY <1>1
    <3> QED
      BY <3>1, <1>1
  <2> QED
    BY <2>1, <2>2, <1>4, <1>5
<1>7. /\ \A x : At(u.next, x) = IF x = s[j] THEN Null
                                ELSE IF prev # Null /\ x = prev THEN next
                                ELSE At(w.next, x)
      /\ \A x : At(u.prev, x) = IF x = s[i] THEN Null
                                ELSE IF next # Null /\ x = next THEN prev
                                ELSE At(w.prev, x)
  BY <1>2, <1>3 DEF SpanCut
<1>8. \A x : (prev # Null /\ x = prev) <=> (i > 1 /\ x = s[i - 1])
  BY <1>5, <1>6
<1>9. \A x : (next # Null /\ x = next) <=> (j < Len(s) /\ x = s[j + 1])
  BY <1>4, <1>6
<1>10. \A x : At(u.next, x) = IF x = s[j] THEN Null
                              ELSE IF i > 1 /\ x = s[i - 1]
                                THEN (IF j < Len(s) THEN s[j + 1] ELSE Null)
                              ELSE At(w.next, x)
  BY <1>4, <1>7, <1>8
<1>11. \A x : At(u.prev, x) = IF x = s[i] THEN Null
                              ELSE IF j < Len(s) /\ x = s[j + 1]
                                THEN (IF i > 1 THEN s[i - 1] ELSE Null)
                              ELSE At(w.prev, x)
  BY <1>5, <1>7, <1>9
<1> QED
  BY <1>10, <1>11 DEF CutOut

(* The nodes of T are gone from the maps, and the lists are whole. *)
Cleared(w, v, M, T) ==
    /\ \E H : Rep(v, M, H, {})
    /\ v.buffer = w.buffer
    /\ T \subseteq InMap(w) /\ InMap(v) = InMap(w) \ T
    /\ DOMAIN v.idMap = DOMAIN w.idMap \ {Id(x.atom) : x \in T}

(* What is left are the lists of the weave without the nodes of the        *)
(* stretch.                                                                *)
LEMMA SpanRep ==
    ASSUME NEW w, NEW M, M \subseteq Node, Typed(w, M), NEW G, Rep(w, M, G, {}),
           NEW s \in G, Range(s) \subseteq InMap(w),
           NEW i \in 1 .. Len(s), NEW j \in i .. Len(s), i = 1 => j = Len(s),
           NEW v, SpanRemoved(w, v, M, s[i], s[j])
    PROVE  Cleared(w, v, M, {s[k] : k \in i .. j})
<1>1. /\ Lists(w, M, G) /\ Kinds(w, G) /\ Covered(w, G) /\ Heads(w, G, {}) /\ WithCause(w, G, {})
      /\ Apart(w) /\ Orphans(w, {})
  BY DEF Rep
<1>2. s \in Seq(M) /\ Chain(w, s) /\ Len(s) \in Nat
  BY <1>1 DEF Lists
<1>3. PICK u : /\ Links(u, M) /\ SpanCut(w, u, s[i], s[j])
               /\ Taken(w, u, v, IterateFrom(u, s[i]), s[i])
  BY DEF SpanRemoved
<1>4. CutOut(w, u, s, i, j)
  BY <1>2, <1>3, SpanCutOut
<1>5. PICK p : p = Piece(s, i, j)
  OBVIOUS
<1>6. PICK T : T = {s[k] : k \in i .. j}
  OBVIOUS
<1>7. PICK H : H = (G \ {s}) \cup LeftOf(s, i, j)
  OBVIOUS
<1>8. /\ Lists(u, M, H)
      /\ i # 1 => Cut(s, i, j)[1] = s[1] /\ Range(Cut(s, i, j)) = Range(s) \ Range(p)
      /\ i = 1 => Range(p) = Range(s)
      /\ IterateFrom(u, s[i]) = p
      /\ Range(p) \subseteq Range(s)
  <2>1. ListCut(u, M, G, s, i, j)
    BY <1>1, <1>3, <1>4, ListsCut
  <2> QED
    BY <2>1, <1>5, <1>7 DEF ListCut
<1>9. Range(p) = T /\ Ids(p) = {Id(x.atom) : x \in T}
  BY <1>2, <1>5, <1>6, PieceElements
<1>10. /\ v.next = u.next /\ v.prev = u.prev /\ v.buffer = w.buffer
       /\ DOMAIN v.idMap = DOMAIN w.idMap \ {Id(x.atom) : x \in T}
       /\ \A x \in DOMAIN v.idMap : v.idMap[x] = w.idMap[x]
  BY <1>3, <1>8, <1>9 DEF Taken
<1>11. T \subseteq InMap(w) /\ T \subseteq Range(s)
  BY <1>8, <1>9
<1>12. InMap(v) = InMap(w) \ T
  <2>1. /\ \A x \in InMap(w) : Id(x.atom) \in DOMAIN w.idMap /\ w.idMap[Id(x.atom)] = x
        /\ \A x, y \in InMap(w) : Id(x.atom) = Id(y.atom) => x = y
    BY WaitingNodes
  <2>2. \A x \in DOMAIN w.idMap : w.idMap[x] \in InMap(w) /\ Id(w.idMap[x].atom) = x
    BY DEF InMap, Typed, Stored
  <2>3. ASSUME NEW x \in InMap(w) \ T PROVE x \in InMap(v)
    <3>1. Id(x.atom) \in DOMAIN v.idMap
      BY <2>1, <1>10, <1>11
    <3>2. v.idMap[Id(x.atom)] = x
      BY <3>1, <2>1, <1>10
    <3> QED
      BY <3>1, <3>2 DEF InMap
  <2>4. ASSUME NEW x \in DOMAIN v.idMap PROVE v.idMap[x] \in InMap(w) \ T
    <3>1. x \in DOMAIN w.idMap /\ v.idMap[x] = w.idMap[x] /\ x \notin {Id(y.atom) : y \in T}
      BY <1>10
    <3> QED
      BY <3>1, <2>2
  <2>5. InMap(v) \subseteq InMap(w) \ T
    BY <2>4 DEF InMap
  <2> QED
    BY <2>3, <2>5
<1>13. Waiting(v) = Waiting(w)
  BY <1>10 DEF Waiting
<1>14. Lists(v, M, H)
  BY <1>8, <1>10, ListsSame
<1>15. \A g \in G \ {s} : Range(g) \cap Range(s) = {} /\ g \in H
  BY <1>1, <1>7 DEF Lists
<1>16. \A h \in H : \/ h \in G \ {s}
                    \/ h[1] = s[1] /\ Range(h) = Range(s) \ T
  BY <1>7, <1>8, <1>9 DEF LeftOf
<1>17. Kinds(v, H)
  <2>1. \A x \in InMap(w) : x \notin Waiting(w)
    <3>1. \A x \in InMap(w) : Id(x.atom) \in DOMAIN w.idMap
      BY WaitingNodes
    <3> QED
      BY <3>1, <1>1 DEF Apart
  <2>2. s[1].atom.cause = NoCause
    <3>1. s[1] \in Range(s)
      <4>1. 1 \in 1 .. Len(s)
        BY <1>2
      <4> QED
        BY <4>1, <1>2, RangeOf
    <3> QED
      BY <3>1, <2>1, <1>1 DEF Kinds
  <2> SUFFICES ASSUME NEW h \in H
               PROVE  \/ h[1].atom.cause = NoCause /\ Range(h) \subseteq InMap(v)
                      \/ h[1].atom.cause # NoCause /\ Range(h) \subseteq Waiting(v)
    BY DEF Kinds
  <2>3. CASE h \in G \ {s}
    <3>1. Range(h) \cap T = {}
      BY <2>3, <1>11, <1>15
    <3> QED
      BY <2>3, <3>1, <1>1, <1>12, <1>13 DEF Kinds
  <2>4. CASE h[1] = s[1] /\ Range(h) = Range(s) \ T
    BY <2>2, <2>4, <1>12
  <2> QED
    BY <2>3, <2>4, <1>16
<1>18. ASSUME NEW g \in G, g # s PROVE g \in H
  BY <1>15, <1>18
<1>19. Covered(v, H)
  <2> SUFFICES ASSUME NEW x \in InMap(v) \cup Waiting(v) PROVE \E h \in H : x \in Range(h)
    BY DEF Covered
  <2>1. PICK g \in G : x \in Range(g)
    BY <1>1, <1>12, <1>13 DEF Covered
  <2>2. CASE g # s
    BY <2>1, <2>2, <1>18
  <2>3. CASE g = s
    <3>1. x \notin T
      <4>1. \A y \in InMap(w) : y \notin Waiting(w)
        <5>1. \A y \in InMap(w) : Id(y.atom) \in DOMAIN w.idMap
          BY WaitingNodes
        <5> QED
          BY <5>1, <1>1 DEF Apart
      <4> QED
        BY <4>1, <1>11, <1>12, <1>13
    <3>2. i # 1
      BY <3>1, <2>1, <2>3, <1>8, <1>9
    <3>3. Cut(s, i, j) \in H
      BY <3>2, <1>7 DEF LeftOf
    <3> QED
      BY <3>1, <3>2, <3>3, <2>1, <2>3, <1>8, <1>9
  <2> QED
    BY <2>2, <2>3
<1>20. ASSUME NEW x \in Waiting(w) PROVE x \notin Range(s)
  <2>1. \A y \in InMap(w) : Id(y.atom) \in DOMAIN w.idMap
    BY WaitingNodes
  <2> QED
    BY <2>1, <1>1 DEF Apart
<1>21. Heads(v, H, {})
  <2> SUFFICES ASSUME NEW h \in H, NEW x \in Range(h) \cap Waiting(v), x # h[1]
               PROVE  \E y \in Waiting(v) : x.atom.cause = Id(y.atom)
    BY DEF Heads
  <2>1. h \in G
    BY <1>13, <1>16, <1>20
  <2> QED
    BY <2>1, <1>1, <1>13 DEF Heads
<1>22. WithCause(v, H, {})
  <2> SUFFICES ASSUME NEW x \in Waiting(v), NEW y \in Waiting(v), x.atom.cause = Id(y.atom)
               PROVE  Together(H, x, y)
    BY DEF WithCause
  <2>1. PICK g \in G : x \in Range(g) /\ y \in Range(g)
    BY <1>1, <1>13 DEF WithCause, Together
  <2>2. g \in H
    BY <2>1, <1>13, <1>18, <1>20
  <2> QED
    BY <2>1, <2>2 DEF Together
<1>23. Apart(v) /\ Orphans(v, {})
  BY <1>1, <1>10, <1>13 DEF Apart, Orphans
<1>24. Rep(v, M, H, {})
  BY <1>14, <1>17, <1>19, <1>21, <1>22, <1>23 DEF Rep
<1>25. Cleared(w, v, M, T)
  BY <1>10, <1>11, <1>12, <1>24 DEF Cleared
<1> QED
  BY <1>6, <1>25

-----------------------------------------------------------------------------
(* The operations that take nodes out.                                     *)

(* _lastInCausalGroup of a node of a chain is the end of its group in it. *)
LEMMA LastInChain ==
    ASSUME NEW w, NEW M, M \subseteq Node, Links(w, M), NEW s \in Seq(M), Chain(w, s),
           NEW i \in 1 .. Len(s)
    PROVE  \E j : GroupTo(s, i, j) /\ LastInCausalGroup(w, s[i]) = s[j]
<1>1. PICK group : group = IterateCausalGroup(w, s[i])
  OBVIOUS
<1>2. \E j : GroupAt(M, s, i, group, j)
  BY <1>1, GroupInChain DEF Links
<1>3. PICK j : GroupAt(M, s, i, group, j)
  BY <1>2
<1>4. /\ GroupTo(s, i, j) /\ group \in Seq(M) /\ Len(group) = j - i
      /\ \A k \in 1 .. j - i : group[k] = s[i + k]
  BY <1>3 DEF GroupAt
<1>5. j \in i .. Len(s) /\ Len(s) \in Nat /\ i \in Nat /\ j \in Nat
  BY <1>4 DEF GroupTo
<1>6. LastInCausalGroup(w, s[i]) = IF Len(group) = 0 THEN s[i] ELSE group[Len(group)]
  <2>1. s[i] \in M
    BY RangeOf
  <2> QED
    BY <2>1, <1>1, <1>4, LastOfGroup DEF LastInCausalGroup
<1>7. CASE j = i
  BY <1>4, <1>5, <1>6, <1>7
<1>8. CASE j # i
  <2>1. j - i \in 1 .. j - i /\ i + (j - i) = j /\ j - i # 0
    BY <1>5, <1>8
  <2>2. group[j - i] = s[j]
    BY <2>1, <1>4
  <2>3. LastInCausalGroup(w, s[i]) = s[j]
    BY <2>1, <2>2, <1>4, <1>6
  <2> QED
    BY <2>3, <1>4
<1> QED
  BY <1>7, <1>8

(* The group of the oldest node is its whole list. *)
LEMMA WholeList ==
    ASSUME NEW w, NEW M, M \subseteq Node, NEW G, Lists(w, M, G), NEW s \in G, NEW j,
           GroupTo(s, 1, j)
    PROVE  j = Len(s)
<1>1. s \in Seq(M) /\ Len(s) \in Nat /\ j \in 1 .. Len(s)
  BY DEF Lists, GroupTo
<1>2. SUFFICES ASSUME j < Len(s) PROVE FALSE
  BY <1>1
<1>3. j + 1 \in 2 .. Len(s) /\ j + 1 \in 1 .. Len(s) /\ 1 \in 1 .. Len(s)
  BY <1>1, <1>2
<1>4. s[j + 1].atom.time > s[1].atom.time
  BY <1>3 DEF Lists
<1>5. s[j + 1].atom.time <= s[1].atom.time
  BY <1>2 DEF GroupTo
<1>6. s[j + 1].atom.time \in Nat /\ s[1].atom.time \in Nat
  BY <1>1, <1>3, RangeOf, NodeFields
<1> QED
  BY <1>4, <1>5, <1>6

(* A node of the maps is in the list of a root, all of it in the maps. *)
LEMMA ListInMaps ==
    ASSUME NEW w, NEW M, M \subseteq Node, Typed(w, M), NEW G, NEW P, Rep(w, M, G, P),
           NEW n \in InMap(w)
    PROVE  \E s \in G : /\ n \in Range(s) /\ Range(s) \subseteq InMap(w)
                        /\ s[1].atom.cause = NoCause
                        /\ s \in Seq(M) /\ Chain(w, s) /\ Len(s) \in Nat
<1>1. /\ Lists(w, M, G) /\ Kinds(w, G) /\ Covered(w, G) /\ Apart(w)
  BY DEF Rep
<1>2. n \notin Waiting(w)
  <2>1. Id(n.atom) \in DOMAIN w.idMap
    BY WaitingNodes
  <2> QED
    BY <2>1, <1>1 DEF Apart
<1>3. PICK s \in G : n \in Range(s)
  BY <1>1 DEF Covered
<1>4. Range(s) \subseteq InMap(w) /\ s[1].atom.cause = NoCause
  BY <1>1, <1>2, <1>3 DEF Kinds
<1>5. s \in Seq(M) /\ Chain(w, s) /\ Len(s) \in Nat
  BY <1>1 DEF Lists, Chain
<1> QED
  BY <1>3, <1>4, <1>5

(* A node goes with nodes that are newer. *)
LEMMA NodeRemoved ==
    ASSUME NEW w, NEW M, M \subseteq Node, Typed(w, M), NEW G, Rep(w, M, G, {}),
           NEW n \in InMap(w)
    PROVE  \E T : /\ Cleared(w, RemoveNode(w, n), M, T) /\ n \in T
                  /\ \A x \in T : x.atom.time >= n.atom.time
<1>1. PICK s \in G : /\ n \in Range(s) /\ Range(s) \subseteq InMap(w)
                     /\ s \in Seq(M) /\ Chain(w, s) /\ Len(s) \in Nat
  BY ListInMaps
<1>2. PICK i \in 1 .. Len(s) : n = s[i]
  BY <1>1, RangeOf
<1>3. PICK j : GroupTo(s, i, j) /\ LastInCausalGroup(w, s[i]) = s[j]
  BY <1>1, LastInChain DEF Typed
<1>4. j \in i .. Len(s)
  BY <1>3 DEF GroupTo
<1>5. i = 1 => j = Len(s)
  BY <1>3, WholeList DEF Rep
<1>6. PICK v : v = RemoveNode(w, n)
  OBVIOUS
<1>7. SpanRemoved(w, v, M, s[i], s[j])
  <2>1. n \in M
    BY WaitingNodes
  <2> QED
    BY <2>1, <1>2, <1>3, <1>6, RemoveNodeTyped
<1>8. PICK T : T = {s[k] : k \in i .. j}
  OBVIOUS
<1>9. Cleared(w, v, M, T)
  BY <1>1, <1>4, <1>5, <1>7, <1>8, SpanRep
<1>10. n \in T
  <2>1. i \in i .. j
    BY <1>1, <1>4
  <2> QED
    BY <2>1, <1>2, <1>8
<1>11. \A x \in T : x.atom.time >= n.atom.time
  <2>1. ASSUME NEW k \in i .. j PROVE s[k].atom.time >= s[i].atom.time
    <3>1. s[i].atom.time \in Nat /\ s[k].atom.time \in Nat
      <4>1. i \in 1 .. Len(s) /\ k \in 1 .. Len(s)
        BY <1>1, <1>4
      <4> QED
        BY <4>1, <1>1, RangeOf, NodeFields
    <3>2. CASE k = i
      BY <3>1, <3>2
    <3>3. CASE k # i
      <4>1. k \in i + 1 .. j
        BY <1>1, <1>4, <3>3
      <4>2. s[k].atom.time > s[i].atom.time
        BY <4>1, <1>3 DEF GroupTo
      <4> QED
        BY <4>2, <3>1
    <3> QED
      BY <3>2, <3>3
  <2> QED
    BY <2>1, <1>2, <1>8
<1> QED
  BY <1>6, <1>9, <1>10, <1>11

(* Nothing is cleared when nothing is removed. *)
LEMMA NothingRemoved ==
    ASSUME NEW w, NEW M, NEW G, Rep(w, M, G, {})
    PROVE  Cleared(w, w, M, {})
<1>1. {} \subseteq InMap(w) /\ InMap(w) = InMap(w) \ {}
  OBVIOUS
<1>2. DOMAIN w.idMap = DOMAIN w.idMap \ {Id(x.atom) : x \in {}}
  OBVIOUS
<1> QED
  BY <1>1, <1>2 DEF Cleared

(* remove() leaves the lists of the nodes it did not remove. *)
LEMMA AtomRemoved ==
    ASSUME NEW w, NEW M, M \subseteq Node, Typed(w, M), NEW G, Rep(w, M, G, {}), NEW a
    PROVE  \E T : Cleared(w, RemoveAtom(w, a), M, T)
<1>1. PICK node : node = GetNode(w, Id(a))
  OBVIOUS
<1>2. CASE node = Null
  <2>1. RemoveAtom(w, a) = w
    BY <1>1, <1>2 DEF RemoveAtom
  <2> QED
    BY <2>1, NothingRemoved
<1>3. CASE node # Null
  <2>1. RemoveAtom(w, a) = RemoveNode(w, node)
    BY <1>1, <1>3 DEF RemoveAtom
  <2>2. node \in InMap(w)
    BY <1>1, <1>3, GetNodeType DEF InMap
  <2> QED
    BY <2>1, <2>2, NodeRemoved
<1> QED
  BY <1>2, <1>3

(* The older siblings go, the node itself stays. *)
LEMMA SiblingsRemoved ==
    ASSUME NEW w, NEW M, M \subseteq Node, Typed(w, M), NEW G, Rep(w, M, G, {}), NEW a
    PROVE  \E T : /\ Cleared(w, RemoveSiblingsBefore(w, a), M, T)
                  /\ Id(a) \in DOMAIN w.idMap => w.idMap[Id(a)] \notin T
<1>1. PICK node : node = GetNode(w, Id(a))
  OBVIOUS
<1>2. PICK list : list = IterateFrom(w, node)
  OBVIOUS
<1>3. PICK siblings : siblings = IterateSiblings(w, node)
  OBVIOUS
<1>4. RemoveSiblingsBefore(w, a) =
        IF node = Null \/ siblings = {} THEN w
        ELSE RemoveSpan(w, list[Min(siblings)], LastInCausalGroup(w, list[Max(siblings)]))
  BY <1>1, <1>2, <1>3 DEF RemoveSiblingsBefore
<1>5. CASE node = Null \/ siblings = {}
  <2>1. RemoveSiblingsBefore(w, a) = w
    BY <1>4, <1>5
  <2>2. Id(a) \in DOMAIN w.idMap => w.idMap[Id(a)] \notin {}
    OBVIOUS
  <2> QED
    BY <2>1, <2>2, NothingRemoved
<1>6. CASE node # Null /\ siblings # {}
  <2>1. node \in InMap(w) /\ node \in M /\ Id(a) \in DOMAIN w.idMap /\ node = w.idMap[Id(a)]
    BY <1>1, <1>6, GetNodeType DEF InMap
  <2>2. PICK s \in G : /\ node \in Range(s) /\ Range(s) \subseteq InMap(w)
                       /\ s \in Seq(M) /\ Chain(w, s) /\ Len(s) \in Nat
    BY <2>1, ListInMaps
  <2>3. PICK i \in 1 .. Len(s) : node = s[i]
    BY <2>2, RangeOf
  <2>4. list = From(s, i)
    BY <1>2, <2>2, <2>3, IterateChain DEF Typed, Links
  <2>5. PICK lo : lo = Min(siblings)
    OBVIOUS
  <2>6. PICK hi : hi = Max(siblings)
    OBVIOUS
  <2>7. lo \in siblings /\ hi \in siblings /\ lo <= hi /\ siblings \subseteq 2 .. Len(list)
    BY <1>2, <1>3, <1>6, <2>1, <2>5, <2>6, SiblingPlaces DEF Typed
  <2>8. Len(list) = Len(s) - i + 1 /\ \A k \in 1 .. Len(s) - i + 1 : list[k] = s[i + k - 1]
    BY <2>2, <2>4 DEF From
  <2>9. lo \in 2 .. Len(s) - i + 1 /\ hi \in 2 .. Len(s) - i + 1
    BY <2>7, <2>8
  <2>10. PICK p \in 2 .. Len(s) : p = i + lo - 1 /\ i < p
    BY <2>2, <2>9
  <2>11. PICK e \in 2 .. Len(s) : e = i + hi - 1 /\ p <= e
    BY <2>2, <2>7, <2>9, <2>10
  <2>12. list[lo] = s[p] /\ list[hi] = s[e]
    <3>1. lo \in 1 .. Len(s) - i + 1 /\ hi \in 1 .. Len(s) - i + 1
      BY <2>9
    <3> QED
      BY <3>1, <2>8, <2>10, <2>11
  <2>13. e \in 1 .. Len(s) /\ p \in 1 .. Len(s) /\ p # 1
    BY <2>2
  <2>14. PICK j : GroupTo(s, e, j) /\ LastInCausalGroup(w, s[e]) = s[j]
    BY <2>2, <2>13, LastInChain DEF Typed
  <2>15. j \in p .. Len(s)
    <3>1. j \in e .. Len(s)
      BY <2>14 DEF GroupTo
    <3> QED
      BY <3>1, <2>2, <2>11
  <2>16. PICK v : v = RemoveSiblingsBefore(w, a)
    OBVIOUS
  <2>17. v = RemoveSpan(w, s[p], s[j])
    BY <1>4, <1>6, <2>5, <2>6, <2>12, <2>14, <2>16
  <2>18. SpanRemoved(w, v, M, s[p], s[j])
    <3>1. s[p] \in M /\ s[j] \in M
      <4>1. j \in 1 .. Len(s)
        BY <2>2, <2>13, <2>15
      <4> QED
        BY <4>1, <2>2, <2>13
    <3> QED
      BY <3>1, <2>17, RemoveSpanTyped
  <2>19. PICK T : T = {s[k] : k \in p .. j}
    OBVIOUS
  <2>20. Cleared(w, v, M, T)
    BY <2>2, <2>13, <2>15, <2>18, <2>19, SpanRep
  <2>21. node \notin T
    <3>1. \A k \in p .. j : k \in 1 .. Len(s) /\ k # i
      BY <2>2, <2>10, <2>15
    <3>2. \A k, l \in 1 .. Len(s) : s[k] = s[l] => k = l
      BY <2>2 DEF Chain, Distinct
    <3> QED
      BY <3>1, <3>2, <2>3, <2>19
  <2> QED
    BY <2>1, <2>16, <2>20, <2>21
<1> QED
  BY <1>5, <1>6

-----------------------------------------------------------------------------
(* A new node comes to the maps.                                           *)

(* Lists of some nodes are lists of more nodes. *)
LEMMA RepMore ==
    ASSUME NEW w, NEW L, NEW M, L \subseteq M, NEW G, NEW P, Rep(w, L, G, P)
    PROVE  Rep(w, M, G, P)
<1>1. \A s \in G : s \in Seq(L) => s \in Seq(M)
  OBVIOUS
<1>2. Lists(w, M, G)
  BY <1>1 DEF Rep, Lists
<1> QED
  BY <1>2 DEF Rep

(* An atom is newer than its cause. *)
LEMMA CauseIsOlder ==
    ASSUME NEW c \in Node, NEW n \in Node, n.atom.cause # NoCause, Id(c.atom) = n.atom.cause
    PROVE  n.atom.time > c.atom.time
<1>1. n.atom.cause[2] < n.atom.time /\ n.atom.time \in Nat /\ c.atom.time \in Nat
  BY NodeFields
<1>2. Id(c.atom)[2] = c.atom.time
  BY DEF Id
<1> QED
  BY <1>1, <1>2

(* n is in the lists and maps of u, its children are not yet with it. *)
Joined(w, u, M, n) ==
    /\ Typed(u, M)
    /\ InMap(u) = InMap(w) \cup {n} /\ Waiting(u) = Waiting(w)
    /\ \E H : Rep(u, M, H, Children(u, n)) /\ (n.atom.prio = 0 => Newest(H, n))

(* The ID of n is new. *)
NewId(w, n) ==
    /\ Id(n.atom) \notin DOMAIN w.idMap
    /\ \A x \in Waiting(w) : Id(x.atom) # Id(n.atom)

(* A new root is a list of its own. *)
LEMMA RootJoins ==
    ASSUME NEW w, NEW L, NEW M, M \subseteq Node, L \subseteq M, Typed(w, L),
           NEW G, Rep(w, L, G, {}), NEW n \in M, n \notin L, n.atom.cause = NoCause, NewId(w, n),
           NEW u, Typed(u, M), MapsAdded(w, u, n)
    PROVE  Joined(w, u, M, n)
<1>1. L \subseteq Node /\ Typed(w, M) /\ Rep(w, M, G, {})
  BY TypedMore, RepMore
<1>2. At(w.next, n) = Null /\ At(w.prev, n) = Null /\ \A s \in G : n \notin Range(s)
  BY <1>1, FreshNode DEF Rep
<1>3. Lists(w, M, G)
  BY <1>1 DEF Rep
<1>4. PICK H : Lists(w, M, H) /\ Grown(G, H, n, Null) /\ Newest(H, n)
  BY <1>2, <1>3, GrowAlone
<1>5. Mapped(w, u, n) /\ u.next = w.next /\ u.prev = w.prev
  BY DEF MapsAdded, Mapped
<1>6. Lists(u, M, H)
  BY <1>4, <1>5, ListsSame
<1>7. /\ Rep(u, M, H, Children(u, n))
      /\ InMap(u) = InMap(w) \cup {n} /\ Waiting(u) = Waiting(w)
  BY <1>1, <1>4, <1>5, <1>6, RepMapped DEF NewId
<1> QED
  BY <1>4, <1>7 DEF Joined

(* A new node joins the list of its cause. *)
LEMMA NodeJoins ==
    ASSUME NEW w, NEW L, NEW M, M \subseteq Node, L \subseteq M, Typed(w, L),
           NEW G, Rep(w, L, G, {}), NEW n \in M, n \notin L, n.atom.cause # NoCause, NewId(w, n),
           NEW c \in InMap(w), Id(c.atom) = n.atom.cause
    PROVE  Joined(w, InsertUnder(w, c, n), M, n)
<1>1. L \subseteq Node /\ Typed(w, M) /\ Rep(w, M, G, {}) /\ n \in Under(M) /\ c \in M
  <2>1. L \subseteq Node /\ Typed(w, M) /\ Rep(w, M, G, {})
    BY TypedMore, RepMore
  <2> QED
    BY <2>1, WaitingNodes DEF Under
<1>2. At(w.next, n) = Null /\ At(w.prev, n) = Null /\ \A s \in G : n \notin Range(s)
  BY <1>1, FreshNode DEF Rep
<1>3. Lists(w, M, G)
  BY <1>1 DEF Rep
<1>4. PICK s \in G : c \in Range(s)
  BY <1>1 DEF Rep, Covered
<1>5. n.atom.time > c.atom.time
  BY <1>1, CauseIsOlder
<1>6. PICK v : v = InsertNodeUnder(w, c, n, n)
  OBVIOUS
<1>7. /\ Links(v, M) /\ Relinked(w, v)
      /\ \E H : Lists(v, M, H) /\ Grown(G, H, n, c) /\ (n.atom.prio = 0 => Newest(H, n))
  BY <1>1, <1>2, <1>3, <1>4, <1>5, <1>6, GrowUnder DEF Typed
<1>8. PICK H : Lists(v, M, H) /\ Grown(G, H, n, c) /\ (n.atom.prio = 0 => Newest(H, n))
  BY <1>7
<1>9. PICK u : u = InsertUnder(w, c, n)
  OBVIOUS
<1>10. Typed(v, M) /\ Typed(u, M)
  BY <1>1, <1>7, <1>9, TypedRelinked, InsertUnderTyped
<1>11. MapsAdded(v, u, n)
  <2>1. ~n.atom.cert
    BY NodeFields
  <2> QED
    BY <2>1, <1>6, <1>9, <1>10, AddNodeToMapsTyped DEF InsertUnder
<1>12. Mapped(w, u, n) /\ u.next = v.next /\ u.prev = v.prev
  BY <1>7, <1>11 DEF MapsAdded, Mapped, Relinked
<1>13. Lists(u, M, H)
  BY <1>8, <1>12, ListsSame
<1>14. c # Null
  BY <1>1, NullIsNoNode
<1>15. /\ Rep(u, M, H, Children(u, n))
       /\ InMap(u) = InMap(w) \cup {n} /\ Waiting(u) = Waiting(w)
  BY <1>1, <1>8, <1>12, <1>13, <1>14, RepMapped DEF NewId
<1> QED
  BY <1>8, <1>9, <1>10, <1>15 DEF Joined

(* With the children that waited for it the result is sound. *)
LEMMA JoinedGathers ==
    ASSUME NEW w, NEW u, NEW M, M \subseteq Node, NEW n \in M, Joined(w, u, M, n)
    PROVE  Sound(w, WithMissingChildren(u, n), M)
<1>1. PICK H : Rep(u, M, H, Children(u, n)) /\ (n.atom.prio = 0 => Newest(H, n))
  BY DEF Joined
<1>2. Typed(u, M) /\ InMap(u) = InMap(w) \cup {n} /\ Waiting(u) = Waiting(w)
  BY DEF Joined
<1> QED
  BY <1>1, <1>2, NewGathered

-----------------------------------------------------------------------------
(* An atom that arrives before its cause.                                  *)

(* A node with a new ID goes to the end of the buffer. *)
LEMMA BufferAppends ==
    ASSUME NEW w, NEW M, Typed(w, M), NEW n, Buffered(w, Id(n.atom)) = Null
    PROVE  LET v == AddToBuffer(w, n)
           IN v.buffer = Append(w.buffer, n) /\ v.idMap = w.idMap /\ v.next = w.next /\ v.prev = w.prev
<1>1. PICK b : b = Append(w.buffer, n)
  OBVIOUS
<1>2. PICK v : v = AddToBuffer(w, n)
  OBVIOUS
<1>3. v = [w EXCEPT !.buffer = b]
  BY <1>1, <1>2 DEF AddToBuffer
<1>4. IsWeave(w)
  BY DEF Typed, Links
<1>5. v.buffer = b /\ v.idMap = w.idMap /\ v.next = w.next /\ v.prev = w.prev
  BY ONLY <1>3, <1>4 DEF IsWeave
<1> QED
  BY <1>1, <1>2, <1>5

(* A new node that waits is linked under a cause that waits, and its       *)
(* children under it.                                                      *)
LEMMA EarlySound ==
    ASSUME NEW w, NEW L, NEW M, M \subseteq Node, L \subseteq M, Typed(w, L),
           NEW G, Rep(w, L, G, {}), NEW n \in M, n \notin L, n.atom.cause # NoCause, NewId(w, n),
           n.atom.cause \notin DOMAIN w.idMap, Len(w.buffer) < MaxReorderBufferSize,
           NEW cause, cause = Buffered(w, n.atom.cause),
           NEW linked, linked = IF cause = Null THEN AddToBuffer(w, n)
                                ELSE InsertNodeUnder(AddToBuffer(w, n), cause, n, n)
    PROVE  Sound(w, Result(AddMissingChildren(linked, n, TRUE), "saved", <<>>), M)
<1>1. L \subseteq Node /\ Typed(w, M) /\ Rep(w, M, G, {}) /\ n \in Under(M)
  <2>1. L \subseteq Node /\ Typed(w, M) /\ Rep(w, M, G, {})
    BY TypedMore, RepMore
  <2> QED
    BY <2>1 DEF Under
<1>2. PICK added : added = AddToBuffer(w, n)
  OBVIOUS
<1>3. Typed(added, M)
  BY <1>1, <1>2, AddToBufferTyped
<1>4. /\ added.buffer = Append(w.buffer, n) /\ added.idMap = w.idMap
      /\ added.next = w.next /\ added.prev = w.prev
  <2>1. Buffered(w, Id(n.atom)) = Null
    BY <1>1, BufferedType DEF NewId, Waiting
  <2> QED
    BY <2>1, <1>1, <1>2, BufferAppends
<1>5. Lists(added, M, G)
  BY <1>1, <1>4, ListsSame DEF Rep
<1>6. At(added.next, n) = Null /\ At(added.prev, n) = Null /\ \A s \in G : n \notin Range(s)
  <2>1. At(w.next, n) = Null /\ At(w.prev, n) = Null /\ \A s \in G : n \notin Range(s)
    BY <1>1, FreshNode DEF Rep
  <2> QED
    BY <2>1, <1>4
<1>7. /\ cause # Null => cause \in Waiting(w) /\ Id(cause.atom) = n.atom.cause
      /\ cause = Null => \A x \in Waiting(w) : Id(x.atom) # n.atom.cause
  BY <1>1, BufferedType DEF Waiting
<1>8. /\ Typed(linked, M) /\ linked.buffer = added.buffer /\ linked.idMap = added.idMap
      /\ \E H : Lists(linked, M, H) /\ Grown(G, H, n, cause)
  <2>1. CASE cause = Null
    <3>1. linked = added
      BY <2>1, <1>2
    <3>2. \E H : Lists(added, M, H) /\ Grown(G, H, n, Null) /\ Newest(H, n)
      BY <1>5, <1>6, GrowAlone
    <3> QED
      BY <2>1, <3>1, <3>2, <1>3
  <2>2. CASE cause # Null
    <3>1. linked = InsertNodeUnder(added, cause, n, n)
      BY <2>2, <1>2
    <3>2. cause \in Node /\ n.atom.time > cause.atom.time
      <4>1. cause \in Node
        BY <2>2, <1>1, <1>7, WaitingNodes DEF Under
      <4> QED
        BY <4>1, <2>2, <1>1, <1>7, CauseIsOlder
    <3>3. PICK s \in G : cause \in Range(s)
      BY <2>2, <1>1, <1>7 DEF Rep, Covered
    <3>4. /\ Links(linked, M) /\ Relinked(added, linked)
          /\ \E H : /\ Lists(linked, M, H) /\ Grown(G, H, n, cause)
                    /\ (n.atom.prio = 0 => Newest(H, n))
      BY <1>1, <1>3, <1>5, <1>6, <3>1, <3>2, <3>3, GrowUnder DEF Typed
    <3> QED
      BY <3>4, <1>3, TypedRelinked DEF Relinked
  <2> QED
    BY <2>1, <2>2
<1>9. PICK H : Lists(linked, M, H) /\ Grown(G, H, n, cause)
  BY <1>8
<1>10. /\ Rep(linked, M, H, Children(linked, n))
       /\ InMap(linked) = InMap(w) /\ Waiting(linked) = Waiting(w) \cup {n}
  <2>1. /\ Typed(w, M) /\ Rep(w, M, G, {}) /\ n \in Under(M) /\ M \subseteq Node
        /\ linked.buffer = Append(w.buffer, n) /\ linked.idMap = w.idMap
    BY <1>1, <1>4, <1>8
  <2>2. /\ Id(n.atom) \notin DOMAIN w.idMap /\ \A x \in Waiting(w) : Id(x.atom) # Id(n.atom)
        /\ n.atom.cause \notin DOMAIN w.idMap
    BY DEF NewId
  <2> QED
    BY ONLY <2>1, <2>2, <1>7, <1>9, RepWaiting
<1>11. PartJoined(linked, M, linked, Children(linked, n)) /\ Distinct(linked.buffer)
  BY <1>8, <1>10 DEF PartJoined, Rep, Apart
<1>12. PICK full : full = AddMissingChildren(linked, n, TRUE)
  OBVIOUS
<1>13. PartJoined(linked, M, full, {})
  BY <1>10, <1>11, <1>12, AllJoined
<1>14. (\E K : Rep(full, M, K, {})) /\ Waiting(full) = Waiting(linked) /\ InMap(full) = InMap(linked)
  BY <1>13 DEF PartJoined, Waiting, InMap
<1>15. PICK r : r = Result(full, "saved", <<>>)
  OBVIOUS
<1>16. Sound(w, r, M)
  BY <1>10, <1>14, <1>15, ResultFields DEF Sound
<1> QED
  BY <1>12, <1>15, <1>16

-----------------------------------------------------------------------------
(* insert, whatever it finds.                                              *)

(* No node waits with the ID of n. *)
NoTwinWaits(w, n) == \A x \in Waiting(w) : Id(x.atom) # Id(n.atom)

(* The node that was there goes for one with a lower hash. *)
LEMMA ReplacedSound ==
    ASSUME NEW w, NEW L, NEW M, M \subseteq Node, OneKind(M), L \subseteq M, Typed(w, L),
           NEW G, Rep(w, L, G, {}), NEW n \in M, n \notin L, NoTwinWaits(w, n),
           Id(n.atom) \in DOMAIN w.idMap,
           NEW existing, existing = w.idMap[Id(n.atom)],
           NEW cause, cause = Null <=> n.atom.cause = NoCause,
           cause # Null => cause \in InMap(w) /\ Id(cause.atom) = n.atom.cause,
           NEW cleared, cleared = RemoveNode(w, existing),
           NEW u, u = IF cause = Null THEN AddRoot(cleared, n) ELSE InsertUnder(cleared, cause, n)
    PROVE  Sound(w, Result(u, "conflict", <<n.atom>>), M)
<1>1. L \subseteq Node /\ Typed(w, M) /\ n \in Node
  BY TypedMore
<1>2. existing \in InMap(w) /\ existing \in L /\ Id(existing.atom) = Id(n.atom)
  <2>1. existing \in InMap(w)
    BY DEF InMap
  <2> QED
    BY <2>1, <1>1, WaitingNodes DEF Typed, Stored
<1>3. PICK T : /\ Cleared(w, cleared, L, T) /\ existing \in T
               /\ \A x \in T : x.atom.time >= existing.atom.time
  BY <1>1, <1>2, NodeRemoved
<1>4. PICK K : Rep(cleared, L, K, {})
  BY <1>3 DEF Cleared
<1>5. /\ cleared.buffer = w.buffer /\ Waiting(cleared) = Waiting(w)
      /\ InMap(cleared) = InMap(w) \ T
      /\ DOMAIN cleared.idMap = DOMAIN w.idMap \ {Id(x.atom) : x \in T}
  BY <1>3 DEF Cleared, Waiting
<1>6. NewId(cleared, n)
  BY <1>2, <1>3, <1>5 DEF NewId, NoTwinWaits
<1>7. Typed(cleared, L)
  BY <1>1, <1>2, RemoveNodeTyped
<1>8. Joined(cleared, u, M, n)
  <2>1. CASE cause = Null
    <3>1. u = AddRoot(cleared, n) /\ n.atom.cause = NoCause
      BY <2>1
    <3>2. /\ Typed(cleared, M)
          /\ n.atom.cert => /\ cleared.cardinality = 1
                            /\ \A x \in Range(cleared.roots) : ~x.atom.cert
      <4>1. existing \in M
        BY <1>2
      <4> QED
        BY <4>1, <1>1, ClearedTyped
    <3>3. Typed(u, M) /\ MapsAdded(cleared, u, n)
      BY <3>1, <3>2, AddRootTyped
    <3> QED
      BY <3>1, <3>3, <1>4, <1>6, <1>7, RootJoins
  <2>2. CASE cause # Null
    <3>1. u = InsertUnder(cleared, cause, n) /\ n.atom.cause # NoCause
      BY <2>2
    <3>2. cause \in InMap(w) /\ Id(cause.atom) = n.atom.cause /\ cause \in Node
      BY <2>2, <1>1, WaitingNodes
    <3>3. cause \notin T
      <4>1. n.atom.time > cause.atom.time
        BY <3>1, <3>2, <1>1, CauseIsOlder
      <4>2. existing.atom.time = n.atom.time
        <5>1. Id(existing.atom)[2] = existing.atom.time /\ Id(n.atom)[2] = n.atom.time
          BY DEF Id
        <5> QED
          BY <5>1, <1>2
      <4>3. n.atom.time \in Nat /\ cause.atom.time \in Nat
        BY <3>2, <1>1, NodeFields
      <4> QED
        BY <4>1, <4>2, <4>3, <1>3
    <3>4. cause \in InMap(cleared)
      BY <3>2, <3>3, <1>5
    <3> QED
      BY <3>1, <3>2, <3>4, <1>4, <1>6, <1>7, NodeJoins
  <2> QED
    BY <2>1, <2>2
<1>9. PICK H : Rep(u, M, H, Children(u, n))
  BY <1>8 DEF Joined
<1>10. InMap(u) = InMap(cleared) \cup {n} /\ Waiting(u) = Waiting(w)
  BY <1>5, <1>8 DEF Joined
<1>11. Children(u, n) = {}
  <2>1. \A x \in Waiting(w) : x.atom.cause # Id(n.atom)
    BY DEF Rep, Orphans
  <2> QED
    BY <2>1, <1>10 DEF Children
<1>12. PICK r : r = Result(u, "conflict", <<n.atom>>)
  OBVIOUS
<1>13. r.weave = u /\ r.added = <<n.atom>>
  BY <1>12, ResultFields
<1>14. Told(r, n.atom)
  <2>1. 1 \in DOMAIN <<n.atom>> /\ <<n.atom>>[1] = n.atom
    OBVIOUS
  <2> QED
    BY <2>1, <1>13 DEF Told
<1>15. Sound(w, r, M)
  BY <1>5, <1>9, <1>10, <1>11, <1>13, <1>14 DEF Sound
<1> QED
  BY <1>12, <1>15

(* Whichever of two atoms with one ID stays, the result is sound. *)
LEMMA ResolveSound ==
    ASSUME NEW w, NEW L, NEW M, M \subseteq Node, OneKind(M), L \subseteq M, Typed(w, L),
           NEW G, Rep(w, L, G, {}), NEW n \in M, n \notin L, NoTwinWaits(w, n),
           Id(n.atom) \in DOMAIN w.idMap,
           NEW existing, existing = w.idMap[Id(n.atom)],
           NEW cause, cause = Null <=> n.atom.cause = NoCause,
           cause # Null => cause \in InMap(w) /\ Id(cause.atom) = n.atom.cause
    PROVE  Sound(w, ResolveConflict(w, existing, n, cause), M)
<1>1. PICK cleared : cleared = RemoveNode(w, existing)
  OBVIOUS
<1>2. PICK u : u = IF cause = Null THEN AddRoot(cleared, n) ELSE InsertUnder(cleared, cause, n)
  OBVIOUS
<1>3. Rep(w, M, G, {})
  BY RepMore
<1>4. CASE existing.atom.hash = n.atom.hash
  <2>1. ResolveConflict(w, existing, n, cause) = Result(w, "atom_already_added", <<>>)
    <3>1. n.atom.hash \in Nat
      BY NodeFields
    <3>2. ~(existing.atom.hash < n.atom.hash)
      BY <3>1, <1>4
    <3> QED
      BY <1>4, <3>2 DEF ResolveConflict
  <2> QED
    BY <2>1, <1>3, UnchangedSound
<1>5. CASE existing.atom.hash # n.atom.hash /\ existing.atom.hash < n.atom.hash
  <2>1. ResolveConflict(w, existing, n, cause) = Result(w, "conflict", <<existing.atom>>)
    BY <1>5 DEF ResolveConflict
  <2> QED
    BY <2>1, <1>3, UnchangedSound
<1>6. CASE existing.atom.hash # n.atom.hash /\ ~(existing.atom.hash < n.atom.hash)
  <2>1. ResolveConflict(w, existing, n, cause) = Result(u, "conflict", <<n.atom>>)
    BY <1>1, <1>2, <1>6 DEF ResolveConflict
  <2>2. Sound(w, Result(u, "conflict", <<n.atom>>), M)
    BY <1>1, <1>2, ReplacedSound
  <2> QED
    BY <2>1, <2>2
<1> QED
  BY <1>4, <1>5, <1>6

(* The insert of a root is sound. *)
LEMMA InsertRootSound ==
    ASSUME NEW w, NEW L, NEW M, M \subseteq Node, OneKind(M), L \subseteq M, Typed(w, L),
           NEW G, Rep(w, L, G, {}), NEW n \in M, n \notin L, NoTwinWaits(w, n),
           n.atom.cause = NoCause
    PROVE  Sound(w, InsertRoot(w, n), M)
<1>1. PICK existing : existing = GetNode(w, Id(n.atom))
  OBVIOUS
<1>2. Rep(w, M, G, {}) /\ Typed(w, M)
  BY RepMore, TypedMore
<1>3. CASE existing # Null
  <2>1. InsertRoot(w, n) = ResolveConflict(w, existing, n, Null)
    BY <1>1, <1>3 DEF InsertRoot
  <2>2. existing = w.idMap[Id(n.atom)] /\ Id(n.atom) \in DOMAIN w.idMap
    BY <1>1, <1>2, <1>3, GetNodeType
  <2>3. PICK none : none = Null
    OBVIOUS
  <2>4. Sound(w, ResolveConflict(w, existing, n, none), M)
    BY <2>2, <2>3, ResolveSound
  <2> QED
    BY <2>1, <2>3, <2>4
<1>4. CASE existing = Null /\ n.atom.cert /\ w.cardinality >= 1
  <2>1. InsertRoot(w, n) = Result(w, "cardinality_violated", <<>>)
    BY <1>1, <1>4 DEF InsertRoot
  <2> QED
    BY <2>1, <1>2, UnchangedSound
<1>5. CASE existing = Null /\ ~(n.atom.cert /\ w.cardinality >= 1)
  <2>1. PICK counted : counted = IF n.atom.cert THEN [w EXCEPT !.cardinality = @ + 1] ELSE w
    OBVIOUS
  <2>2. PICK u : u = AddRoot(counted, n)
    OBVIOUS
  <2>3. InsertRoot(w, n) = WithMissingChildren(u, n)
    BY <1>1, <1>5, <2>1, <2>2 DEF InsertRoot
  <2>4. Typed(u, M) /\ MapsAdded(w, u, n)
    BY <2>1, <2>2, <1>2, <1>5, CountedRootTyped
  <2>5. NewId(w, n)
    BY <1>1, <1>2, <1>5, GetNodeType DEF NewId, NoTwinWaits
  <2>6. Joined(w, u, M, n)
    BY <2>4, <2>5, RootJoins
  <2>7. Sound(w, WithMissingChildren(u, n), M)
    BY <2>6, JoinedGathers
  <2> QED
    BY <2>3, <2>7
<1> QED
  BY <1>3, <1>4, <1>5

(* The insert of an atom before its cause is sound. *)
LEMMA InsertEarlySound ==
    ASSUME NEW w, NEW L, NEW M, M \subseteq Node, L \subseteq M, Typed(w, L),
           NEW G, Rep(w, L, G, {}), NEW n \in M, n \notin L, NoTwinWaits(w, n),
           n.atom.cause # NoCause, n.atom.cause \notin DOMAIN w.idMap,
           InsertEarly(w, n).type = "saved" => Id(n.atom) \notin DOMAIN w.idMap
    PROVE  Sound(w, InsertEarly(w, n), M)
<1>1. PICK cause : cause = Buffered(w, n.atom.cause)
  OBVIOUS
<1>2. PICK linked : linked = IF cause = Null THEN AddToBuffer(w, n)
                             ELSE InsertNodeUnder(AddToBuffer(w, n), cause, n, n)
  OBVIOUS
<1>3. PICK size : size = Len(w.buffer)
  OBVIOUS
<1>4. PICK refusal : refusal = Refusal(n, cause)
  OBVIOUS
<1>5. PICK adopted : adopted = AddMissingChildren(linked, n, TRUE)
  OBVIOUS
<1>6. InsertEarly(w, n) =
        CASE size >= MaxReorderBufferSize -> Result(w, "cause_not_found", <<>>)
          [] size < MaxReorderBufferSize /\ cause # Null /\ refusal # "none" ->
               Result(w, refusal, <<>>)
          [] OTHER -> Result(adopted, "saved", <<>>)
  BY <1>1, <1>2, <1>3, <1>4, <1>5, Zenon DEF InsertEarly
<1>7. size \in Nat /\ MaxReorderBufferSize \in Nat
  <2>1. w.buffer \in Seq(L)
    BY DEF Typed, Stored
  <2> QED
    BY <2>1, <1>3, BufferAssumption
<1>8. Rep(w, M, G, {})
  BY RepMore
<1>9. CASE size >= MaxReorderBufferSize
  <2>1. ~(size < MaxReorderBufferSize)
    BY <1>7, <1>9
  <2>2. InsertEarly(w, n) = Result(w, "cause_not_found", <<>>)
    BY ONLY <1>6, <1>9, <2>1
  <2> QED
    BY <2>2, <1>8, UnchangedSound
<1>10. CASE ~(size >= MaxReorderBufferSize) /\ size < MaxReorderBufferSize
            /\ cause # Null /\ refusal # "none"
  <2>1. InsertEarly(w, n) = Result(w, refusal, <<>>)
    BY ONLY <1>6, <1>10
  <2> QED
    BY <2>1, <1>8, UnchangedSound
<1>11. CASE /\ ~(size >= MaxReorderBufferSize)
            /\ ~(size < MaxReorderBufferSize /\ cause # Null /\ refusal # "none")
  <2>1. InsertEarly(w, n) = Result(adopted, "saved", <<>>)
    BY ONLY <1>6, <1>11
  <2>2. NewId(w, n)
    <3>1. InsertEarly(w, n).type = "saved"
      BY <2>1, ResultFields
    <3> QED
      BY <3>1 DEF NewId, NoTwinWaits
  <2>3. Len(w.buffer) < MaxReorderBufferSize
    BY <1>3, <1>7, <1>11
  <2>4. Sound(w, Result(AddMissingChildren(linked, n, TRUE), "saved", <<>>), M)
    BY <2>2, <2>3, <1>1, <1>2, EarlySound
  <2> QED
    BY <2>1, <2>4, <1>5
<1> QED
  BY <1>7, <1>9, <1>10, <1>11

(* insert() leaves the nodes of the maps and of the buffer in linked lists,*)
(* loses none that waited and adds none it does not tell of, if no node    *)
(* with its ID is in the buffer.                                           *)
LEMMA InsertSound ==
    ASSUME NEW w, NEW L, NEW M, M \subseteq Node, OneKind(M), L \subseteq M, Typed(w, L),
           NEW G, Rep(w, L, G, {}), NEW n \in M, n \notin L, NoTwinWaits(w, n),
           Insert(w, n).type = "saved" => Id(n.atom) \notin DOMAIN w.idMap
    PROVE  Sound(w, Insert(w, n), M)
<1>1. PICK cause : cause = GetNode(w, n.atom.cause)
  OBVIOUS
<1>2. PICK existing : existing = GetNode(w, Id(n.atom))
  OBVIOUS
<1>3. Rep(w, M, G, {}) /\ Typed(w, M)
  BY RepMore, TypedMore
<1>4. CASE n.atom.cause = NoCause
  <2>1. Insert(w, n) = InsertRoot(w, n)
    BY <1>4 DEF Insert
  <2> QED
    BY <2>1, <1>4, InsertRootSound
<1>5. CASE n.atom.cause # NoCause /\ cause = Null
  <2>1. Insert(w, n) = InsertEarly(w, n)
    BY <1>1, <1>5 DEF Insert
  <2>2. n.atom.cause \notin DOMAIN w.idMap
    BY <1>1, <1>3, <1>5, GetNodeType
  <2> QED
    BY <2>1, <2>2, <1>5, InsertEarlySound
<1>6. CASE n.atom.cause # NoCause /\ cause # Null
  <2>1. Insert(w, n) = IF Refusal(n, cause) # "none" THEN Result(w, Refusal(n, cause), <<>>)
                       ELSE IF existing # Null THEN ResolveConflict(w, existing, n, cause)
                       ELSE WithMissingChildren(InsertUnder(w, cause, n), n)
    BY <1>1, <1>2, <1>6 DEF Insert
  <2>2. cause \in InMap(w) /\ Id(cause.atom) = n.atom.cause
    BY <1>1, <1>3, <1>6, GetNodeType DEF InMap
  <2>3. CASE Refusal(n, cause) # "none"
    BY <2>1, <2>3, <1>3, UnchangedSound
  <2>4. CASE Refusal(n, cause) = "none" /\ existing # Null
    <3>1. existing = w.idMap[Id(n.atom)] /\ Id(n.atom) \in DOMAIN w.idMap
      BY <1>2, <1>3, <2>4, GetNodeType
    <3>2. Sound(w, ResolveConflict(w, existing, n, cause), M)
      BY <3>1, <2>2, <1>6, ResolveSound
    <3> QED
      BY <2>1, <2>4, <3>2
  <2>5. CASE Refusal(n, cause) = "none" /\ existing = Null
    <3>1. NewId(w, n)
      BY <1>2, <1>3, <2>5, GetNodeType DEF NewId, NoTwinWaits
    <3>2. Joined(w, InsertUnder(w, cause, n), M, n)
      BY <3>1, <2>2, <1>6, NodeJoins
    <3>3. Sound(w, WithMissingChildren(InsertUnder(w, cause, n), n), M)
      BY <3>2, JoinedGathers
    <3> QED
      BY <2>1, <2>5, <3>3
  <2> QED
    BY <2>3, <2>4, <2>5
<1> QED
  BY <1>4, <1>5, <1>6

-----------------------------------------------------------------------------
(* While no ID was in the buffer twice: the lists, the clock and where the *)
(* atoms are.                                                              *)

Linked == \E G : Rep(weave, NodesMade, G, {})

ClockPast == \A a \in InWeave(weave) : a.time <= time

Somewhere ==
    \A a \in Inserted : a \in InWeave(weave) \cup InBuffer(weave) \cup refused \cup removed

HereAccepted ==
    last[1] \in {"here", "supersede"}
      => last[2] = "atom_added" /\ made[Len(made)] \in InWeave(weave)

LinkedInv == ~repeated => Linked /\ ClockPast /\ Somewhere /\ HereAccepted

(* The atoms of the weave are those of the nodes in the maps, the waiting  *)
(* ones those of the nodes in the buffer.                                  *)
LEMMA AtomsOfNodes ==
    \A w : /\ InWeave(w) = {m.atom : m \in InMap(w)}
           /\ InBuffer(w) = {m.atom : m \in Waiting(w)}
BY DEF InWeave, InBuffer, InMap, Waiting, Range

(* What an insert leaves of the weave, in terms of atoms. *)
LEMMA SoundAtoms ==
    ASSUME NEW w, NEW r, NEW M, Sound(w, r, M)
    PROVE  /\ InBuffer(w) \subseteq InBuffer(r.weave) \cup InWeave(r.weave)
           /\ \A b \in InWeave(r.weave) : b \in InWeave(w) \/ Told(r, b)
BY AtomsOfNodes DEF Sound

(* A removal takes nothing from the buffer and adds nothing. *)
LEMMA ClearedAtoms ==
    ASSUME NEW w, NEW v, NEW M, NEW T, Cleared(w, v, M, T)
    PROVE  InBuffer(v) = InBuffer(w) /\ InWeave(v) \subseteq InWeave(w)
<1>1. InBuffer(v) = InBuffer(w)
  BY DEF Cleared, InBuffer
<1>2. InMap(v) \subseteq InMap(w)
  BY DEF Cleared
<1> QED
  BY <1>1, <1>2, AtomsOfNodes

(* The insert is one that the lists survive. *)
LEMMA InsertingSound ==
    ASSUME TreeInv, LinkedInv, ~repeated', NEW op, NEW a, NEW w, NEW r,
           Inserting(op, a, w, r), r = Insert(weave, NodeOf(a)),
           NodeOf(a) \in NodesMade', NodeOf(a) \notin NodesMade,
           NodesMade \subseteq NodesMade', NodesMade' \subseteq Node, OneKind(NodesMade')
    PROVE  ~repeated /\ Sound(weave, r, NodesMade')
<1>1. /\ ~repeated /\ Buffered(weave, Id(a)) = Null
      /\ r.type = "saved" => Id(a) \notin DOMAIN weave.idMap
  BY DEF Inserting
<1>2. PICK G : Rep(weave, NodesMade, G, {})
  BY <1>1 DEF LinkedInv, Linked
<1>3. PICK n : n = NodeOf(a)
  OBVIOUS
<1>4. n.atom = a
  BY <1>3 DEF NodeOf
<1>5. Typed(weave, NodesMade) /\ NodesMade \subseteq Node
  BY DEF TreeInv, WeaveInv, NodesMade
<1>6. NoTwinWaits(weave, n)
  BY <1>1, <1>4, <1>5, BufferedType DEF NoTwinWaits, Waiting
<1>7. Insert(weave, n).type = "saved" => Id(n.atom) \notin DOMAIN weave.idMap
  BY <1>1, <1>3, <1>4
<1>8. PICK M : M = NodesMade'
  OBVIOUS
<1>9. PICK L : L = NodesMade
  OBVIOUS
<1>10. /\ M \subseteq Node /\ OneKind(M) /\ L \subseteq M /\ Typed(weave, L)
       /\ Rep(weave, L, G, {}) /\ n \in M /\ n \notin L
  BY <1>2, <1>3, <1>5, <1>8, <1>9
<1>11. Sound(weave, Insert(weave, n), M)
  BY <1>6, <1>7, <1>10, InsertSound
<1> QED
  BY <1>1, <1>3, <1>8, <1>11

(* What an insert does to the atoms that arrived before. *)
LEMMA InsertingSomewhere ==
    ASSUME Somewhere, NEW op, NEW a, NEW w, NEW r, Inserting(op, a, w, r),
           KnownAtoms' \subseteq KnownAtoms \cup {a},
           \A b \in KnownAtoms' : b.hash = a.hash => b = a,
           InBuffer(weave) \subseteq InBuffer(w) \cup InWeave(w) \cup InWeave(weave)
    PROVE  Somewhere'
<1>1. /\ weave' = w /\ count' = [count EXCEPT ![a.hash] = @ + 1]
      /\ refused' = IF a \in InWeave(w) \cup InBuffer(w) THEN refused \ {a} ELSE refused \cup {a}
      /\ removed' = (removed \cup (InWeave(weave) \ InWeave(w))) \ InWeave(w)
  BY DEF Inserting
<1>2. SUFFICES ASSUME NEW b \in Inserted'
               PROVE  b \in InWeave(w) \cup InBuffer(w) \cup refused' \cup removed'
  BY <1>1 DEF Somewhere
<1>3. CASE b = a
  BY <1>1, <1>3
<1>4. CASE b # a
  <2>1. b \in KnownAtoms' /\ count'[b.hash] > 0
    BY <1>2 DEF Inserted, KnownAtoms
  <2>2. b \in KnownAtoms /\ b.hash # a.hash
    BY <2>1, <1>4
  <2>3. count'[b.hash] = count[b.hash]
    BY <1>1, <2>2
  <2>4. b \in Inserted
    BY <2>1, <2>2, <2>3 DEF Inserted, KnownAtoms
  <2>5. b \in InWeave(weave) \cup InBuffer(weave) \cup refused \cup removed
    BY <2>4 DEF Somewhere
  <2> QED
    BY <2>5, <1>1, <1>4
<1> QED
  BY <1>3, <1>4

(* The atoms that an insert adds are those the clock is stepped for. *)
LEMMA InsertingClock ==
    ASSUME ClockPast, time \in Nat, time' \in Nat, time <= time', NEW r, Past(time', time, r.added),
           \A b \in InWeave(weave') : (b \in InWeave(weave) \/ Told(r, b)) /\ b.time \in Nat
    PROVE  ClockPast'
<1>1. SUFFICES ASSUME NEW b \in InWeave(weave') PROVE b.time <= time'
  BY DEF ClockPast
<1>2. CASE b \in InWeave(weave)
  <2>1. b.time <= time /\ b.time \in Nat
    BY <1>1, <1>2 DEF ClockPast
  <2> QED
    BY <2>1
<1>3. CASE Told(r, b)
  BY <1>3 DEF Told, Past
<1> QED
  BY <1>1, <1>2, <1>3

(* The atoms of a typed weave are nodes' atoms. *)
LEMMA WeaveTimes ==
    ASSUME NEW w, NEW M, M \subseteq Node, Typed(w, M)
    PROVE  /\ \A b \in InWeave(w) : b.time \in Nat
           /\ \A id \in DOMAIN w.idMap : w.idMap[id] \in InMap(w)
<1>1. InMap(w) \subseteq Node
  BY WaitingNodes
<1> QED
  BY <1>1, AtomsOfNodes, NodeFields DEF InMap

-----------------------------------------------------------------------------
(* The actions keep it.                                                    *)

(* insertAtoms and applyAtoms keep the invariant. *)
LEMMA InsertAtomLinked ==
    ASSUME TreeInv, LinkedInv, NEW a \in KnownAtoms, InsertAtom(a)
    PROVE  LinkedInv'
<1> SUFFICES ASSUME ~repeated' PROVE Linked' /\ ClockPast' /\ Somewhere' /\ HereAccepted'
  BY DEF LinkedInv
<1>1. PICK r : r = Insert(weave, NodeOf(a))
  OBVIOUS
<1>2. Inserting("insert", a, r.weave, r) /\ weave' = r.weave
  BY <1>1 DEF InsertAtom, Inserting
<1>3. /\ TreeInv' /\ KnownAtoms' = KnownAtoms
      /\ NodeOf(a) \in NodesMade' /\ NodeOf(a) \notin NodesMade
      /\ NodesMade \subseteq NodesMade' /\ NodesMade' \subseteq Node /\ OneKind(NodesMade')
      /\ Past(time', time, r.added)
  BY <1>1, InsertAtomInv
<1>4. ~repeated /\ Sound(weave, r, NodesMade')
  BY <1>1, <1>2, <1>3, InsertingSound
<1>5. Linked'
  BY <1>2, <1>4 DEF Sound, Linked
<1>6. /\ InBuffer(weave) \subseteq InBuffer(r.weave) \cup InWeave(r.weave)
      /\ \A b \in InWeave(r.weave) : b \in InWeave(weave) \/ Told(r, b)
  BY <1>4, SoundAtoms
<1>7. ClockPast'
  <2>1. \A b \in InWeave(weave') : b.time \in Nat
    BY <1>3, WeaveTimes DEF TreeInv, WeaveInv
  <2>2. time \in Nat /\ time' \in Nat /\ time <= time'
    BY <1>3 DEF TreeInv, AtomsInv, Past
  <2> QED
    BY <1>2, <1>3, <1>4, <1>6, <2>1, <2>2, InsertingClock DEF LinkedInv
<1>8. Somewhere'
  <2>1. \A b \in KnownAtoms' : b.hash = a.hash => b = a
    BY <1>3 DEF TreeInv, AtomsInv
  <2> QED
    BY <1>2, <1>3, <1>4, <1>6, <2>1, InsertingSomewhere DEF LinkedInv
<1>9. HereAccepted'
  <2>1. last'[1] = "insert"
    BY <1>2 DEF Inserting
  <2> QED
    BY <2>1 DEF HereAccepted
<1> QED
  BY <1>5, <1>7, <1>8, <1>9

(* removeAtoms keeps it. *)
LEMMA RemoveHashLinked ==
    ASSUME TreeInv, LinkedInv, NEW h, RemoveHash(h)
    PROVE  LinkedInv'
<1> SUFFICES ASSUME ~repeated' PROVE Linked' /\ ClockPast' /\ Somewhere' /\ HereAccepted'
  BY DEF LinkedInv
<1>1. /\ weave' = RemoveAtom(weave, weave.hashMap[h].atom)
      /\ removed' = removed \cup (InWeave(weave) \ InWeave(weave'))
      /\ last' = <<"remove", "atom_removed", h>>
      /\ UNCHANGED <<others, time, remote, made, count, refused, repeated>>
  BY DEF RemoveHash
<1>2. NodesMade' = NodesMade /\ NodesMade \subseteq Node /\ Typed(weave, NodesMade)
  BY RemoveHashInv DEF NodesMade, TreeInv, WeaveInv
<1>3. PICK G : Rep(weave, NodesMade, G, {})
  BY <1>1 DEF LinkedInv, Linked
<1>4. PICK T : Cleared(weave, weave', NodesMade, T)
  BY <1>1, <1>2, <1>3, AtomRemoved
<1>5. InBuffer(weave') = InBuffer(weave) /\ InWeave(weave') \subseteq InWeave(weave)
  BY <1>4, ClearedAtoms
<1>6. Linked'
  BY <1>2, <1>4 DEF Cleared, Linked
<1>7. ClockPast'
  BY <1>1, <1>5 DEF LinkedInv, ClockPast
<1>8. Somewhere'
  <2>1. Inserted' = Inserted
    BY <1>1 DEF Inserted
  <2>2. \A b \in Inserted :
          b \in InWeave(weave) \cup InBuffer(weave) \cup refused \cup removed
    BY <1>1 DEF LinkedInv, Somewhere
  <2> QED
    BY <2>1, <2>2, <1>1, <1>5 DEF Somewhere
<1>9. HereAccepted'
  <2>1. last'[1] = "remove"
    BY <1>1
  <2> QED
    BY <2>1 DEF HereAccepted
<1> QED
  BY <1>6, <1>7, <1>8, <1>9

(* A step that changes nothing of the tree keeps it. *)
LEMMA StutterLinked ==
    ASSUME TreeInv, LinkedInv, UNCHANGED <<others, weave, time, remote, made, count, refused,
                                           removed, repeated>>,
           ~repeated => HereAccepted'
    PROVE  LinkedInv'
<1> SUFFICES ASSUME ~repeated' PROVE Linked' /\ ClockPast' /\ Somewhere' /\ HereAccepted'
  BY DEF LinkedInv
<1>1. NodesMade' = NodesMade
  BY StutterInv
<1>2. Inserted' = Inserted
  BY DEF Inserted
<1> QED
  BY <1>1, <1>2 DEF LinkedInv, Linked, ClockPast, Somewhere

-----------------------------------------------------------------------------
(* An atom made here under its own clock is taken.                         *)

(* Nothing waits for it: an atom that names one of this site as its cause  *)
(* has a time that the clock is past.                                      *)
LEMMA NothingWaitsForNew ==
    ASSUME TreeInv, NEW a, a.site = Site, a.time = time + 1, NEW u, u.buffer = weave.buffer,
           NEW n, n.atom = a
    PROVE  ~HasMissingChildren(u, n)
<1>1. SUFFICES ASSUME NEW k \in DOMAIN weave.buffer, weave.buffer[k].atom.cause = Id(a)
               PROVE  FALSE
  BY DEF HasMissingChildren
<1>2. PICK b : b = weave.buffer[k].atom
  OBVIOUS
<1>3. b \in KnownAtoms
  <2>1. weave.buffer \in Seq(NodesMade)
    BY DEF TreeInv, WeaveInv, Typed, Stored
  <2>2. weave.buffer[k] \in NodesMade
    BY <2>1, <1>1
  <2> QED
    BY <1>2, <2>2 DEF NodesMade
<1>4. b.cause = <<a.site, a.time, a.prio>>
  BY <1>1, <1>2 DEF Id
<1>5. b.cause # NoCause /\ b.cause[1] = Site /\ b.cause[2] = time + 1
  BY <1>4 DEF NoCause
<1>6. b.cause[2] <= time /\ time \in Nat
  BY <1>3, <1>5 DEF TreeInv, AtomsInv
<1> QED
  BY <1>5, <1>6

(* It is the only atom the weave tells of, and its node is in the maps. *)
TakenAlone(n, r) ==
    /\ r = Result(r.weave, "atom_added", <<n.atom>>)
    /\ Id(n.atom) \in DOMAIN r.weave.idMap /\ r.weave.idMap[Id(n.atom)] = n

(* An atom that nothing waits for is inserted alone. *)
LEMMA JoinedTaken ==
    ASSUME NEW w, NEW u, NEW n, MapsAdded(w, u, n), ~HasMissingChildren(u, n)
    PROVE  TakenAlone(n, WithMissingChildren(u, n))
<1>1. PICK r : r = Result(u, "atom_added", <<n.atom>>)
  OBVIOUS
<1>2. WithMissingChildren(u, n) = r
  BY <1>1 DEF WithMissingChildren
<1>3. r.weave = u
  BY <1>1, ResultFields
<1>4. Id(n.atom) \in DOMAIN u.idMap /\ u.idMap[Id(n.atom)] = n
  BY DEF MapsAdded
<1> QED
  BY <1>1, <1>2, <1>3, <1>4 DEF TakenAlone

(* An atom made here under its cause, or as a root, is newer than its cause*)
(* and has a new ID: the weave takes it.                                   *)
LEMMA HereTaken ==
    ASSUME TreeInv, ClockPast, Len(made) < MaxLocal, NEW op \in {"here", "supersede"}, NEW a, IsNew(op, a),
           NEW n, n = NodeOf(a)
    PROVE  a \in Atom /\ TakenAlone(n, Insert(weave, n))
<1>1. a.site = Site /\ a.time = time + 1 /\ ~a.cert /\ n.atom = a
  BY DEF IsNew, NodeOf
<1>2. Typed(weave, NodesMade) /\ NodesMade \subseteq Node /\ Typed(weave, Node)
  <2>1. Typed(weave, NodesMade) /\ NodesMade \subseteq Node
    BY DEF TreeInv, WeaveInv, NodesMade
  <2> QED
    BY <2>1, TypedMore
<1>3. PICK cause : cause = GetNode(weave, a.cause)
  OBVIOUS
<1>4. a.cause # NoCause =>
        /\ a.cause \in DOMAIN weave.idMap /\ cause = weave.idMap[a.cause]
        /\ cause \in Node /\ cause # Null /\ a.causeHash = cause.atom.hash
        /\ a.cause[2] = cause.atom.time /\ cause.atom.time <= time
  <2>1. SUFFICES ASSUME a.cause # NoCause PROVE
        /\ a.cause \in DOMAIN weave.idMap /\ cause = weave.idMap[a.cause]
        /\ cause \in Node /\ cause # Null /\ a.causeHash = cause.atom.hash
        /\ a.cause[2] = cause.atom.time /\ cause.atom.time <= time
    OBVIOUS
  <2>2. /\ a.cause \in DOMAIN weave.idMap
        /\ a.causeHash = weave.idMap[a.cause].atom.hash
        /\ a.cause[2] = weave.idMap[a.cause].atom.time
    BY <2>1 DEF IsNew
  <2>3. cause = weave.idMap[a.cause] /\ cause \in Node /\ cause # Null
    BY <1>2, <1>3, <2>2, GetNodeType
  <2>4. cause.atom \in InWeave(weave)
    BY <2>2, <2>3 DEF InWeave
  <2> QED
    BY <2>2, <2>3, <2>4 DEF ClockPast
<1>5. time \in Nat /\ Len(made) \in Nat /\ N \in Nat /\ MaxLocal \in Nat
  BY BoundsAssumption DEF TreeInv, AtomsInv
<1>6. a \in Atom
  <2>1. a.cause # NoCause => a.cause[2] < a.time
    <3>1. a.cause # NoCause => cause.atom.time \in Nat
      BY <1>4, NodeFields
    <3> QED
      BY <1>1, <1>4, <1>5, <3>1
  <2>2. a.hash \in Nat \ {0} /\ a.site \in Nat /\ a.prio \in Nat
    BY NewAtomIsNew, <1>5 DEF IsNew, Site, RemoteSite
  <2>3. a \in [site : Nat, time : Nat, prio : Nat,
               cause : {NoCause} \cup (Nat \X Nat \X {0}), causeHash : Nat,
               hash : Nat \ {0}, cert : BOOLEAN]
    BY <2>2 DEF IsNew
  <2> QED
    BY <2>1, <2>3, <1>1 DEF Atom
<1>7. n \in Node /\ ~n.atom.cert
  <2>1. a.hash \in 1 .. (N + MaxLocal) /\ count \in [1 .. (N + MaxLocal) -> Nat]
    <3>1. a.hash = N + Len(made) + 1
      BY NewAtomIsNew
    <3>2. a.hash \in 1 .. (N + MaxLocal)
      BY ONLY <3>1, <1>5, Len(made) < MaxLocal
    <3> QED
      BY <3>2 DEF TreeInv, AtomsInv
  <2>2. PICK c \in Nat : c = count[a.hash]
    BY <2>1
  <2>3. n = [atom |-> a, copy |-> c + 1]
    BY <2>2 DEF NodeOf
  <2>4. c + 1 \in Nat \ {0}
    OBVIOUS
  <2> QED
    BY <2>3, <2>4, <1>1, <1>6 DEF Node
<1>8. GetNode(weave, Id(n.atom)) = Null
  BY <1>1, <1>2, GetNodeType, NewAtomIsNew
<1>9. ASSUME NEW v, v.buffer = weave.buffer, NEW u, MapsAdded(v, u, n),
             Insert(weave, n) = WithMissingChildren(u, n)
      PROVE  TakenAlone(n, Insert(weave, n))
  <2>1. u.buffer = weave.buffer
    BY <1>9 DEF MapsAdded
  <2>2. ~HasMissingChildren(u, n)
    BY <1>1, <2>1, NothingWaitsForNew
  <2> QED
    BY <1>9, <2>2, JoinedTaken
<1>10. CASE a.cause = NoCause
  <2>1. PICK u : u = AddRoot(weave, n)
    OBVIOUS
  <2>2. Insert(weave, n) = InsertRoot(weave, n)
    BY <1>1, <1>10 DEF Insert
  <2>3. InsertRoot(weave, n) = WithMissingChildren(u, n)
    BY <1>7, <1>8, <2>1 DEF InsertRoot
  <2>4. MapsAdded(weave, u, n)
    BY <1>2, <1>7, <2>1, AddRootTyped
  <2> QED
    BY <2>2, <2>3, <2>4, <1>6, <1>9
<1>11. CASE a.cause # NoCause
  <2>1. PICK v : v = InsertNodeUnder(weave, cause, n, n)
    OBVIOUS
  <2>2. PICK u : u = InsertUnder(weave, cause, n)
    OBVIOUS
  <2>3. Refusal(n, cause) = "none"
    <3>1. cause.atom.time \in Nat
      BY <1>4, <1>11, NodeFields
    <3>2. ~(n.atom.time <= cause.atom.time)
      BY <3>1, <1>1, <1>4, <1>5, <1>11
    <3> QED
      BY <3>2, <1>1, <1>4, <1>11 DEF Refusal
  <2>4. Insert(weave, n) = WithMissingChildren(u, n)
    BY <1>1, <1>3, <1>4, <1>8, <1>11, <2>2, <2>3 DEF Insert
  <2>5. n \in Under(Node) /\ cause \in Node
    BY <1>1, <1>4, <1>7, <1>11 DEF Under
  <2>6. Links(v, Node) /\ Relinked(weave, v)
    BY <1>2, <2>1, <2>5, <1>7, InsertNodeUnderLinks DEF Typed
  <2>7. Typed(v, Node)
    BY <1>2, <2>6, TypedRelinked
  <2>8. MapsAdded(v, u, n)
    BY <1>7, <2>1, <2>2, <2>7, AddNodeToMapsTyped DEF InsertUnder
  <2>9. v.buffer = weave.buffer
    BY <2>6 DEF Relinked
  <2> QED
    BY <2>4, <2>8, <2>9, <1>6, <1>9
<1> QED
  BY <1>6, <1>10, <1>11

-----------------------------------------------------------------------------
(* addAtom keeps it.                                                       *)

(* An atom made here that the weave keeps. *)
LEMMA KeptLinked ==
    ASSUME TreeInv, LinkedInv, NEW op, NEW a, IsNew(op, a), NEW r, Kept(op, a, r)
    PROVE  LinkedInv'
<1> SUFFICES ASSUME ~repeated' PROVE Linked' /\ ClockPast' /\ Somewhere' /\ HereAccepted'
  BY DEF LinkedInv
<1>1. /\ r = Insert(weave, NodeOf(a)) /\ r.added # <<>> /\ made' = Append(made, a)
      /\ Len(made) < MaxLocal
  BY DEF Kept
<1>2. PICK w : /\ w = IF op = "supersede" THEN RemoveSiblingsBefore(r.weave, a) ELSE r.weave
               /\ Inserting(op, a, w, r)
  BY DEF Kept
<1>3. /\ KnownAtoms' = KnownAtoms \cup {a} /\ a \in Atom
      /\ made'[Len(made')] = a /\ Typed(weave, NodesMade')
      /\ NodeOf(a) \in NodesMade' /\ NodeOf(a) \notin NodesMade
      /\ NodesMade \subseteq NodesMade' /\ NodesMade' \subseteq Node /\ OneKind(NodesMade')
  BY KeptAtoms
<1>4. /\ TreeInv' /\ time <= time' /\ Past(time', time, r.added)
      /\ TypedResult(r, NodesMade')
  BY KeptInv
<1>5. ~repeated /\ Sound(weave, r, NodesMade')
  BY <1>1, <1>2, <1>3, InsertingSound
<1>6. PICK H : Rep(r.weave, NodesMade', H, {})
  BY <1>5 DEF Sound
<1>7. /\ InBuffer(weave) \subseteq InBuffer(r.weave) \cup InWeave(r.weave)
      /\ \A b \in InWeave(r.weave) : b \in InWeave(weave) \/ Told(r, b)
  BY <1>5, SoundAtoms
<1>8. op \in {"here", "supersede"} => TakenAlone(NodeOf(a), r)
  BY <1>1, <1>5, HereTaken DEF LinkedInv
<1>9. NodeOf(a).atom = a
  BY DEF NodeOf
<1>10. /\ \E G : Rep(w, NodesMade', G, {})
       /\ InWeave(w) \subseteq InWeave(r.weave)
       /\ InBuffer(weave) \subseteq InBuffer(w) \cup InWeave(w) \cup InWeave(weave)
       /\ op \in {"here", "supersede"} => r.type = "atom_added" /\ a \in InWeave(w)
  <2>0. op \in {"here", "supersede"} =>
          /\ r.type = "atom_added" /\ r.added = <<a>>
          /\ Id(a) \in DOMAIN r.weave.idMap /\ r.weave.idMap[Id(a)] = NodeOf(a)
    BY <1>8, <1>9, ResultFields DEF TakenAlone
  <2>1. CASE op = "supersede"
    <3>1. PICK T : /\ Cleared(r.weave, w, NodesMade', T)
                   /\ Id(a) \in DOMAIN r.weave.idMap => r.weave.idMap[Id(a)] \notin T
      BY <1>2, <1>3, <1>4, <1>6, <2>1, SiblingsRemoved DEF TypedResult
    <3>2. InBuffer(w) = InBuffer(r.weave) /\ InWeave(w) \subseteq InWeave(r.weave)
      BY <3>1, ClearedAtoms
    <3>3. /\ r.type = "atom_added" /\ r.added = <<a>>
          /\ Id(a) \in DOMAIN r.weave.idMap /\ r.weave.idMap[Id(a)] = NodeOf(a)
      BY <2>0, <2>1
    <3>4. \A b : Told(r, b) => b = a
      <4>1. r.added = <<a>>
        BY <3>3, ResultFields
      <4> QED
        BY <4>1 DEF Told
    <3>5. a \in InWeave(w)
      <4>1. NodeOf(a) \in InMap(r.weave) \ T
        BY <3>1, <3>3 DEF InMap
      <4>2. NodeOf(a) \in InMap(w)
        BY <3>1, <4>1 DEF Cleared
      <4> QED
        BY <4>2, <1>9, AtomsOfNodes
    <3>6. InBuffer(weave) \subseteq InBuffer(w) \cup InWeave(w) \cup InWeave(weave)
      BY <1>7, <3>2, <3>4, <3>5
    <3>7. \E G : Rep(w, NodesMade', G, {})
      BY <3>1 DEF Cleared
    <3> QED
      BY <3>2, <3>3, <3>5, <3>6, <3>7, <1>7
  <2>2. CASE op # "supersede"
    <3>1. w = r.weave
      BY <1>2, <2>2
    <3>2. op = "here" => a \in InWeave(w)
      <4>1. op = "here" => NodeOf(a) \in InMap(w)
        BY <2>0, <3>1 DEF InMap
      <4> QED
        BY <4>1, <1>9, AtomsOfNodes
    <3> QED
      BY <2>0, <2>2, <3>1, <3>2, <1>6, <1>7
  <2> QED
    BY <2>1, <2>2
<1>11. weave' = w /\ last' = <<op, r.type, 0>>
  BY <1>2 DEF Inserting
<1>12. Linked'
  BY <1>10, <1>11 DEF Linked
<1>13. ClockPast'
  <2>1. \A b \in InWeave(weave') : b.time \in Nat
    BY <1>3, <1>4, WeaveTimes DEF TreeInv, WeaveInv
  <2>2. time \in Nat /\ time' \in Nat
    BY <1>4 DEF TreeInv, AtomsInv
  <2>3. ClockPast /\ \A b \in InWeave(weave') : b \in InWeave(weave) \/ Told(r, b)
    BY <1>5, <1>7, <1>10, <1>11 DEF LinkedInv
  <2> QED
    BY <1>4, <2>1, <2>2, <2>3, InsertingClock
<1>14. Somewhere'
  <2>1. \A b \in KnownAtoms' : b.hash = a.hash => b = a
    BY <1>3, <1>4 DEF TreeInv, AtomsInv
  <2>2. Somewhere
    BY <1>5 DEF LinkedInv
  <2> QED
    BY <1>2, <1>3, <1>10, <2>1, <2>2, InsertingSomewhere
<1>15. HereAccepted'
  <2>1. last'[1] = op /\ last'[2] = r.type
    BY <1>11
  <2> QED
    BY <2>1, <1>3, <1>10, <1>11 DEF HereAccepted
<1> QED
  BY <1>12, <1>13, <1>14, <1>15

(* addAtom keeps the invariant. *)
LEMMA AddAtomLinked ==
    ASSUME TreeInv, LinkedInv, NEW op, NEW a, IsNew(op, a), AddAtom(op, a)
    PROVE  LinkedInv'
<1>1. PICK r : \/ Kept(op, a, r)
               \/ /\ r = Insert(weave, NodeOf(a)) /\ r.added = <<>>
                  /\ UNCHANGED <<others, weave, time, remote, made, count, removals,
                                 refused, removed, repeated>>
                  /\ last' = <<op, r.type, 0>>
  BY AddAtomKeeps
<1>2. CASE Kept(op, a, r)
  BY <1>2, KeptLinked
<1>3. CASE /\ r = Insert(weave, NodeOf(a)) /\ r.added = <<>>
           /\ UNCHANGED <<others, weave, time, remote, made, count, removals,
                          refused, removed, repeated>>
           /\ last' = <<op, r.type, 0>>
  <2>1. Len(made) < MaxLocal
    BY DEF AddAtom
  <2>2. ASSUME ~repeated PROVE op \notin {"here", "supersede"}
    <3>1. SUFFICES ASSUME op \in {"here", "supersede"} PROVE FALSE
      OBVIOUS
    <3>2. TakenAlone(NodeOf(a), r)
      BY <1>3, <2>1, <2>2, <3>1, HereTaken DEF LinkedInv
    <3>3. r.added = <<NodeOf(a).atom>>
      BY <3>2, ResultFields DEF TakenAlone
    <3>4. <<NodeOf(a).atom>> # <<>>
      OBVIOUS
    <3> QED
      BY <1>3, <3>3, <3>4
  <2>3. ~repeated => HereAccepted'
    <3>1. last'[1] = op
      BY <1>3
    <3> QED
      BY <2>2, <3>1 DEF HereAccepted
  <2> QED
    BY <1>3, <2>3, StutterLinked
<1> QED
  BY <1>1, <1>2, <1>3

-----------------------------------------------------------------------------
(* The initial state, and all steps.                                       *)

(* The invariant holds at first. *)
LEMMA InitLinked == Init => LinkedInv
<1> SUFFICES ASSUME Init PROVE Linked /\ ClockPast /\ Somewhere /\ HereAccepted
  BY DEF LinkedInv
<1>1. PICK w : w = weave
  OBVIOUS
<1>2. /\ w.idMap = <<>> /\ w.buffer = <<>>
  BY <1>1 DEF Init, EmptyWeave
<1>3. DOMAIN <<>> = {} /\ Range(<<>>) = {}
  BY DEF Range
<1>4. InMap(w) = {} /\ Waiting(w) = {}
  BY <1>2, <1>3 DEF InMap, Waiting
<1>5. Rep(w, NodesMade, {}, {})
  <2>1. Distinct(w.buffer)
    BY <1>2, <1>3 DEF Distinct
  <2>2. Lists(w, NodesMade, {})
    BY DEF Lists
  <2> QED
    BY <2>1, <2>2, <1>4 DEF Rep, Kinds, Covered, Heads, WithCause, Apart, Orphans
<1>6. Linked
  BY <1>1, <1>5 DEF Linked
<1>7. ClockPast
  <2>1. InWeave(weave) = {}
    BY <1>1, <1>4, AtomsOfNodes
  <2> QED
    BY <2>1 DEF ClockPast
<1>8. Somewhere
  <2>1. \A a \in KnownAtoms : count[a.hash] = 0
    <3>1. \A a \in KnownAtoms : a.hash \in 1 .. (N + Len(made))
      BY InitAtoms DEF AtomsInv
    <3>2. made = <<>> /\ count = [h \in 1 .. (N + MaxLocal) |-> 0]
      BY DEF Init
    <3>3. Len(made) = 0 /\ N \in Nat /\ MaxLocal \in Nat
      BY <3>2, BoundsAssumption
    <3>4. \A a \in KnownAtoms : a.hash \in 1 .. (N + MaxLocal)
      BY <3>1, <3>3
    <3> QED
      BY <3>2, <3>4
  <2>2. Inserted = {}
    BY <2>1 DEF Inserted, KnownAtoms
  <2> QED
    BY <2>2 DEF Somewhere
<1>9. HereAccepted
  BY DEF Init, HereAccepted
<1> QED
  BY <1>6, <1>7, <1>8, <1>9

(* Every step keeps it. *)
LEMMA NextLinked == TreeInv /\ LinkedInv /\ [Next]_vars => LinkedInv'
<1> SUFFICES ASSUME TreeInv, LinkedInv, [Next]_vars PROVE LinkedInv'
  OBVIOUS
<1>1. ASSUME NEW a \in Range(others) \cup Range(made), InsertAtom(a) PROVE LinkedInv'
  BY <1>1, InsertAtomLinked DEF KnownAtoms
<1>2. ASSUME NEW add \in AddHere \cup AddCertificate \cup AddRemote, AddAtom(add[1], add[2])
      PROVE  LinkedInv'
  BY <1>2, NewAtoms, AddAtomLinked
<1>3. ASSUME NEW h, RemoveHash(h) PROVE LinkedInv'
  BY <1>3, RemoveHashLinked
<1>4. CASE UNCHANGED vars
  <2>1. /\ UNCHANGED <<others, weave, time, remote, made, count, refused, removed, repeated>>
        /\ last' = last
    BY <1>4 DEF vars
  <2>2. ~repeated => HereAccepted'
    BY <2>1 DEF LinkedInv, HereAccepted
  <2> QED
    BY <2>1, <2>2, StutterLinked
<1> QED
  BY <1>1, <1>2, <1>3, <1>4 DEF Next

(* The invariant of the lists, the clock and the places of the atoms holds *)
(* in every state before an ID was in the buffer twice (Weave2.ts insert,  *)
(* remove, removeSiblingsBefore).                                          *)
THEOREM LinkedAlways == Spec => [](TreeInv /\ LinkedInv)
BY InitTree, InitLinked, NextTree, NextLinked, PTL DEF Spec

-----------------------------------------------------------------------------
(* The properties.                                                         *)

(* An atom made here under its own clock is accepted, and the clock is past*)
(* every atom of the weave (CausalTree2.ts addAtom, SiteStatus.ts          *)
(* updateSite).                                                            *)
THEOREM AcceptedHereAlways == Spec => []AcceptedHere
<1>1. LinkedInv => AcceptedHere
  BY DEF LinkedInv, HereAccepted, ClockPast, AcceptedHere
<1> QED
  BY <1>1, LinkedAlways, PTL

(* An atom that arrived and was neither refused nor removed is in the      *)
(* weave, or waits for a cause that is not there (Weave2.ts insert,        *)
(* _addMissingChildren).                                                   *)
THEOREM NothingStrandedAlways == Spec => []NothingStranded
<1>1. LinkedInv => NothingStranded
  <2> SUFFICES ASSUME LinkedInv, ~repeated, NEW a \in Inserted \ (refused \cup removed),
                      a \notin InWeave(weave)
               PROVE  a \in InBuffer(weave) /\ a.cause \notin DOMAIN weave.idMap
    BY DEF NothingStranded
  <2>1. a \in InBuffer(weave)
    BY DEF LinkedInv, Somewhere
  <2>2. PICK m \in Waiting(weave) : m.atom = a
    BY <2>1, AtomsOfNodes
  <2>3. m.atom.cause \notin DOMAIN weave.idMap
    BY DEF LinkedInv, Linked, Rep, Orphans
  <2> QED
    BY <2>1, <2>2, <2>3
<1> QED
  BY <1>1, LinkedAlways, PTL

(* The list of a node is linked both ways and ends. *)
LEMMA ListOfNode ==
    ASSUME NEW w, NEW M, M \subseteq Node, Typed(w, M), NEW G, Rep(w, M, G, {}),
           NEW n \in InMap(w) \cup Waiting(w)
    PROVE  LET list == IterateFrom(w, n)
           IN /\ At(w.next, Last(list)) = Null
              /\ \A k \in 2 .. Len(list) : At(w.prev, list[k]) = list[k - 1]
<1>1. PICK s \in G : n \in Range(s)
  BY DEF Rep, Covered
<1>2. s \in Seq(M) /\ Chain(w, s) /\ Len(s) \in Nat
  BY DEF Rep, Lists
<1>3. PICK i \in 1 .. Len(s) : n = s[i]
  BY <1>1, <1>2, RangeOf
<1>4. PICK list : list = IterateFrom(w, n)
  OBVIOUS
<1>5. list = From(s, i)
  BY <1>2, <1>3, <1>4, IterateChain DEF Typed, Links
<1>6. PICK len \in Nat : len = Len(s) - i + 1 /\ len >= 1
  <2>1. i \in 1 .. Len(s) /\ Len(s) \in Nat
    BY <1>2
  <2>2. Len(s) - i + 1 \in Nat /\ Len(s) - i + 1 >= 1
    BY ONLY <2>1
  <2> QED
    BY ONLY <2>2
<1>7. Len(list) = len /\ \A k \in 1 .. len : list[k] = s[i + k - 1]
  <2>1. list = [k \in 1 .. len |-> s[i + k - 1]]
    BY <1>5, <1>6 DEF From
  <2>2. \A k \in 1 .. len : s[i + k - 1] \in M
    BY <1>2, <1>6
  <2>3. Len([k \in 1 .. len |-> s[i + k - 1]]) = len
    BY <2>2
  <2> QED
    BY <2>1, <2>3
<1>8. Last(list) = s[Len(s)]
  <2>1. len \in 1 .. len /\ i + len - 1 = Len(s)
    BY <1>2, <1>6
  <2> QED
    BY <2>1, <1>7 DEF Last
<1>9. At(w.next, Last(list)) = Null
  BY <1>2, <1>8 DEF Chain
<1>10. ASSUME NEW k \in 2 .. Len(list) PROVE At(w.prev, list[k]) = list[k - 1]
  <2>1. /\ k \in 1 .. len /\ k - 1 \in 1 .. len /\ i + k - 1 \in 2 .. Len(s)
        /\ i + (k - 1) - 1 = (i + k - 1) - 1
    BY <1>2, <1>6, <1>7
  <2>2. list[k] = s[i + k - 1] /\ list[k - 1] = s[(i + k - 1) - 1]
    BY <2>1, <1>7
  <2>3. \A j \in 2 .. Len(s) : At(w.prev, s[j]) = s[j - 1]
    BY <1>2 DEF Chain
  <2> QED
    BY <2>1, <2>2, <2>3
<1> QED
  BY <1>4, <1>9, <1>10

(* The list of every node, in the weave and in the buffer, is linked both  *)
(* ways and ends, so that iterateFrom terminates (Weave2.ts                *)
(* _insertNodeBefore, _insertNodeAfter, _removeSpan).                      *)
THEOREM ListsAreLinkedAlways == Spec => []ListsAreLinked
<1>1. TreeInv /\ LinkedInv => ListsAreLinked
  <2> SUFFICES ASSUME TreeInv, LinkedInv, ~repeated, NEW n \in Nodes(weave)
               PROVE  LET list == IterateFrom(weave, n)
                      IN /\ At(weave.next, Last(list)) = Null
                         /\ \A k \in 2 .. Len(list) : At(weave.prev, list[k]) = list[k - 1]
    BY DEF ListsAreLinked
  <2>1. n \in InMap(weave) \cup Waiting(weave)
    BY DEF Nodes, InMap, Waiting
  <2>2. Typed(weave, NodesMade) /\ NodesMade \subseteq Node
    BY DEF TreeInv, WeaveInv, NodesMade
  <2>3. PICK G : Rep(weave, NodesMade, G, {})
    BY DEF LinkedInv, Linked
  <2> QED
    BY <2>1, <2>2, <2>3, ListOfNode
<1> QED
  BY <1>1, LinkedAlways, PTL
=============================================================================
