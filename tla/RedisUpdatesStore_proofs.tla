---------------------- MODULE RedisUpdatesStore_proofs ----------------------
(***************************************************************************)
(* Proofs about RedisUpdatesStore, for every number of invocations, every  *)
(* limit, every number of clears and every size function: type             *)
(* correctness, that the accounted size fits, and that the scripts         *)
(* implement the abstract store.                                           *)
(***************************************************************************)
EXTENDS RedisUpdatesStore, WellFoundedInduction, SequenceTheorems, TLAPS

(* The order of the naturals as a set of pairs. *)
Less == {ss \in Nat \X Nat : ss[1] < ss[2]}

(* A set of naturals that is not empty has a least element. *)
LEMMA LeastNat ==
    ASSUME NEW T, T \subseteq Nat, T # {}
    PROVE  \E x \in T : \A y \in T : ~(y < x)
<1>1. IsWellFoundedOn(Less, Nat)
  BY NatLessThanWellFounded DEF OpToRel, Less
<1>2. PICK x \in T : \A y \in T : ~(<<y, x>> \in Less)
  BY <1>1, WFMin
<1>3. \A y \in T : y < x => <<y, x>> \in Less
  BY DEF Less
<1> QED
  BY <1>2, <1>3

(* The elements of the Redis list. *)
Elements == [updates : SUBSET Updates, timestamp : {-1, 1}]

(* f is the running sum that SizeOf computes over the first n elements of   *)
(* l.                                                                       *)
IsSum(f, l, n) == f = [i \in 0 .. n |-> IF i = 0 THEN 0 ELSE f[i - 1] + Size(l[i].updates)]

(* The recursive function in SizeOf exists, by least counterexample. *)
LEMMA SumExists ==
    ASSUME NEW l, NEW n \in Nat
    PROVE  \E f : IsSum(f, l, n)
<1> DEFINE T == {m \in Nat : ~(\E f : IsSum(f, l, m))}
<1> SUFFICES ASSUME T # {} PROVE FALSE
  OBVIOUS
<1>1. PICK m \in T : \A y \in T : ~(y < m)
  <2>1. T \subseteq Nat
    OBVIOUS
  <2> HIDE DEF T
  <2> QED BY <2>1, LeastNat
<1>2. CASE m = 0
  <2> DEFINE f == [i \in 0 .. 0 |-> 0]
  <2>1. IsSum(f, l, 0)
    BY DEF IsSum
  <2> QED BY <1>2, <2>1
<1>3. CASE m # 0
  <2>1. m - 1 \in Nat /\ m - 1 < m
    BY <1>3
  <2>2. PICK f : IsSum(f, l, m - 1)
    BY <1>1, <2>1
  <2> DEFINE g == [i \in 0 .. m |-> IF i = 0 THEN 0 ELSE f[i - 1] + Size(l[i].updates)]
  <2>3. \A i \in 0 .. m - 1 : g[i] = f[i]
    BY <2>1, <2>2 DEF IsSum
  <2>4. \A i \in 0 .. m : i # 0 => i - 1 \in 0 .. m - 1
    BY <2>1
  <2>5. g = [i \in 0 .. m |-> IF i = 0 THEN 0 ELSE g[i - 1] + Size(l[i].updates)]
    <3>1. \A i \in 0 .. m : g[i] = IF i = 0 THEN 0 ELSE g[i - 1] + Size(l[i].updates)
      BY <2>3, <2>4
    <3> QED BY <3>1
  <2>6. IsSum(g, l, m)
    BY <2>5 DEF IsSum
  <2> QED BY <2>6
<1> QED
  BY <1>2, <1>3

(* The size of a list is a natural number, by least counterexample. *)
LEMMA SizeOfNat ==
    ASSUME NEW l \in Seq(Elements)
    PROVE  SizeOf(l) \in Nat
<1> DEFINE sum == CHOOSE f : IsSum(f, l, Len(l))
<1>1. IsSum(sum, l, Len(l))
  BY SumExists
<1>2. SizeOf(l) = sum[Len(l)]
  BY DEF SizeOf, IsSum
<1>3. \A i \in 1 .. Len(l) : Size(l[i].updates) \in Nat
  <2> SUFFICES ASSUME NEW i \in 1 .. Len(l) PROVE Size(l[i].updates) \in Nat
    OBVIOUS
  <2>1. l[i] \in Elements
    OBVIOUS
  <2>2. l[i].updates \in SUBSET (Writers \cup Legacy)
    BY <2>1 DEF Elements, Updates
  <2> QED BY <2>2, StoreAssumption
<1> DEFINE T == {m \in 0 .. Len(l) : sum[m] \notin Nat}
<1> HIDE DEF sum
<1>4. ASSUME T # {} PROVE FALSE
  <2>1. PICK m \in T : \A y \in T : ~(y < m)
    <3>1. T \subseteq Nat
      OBVIOUS
    <3> HIDE DEF T
    <3> QED BY <1>4, <3>1, LeastNat
  <2>2. sum[m] = IF m = 0 THEN 0 ELSE sum[m - 1] + Size(l[m].updates)
    BY <1>1 DEF IsSum
  <2>3. m # 0
    BY <2>2
  <2>4. m - 1 \in 0 .. Len(l) /\ m - 1 < m
    BY <2>3
  <2>5. sum[m - 1] \in Nat
    BY <2>1, <2>4
  <2> QED BY <1>3, <2>2, <2>3, <2>5
<1> QED
  BY <1>2, <1>4

(* An update is in a list if it is in one of its elements. *)
LEMMA ContentsMember ==
    ASSUME NEW l, NEW x
    PROVE  x \in Contents(l) <=> \E i \in 1 .. Len(l) : x \in l[i].updates
BY DEF Contents

(* Nothing is in the empty list. *)
LEMMA ContentsEmpty == Contents(<<>>) = {}
BY DEF Contents

(* What is in a list are updates. *)
LEMMA ContentsType ==
    ASSUME NEW l \in Seq(Elements)
    PROVE  Contents(l) \subseteq Updates
<1>1. \A i \in 1 .. Len(l) : l[i] \in Elements
  OBVIOUS
<1>2. \A i \in 1 .. Len(l) : l[i].updates \subseteq Updates
  BY <1>1 DEF Elements
<1> QED
  BY <1>2, ContentsMember

(* The parts of an element. *)
LEMMA ElementType ==
    ASSUME NEW ups \in SUBSET Updates, NEW ts \in {-1, 1}
    PROVE  /\ Element(ups, ts) \in Elements
           /\ Element(ups, ts).updates = ups
           /\ Element(ups, ts).timestamp = ts
BY DEF Element, Elements

(* Pushing an element adds the updates merged into it. *)
LEMMA ContentsAppend ==
    ASSUME NEW l \in Seq(Elements), NEW e \in Elements
    PROVE  /\ Append(l, e) \in Seq(Elements)
           /\ Contents(Append(l, e)) = Contents(l) \cup e.updates
<1> DEFINE a == Append(l, e)
<1>1. a \in Seq(Elements) /\ Len(a) = Len(l) + 1 /\ a[Len(a)] = e /\ Len(l) \in Nat
  BY AppendProperties
<1>2. \A i \in 1 .. Len(l) : a[i] = l[i]
  BY AppendProperties
<1> HIDE DEF a
<1>3. ASSUME NEW x PROVE x \in Contents(a) <=> x \in Contents(l) \cup e.updates
  <2>1. x \in Contents(a) <=> \E i \in 1 .. Len(l) + 1 : x \in a[i].updates
    BY <1>1, ContentsMember
  <2>2. (\E i \in 1 .. Len(l) + 1 : x \in a[i].updates)
        <=> (\E i \in 1 .. Len(l) : x \in l[i].updates) \/ x \in e.updates
    <3>1. Len(l) + 1 \in 1 .. Len(l) + 1
      BY <1>1
    <3>2. \A i \in 1 .. Len(l) + 1 : i \in 1 .. Len(l) \/ i = Len(l) + 1
      BY <1>1
    <3>3. \A i \in 1 .. Len(l) : i \in 1 .. Len(l) + 1
      BY <1>1
    <3> QED BY <1>1, <1>2, <3>1, <3>2, <3>3
  <2>3. x \in Contents(l) <=> \E i \in 1 .. Len(l) : x \in l[i].updates
    BY ContentsMember
  <2> QED BY <2>1, <2>2, <2>3
<1> QED
  BY <1>1, <1>3 DEF a

(* LTRIM adds nothing, and keeps what stands behind the trimmed elements. *)
LEMMA LTrimProperties ==
    ASSUME NEW l \in Seq(Elements), NEW n \in Nat
    PROVE  /\ LTrim(l, n) \in Seq(Elements)
           /\ Contents(LTrim(l, n)) \subseteq Contents(l)
           /\ \A i \in (n + 1) .. Len(l) : l[i].updates \subseteq Contents(LTrim(l, n))
<1> DEFINE t == LTrim(l, n)
<1>1. Len(l) \in Nat
  OBVIOUS
<1>2. CASE n + 1 > Len(l)
  <2>1. t = <<>>
    BY <1>2, SubSeqProperties DEF LTrim
  <2>2. (n + 1) .. Len(l) = {}
    BY <1>1, <1>2
  <2> QED BY <2>1, <2>2, EmptySeq, ContentsEmpty
<1>3. CASE n + 1 <= Len(l)
  <2>1. \A i \in (n + 1) .. Len(l) : i \in 1 .. Len(l)
    BY <1>1
  <2>2. t \in Seq(Elements) /\ Len(t) = Len(l) - n
    BY <1>1, <1>3, <2>1, SubSeqProperties DEF LTrim
  <2>3. \A i \in 1 .. Len(l) - n : t[i] = l[n + i]
    BY <1>1, <1>3, <2>1, SubSeqProperties DEF LTrim
  <2> HIDE DEF t
  <2>4. \A i \in 1 .. Len(l) - n : n + i \in 1 .. Len(l)
    BY <1>1, <1>3
  <2>5. Contents(t) \subseteq Contents(l)
    BY <2>2, <2>3, <2>4, ContentsMember
  <2>6. ASSUME NEW i \in (n + 1) .. Len(l) PROVE l[i].updates \subseteq Contents(t)
    <3>1. i - n \in 1 .. Len(t) /\ t[i - n] = l[i]
      BY <1>1, <1>3, <2>2, <2>3
    <3> QED BY <3>1, ContentsMember
  <2> QED BY <2>2, <2>5, <2>6 DEF t
<1> QED
  BY <1>1, <1>2, <1>3

(* Type correctness: every key of the branch and every invocation keeps its *)
(* type; in particular the accounted size stays an integer.                 *)
THEOREM TypeCorrect == Spec => []TypeOK
<1> USE StoreAssumption
<1>1. Init => TypeOK
  <2> SUFFICES ASSUME Init PROVE TypeOK
    OBVIOUS
  <2>1. list \in Seq(Elements)
    <3>1. PICK old \in {{}, Legacy} : list = IF old = {} THEN <<>> ELSE <<Element(old, -1)>>
      BY DEF Init
    <3>2. Element(old, -1) \in Elements
      BY ElementType DEF Updates
    <3> QED BY <3>1, <3>2
  <2>2. size \in Int
    <3>1. SizeOf(list) \in Nat
      BY <2>1, SizeOfNat
    <3> QED BY <3>1 DEF Init
  <2>3. read \in [Writers -> Seq(Elements)]
    BY EmptySeq DEF Init
  <2> QED
    BY <2>1, <2>2, <2>3 DEF Init, TypeOK, Elements
<1>2. TypeOK /\ [Next]_vars => TypeOK'
  <2> SUFFICES ASSUME TypeOK, [Next]_vars PROVE TypeOK'
    OBVIOUS
  <2>0. list \in Seq(Elements) /\ read \in [Writers -> Seq(Elements)] /\ size \in Int
        /\ pc \in [Writers -> {"add", "full", "replace", "accepted", "refused"}]
    BY DEF TypeOK, Elements
  <2>00. ASSUME list' \in Seq(Elements), read' \in [Writers -> Seq(Elements)], size' \in Int,
               pc' \in [Writers -> {"add", "full", "replace", "accepted", "refused"}],
               mergeTime' \in {"none", "string"}, clears' \in 0 .. MaxClears,
               stale' \subseteq Writers
        PROVE  TypeOK'
    BY <2>00 DEF TypeOK, Elements
  <2>1. ASSUME NEW w \in Writers, AddUpdates(w) PROVE TypeOK'
    <3>1. Size({w}) \in Nat
      <4>1. {w} \in SUBSET (Writers \cup Legacy)
        OBVIOUS
      <4> QED BY <4>1
    <3>2. Append(list, Element({w}, 1)) \in Seq(Elements)
      <4>1. {w} \in SUBSET Updates
        BY DEF Updates
      <4> QED BY <2>0, <4>1, ElementType, ContentsAppend
    <3>3. list' \in Seq(Elements) /\ size' \in Int
      <4>1. \/ list' = list /\ size' = size
            \/ list' = Append(list, Element({w}, 1)) /\ size' = size + Size({w})
        BY <2>1, Zenon DEF AddUpdates, MaxSizeReached
      <4>2. list' \in Seq(Elements)
        BY <2>0, <3>2, <4>1, Zenon
      <4>3. size' \in Int
        BY <2>0, <3>1, <4>1
      <4> QED BY <4>2, <4>3
    <3>4. pc' \in [Writers -> {"add", "full", "replace", "accepted", "refused"}]
      BY <2>0, <2>1 DEF AddUpdates, MaxSizeReached, Goto
    <3>5. UNCHANGED <<mergeTime, read, clears, stale>>
      BY <2>1 DEF AddUpdates, MaxSizeReached
    <3> QED BY <2>0, <2>00, <3>3, <3>4, <3>5 DEF TypeOK
  <2>2. ASSUME NEW w \in Writers, GetUpdates(w) PROVE TypeOK'
    <3>1. read' \in [Writers -> Seq(Elements)]
      BY <2>0, <2>2 DEF GetUpdates
    <3> QED BY <2>0, <2>2, <3>1 DEF GetUpdates, Goto, TypeOK, Elements
  <2>3. ASSUME NEW w \in Writers, ReplaceUpdates(w) PROVE TypeOK'
    <3> DEFINE merged == Contents(read[w]) \cup {w}
    <3>1. merged \in SUBSET Updates
      BY <2>0, ContentsType DEF Updates
    <3>2. Size(merged) \in Nat
      BY <3>1 DEF Updates
    <3>3. SizeOf(read[w]) \in Nat
      BY <2>0, SizeOfNat
    <3>4. Element(merged, 1) \in Elements
      BY <3>1, ElementType
    <3>5. read[w] # <<>> => LTrim(list, Len(read[w]) - 1) \in Seq(Elements)
      <4> SUFFICES ASSUME read[w] # <<>> PROVE LTrim(list, Len(read[w]) - 1) \in Seq(Elements)
        OBVIOUS
      <4>1. Len(read[w]) - 1 \in Nat
        BY <2>0
      <4> QED BY <2>0, <4>1, LTrimProperties
    <3>6. \A l \in Seq(Elements) : Append(l, Element(merged, 1)) \in Seq(Elements)
      BY <3>4, ContentsAppend
    <3>7. list' \in Seq(Elements) /\ size' \in Int /\ mergeTime' \in {"none", "string"}
      <4> HIDE DEF merged
      <4> DEFINE trim == read[w][1].timestamp > 0
      <4>1. CASE UNCHANGED <<list, size, mergeTime>>
        BY <2>0, <4>1 DEF TypeOK
      <4>2. CASE ~UNCHANGED <<list, size, mergeTime>>
        <5>1. /\ read[w] # <<>>
              /\ list' = Append(IF trim THEN LTrim(list, Len(read[w]) - 1) ELSE list,
                              Element(merged, 1))
              /\ size' = size + IF trim THEN Size(merged) - SizeOf(read[w]) ELSE Size(merged)
              /\ mergeTime' = IF trim THEN "string" ELSE mergeTime
          BY <2>3, <4>2 DEF ReplaceUpdates, Throws, MaxSizeReached, merged
        <5> HIDE DEF trim
        <5>2. list' \in Seq(Elements)
          BY <2>0, <3>5, <3>6, <5>1
        <5> QED BY <2>0, <3>2, <3>3, <5>1, <5>2 DEF TypeOK
      <4> QED BY <4>1, <4>2
    <3>8. pc' \in [Writers -> {"add", "full", "replace", "accepted", "refused"}]
      BY <2>0, <2>3 DEF ReplaceUpdates, Throws, MaxSizeReached, Goto
    <3>9. read' \in [Writers -> Seq(Elements)] /\ UNCHANGED <<clears, stale>>
      BY <2>0, <2>3, EmptySeq DEF ReplaceUpdates
    <3> QED BY <2>0, <2>00, <3>7, <3>8, <3>9 DEF TypeOK
  <2>4. CASE ClearUpdates
    <3>1. list' \in Seq(Elements)
      BY <2>4, EmptySeq DEF ClearUpdates
    <3>2. clears' \in 0 .. MaxClears /\ stale' \subseteq Writers
      BY <2>4 DEF ClearUpdates, TypeOK
    <3>3. UNCHANGED <<size, mergeTime, pc, read>>
      BY <2>4 DEF ClearUpdates
    <3> QED BY <2>0, <2>00, <3>1, <3>2, <3>3 DEF TypeOK
  <2>5. CASE UNCHANGED vars
    BY <2>5 DEF vars, TypeOK
  <2> QED
    BY <2>1, <2>2, <2>3, <2>4, <2>5 DEF Next
<1> QED
  BY <1>1, <1>2, PTL DEF Spec

-----------------------------------------------------------------------------
(* What replaceUpdates() pushes. *)
Merged(w) == Contents(read[w]) \cup {w}

(* Whether it trims the list: what it read starts with an element that has  *)
(* a timestamp.                                                             *)
Trims(w) == read[w][1].timestamp > 0

(* The outcomes of the script of addUpdates(). *)
LEMMA AddCases ==
    ASSUME NEW w \in Writers, AddUpdates(w)
    PROVE  /\ pc[w] = "add" /\ UNCHANGED <<read, clears, stale, mergeTime>>
           /\ \/ /\ UNCHANGED <<list, size>>
                 /\ Goto(w, "full") \/ Goto(w, "refused")
              \/ /\ ~(size + Size({w}) > MaxSize)
                 /\ list' = Append(list, Element({w}, 1))
                 /\ size' = size + Size({w})
                 /\ Goto(w, "accepted")
BY Zenon DEF AddUpdates, MaxSizeReached

(* The outcomes of replaceUpdates(). *)
LEMMA ReplaceCases ==
    ASSUME NEW w \in Writers, ReplaceUpdates(w)
    PROVE  /\ pc[w] = "replace" /\ UNCHANGED <<clears, stale>>
           /\ read' = [read EXCEPT ![w] = <<>>]
           /\ \/ UNCHANGED <<list, size, mergeTime>> /\ Goto(w, "refused")
              \/ /\ read[w] # <<>> /\ mergeTime = "none" /\ Goto(w, "accepted")
                 /\ list' = Append(IF Trims(w) THEN LTrim(list, Len(read[w]) - 1) ELSE list,
                                   Element(Merged(w), 1))
                 /\ size' = size + IF Trims(w) THEN Size(Merged(w)) - SizeOf(read[w])
                                   ELSE Size(Merged(w))
                 /\ ~(size' > MaxSize)
                 /\ mergeTime' = IF Trims(w) THEN "string" ELSE mergeTime
<1>1. pc[w] = "replace" /\ UNCHANGED <<clears, stale>> /\ read' = [read EXCEPT ![w] = <<>>]
  BY Zenon DEF ReplaceUpdates
<1>2. CASE UNCHANGED <<list, size, mergeTime>> /\ Goto(w, "refused")
  BY <1>1, <1>2
<1>3. CASE ~(UNCHANGED <<list, size, mergeTime>> /\ Goto(w, "refused"))
  <2>1. read[w] # <<>> /\ mergeTime = "none"
    BY <1>3, Zenon DEF ReplaceUpdates, Throws, MaxSizeReached
  <2> DEFINE grown == IF Trims(w) THEN Size(Merged(w)) - SizeOf(read[w]) ELSE Size(Merged(w))
  <2>2. /\ ~(size + grown > MaxSize)
        /\ list' = Append(IF Trims(w) THEN LTrim(list, Len(read[w]) - 1) ELSE list,
                          Element(Merged(w), 1))
        /\ size' = size + grown
        /\ mergeTime' = IF Trims(w) THEN "string" ELSE mergeTime
        /\ Goto(w, "accepted")
    BY <1>3, Zenon DEF ReplaceUpdates, Throws, MaxSizeReached, Trims, Merged
  <2>3. ~(size' > MaxSize)
    BY <2>2, Zenon
  <2> QED BY <1>1, <2>1, <2>2, <2>3, Zenon
<1> QED
  BY <1>2, <1>3

(* The length of an encoded update is a natural number. *)
LEMMA SizeNat ==
    ASSUME NEW ups \in SUBSET Updates
    PROVE  Size(ups) \in Nat
BY StoreAssumption DEF Updates

(* The size of the lists a branch may start with. *)
LEMMA SizeOfOne ==
    ASSUME NEW ups \in SUBSET Updates
    PROVE  SizeOf(<<Element(ups, -1)>>) = Size(ups) /\ SizeOf(<<>>) = 0
<1>1. ASSUME NEW l PROVE SizeOf(l) = (CHOOSE f : IsSum(f, l, Len(l)))[Len(l)]
  BY DEF SizeOf, IsSum
<1>2. ASSUME NEW l \in Seq(Elements)
      PROVE  LET sum == CHOOSE f : IsSum(f, l, Len(l))
             IN  \A i \in 0 .. Len(l) :
                     sum[i] = IF i = 0 THEN 0 ELSE sum[i - 1] + Size(l[i].updates)
  <2> DEFINE sum == CHOOSE f : IsSum(f, l, Len(l))
  <2>1. IsSum(sum, l, Len(l))
    BY SumExists
  <2> HIDE DEF sum
  <2>2. \A i \in 0 .. Len(l) : sum[i] = IF i = 0 THEN 0 ELSE sum[i - 1] + Size(l[i].updates)
    BY <2>1 DEF IsSum
  <2> QED BY <2>2 DEF sum
<1>3. SizeOf(<<>>) = 0
  <2> DEFINE sum == CHOOSE f : IsSum(f, <<>>, Len(<<>>))
  <2>1. <<>> \in Seq(Elements) /\ Len(<<>>) = 0
    BY EmptySeq
  <2>2. \A i \in 0 .. Len(<<>>) :
            sum[i] = IF i = 0 THEN 0 ELSE sum[i - 1] + Size(<<>>[i].updates)
    BY <1>2, <2>1, Zenon
  <2>3. SizeOf(<<>>) = sum[Len(<<>>)]
    BY <1>1, Zenon
  <2> HIDE DEF sum
  <2>4. sum[0] = 0
    BY <2>1, <2>2
  <2> QED BY <2>1, <2>3, <2>4
<1>4. SizeOf(<<Element(ups, -1)>>) = Size(ups)
  <2> DEFINE e == Element(ups, -1)
             l == <<e>>
             sum == CHOOSE f : IsSum(f, l, Len(l))
  <2>1. e \in Elements /\ e.updates = ups
    BY ElementType
  <2>2. l \in Seq(Elements) /\ Len(l) = 1 /\ l[1] = e
    <3> HIDE DEF e
    <3> QED BY <2>1
  <2>3. SizeOf(l) = sum[Len(l)]
    BY <1>1, Zenon
  <2>4. \A i \in 0 .. Len(l) : sum[i] = IF i = 0 THEN 0 ELSE sum[i - 1] + Size(l[i].updates)
    <3> HIDE DEF l
    <3> QED BY <1>2, <2>2, Zenon
  <2> HIDE DEF sum, l, e
  <2>5. sum[0] = 0 /\ sum[1] = sum[0] + Size(ups)
    BY <2>1, <2>2, <2>4
  <2>6. Size(ups) \in Nat
    BY SizeNat
  <2> QED BY <2>2, <2>3, <2>5, <2>6 DEF l, e
<1> QED
  BY <1>3, <1>4

(* The accounted size never passes the limit, whichever script takes the    *)
(* update, provided that what the branch holds from before fits.            *)
THEOREM AccountedSizeFitsHolds ==
    ASSUME Size(Legacy) <= MaxSize
    PROVE  Spec => []AccountedSizeFits
<1>1. Init => AccountedSizeFits
  <2> SUFFICES ASSUME Init PROVE AccountedSizeFits
    OBVIOUS
  <2>1. Legacy \in SUBSET Updates /\ MaxSize \in Nat
    BY StoreAssumption DEF Updates
  <2>2. size = 0 \/ size = Size(Legacy)
    <3>1. size = SizeOf(list) /\ (list = <<>> \/ list = <<Element(Legacy, -1)>>)
      BY Zenon DEF Init
    <3> QED BY <2>1, <3>1, SizeOfOne, Zenon
  <2> QED BY <2>1, <2>2 DEF AccountedSizeFits
<1>2. TypeOK /\ TypeOK' /\ AccountedSizeFits /\ [Next]_vars => AccountedSizeFits'
  <2> SUFFICES ASSUME TypeOK, TypeOK', AccountedSizeFits, [Next]_vars PROVE AccountedSizeFits'
    OBVIOUS
  <2>1. size \in Int /\ size' \in Int /\ MaxSize \in Nat
    BY StoreAssumption DEF TypeOK
  <2>2. size' = size \/ ~(size' > MaxSize)
    <3>1. ASSUME NEW w \in Writers, AddUpdates(w) PROVE size' = size \/ ~(size' > MaxSize)
      BY <3>1, AddCases, Zenon
    <3>2. ASSUME NEW w \in Writers, GetUpdates(w) PROVE size' = size
      BY <3>2 DEF GetUpdates
    <3>3. ASSUME NEW w \in Writers, ReplaceUpdates(w) PROVE size' = size \/ ~(size' > MaxSize)
      BY <3>3, ReplaceCases, Zenon
    <3>4. CASE ClearUpdates
      BY <3>4 DEF ClearUpdates
    <3>5. CASE UNCHANGED vars
      BY <3>5 DEF vars
    <3> QED BY <3>1, <3>2, <3>3, <3>4, <3>5 DEF Next
  <2> QED BY <2>1, <2>2 DEF AccountedSizeFits
<1> QED
  BY <1>1, <1>2, TypeCorrect, PTL DEF Spec

-----------------------------------------------------------------------------
(* The updates that may be in the branch: old ones and accepted ones. *)
Kept == Legacy \cup {w \in Writers : pc[w] = "accepted"}

(* The list, and what invocations have read of it, holds no refused or      *)
(* pending update.                                                          *)
OnlyAccepted ==
    /\ Contents(list) \subseteq Kept
    /\ \A w \in Writers : Contents(read[w]) \subseteq Kept

(* Until the first merge that trims, what an invocation read is still the   *)
(* beginning of the list, unless the list was cleared since.                *)
ReadIsPrefix ==
    \A w \in Writers :
        pc[w] = "replace" /\ w \notin stale /\ mergeTime = "none" =>
            /\ Len(read[w]) <= Len(list)
            /\ \A i \in 1 .. Len(read[w]) : list[i] = read[w][i]

(* Pushing an element made here. *)
LEMMA AddedElement ==
    ASSUME NEW w \in Writers, NEW l \in Seq(Elements), NEW ups \in SUBSET Updates
    PROVE  /\ Append(l, Element(ups, 1)) \in Seq(Elements)
           /\ Contents(Append(l, Element(ups, 1))) = Contents(l) \cup ups
<1>1. Element(ups, 1) \in Elements /\ Element(ups, 1).updates = ups
  BY ElementType
<1> QED
  BY <1>1, ContentsAppend

(* The types of what a merge works on. *)
LEMMA MergedType ==
    ASSUME TypeOK, NEW w \in Writers
    PROVE  /\ list \in Seq(Elements) /\ read[w] \in Seq(Elements)
           /\ Merged(w) \in SUBSET Updates
           /\ {w} \in SUBSET Updates
           /\ pc \in [Writers -> {"add", "full", "replace", "accepted", "refused"}]
<1>1. list \in Seq(Elements) /\ read[w] \in Seq(Elements)
  BY DEF TypeOK, Elements
<1> QED
  BY <1>1, ContentsType DEF Merged, Updates, TypeOK

(* If r is the beginning of l, trimming all but the last element of r from  *)
(* l loses only updates that are in r.                                      *)
LEMMA TrimmedContents ==
    ASSUME NEW l \in Seq(Elements), NEW r \in Seq(Elements), r # <<>>
    PROVE  LET t == LTrim(l, Len(r) - 1) IN
           /\ t \in Seq(Elements)
           /\ Contents(t) \subseteq Contents(l)
           /\ Len(r) <= Len(l) /\ (\A i \in 1 .. Len(r) : l[i] = r[i])
              => /\ Contents(r) \subseteq Contents(l)
                 /\ Contents(l) \subseteq Contents(t) \cup Contents(r)
<1> DEFINE t == LTrim(l, Len(r) - 1)
<1>1. Len(r) - 1 \in Nat /\ Len(r) \in Nat /\ Len(l) \in Nat
  OBVIOUS
<1>2. /\ t \in Seq(Elements) /\ Contents(t) \subseteq Contents(l)
      /\ \A i \in (Len(r) - 1 + 1) .. Len(l) : l[i].updates \subseteq Contents(t)
  BY <1>1, LTrimProperties
<1>3. ASSUME Len(r) <= Len(l), \A i \in 1 .. Len(r) : l[i] = r[i]
      PROVE  /\ Contents(r) \subseteq Contents(l)
             /\ Contents(l) \subseteq Contents(t) \cup Contents(r)
  <2> HIDE DEF t
  <2>1. Contents(r) \subseteq Contents(l)
    <3>1. \A i \in 1 .. Len(r) : i \in 1 .. Len(l)
      BY <1>1, <1>3
    <3> QED BY <1>3, <3>1, ContentsMember
  <2>2. \A i \in 1 .. Len(l) : i \in (Len(r) - 1 + 1) .. Len(l) \/ i \in 1 .. Len(r)
    BY <1>1
  <2>3. \A i \in 1 .. Len(l) : l[i].updates \subseteq Contents(t) \cup Contents(r)
    <3> SUFFICES ASSUME NEW i \in 1 .. Len(l)
                 PROVE  l[i].updates \subseteq Contents(t) \cup Contents(r)
      OBVIOUS
    <3>1. CASE i \in (Len(r) - 1 + 1) .. Len(l)
      BY <1>2, <3>1
    <3>2. CASE i \in 1 .. Len(r)
      BY <1>3, <3>2, ContentsMember
    <3> QED BY <2>2, <3>1, <3>2
  <2>4. Contents(l) \subseteq Contents(t) \cup Contents(r)
    BY <2>3, ContentsMember
  <2> QED BY <2>1, <2>4
<1> HIDE DEF t
<1> QED
  BY <1>2, <1>3 DEF t

(* A merge that is accepted leaves the branch with its contents and the new *)
(* update, unless its read was before a clear.                              *)
LEMMA ReplacedContents ==
    ASSUME TypeOK, OnlyAccepted, ReadIsPrefix, NEW w \in Writers, ReplaceUpdates(w),
           pc'[w] = "accepted"
    PROVE  /\ w \in Contents(list')
           /\ Contents(list') \subseteq Kept \cup {w}
           /\ w \notin stale => Contents(list') = Contents(list) \cup {w}
<1> DEFINE base == IF Trims(w) THEN LTrim(list, Len(read[w]) - 1) ELSE list
<1>1. /\ list \in Seq(Elements) /\ read[w] \in Seq(Elements) /\ Merged(w) \in SUBSET Updates
      /\ pc \in [Writers -> {"add", "full", "replace", "accepted", "refused"}]
  BY MergedType
<1>2. /\ pc[w] = "replace" /\ mergeTime = "none" /\ read[w] # <<>>
      /\ list' = Append(base, Element(Merged(w), 1))
  <2>1. ~Goto(w, "refused")
    BY <1>1 DEF Goto
  <2> QED BY <2>1, ReplaceCases
<1>3. /\ base \in Seq(Elements)
      /\ Contents(base) \subseteq Contents(list)
      /\ Len(read[w]) <= Len(list) /\ (\A i \in 1 .. Len(read[w]) : list[i] = read[w][i])
              => /\ Contents(read[w]) \subseteq Contents(list)
                 /\ Contents(list) \subseteq Contents(base) \cup Contents(read[w])
  BY <1>1, <1>2, TrimmedContents
<1> HIDE DEF base
<1>4. Contents(list') = Contents(base) \cup Contents(read[w]) \cup {w}
  BY <1>1, <1>2, <1>3, AddedElement DEF Merged
<1>5. w \notin stale => Contents(list') = Contents(list) \cup {w}
  BY <1>2, <1>3, <1>4 DEF ReadIsPrefix
<1> QED
  BY <1>3, <1>4, <1>5 DEF OnlyAccepted

(* Every step keeps refused updates out. *)
LEMMA OnlyAcceptedStep ==
    ASSUME TypeOK, TypeOK', OnlyAccepted, ReadIsPrefix, [Next]_vars
    PROVE  OnlyAccepted'
<1>1. ASSUME NEW w \in Writers, AddUpdates(w) PROVE OnlyAccepted'
  <2>1. pc \in [Writers -> {"add", "full", "replace", "accepted", "refused"}]
    BY DEF TypeOK
  <2>2. Kept \subseteq Kept' /\ read' = read
    BY <1>1, <2>1, AddCases DEF Kept, Goto
  <2>3. Contents(list') \subseteq Kept'
    <3>1. CASE list' = list
      BY <2>2, <3>1 DEF OnlyAccepted
    <3>2. CASE list' = Append(list, Element({w}, 1)) /\ Goto(w, "accepted")
      <4>1. Contents(list') = Contents(list) \cup {w}
        BY <3>2, MergedType, AddedElement
      <4>2. w \in Kept'
        BY <2>1, <3>2 DEF Goto, Kept
      <4> QED BY <2>2, <4>1, <4>2 DEF OnlyAccepted
    <3> QED BY <1>1, <3>1, <3>2, AddCases
  <2> QED BY <2>2, <2>3 DEF OnlyAccepted
<1>2. ASSUME NEW w \in Writers, GetUpdates(w) PROVE OnlyAccepted'
  <2>1. Kept \subseteq Kept'
    BY <1>2 DEF GetUpdates, Goto, Kept, TypeOK
  <2>2. \A v \in Writers : read'[v] = read[v] \/ read'[v] = list
    BY <1>2 DEF GetUpdates, TypeOK
  <2>3. list' = list
    BY <1>2 DEF GetUpdates
  <2> QED BY <2>1, <2>2, <2>3 DEF OnlyAccepted
<1>3. ASSUME NEW w \in Writers, ReplaceUpdates(w) PROVE OnlyAccepted'
  <2>1. pc \in [Writers -> {"add", "full", "replace", "accepted", "refused"}]
    BY DEF TypeOK
  <2>2. pc[w] = "replace" /\ read' = [read EXCEPT ![w] = <<>>]
    BY <1>3, ReplaceCases
  <2>3. Goto(w, "refused") \/ Goto(w, "accepted")
    BY <1>3, ReplaceCases
  <2>4. Kept \subseteq Kept'
    BY <2>1, <2>2, <2>3 DEF Goto, Kept
  <2>5. \A v \in Writers : read'[v] = read[v] \/ read'[v] = <<>>
    BY <2>2 DEF TypeOK
  <2>6. Contents(list') \subseteq Kept'
    <3>1. CASE Goto(w, "refused")
      <4>1. ~Goto(w, "accepted")
        BY <2>1, <3>1 DEF Goto
      <4>2. list' = list
        BY <1>3, <4>1, ReplaceCases
      <4> QED BY <2>4, <4>2 DEF OnlyAccepted
    <3>2. CASE Goto(w, "accepted")
      <4>1. pc'[w] = "accepted"
        BY <2>1, <3>2 DEF Goto
      <4>2. Contents(list') \subseteq Kept \cup {w}
        BY <1>3, <4>1, ReplacedContents
      <4>3. w \in Kept'
        BY <4>1 DEF Kept
      <4> QED BY <2>4, <4>2, <4>3
    <3> QED BY <2>3, <3>1, <3>2
  <2> QED BY <2>4, <2>5, <2>6, ContentsEmpty DEF OnlyAccepted
<1>4. CASE ClearUpdates
  BY <1>4, ContentsEmpty DEF ClearUpdates, OnlyAccepted, Kept
<1>5. CASE UNCHANGED vars
  BY <1>5 DEF vars, OnlyAccepted, Kept
<1> QED
  BY <1>1, <1>2, <1>3, <1>4, <1>5 DEF Next

(* The list l begins with r. *)
Extends(l, r) == Len(r) <= Len(l) /\ \A i \in 1 .. Len(r) : l[i] = r[i]

(* A push keeps what the list begins with. *)
LEMMA AppendExtends ==
    ASSUME NEW l \in Seq(Elements), NEW r \in Seq(Elements), NEW e \in Elements, Extends(l, r)
    PROVE  Extends(Append(l, e), r)
<1>1. Len(Append(l, e)) = Len(l) + 1 /\ \A i \in 1 .. Len(l) : Append(l, e)[i] = l[i]
  BY AppendProperties
<1>2. \A i \in 1 .. Len(r) : i \in 1 .. Len(l)
  BY DEF Extends
<1> QED
  BY <1>1, <1>2 DEF Extends

(* Every step keeps what was read the beginning of the list: scripts only   *)
(* push, until one trims and sets the merge time.                           *)
LEMMA ReadIsPrefixStep ==
    ASSUME TypeOK, ReadIsPrefix, [Next]_vars
    PROVE  ReadIsPrefix'
<1> SUFFICES ASSUME NEW v \in Writers, pc'[v] = "replace", v \notin stale', mergeTime' = "none"
             PROVE  Extends(list', read'[v])
  BY DEF ReadIsPrefix, Extends
<1>0. /\ pc \in [Writers -> {"add", "full", "replace", "accepted", "refused"}]
      /\ list \in Seq(Elements) /\ read \in [Writers -> Seq(Elements)]
  BY DEF TypeOK, Elements
<1>00. pc[v] = "replace" /\ v \notin stale /\ mergeTime = "none" => Extends(list, read[v])
  BY DEF ReadIsPrefix, Extends
<1>1. ASSUME NEW w \in Writers, AddUpdates(w) PROVE Extends(list', read'[v])
  <2>1. UNCHANGED <<read, stale, mergeTime>> /\ pc[w] = "add"
    BY <1>1, AddCases
  <2>2. pc[v] = "replace"
    <3>1. Goto(w, "full") \/ Goto(w, "refused") \/ Goto(w, "accepted")
      BY <1>1, AddCases
    <3> QED BY <1>0, <3>1 DEF Goto
  <2>3. Extends(list, read[v])
    BY <1>00, <2>1, <2>2
  <2>4. list' = list \/ list' = Append(list, Element({w}, 1))
    BY <1>1, AddCases
  <2>5. Element({w}, 1) \in Elements
    BY MergedType, ElementType
  <2> QED BY <1>0, <2>1, <2>3, <2>4, <2>5, AppendExtends
<1>2. ASSUME NEW w \in Writers, GetUpdates(w) PROVE Extends(list', read'[v])
  <2>1. UNCHANGED <<list, stale, mergeTime>>
    BY <1>2 DEF GetUpdates
  <2>2. CASE v = w
    <3>1. read'[v] = list
      BY <1>0, <1>2, <2>2 DEF GetUpdates
    <3> QED BY <1>0, <2>1, <3>1 DEF Extends
  <2>3. CASE v # w
    <3>1. read'[v] = read[v] /\ pc'[v] = pc[v]
      BY <1>0, <1>2, <2>3 DEF GetUpdates, Goto
    <3> QED BY <1>00, <2>1, <3>1
  <2> QED BY <2>2, <2>3
<1>3. ASSUME NEW w \in Writers, ReplaceUpdates(w) PROVE Extends(list', read'[v])
  <2>1. /\ Goto(w, "refused") \/ Goto(w, "accepted")
        /\ read' = [read EXCEPT ![w] = <<>>] /\ stale' = stale
    BY <1>3, ReplaceCases
  <2>2. v # w /\ pc'[v] = pc[v] /\ read'[v] = read[v]
    BY <1>0, <2>1 DEF Goto
  <2>3. \/ list' = list /\ mergeTime' = mergeTime
        \/ /\ mergeTime = "none" /\ mergeTime' = (IF Trims(w) THEN "string" ELSE mergeTime)
           /\ list' = Append(IF Trims(w) THEN LTrim(list, Len(read[w]) - 1) ELSE list,
                             Element(Merged(w), 1))
    BY <1>3, ReplaceCases
  <2>4. mergeTime = "none" /\ (list' = list \/ list' = Append(list, Element(Merged(w), 1)))
    BY <2>3
  <2>5. Element(Merged(w), 1) \in Elements
    BY MergedType, ElementType
  <2>6. Extends(list, read[v])
    BY <1>00, <2>1, <2>2, <2>4
  <2> QED BY <1>0, <2>2, <2>4, <2>5, <2>6, AppendExtends
<1>4. CASE ClearUpdates
  BY <1>4 DEF ClearUpdates
<1>5. CASE UNCHANGED vars
  BY <1>00, <1>5 DEF vars
<1> QED
  BY <1>1, <1>2, <1>3, <1>4, <1>5 DEF Next

(* The answers of the invocations, as the abstract store sees them. *)
Answer == [w \in Writers |-> IF pc[w] \in {"accepted", "refused"} THEN pc[w] ELSE "none"]

(* An invocation that goes on has no answer yet, and gets one only when it  *)
(* ends.                                                                    *)
LEMMA AnswerGoto ==
    ASSUME TypeOK, NEW w \in Writers, NEW label, Goto(w, label),
           pc[w] \notin {"accepted", "refused"}
    PROVE  /\ Answer[w] = "none"
           /\ label \notin {"accepted", "refused"} => Answer' = Answer
           /\ label \in {"accepted", "refused"} => Answer' = [Answer EXCEPT ![w] = label]
<1>1. pc \in [Writers -> {"add", "full", "replace", "accepted", "refused"}]
  BY DEF TypeOK
<1>2. /\ Answer[w] = "none"
      /\ Answer' = [v \in Writers |->
                       IF pc'[v] \in {"accepted", "refused"} THEN pc'[v] ELSE "none"]
  BY DEF Answer
<1>3. \A v \in Writers : pc'[v] = IF v = w THEN label ELSE pc[v]
  BY <1>1 DEF Goto
<1> QED
  BY <1>2, <1>3 DEF Answer

(* Every step is a step of the abstract store, or none. *)
LEMMA StoreStep ==
    ASSUME TypeOK, OnlyAccepted, ReadIsPrefix, [Next]_vars
    PROVE  [Abstract!Next]_(Abstract!vars)
<1> USE DEF Abstract!Next, Abstract!vars
<1>0. pc \in [Writers -> {"add", "full", "replace", "accepted", "refused"}]
  BY DEF TypeOK
<1>1. ASSUME NEW w \in Writers, AddUpdates(w) PROVE [Abstract!Next]_(Abstract!vars)
  <2>1. pc[w] = "add" /\ stale' = stale
    BY <1>1, AddCases
  <2>2. CASE list' = list /\ Goto(w, "full")
    <3>1. Answer' = Answer
      BY <2>1, <2>2, AnswerGoto
    <3> QED BY <2>1, <2>2, <3>1 DEF Answer
  <2>3. CASE list' = list /\ Goto(w, "refused")
    <3>1. Answer[w] = "none" /\ Answer' = [Answer EXCEPT ![w] = "refused"]
      BY <2>1, <2>3, AnswerGoto
    <3>2. Abstract!Refuse(w)
      BY <2>1, <2>3, <3>1 DEF Abstract!Refuse, Answer
    <3> QED BY <3>2
  <2>4. CASE list' = Append(list, Element({w}, 1)) /\ Goto(w, "accepted")
    <3>1. Answer[w] = "none" /\ Answer' = [Answer EXCEPT ![w] = "accepted"]
      BY <2>1, <2>4, AnswerGoto
    <3>2. Contents(list') = Contents(list) \cup {w}
      BY <2>4, MergedType, AddedElement
    <3>3. Abstract!Accept(w)
      BY <2>1, <3>1, <3>2 DEF Abstract!Accept, Answer
    <3> QED BY <3>3
  <2> QED BY <1>1, <2>2, <2>3, <2>4, AddCases
<1>2. ASSUME NEW w \in Writers, GetUpdates(w) PROVE [Abstract!Next]_(Abstract!vars)
  <2>1. Answer' = Answer
    BY <1>2, AnswerGoto DEF GetUpdates
  <2> QED BY <1>2, <2>1 DEF GetUpdates, Answer
<1>3. ASSUME NEW w \in Writers, ReplaceUpdates(w) PROVE [Abstract!Next]_(Abstract!vars)
  <2>1. pc[w] = "replace" /\ stale' = stale
    BY <1>3, ReplaceCases
  <2>2. CASE list' = list /\ Goto(w, "refused")
    <3>1. Answer[w] = "none" /\ Answer' = [Answer EXCEPT ![w] = "refused"]
      BY <2>1, <2>2, AnswerGoto
    <3>2. Abstract!Refuse(w)
      BY <2>1, <2>2, <3>1 DEF Abstract!Refuse, Answer
    <3> QED BY <3>2
  <2>3. CASE Goto(w, "accepted")
    <3>1. Answer[w] = "none" /\ Answer' = [Answer EXCEPT ![w] = "accepted"]
      BY <2>1, <2>3, AnswerGoto
    <3>2. /\ w \in Contents(list')
          /\ Contents(list') \subseteq Kept \cup {w}
          /\ w \notin stale => Contents(list') = Contents(list) \cup {w}
      <4>1. pc'[w] = "accepted"
        BY <1>0, <2>3 DEF Goto
      <4> QED BY <1>3, <4>1, ReplacedContents
    <3>3. CASE w \notin stale
      <4>1. Abstract!Accept(w)
        BY <2>1, <3>1, <3>2, <3>3 DEF Abstract!Accept, Answer
      <4> QED BY <4>1
    <3>4. CASE w \in stale
      <4>1. Contents(list') \subseteq Legacy \cup {v \in Writers : Answer'[v] = "accepted"}
        <5>1. Kept \cup {w} \subseteq Legacy \cup {v \in Writers : Answer'[v] = "accepted"}
          BY <3>1 DEF Kept, Answer
        <5> QED BY <3>2, <5>1
      <4>2. Abstract!AcceptStale(w)
        BY <2>1, <3>1, <3>2, <3>4, <4>1 DEF Abstract!AcceptStale, Answer
      <4> QED BY <4>2
    <3> QED BY <3>3, <3>4
  <2> QED BY <1>3, <2>2, <2>3, ReplaceCases
<1>4. CASE ClearUpdates
  <2>1. Abstract!Clear
    <3>1. Contents(list') = {} /\ pc' = pc
      BY <1>4, ContentsEmpty DEF ClearUpdates
    <3>2. stale \subseteq stale' /\ stale' \ stale \subseteq {w \in Writers : Answer[w] = "none"}
      BY <1>4 DEF ClearUpdates, Answer
    <3> QED BY <3>1, <3>2 DEF Abstract!Clear, Answer
  <2> QED BY <2>1
<1>5. CASE UNCHANGED vars
  BY <1>5 DEF vars
<1> QED
  BY <1>1, <1>2, <1>3, <1>4, <1>5 DEF Next

(* The store implements UpdatesStore: an accepted update stays until the    *)
(* branch is cleared, a refused one is not added, and no merge takes an     *)
(* update out or brings a cleared one back, except the merge of an          *)
(* invocation that read the branch before it was cleared.                   *)
THEOREM StoreImplementsUpdatesStore == Spec => ImplementsUpdatesStore
<1>1. Init => OnlyAccepted /\ ReadIsPrefix /\ Abstract!Init
  <2> SUFFICES ASSUME Init PROVE OnlyAccepted /\ ReadIsPrefix /\ Abstract!Init
    OBVIOUS
  <2>1. Contents(list) \in {{}, Legacy}
    <3>1. Legacy \in SUBSET Updates
      BY DEF Updates
    <3>2. Contents(Append(<<>>, Element(Legacy, -1))) = Legacy
      <4>1. Element(Legacy, -1) \in Elements /\ Element(Legacy, -1).updates = Legacy
        BY <3>1, ElementType
      <4>2. <<>> \in Seq(Elements)
        BY EmptySeq
      <4>3. Contents(Append(<<>>, Element(Legacy, -1))) = Contents(<<>>) \cup Legacy
        BY <4>1, <4>2, ContentsAppend
      <4> QED BY <4>3, ContentsEmpty
    <3>3. Append(<<>>, Element(Legacy, -1)) = <<Element(Legacy, -1)>>
      OBVIOUS
    <3> QED BY <3>2, <3>3, ContentsEmpty DEF Init
  <2>2. OnlyAccepted
    BY <2>1, ContentsEmpty DEF Init, OnlyAccepted, Kept
  <2>3. ReadIsPrefix
    BY DEF Init, ReadIsPrefix
  <2>4. Abstract!Init
    BY <2>1 DEF Init, Abstract!Init
  <2> QED BY <2>2, <2>3, <2>4
<1>2. TypeOK /\ TypeOK' /\ OnlyAccepted /\ ReadIsPrefix /\ [Next]_vars
      => OnlyAccepted' /\ ReadIsPrefix'
  BY OnlyAcceptedStep, ReadIsPrefixStep
<1>3. TypeOK /\ OnlyAccepted /\ ReadIsPrefix /\ [Next]_vars => [Abstract!Next]_(Abstract!vars)
  BY StoreStep
<1> QED
  BY <1>1, <1>2, <1>3, TypeCorrect, PTL DEF Spec, ImplementsUpdatesStore, Abstract!Spec
=============================================================================
