----------------------- MODULE PolicyController_proofs -----------------------
(***************************************************************************)
(* Proofs about PolicyController and Authorization, for any users, insts,  *)
(* markers, roles and policies, any number of concurrent calls and any     *)
(* history of grants and revocations.                                      *)
(*                                                                         *)
(* The inductive invariant IInv says of every call under way what it was   *)
(* asked for and that what it has read is, until another call overtakes    *)
(* it, what is stored. The decisions depend on the stored policies alone:  *)
(* they are shown to agree with the reference definitions in every state   *)
(* in which the policies are well formed, whether calls are under way or   *)
(* not.                                                                    *)
(***************************************************************************)
EXTENDS PolicyController, WellFoundedInduction, SequenceTheorems, FiniteSetTheorems, TLAPS

(* The order of the naturals as a set of pairs. *)
Less == {ss \in Nat \X Nat : ss[1] < ss[2]}

(* A set of naturals that is not empty has a least element. *)
LEMMA LeastNat ==
    ASSUME NEW T, T \subseteq Nat, T # {}
    PROVE  \E x \in T : \A y \in T : ~(y < x)
<1>1. IsWellFoundedOn(Less, Nat)
  BY NatLessThanWellFounded DEF OpToRel, Less
<1>2. PICK x \in T : \A y \in T : ~(<<y, x>> \in Less)
  BY <1>1, WFMin
<1>3. \A y \in T : y < x => <<y, x>> \in Less
  BY DEF Less
<1> QED
  BY <1>2, <1>3

(* Induction up to n: what holds of 0, and of k whenever it holds of k - 1,*)
(* holds of all numbers up to n.                                           *)
LEMMA UpTo ==
    ASSUME NEW n \in Nat, NEW T, 0 \in T,
           \A k \in 1 .. n : k - 1 \in T => k \in T
    PROVE  \A k \in 0 .. n : k \in T
<1> DEFINE Bad == {k \in 0 .. n : k \notin T}
<1>1. SUFFICES ASSUME Bad # {} PROVE FALSE
  OBVIOUS
<1>2. PICK m \in Bad : \A y \in Bad : ~(y < m)
  <2>1. Bad \subseteq Nat
    OBVIOUS
  <2> HIDE DEF Bad
  <2> QED
    BY ONLY <1>1, <2>1, LeastNat
<1>3. m # 0 /\ m \in 1 .. n
  BY <1>2
<1>4. m - 1 \in 0 .. n /\ m - 1 < m
  BY <1>3
<1>5. m - 1 \in T
  BY <1>2, <1>4
<1> QED
  BY <1>2, <1>3, <1>5

(* Definition by recursion: there is a function that starts with b and     *)
(* takes each step as F says.                                              *)
LEMMA Iteration ==
    ASSUME NEW T, NEW b \in T, NEW n \in Nat, NEW F \in [1 .. n -> [T -> T]]
    PROVE  \E f \in [0 .. n -> T] : f[0] = b /\ \A k \in 1 .. n : f[k] = F[k][f[k - 1]]
<1> DEFINE Works(m, f) == f[0] = b /\ \A k \in 1 .. m : f[k] = F[k][f[k - 1]]
           Bad == {m \in 0 .. n : ~\E f \in [0 .. m -> T] : Works(m, f)}
<1>1. SUFFICES Bad = {}
  <2>1. n \in 0 .. n
    OBVIOUS
  <2> QED
    BY <1>1, <2>1
<1>2. SUFFICES ASSUME Bad # {} PROVE FALSE
  OBVIOUS
<1>3. PICK m \in Bad : \A y \in Bad : ~(y < m)
  <2>1. Bad \subseteq Nat
    OBVIOUS
  <2> HIDE DEF Bad
  <2> QED
    BY ONLY <1>2, <2>1, LeastNat
<1>4. CASE m = 0
  <2>1. Works(0, [k \in 0 .. 0 |-> b])
    OBVIOUS
  <2>2. [k \in 0 .. 0 |-> b] \in [0 .. 0 -> T]
    OBVIOUS
  <2> QED
    BY <1>3, <1>4, <2>1, <2>2
<1>5. CASE m # 0
  <2>1. m - 1 \in 0 .. n /\ m - 1 < m /\ m \in 1 .. n
    BY <1>3, <1>5
  <2>2. PICK f \in [0 .. m - 1 -> T] : Works(m - 1, f)
    BY <1>3, <2>1
  <2> DEFINE g == [k \in 0 .. m |-> IF k = m THEN F[m][f[m - 1]] ELSE f[k]]
  <2>3. m - 1 \in 0 .. m - 1 /\ f[m - 1] \in T
    BY <2>1, <2>2
  <2>4. F[m][f[m - 1]] \in T
    BY <2>1, <2>3
  <2>5. g \in [0 .. m -> T]
    BY <2>2, <2>4, <2>1
  <2>6. g[0] = b
    BY <2>1, <2>2
  <2>7. ASSUME NEW k \in 1 .. m PROVE g[k] = F[k][g[k - 1]]
    BY <2>1, <2>2, <2>7
  <2>8. Works(m, g)
    BY <2>6, <2>7
  <2> QED
    BY <1>3, <2>5, <2>8
<1> QED
  BY <1>4, <1>5

(* SelectInSeq takes the least index that passes: it is one of them. *)
LEMMA FirstIndex ==
    ASSUME NEW n \in Nat, NEW T \in SUBSET (1 .. n), T # {}
    PROVE  Min(T) \in T /\ \A y \in T : Min(T) <= y
<1>0. T \subseteq Nat
  OBVIOUS
<1>1. \E x \in T : \A y \in T : ~(y < x)
  BY ONLY <1>0, LeastNat, T # {}
<1>2. \E x \in T : \A y \in T : x <= y
  BY <1>0, <1>1
<1> QED
  BY <1>2 DEF Min

(* The recursion behind Without, step by step: f[k] is what is left of the  *)
(* first k permissions.                                                     *)
Filters(S, s, p, f) ==
    /\ f \in [0 .. Len(s) -> Seq(S)]
    /\ f[0] = <<>>
    /\ \A k \in 1 .. Len(s) : f[k] = IF s[k] = p THEN f[k - 1] ELSE Append(f[k - 1], s[k])
    /\ Without(s, p) = f[Len(s)]

(* Without computes what its recursion says. *)
LEMMA WithoutUnfold ==
    ASSUME NEW S, NEW s \in Seq(S), NEW p
    PROVE  \E f : Filters(S, s, p, f)
<1> DEFINE n == Len(s)
           F == [k \in 1 .. n |-> [t \in Seq(S) |-> IF s[k] = p THEN t ELSE Append(t, s[k])]]
           Def(f) == [k \in 0 .. n |-> IF k = 0 THEN <<>>
                                       ELSE IF s[k] = p THEN f[k - 1]
                                            ELSE Append(f[k - 1], s[k])]
<1>0. n \in Nat
  OBVIOUS
<1>1. F \in [1 .. n -> [Seq(S) -> Seq(S)]]
  OBVIOUS
<1>2. <<>> \in Seq(S)
  OBVIOUS
<1> HIDE DEF n
<1>3. PICK g \in [0 .. n -> Seq(S)] :
         g[0] = <<>> /\ \A k \in 1 .. n : g[k] = F[k][g[k - 1]]
  <2> DEFINE Q == Seq(S)  e == <<>>
  <2>1. F \in [1 .. n -> [Q -> Q]] /\ e \in Q
    BY <1>1, <1>2
  <2> HIDE DEF F, Q, e
  <2>2. \E g \in [0 .. n -> Q] : g[0] = e /\ \A k \in 1 .. n : g[k] = F[k][g[k - 1]]
    BY ONLY <1>0, <2>1, Iteration
  <2> QED
    BY <2>2 DEF Q, e
<1>4. \A k \in 1 .. n : g[k - 1] \in Seq(S)
  <2>1. \A k \in 1 .. n : k - 1 \in 0 .. n
    BY <1>0
  <2> QED
    BY <2>1, <1>3
<1>5. \A k \in 1 .. n : g[k] = IF s[k] = p THEN g[k - 1] ELSE Append(g[k - 1], s[k])
  BY <1>3, <1>4
<1>6. g = Def(g)
  <2>1. \A k \in 0 .. n : Def(g)[k] = g[k]
    <3>1. TAKE k \in 0 .. n
    <3>2. CASE k = 0
      BY <3>1, <3>2, <1>3
    <3>3. CASE k # 0
      <4>1. k \in 1 .. n
        BY <3>1, <3>3, <1>0
      <4> QED
        BY <4>1, <3>3, <1>5
    <3> QED
      BY <3>2, <3>3
  <2>2. g = [k \in 0 .. n |-> g[k]]
    BY <1>3
  <2> QED
    BY <2>1, <2>2
<1> DEFINE h == CHOOSE f : f = Def(f)
<1>7. h = Def(h)
  <2> HIDE DEF Def
  <2> QED
    BY <1>6
<1>8. Without(s, p) = h[n]
  BY DEF Without, n
<1>9. h[0] = <<>> /\ DOMAIN h = 0 .. n
  <2> HIDE DEF h
  <2> QED
    BY <1>7, <1>0
<1>10. \A k \in 1 .. n : h[k] = IF s[k] = p THEN h[k - 1] ELSE Append(h[k - 1], s[k])
  <2> HIDE DEF h
  <2>1. TAKE k \in 1 .. n
  <2>2. k \in 0 .. n /\ k # 0
    BY <2>1, <1>0
  <2>3. h[k] = Def(h)[k]
    BY <1>7
  <2> QED
    BY <2>2, <2>3
<1>11. \A k \in 0 .. n : h[k] \in Seq(S)
  <2> HIDE DEF h
  <2> DEFINE T == {k \in 0 .. n : h[k] \in Seq(S)}
  <2>1. 0 \in T
    <3>1. 0 \in 0 .. n
      BY <1>0
    <3> QED
      BY <1>9, <1>2, <3>1
  <2>2. \A k \in 1 .. n : k - 1 \in T => k \in T
    <3>1. SUFFICES ASSUME NEW k \in 1 .. n, h[k - 1] \in Seq(S) PROVE h[k] \in Seq(S)
      BY <1>0, <3>1
    <3>2. s[k] \in S
      BY <3>1 DEF n
    <3>3. h[k] = IF s[k] = p THEN h[k - 1] ELSE Append(h[k - 1], s[k])
      BY <1>10
    <3>4. Append(h[k - 1], s[k]) \in Seq(S)
      BY ONLY <3>1, <3>2, AppendProperties
    <3> QED
      BY <3>1, <3>3, <3>4
  <2>3. \A k \in 0 .. n : k \in T
    <3> HIDE DEF T
    <3> QED
      BY ONLY <1>0, <2>1, <2>2, UpTo
  <2> QED
    BY <2>3
<1>12. h = [k \in 0 .. n |-> h[k]]
  <2> HIDE DEF h
  <2> QED
    BY <1>7, <1>9
<1>13. h \in [0 .. n -> Seq(S)]
  <2> HIDE DEF h
  <2> QED
    BY <1>11, <1>12
<1> HIDE DEF h, Def, F
<1> QED
  BY <1>8, <1>9, <1>10, <1>13 DEF n, Filters

(* What granting a permission makes of the list of a marker. *)
LEMMA AppendedElements ==
    ASSUME NEW S, NEW s \in Seq(S), NEW x \in S
    PROVE  /\ Append(s, x) \in Seq(S)
           /\ Range(Append(s, x)) = Range(s) \cup {x}
           /\ Distinct(s) /\ x \notin Range(s) => Distinct(Append(s, x))
<1> DEFINE t == Append(s, x)
<1>1. /\ t \in Seq(S) /\ Len(t) = Len(s) + 1 /\ Len(s) \in Nat
      /\ DOMAIN t = 1 .. Len(s) + 1 /\ DOMAIN s = 1 .. Len(s)
  OBVIOUS
<1>2. t[Len(s) + 1] = x /\ \A i \in 1 .. Len(s) : t[i] = s[i]
  OBVIOUS
<1> HIDE DEF t
<1>3. \A i \in 1 .. Len(s) + 1 : i = Len(s) + 1 \/ i \in 1 .. Len(s)
  BY <1>1
<1>4. \A i \in 1 .. Len(s) : i \in 1 .. Len(s) + 1 /\ i # Len(s) + 1
  BY <1>1
<1>5. Len(s) + 1 \in 1 .. Len(s) + 1
  BY <1>1
<1>6. Range(t) = Range(s) \cup {x}
  BY <1>1, <1>2, <1>3, <1>4, <1>5 DEF Range
<1>7. ASSUME Distinct(s), x \notin Range(s) PROVE Distinct(t)
  <2>1. SUFFICES ASSUME NEW j \in DOMAIN t, NEW k \in DOMAIN t, j # k PROVE t[j] # t[k]
    BY DEF Distinct
  <2>2. \A i \in 1 .. Len(s) : s[i] # x
    BY <1>1, <1>7 DEF Range
  <2> QED
    BY <1>1, <1>2, <1>3, <1>7, <2>1, <2>2 DEF Distinct
<1> QED
  BY <1>1, <1>6, <1>7 DEF t

(* What revoking a permission makes of the list of a marker: the permission *)
(* is gone, the others stay, none twice.                                    *)
LEMMA WithoutElements ==
    ASSUME NEW S, NEW s \in Seq(S), NEW p
    PROVE  /\ Without(s, p) \in Seq(S)
           /\ Range(Without(s, p)) = Range(s) \ {p}
           /\ Distinct(s) => Distinct(Without(s, p))
<1> DEFINE n == Len(s)
<1>0. n \in Nat /\ DOMAIN s = 1 .. n /\ \A k \in 1 .. n : s[k] \in S
  OBVIOUS
<1>1. PICK f : Filters(S, s, p, f)
  BY WithoutUnfold
<1>1a. /\ f \in [0 .. n -> Seq(S)] /\ f[0] = <<>>
       /\ \A k \in 1 .. n : f[k] = IF s[k] = p THEN f[k - 1] ELSE Append(f[k - 1], s[k])
       /\ Without(s, p) = f[n]
  BY <1>1 DEF Filters
<1> HIDE DEF n
<1> DEFINE Upper(k) == {s[j] : j \in 1 .. k} \ {p}
           T == {k \in 0 .. n : Range(f[k]) = Upper(k) /\ (Distinct(s) => Distinct(f[k]))}
<1>2. 0 \in T
  <2>1. Range(f[0]) = {} /\ Distinct(f[0])
    BY <1>1a DEF Range, Distinct
  <2>2. Upper(0) = {} /\ 0 \in 0 .. n
    BY <1>0
  <2> QED
    BY <2>1, <2>2
<1>3. ASSUME NEW k \in 1 .. n, k - 1 \in T PROVE k \in T
  <2>1. /\ k - 1 \in 0 .. n /\ k \in 0 .. n /\ k \in 1 .. k
        /\ \A j \in 1 .. k : j = k \/ j \in 1 .. k - 1
        /\ \A j \in 1 .. k - 1 : j \in 1 .. k /\ j # k /\ j \in 1 .. n
    BY <1>0, <1>3
  <2>2. f[k - 1] \in Seq(S) /\ s[k] \in S
    BY <2>1, <1>1a, <1>0
  <2>3. f[k] = IF s[k] = p THEN f[k - 1] ELSE Append(f[k - 1], s[k])
    BY <1>1a
  <2>4. CASE s[k] = p
    <3>1. Upper(k) = Upper(k - 1)
      BY <2>1, <2>4
    <3> QED
      BY <3>1, <2>1, <2>3, <2>4, <1>3
  <2>5. CASE s[k] # p
    <3>1. Upper(k) = Upper(k - 1) \cup {s[k]}
      BY <2>1, <2>5
    <3>2. /\ Range(f[k]) = Range(f[k - 1]) \cup {s[k]}
          /\ Distinct(f[k - 1]) /\ s[k] \notin Range(f[k - 1]) => Distinct(f[k])
      BY <2>2, <2>3, <2>5, AppendedElements
    <3>3. ASSUME Distinct(s) PROVE s[k] \notin Upper(k - 1)
      BY <3>3, <2>1, <1>0 DEF Distinct
    <3>4. Range(f[k - 1]) = Upper(k - 1) /\ (Distinct(s) => Distinct(f[k - 1]))
      BY <1>3
    <3> HIDE DEF Upper
    <3> QED
      BY <3>1, <3>2, <3>3, <3>4, <2>1
  <2> QED
    BY <2>4, <2>5
<1>4. \A k \in 0 .. n : k \in T
  <2> HIDE DEF T
  <2> QED
    BY ONLY <1>0, <1>2, <1>3, UpTo
<1>5. n \in 0 .. n /\ Range(s) = {s[j] : j \in 1 .. n}
  BY <1>0 DEF Range
<1> QED
  BY <1>1a, <1>4, <1>5

(* Revoking a permission that is not there changes nothing. *)
LEMMA WithoutAbsent ==
    ASSUME NEW S, NEW s \in Seq(S), NEW p, p \notin Range(s)
    PROVE  Without(s, p) = s
<1> DEFINE n == Len(s)
<1>0. n \in Nat /\ DOMAIN s = 1 .. n /\ \A k \in 1 .. n : s[k] \in S /\ s[k] # p
  BY DEF Range
<1>1. PICK f : Filters(S, s, p, f)
  BY WithoutUnfold
<1>1a. /\ f \in [0 .. n -> Seq(S)] /\ f[0] = <<>>
       /\ \A k \in 1 .. n : f[k] = IF s[k] = p THEN f[k - 1] ELSE Append(f[k - 1], s[k])
       /\ Without(s, p) = f[n]
  BY <1>1 DEF Filters
<1> DEFINE T == {k \in 0 .. n : Len(f[k]) = k /\ \A j \in 1 .. k : f[k][j] = s[j]}
<1>2. 0 \in T
  BY <1>0, <1>1a
<1> HIDE DEF n
<1>3. ASSUME NEW k \in 1 .. n, k - 1 \in T PROVE k \in T
  <2>1. /\ k - 1 \in 0 .. n /\ k \in 0 .. n
        /\ \A j \in 1 .. k : j = k \/ j \in 1 .. k - 1
    BY <1>0, <1>3
  <2>2. f[k - 1] \in Seq(S) /\ s[k] \in S /\ Len(f[k - 1]) = k - 1
    BY <2>1, <1>1a, <1>0, <1>3
  <2>3. f[k] = Append(f[k - 1], s[k])
    BY <1>0, <1>1a
  <2>4. Len(f[k]) = k /\ f[k][k] = s[k] /\ \A j \in 1 .. k - 1 : f[k][j] = f[k - 1][j]
    BY <2>2, <2>3, <2>1
  <2> QED
    BY <2>1, <2>4, <1>3
<1>4. \A k \in 0 .. n : k \in T
  <2> HIDE DEF T
  <2> QED
    BY ONLY <1>0, <1>2, <1>3, UpTo
<1>5. n \in 0 .. n
  BY <1>0
<1>6. Len(f[n]) = n /\ f[n] \in Seq(S) /\ \A j \in 1 .. n : f[n][j] = s[j]
  BY <1>1a, <1>4, <1>5
<1> QED
  BY <1>1a, <1>6, SeqEqual DEF n

(* Granting a permission and revoking it gives the list without it. *)
LEMMA WithoutAppended ==
    ASSUME NEW S, NEW s \in Seq(S), NEW p \in S
    PROVE  Without(Append(s, p), p) = Without(s, p)
<1> DEFINE n == Len(s)  t == Append(s, p)
<1>0. /\ n \in Nat /\ t \in Seq(S) /\ Len(t) = n + 1
      /\ t[n + 1] = p /\ \A k \in 1 .. n : t[k] = s[k]
  OBVIOUS
<1> HIDE DEF t
<1>1. PICK f : Filters(S, s, p, f)
  BY WithoutUnfold
<1>1a. /\ f \in [0 .. n -> Seq(S)] /\ f[0] = <<>>
       /\ \A k \in 1 .. n : f[k] = IF s[k] = p THEN f[k - 1] ELSE Append(f[k - 1], s[k])
       /\ Without(s, p) = f[n]
  BY <1>1 DEF Filters
<1>2. PICK g : Filters(S, t, p, g)
  BY <1>0, WithoutUnfold
<1>2a. /\ g \in [0 .. Len(t) -> Seq(S)] /\ g[0] = <<>>
       /\ \A k \in 1 .. Len(t) : g[k] = IF t[k] = p THEN g[k - 1] ELSE Append(g[k - 1], t[k])
       /\ Without(t, p) = g[Len(t)]
  BY <1>2 DEF Filters
<1> HIDE DEF n
<1> DEFINE T == {k \in 0 .. n : f[k] = g[k]}
<1>3. 0 \in T
  BY <1>0, <1>1a, <1>2a
<1>4. ASSUME NEW k \in 1 .. n, k - 1 \in T PROVE k \in T
  <2>1. k \in 0 .. n /\ k \in 1 .. Len(t) /\ t[k] = s[k]
    BY <1>0
  <2>2. f[k - 1] = g[k - 1]
    BY <1>4
  <2>3. f[k] = IF s[k] = p THEN f[k - 1] ELSE Append(f[k - 1], s[k])
    BY <1>1a
  <2>4. g[k] = IF t[k] = p THEN g[k - 1] ELSE Append(g[k - 1], t[k])
    BY <1>2a, <2>1
  <2> QED
    BY <2>1, <2>2, <2>3, <2>4
<1>5. \A k \in 0 .. n : k \in T
  <2> HIDE DEF T
  <2> QED
    BY ONLY <1>0, <1>3, <1>4, UpTo
<1>6. n \in 0 .. n /\ n + 1 \in 1 .. Len(t) /\ (n + 1) - 1 = n
  BY <1>0
<1>7. g[n + 1] = g[(n + 1) - 1]
  BY <1>0, <1>2a, <1>6
<1>8. f[n] = g[n]
  BY <1>5, <1>6
<1> QED
  BY <1>0, <1>1a, <1>2a, <1>6, <1>7, <1>8 DEF t

-----------------------------------------------------------------------------
(* A call that has begun and not ended. *)
UnderWay == {"list", "decide", "read", "write"}

(* The roles that have not expired, as listRolesForUser and the save of     *)
(* roles keep them.                                                         *)
Live(R) == {r \in R : r.expire > now}

(* The fields of a call. *)
IsCall(call) ==
    /\ call \in [pc : {call.pc}, op : {call.op}, user : {call.user}, insts : {call.insts},
                 key : {call.key}, marker : {call.marker}, permission : {call.permission},
                 sub : {call.sub}, role : {call.role}, expire : {call.expire},
                 perms : {call.perms}, seen : {call.seen}, stale : {call.stale}]
    /\ call.pc \in UnderWay \cup {"idle", "done"}
    /\ call.stale \in BOOLEAN

(* A grant or a revocation of a role names a subject and one of the roles. *)
AsksForRole(call) ==
    /\ call.sub \in Subjects /\ call.role \in Roles /\ call.marker = Account
    /\ call.expire \in {0, MaxTime, Forever}

(* A grant or a revocation of a permission names a marker. *)
AsksForPermission(call) ==
    /\ call.op \in {"policy.grantPermission", "policy.revokePermission"}
    /\ call.marker \in Marks /\ call.permission \in Grantable /\ call.sub = Nobody

(* A call under way keeps what it was asked for. *)
Asked(call) ==
    call.pc \in UnderWay =>
      IF IsRoleCall(call) THEN AsksForRole(call) ELSE AsksForPermission(call)

(* What a call has read and is about to write back: roles, or permissions   *)
(* none of which is there twice, and the one to be granted is not among     *)
(* them.                                                                    *)
ReadIsTyped(call) ==
    call.pc = "write" =>
      IF IsRoleCall(call) THEN call.seen \subseteq Assigned
      ELSE /\ call.seen \in Seq(Permissions) /\ Distinct(call.seen)
           /\ call.op = "policy.grantPermission" => call.permission \notin Range(call.seen)

(* The strengthening that WritesOnlyItsOwn needs: as long as no other call  *)
(* has overtaken it, what a call has read is still what is stored (but for  *)
(* roles that have expired since).                                          *)
ReadIsCurrent(call) ==
    call.pc = "write" /\ ~call.stale =>
      IF IsRoleCall(call) THEN Live(call.seen) = Live(roles[call.sub])
      ELSE call.seen = docs[call.marker]

(* The policies: no permission is twice in the list of a marker. *)
DocsInv ==
    /\ docs \in [Marks \cup {Account} -> Seq(Permissions)]
    /\ \A m \in Marks \cup {Account} : Distinct(docs[m])

(* The roles. *)
RolesInv == roles \in [Subjects -> SUBSET Assigned]

(* What holds of each call. *)
CallInv(call) ==
    IsCall(call) /\ Asked(call) /\ ReadIsTyped(call) /\ ReadIsCurrent(call)

(* What holds of all calls. *)
CallsInv ==
    /\ calls = [c \in CallIds |-> calls[c]]
    /\ \A c \in CallIds : CallInv(calls[c])

(* The inductive invariant. *)
IInv == DocsInv /\ RolesInv /\ now \in 0 .. MaxTime /\ CallsInv

(* t is the call with some of its fields changed. *)
SameFields(t, call, changed) ==
    /\ t \in [pc : {t.pc}, op : {t.op}, user : {t.user}, insts : {t.insts},
              key : {t.key}, marker : {t.marker}, permission : {t.permission},
              sub : {t.sub}, role : {t.role}, expire : {t.expire},
              perms : {t.perms}, seen : {t.seen}, stale : {t.stale}]
    /\ \A x \in {"op", "user", "insts", "key", "marker", "permission", "sub", "role", "expire",
                "seen", "stale"} \ changed : t[x] = call[x]

(* A call that has not begun, or has ended, satisfies its part. *)
LEMMA EndedIsFine ==
    ASSUME NEW call, call \in {NoCall, Done}
    PROVE  CallInv(call) /\ CallInv(call)'
<1>1. IsCall(call) /\ call.pc \in {"idle", "done"}
  <2>1. IsCall(NoCall) /\ NoCall.pc = "idle" /\ NoCall.stale = FALSE
    BY DEF NoCall, IsCall
  <2>2. IsCall(Done) /\ Done.pc = "done"
    <3>1. Done.pc = "done" /\ Done.stale = NoCall.stale
      BY DEF NoCall, Done
    <3>2. SameFields(Done, NoCall, {})
      BY <2>1 DEF Done, NoCall, SameFields
    <3> QED
      BY <2>1, <3>1, <3>2 DEF IsCall, SameFields
  <2> QED
    BY <2>1, <2>2
<1>2. call.pc \notin UnderWay /\ call.pc # "write"
  BY <1>1 DEF UnderWay
<1> QED
  BY <1>1, <1>2 DEF CallInv, Asked, ReadIsTyped, ReadIsCurrent

(* The invariant holds initially. *)
LEMMA InitInv == Init => IInv
<1> SUFFICES ASSUME Init PROVE IInv
  OBVIOUS
<1>1. DocsInv
  BY CallersAssumption DEF Init, DocsInv
<1>2. RolesInv
  <2>1. Forever \in (1 .. MaxTime) \cup {Forever}
    OBVIOUS
  <2>2. \A r \in Roles : [role |-> r, expire |-> Forever] \in Assigned
    BY <2>1 DEF Assigned
  <2>3. {{}} \cup {{[role |-> r, expire |-> Forever]} : r \in Roles} \subseteq SUBSET Assigned
    BY <2>2
  <2> QED
    BY <2>3 DEF Init, RolesInv
<1>3. now \in 0 .. MaxTime
  <2>1. MaxTime \in Nat
    BY PolicyAssumption
  <2>2. now = 0
    BY DEF Init
  <2> QED
    BY ONLY <2>1, <2>2
<1>4. CallsInv
  <2>1. \A c \in CallIds : calls[c] = NoCall
    BY DEF Init
  <2>2. calls = [c \in CallIds |-> calls[c]]
    BY DEF Init
  <2> QED
    BY <2>1, <2>2, EndedIsFine DEF CallsInv
<1> QED
  BY <1>1, <1>2, <1>3, <1>4 DEF IInv

(* A step of one call that leaves the store alone need only keep the part   *)
(* of that call.                                                            *)
LEMMA OneCallChanges ==
    ASSUME CallsInv, NEW c \in CallIds, NEW call,
           calls' = [calls EXCEPT ![c] = call], UNCHANGED <<docs, roles, now>>,
           CallInv(call)
    PROVE  CallsInv'
<1>1. calls' = [d \in CallIds |-> IF d = c THEN call ELSE calls[d]]
  BY DEF CallsInv
<1>2. calls' = [d \in CallIds |-> calls'[d]]
  BY <1>1
<1>3. ASSUME NEW x, CallInv(x) PROVE CallInv(x)'
  BY <1>3 DEF CallInv, IsCall, Asked, AsksForRole, AsksForPermission, ReadIsTyped,
              ReadIsCurrent, Live
<1>4. ASSUME NEW d \in CallIds PROVE CallInv(calls'[d])
  <2>1. CASE d = c
    BY <1>1, <2>1
  <2>2. CASE d # c
    BY <1>1, <2>2 DEF CallsInv
  <2> QED
    BY <2>1, <2>2
<1>5. ASSUME NEW d \in CallIds PROVE CallInv(calls[d])'
  <2>1. PICK x : x = calls'[d]
    OBVIOUS
  <2>2. CallInv(x)
    BY <1>4, <2>1
  <2> QED
    BY <2>1, <2>2 DEF CallInv, IsCall, Asked, AsksForRole, AsksForPermission, ReadIsTyped,
              ReadIsCurrent, Live
<1> QED
  BY <1>2, <1>5 DEF CallsInv

(* A call that goes on still asks for the same. *)
LEMMA StillAsked ==
    ASSUME NEW t, NEW call, NEW changed, changed \subseteq {"seen", "stale"},
           SameFields(t, call, changed), IsCall(call), Asked(call),
           call.pc \in UnderWay, t.pc \in UnderWay, t.stale \in BOOLEAN
    PROVE  IsCall(t) /\ Asked(t) /\ (IsRoleCall(t) <=> IsRoleCall(call))
<1>1. /\ t.op = call.op /\ t.sub = call.sub /\ t.role = call.role /\ t.marker = call.marker
      /\ t.expire = call.expire /\ t.permission = call.permission
  BY DEF SameFields
<1>2. IsRoleCall(t) <=> IsRoleCall(call)
  BY <1>1 DEF IsRoleCall
<1>3. Asked(t)
  BY <1>1, <1>2 DEF Asked, AsksForRole, AsksForPermission
<1>4. IsCall(t)
  BY DEF IsCall, SameFields, UnderWay
<1> QED
  BY <1>2, <1>3, <1>4

(* grantMarkerPermission and revokeMarkerPermission begin. *)
LEMMA CallPermissionInv ==
    ASSUME IInv, NEW c \in CallIds, CallPermission(c)
    PROVE  CallsInv' /\ UNCHANGED <<docs, roles, now>>
<1>1. PICK op \in {"policy.grantPermission", "policy.revokePermission"},
           by \in Callers, m \in Marks, p \in Grantable :
         Start(c, [NoCall EXCEPT !.op = op, !.user = by.user, !.insts = by.insts,
                                 !.marker = m, !.permission = p])
  BY DEF CallPermission
<1> DEFINE t == [[NoCall EXCEPT !.op = op, !.user = by.user, !.insts = by.insts,
                                !.marker = m, !.permission = p] EXCEPT !.pc = "list"]
<1>2. calls' = [calls EXCEPT ![c] = t] /\ UNCHANGED <<docs, roles, now>>
  BY <1>1 DEF Start
<1>3. t.op = op /\ t.marker = m /\ t.permission = p /\ t.sub = Nobody /\ t.pc = "list"
  BY DEF NoCall
<1>4. t.stale = FALSE
  BY DEF NoCall
<1>5. IsCall(t)
  BY DEF NoCall, IsCall, UnderWay
<1> HIDE DEF t
<1>6. ~IsRoleCall(t) /\ AsksForPermission(t)
  BY <1>3 DEF IsRoleCall, AsksForPermission
<1>7. CallInv(t)
  BY <1>3, <1>5, <1>6 DEF CallInv, Asked, ReadIsTyped, ReadIsCurrent
<1> QED
  BY <1>2, <1>7, OneCallChanges DEF IInv

(* grantRole and revokeRole begin. *)
LEMMA CallRoleInv ==
    ASSUME IInv, NEW c \in CallIds, CallRole(c)
    PROVE  CallsInv' /\ UNCHANGED <<docs, roles, now>>
<1>1. PICK op \in {"role.grant", "role.revoke"}, by \in Callers,
           sub \in Subjects \ {User(Owner)}, r \in Roles :
       \E e \in (IF op = "role.grant" THEN {MaxTime, Forever} ELSE {0}) :
         Start(c, [NoCall EXCEPT !.op = op, !.user = by.user, !.insts = by.insts,
                                 !.sub = sub, !.role = r, !.expire = e])
  BY DEF CallRole
<1>1a. PICK e \in (IF op = "role.grant" THEN {MaxTime, Forever} ELSE {0}) :
         Start(c, [NoCall EXCEPT !.op = op, !.user = by.user, !.insts = by.insts,
                                 !.sub = sub, !.role = r, !.expire = e])
  BY <1>1
<1> DEFINE t == [[NoCall EXCEPT !.op = op, !.user = by.user, !.insts = by.insts,
                                !.sub = sub, !.role = r, !.expire = e] EXCEPT !.pc = "list"]
<1>2. calls' = [calls EXCEPT ![c] = t] /\ UNCHANGED <<docs, roles, now>>
  BY <1>1a DEF Start
<1>3. /\ t.op = op /\ t.sub = sub /\ t.role = r /\ t.expire = e /\ t.marker = Account
      /\ t.pc = "list"
  BY DEF NoCall
<1>5. IsCall(t)
  BY DEF NoCall, IsCall, UnderWay
<1> HIDE DEF t
<1>6. IsRoleCall(t) /\ AsksForRole(t)
  BY <1>3 DEF IsRoleCall, AsksForRole
<1>7. CallInv(t)
  BY <1>3, <1>5, <1>6 DEF CallInv, Asked, ReadIsTyped, ReadIsCurrent
<1> QED
  BY <1>2, <1>7, OneCallChanges DEF IInv

(* The permissions of the account marker are read. *)
LEMMA ListPermissionsInv ==
    ASSUME IInv, NEW c \in CallIds, ListPermissions(c)
    PROVE  CallsInv' /\ UNCHANGED <<docs, roles, now>>
<1>1. PICK y : y = [m \in {Account} |-> ListPoliciesForMarker(m)]
  OBVIOUS
<1> DEFINE t == [calls[c] EXCEPT !.pc = "decide", !.perms = y]
<1>2. calls[c].pc = "list" /\ UNCHANGED <<docs, roles, now>>
  BY DEF ListPermissions, At
<1>3. calls' = [calls EXCEPT ![c] = t]
  BY <1>1 DEF ListPermissions, IInv, CallsInv
<1>4. CallInv(calls[c])
  BY DEF IInv, CallsInv
<1>5. IsCall(calls[c]) /\ Asked(calls[c])
  BY <1>4 DEF CallInv
<1>6. SameFields(t, calls[c], {}) /\ t.pc = "decide"
  BY <1>5 DEF IsCall, SameFields
<1>7. t.stale \in BOOLEAN
  BY <1>5, <1>6 DEF SameFields, IsCall
<1> HIDE DEF t
<1>8. IsCall(t) /\ Asked(t)
  BY <1>2, <1>5, <1>6, <1>7, StillAsked DEF UnderWay
<1>9. CallInv(t)
  BY <1>6, <1>8 DEF CallInv, ReadIsTyped, ReadIsCurrent
<1> QED
  BY <1>2, <1>3, <1>9, OneCallChanges DEF IInv

(* The call is allowed or ends. *)
LEMMA DecideInv ==
    ASSUME IInv, NEW c \in CallIds, Decide(c)
    PROVE  CallsInv' /\ UNCHANGED <<docs, roles, now>>
<1> DEFINE t == [calls[c] EXCEPT !.pc = "read", !.perms = <<>>]
<1>2. calls[c].pc = "decide" /\ UNCHANGED <<docs, roles, now>>
  BY DEF Decide, At
<1>3. PICK x : x \in {t, Done} /\ calls' = [calls EXCEPT ![c] = x]
  BY DEF Decide
<1>4. CallInv(calls[c])
  BY DEF IInv, CallsInv
<1>5. IsCall(calls[c]) /\ Asked(calls[c])
  BY <1>4 DEF CallInv
<1>6. SameFields(t, calls[c], {}) /\ t.pc = "read"
  BY <1>5 DEF IsCall, SameFields
<1>7. t.stale \in BOOLEAN
  BY <1>5, <1>6 DEF SameFields, IsCall
<1> HIDE DEF t
<1>8. IsCall(t) /\ Asked(t)
  BY <1>2, <1>5, <1>6, <1>7, StillAsked DEF UnderWay
<1>9. CallInv(t)
  BY <1>6, <1>8 DEF CallInv, ReadIsTyped, ReadIsCurrent
<1>10. CallInv(x)
  BY <1>3, <1>9, EndedIsFine
<1> QED
  BY <1>2, <1>3, <1>10, OneCallChanges DEF IInv

(* The roles or the policy are read: what was read is current. *)
LEMMA ReadInv ==
    ASSUME IInv, NEW c \in CallIds, Read(c)
    PROVE  CallsInv' /\ UNCHANGED <<docs, roles, now>>
<1> DEFINE call == calls[c]
           had == call.permission \in Range(docs[call.marker])
           needed == IsRoleCall(call) \/ had = (call.op = "policy.revokePermission")
           seen == IF IsRoleCall(call) THEN ListRoles(call.sub) ELSE docs[call.marker]
           t == [call EXCEPT !.pc = "write", !.seen = seen]
<1>2. call.pc = "read" /\ UNCHANGED <<docs, roles, now>>
  BY DEF Read, At
<1>3. calls' = [calls EXCEPT ![c] = IF needed THEN t ELSE Done]
  BY DEF Read
<1>4. CallInv(call)
  BY DEF IInv, CallsInv
<1>5. IsCall(call) /\ Asked(call)
  BY <1>4 DEF CallInv
<1> HIDE DEF seen, call
<1>6. SameFields(t, call, {"seen"}) /\ t.pc = "write" /\ t.seen = seen
  BY <1>5 DEF IsCall, SameFields
<1>7. t.stale \in BOOLEAN
  BY <1>5, <1>6 DEF SameFields, IsCall
<1> HIDE DEF t
<1>8. IsCall(t) /\ Asked(t) /\ (IsRoleCall(t) <=> IsRoleCall(call))
  BY <1>2, <1>5, <1>6, <1>7, StillAsked DEF UnderWay
<1>9. t.sub = call.sub /\ t.marker = call.marker /\ t.op = call.op /\ t.permission = call.permission
  BY <1>6 DEF SameFields
<1>10. CASE ~needed
  BY <1>2, <1>3, <1>10, EndedIsFine, OneCallChanges DEF IInv
<1>11. CASE needed /\ IsRoleCall(call)
  <2>1. call.sub \in Subjects
    BY <1>2, <1>5, <1>11 DEF Asked, UnderWay, AsksForRole
  <2>2. t.seen = ListRoles(t.sub) /\ roles[call.sub] \subseteq Assigned
    BY <1>6, <1>9, <1>11, <2>1 DEF seen, IInv, RolesInv
  <2>3. t.seen \subseteq Assigned /\ Live(t.seen) = Live(roles[t.sub])
    BY <1>9, <2>2 DEF ListRoles, Live
  <2>4. CallInv(t)
    BY <1>8, <1>11, <2>3 DEF CallInv, ReadIsTyped, ReadIsCurrent
  <2> QED
    BY <1>2, <1>3, <1>11, <2>4, OneCallChanges DEF IInv
<1>12. CASE needed /\ ~IsRoleCall(call)
  <2>1. call.marker \in Marks /\ AsksForPermission(call)
    BY <1>2, <1>5, <1>12 DEF Asked, UnderWay, AsksForPermission
  <2>2. t.seen = docs[t.marker] /\ t.seen \in Seq(Permissions) /\ Distinct(t.seen)
    BY <1>6, <1>9, <1>12, <2>1 DEF seen, IInv, DocsInv
  <2>3. t.op = "policy.grantPermission" => t.permission \notin Range(t.seen)
    BY <1>9, <1>12, <2>2
  <2>4. CallInv(t)
    BY <1>8, <1>12, <2>2, <2>3 DEF CallInv, ReadIsTyped, ReadIsCurrent
  <2> QED
    BY <1>2, <1>3, <1>12, <2>4, OneCallChanges DEF IInv
<1> QED
  BY <1>10, <1>11, <1>12

(* What a call writes back is a list of permissions, none of them twice. *)
LEMMA NewPermissionsTyped ==
    ASSUME NEW call, AsksForPermission(call), call.seen \in Seq(Permissions),
           Distinct(call.seen),
           call.op = "policy.grantPermission" => call.permission \notin Range(call.seen)
    PROVE  NewPermissions(call) \in Seq(Permissions) /\ Distinct(NewPermissions(call))
<1>1. call.permission \in Permissions
  BY DEF AsksForPermission, Permissions
<1>2. CASE call.op = "policy.grantPermission"
  BY <1>1, <1>2, AppendedElements DEF NewPermissions
<1>3. CASE call.op # "policy.grantPermission"
  BY <1>3, WithoutElements DEF NewPermissions
<1> QED
  BY <1>2, <1>3

(* What a call writes back are roles with their expirations. *)
LEMMA NewRolesTyped ==
    ASSUME NEW call, AsksForRole(call), call.seen \subseteq Assigned, now \in 0 .. MaxTime
    PROVE  Live(NewRoles(call)) \subseteq Assigned
<1>0. MaxTime \in Nat
  BY PolicyAssumption
<1>1. SUFFICES ASSUME NEW r \in NewRoles(call), r.expire > now PROVE r \in Assigned
  BY DEF Live
<1>2. CASE r \in call.seen
  BY <1>2
<1>3. CASE r = [role |-> call.role, expire |-> call.expire]
  <2>1. r.expire = call.expire /\ call.expire \in {0, MaxTime, Forever}
    BY <1>3 DEF AsksForRole
  <2>2. call.expire \in (1 .. MaxTime) \cup {Forever}
    BY <1>0, <1>1, <2>1
  <2> QED
    BY <1>3, <2>2 DEF Assigned, AsksForRole
<1> QED
  BY <1>1, <1>2, <1>3 DEF NewRoles

(* What a write knows of its call. *)
LEMMA WriteCases ==
    ASSUME IInv, NEW c \in CallIds, Write(c)
    PROVE  /\ calls[c].pc = "write" /\ now' = now /\ CallInv(calls[c])
           /\ IF IsRoleCall(calls[c])
                THEN /\ roles' = [roles EXCEPT ![calls[c].sub] = Live(NewRoles(calls[c]))]
                     /\ docs' = docs /\ AsksForRole(calls[c])
                     /\ calls[c].seen \subseteq Assigned
                ELSE /\ docs' = [docs EXCEPT ![calls[c].marker] = NewPermissions(calls[c])]
                     /\ roles' = roles /\ AsksForPermission(calls[c])
                     /\ calls[c].seen \in Seq(Permissions) /\ Distinct(calls[c].seen)
                     /\ calls[c].op = "policy.grantPermission"
                          => calls[c].permission \notin Range(calls[c].seen)
<1>1. calls[c].pc = "write" /\ now' = now /\ CallInv(calls[c])
  BY DEF Write, At, IInv, CallsInv
<1>2. Asked(calls[c]) /\ ReadIsTyped(calls[c]) /\ calls[c].pc \in UnderWay
  BY <1>1 DEF CallInv, UnderWay
<1>3. CASE IsRoleCall(calls[c])
  BY <1>1, <1>2, <1>3 DEF Write, Live, Asked, ReadIsTyped
<1>4. CASE ~IsRoleCall(calls[c])
  BY <1>1, <1>2, <1>4 DEF Write, Asked, ReadIsTyped
<1> QED
  BY <1>1, <1>3, <1>4

(* A write keeps the policies and the roles well formed. *)
LEMMA WriteTables ==
    ASSUME IInv, NEW c \in CallIds, Write(c)
    PROVE  DocsInv' /\ RolesInv'
<1> DEFINE call == calls[c]
<1>1. CASE IsRoleCall(call)
  <2>1. /\ roles' = [roles EXCEPT ![call.sub] = Live(NewRoles(call))]
        /\ docs' = docs /\ AsksForRole(call) /\ call.seen \subseteq Assigned
    BY <1>1, WriteCases
  <2>2. Live(NewRoles(call)) \subseteq Assigned
    BY <2>1, NewRolesTyped DEF IInv
  <2> HIDE DEF call
  <2>3. RolesInv'
    BY <2>1, <2>2 DEF IInv, RolesInv
  <2>4. DocsInv'
    BY <2>1 DEF IInv, DocsInv
  <2> QED
    BY <2>3, <2>4
<1>2. CASE ~IsRoleCall(call)
  <2>1. /\ docs' = [docs EXCEPT ![call.marker] = NewPermissions(call)]
        /\ roles' = roles /\ AsksForPermission(call)
        /\ call.seen \in Seq(Permissions) /\ Distinct(call.seen)
        /\ call.op = "policy.grantPermission" => call.permission \notin Range(call.seen)
    BY <1>2, WriteCases
  <2>2. NewPermissions(call) \in Seq(Permissions) /\ Distinct(NewPermissions(call))
    BY <2>1, NewPermissionsTyped
  <2> HIDE DEF call
  <2>3. DocsInv'
    BY <2>1, <2>2 DEF IInv, DocsInv
  <2>4. RolesInv'
    BY <2>1 DEF IInv, RolesInv
  <2> QED
    BY <2>3, <2>4
<1> QED
  BY <1>1, <1>2

(* The other calls keep their part: those whose reading the write makes     *)
(* obsolete become stale.                                                   *)
LEMMA WriteCalls ==
    ASSUME IInv, NEW c \in CallIds, Write(c)
    PROVE  CallsInv'
<1>0. calls' = [d \in CallIds |->
                  IF d = c THEN Done
                  ELSE [calls[d] EXCEPT !.stale = @ \/ d \in Overtaken(c)]]
  BY DEF Write
<1>1. calls' = [d \in CallIds |-> calls'[d]]
  BY <1>0
<1>2. ASSUME NEW d \in CallIds PROVE CallInv(calls[d])'
  <2>1. CASE d = c
    <3>1. calls'[d] = Done
      BY <1>0, <2>1
    <3>2. CallInv(Done)'
      BY EndedIsFine
    <3> QED
      BY <3>1, <3>2
  <2>2. CASE d # c
    <3>a. PICK call : call = calls[d]
      OBVIOUS
    <3>b. PICK late : late = (call.stale \/ d \in Overtaken(c))
      OBVIOUS
    <3>c. PICK t : t = [call EXCEPT !.stale = late]
      OBVIOUS
    <3>1. calls'[d] = t
      BY <1>0, <2>2, <3>a, <3>b, <3>c
    <3>2. CallInv(call)
      BY <3>a DEF IInv, CallsInv
    <3>3. IsCall(call) /\ Asked(call) /\ ReadIsTyped(call) /\ ReadIsCurrent(call)
      BY <3>2 DEF CallInv
    <3>4. late \in BOOLEAN
      BY <3>3, <3>b DEF IsCall
    <3>5. SameFields(t, call, {"stale"}) /\ t.pc = call.pc /\ t.stale = late
      BY <3>3, <3>c DEF IsCall, SameFields
    <3>6. CASE call.pc \notin UnderWay
      <4>1. IsCall(t)
        BY <3>3, <3>4, <3>5 DEF IsCall, SameFields
      <4>2. t.pc \notin UnderWay /\ t.pc # "write"
        BY <3>5, <3>6 DEF UnderWay
      <4>3. CallInv(t)'
        BY <4>1, <4>2 DEF CallInv, IsCall, Asked, ReadIsTyped, ReadIsCurrent
      <4> QED
        BY <3>1, <4>3
    <3>7. CASE call.pc \in UnderWay
      <4>1. IsCall(t) /\ Asked(t) /\ (IsRoleCall(t) <=> IsRoleCall(call))
        BY <3>3, <3>4, <3>5, <3>7, StillAsked
      <4>2. /\ t.seen = call.seen /\ t.sub = call.sub /\ t.marker = call.marker
            /\ t.op = call.op /\ t.permission = call.permission
        BY <3>5 DEF SameFields
      <4>3. ReadIsTyped(t)
        BY <3>3, <3>5, <4>1, <4>2 DEF ReadIsTyped
      <4>4. ReadIsCurrent(t)'
        <5>1. SUFFICES ASSUME call.pc = "write", ~call.stale, d \notin Overtaken(c)
              PROVE  IF IsRoleCall(call) THEN Live(call.seen)' = Live(roles[call.sub])'
                     ELSE call.seen = docs'[call.marker]
          BY <3>3, <3>5, <3>b, <4>1, <4>2 DEF ReadIsCurrent, IsCall
        <5>2. /\ now' = now /\ calls[c].pc = "write"
              /\ IF IsRoleCall(call) THEN Live(call.seen) = Live(roles[call.sub])
                 ELSE call.seen = docs[call.marker]
          BY <3>3, <5>1, WriteCases DEF ReadIsCurrent
        <5>3. ~(/\ IsRoleCall(call) <=> IsRoleCall(calls[c])
                /\ call.sub = calls[c].sub /\ call.marker = calls[c].marker)
          BY <2>2, <3>a, <5>1 DEF Overtaken, At, IsRoleCall
        <5>4. CASE IsRoleCall(call) /\ IsRoleCall(calls[c])
          <6>1. call.marker = Account /\ calls[c].marker = Account
            BY <3>3, <3>7, <5>4, WriteCases DEF Asked, AsksForRole
          <6>2. call.sub # calls[c].sub
            BY <5>3, <5>4, <6>1
          <6>3. roles'[call.sub] = roles[call.sub]
            <7>1. roles' = [roles EXCEPT ![calls[c].sub] = Live(NewRoles(calls[c]))]
              BY <5>4, WriteCases
            <7>2. call.sub \in Subjects
              BY <3>3, <3>7, <5>4 DEF Asked, AsksForRole
            <7> QED
              BY <6>2, <7>1, <7>2 DEF IInv, RolesInv
          <6> QED
            BY <5>2, <5>4, <6>3 DEF Live
        <5>5. CASE IsRoleCall(call) /\ ~IsRoleCall(calls[c])
          <6>1. roles' = roles
            BY <5>5, WriteCases
          <6> QED
            BY <5>2, <5>5, <6>1 DEF Live
        <5>6. CASE ~IsRoleCall(call) /\ IsRoleCall(calls[c])
          <6>1. docs' = docs
            BY <5>6, WriteCases
          <6> QED
            BY <5>2, <5>6, <6>1
        <5>7. CASE ~IsRoleCall(call) /\ ~IsRoleCall(calls[c])
          <6>1. call.sub = Nobody /\ calls[c].sub = Nobody /\ call.marker \in Marks
            BY <3>3, <3>7, <5>7, WriteCases DEF Asked, AsksForPermission
          <6>2. call.marker # calls[c].marker
            BY <5>3, <5>7, <6>1
          <6>3. docs' = [docs EXCEPT ![calls[c].marker] = NewPermissions(calls[c])]
            BY <5>7, WriteCases
          <6>4. docs'[call.marker] = docs[call.marker]
            BY <6>1, <6>2, <6>3 DEF IInv, DocsInv
          <6> QED
            BY <5>2, <5>7, <6>4
        <5> QED
          BY <5>4, <5>5, <5>6, <5>7
      <4>5. CallInv(t)'
        BY <4>1, <4>3, <4>4 DEF CallInv, IsCall, Asked, AsksForRole, AsksForPermission, ReadIsTyped
      <4> QED
        BY <3>1, <4>5
    <3> QED
      BY <3>6, <3>7
  <2> QED
    BY <2>1, <2>2
<1> QED
  BY <1>1, <1>2 DEF CallsInv

(* Time passes: what is live was live before. *)
LEMMA TickInv ==
    ASSUME IInv, Tick
    PROVE  IInv'
<1>0. MaxTime \in Nat
  BY PolicyAssumption
<1>1. now' \in 0 .. MaxTime /\ now' > now /\ now \in Nat /\ now' \in Nat
  BY <1>0 DEF Tick, IInv
<1>2. DocsInv' /\ RolesInv'
  BY DEF Tick, IInv, DocsInv, RolesInv
<1>3. ASSUME NEW c \in CallIds PROVE CallInv(calls[c])'
  <2>1. PICK call : call = calls[c]
    OBVIOUS
  <2>2. IsCall(call) /\ Asked(call) /\ ReadIsTyped(call) /\ ReadIsCurrent(call)
    BY <2>1 DEF IInv, CallsInv, CallInv
  <2>3. ReadIsCurrent(call)'
    <3>1. SUFFICES ASSUME call.pc = "write", ~call.stale, IsRoleCall(call)
          PROVE  Live(call.seen)' = Live(roles[call.sub])'
      BY <2>2 DEF Tick, ReadIsCurrent
    <3>2. Live(call.seen) = Live(roles[call.sub])
      BY <2>2, <3>1 DEF ReadIsCurrent
    <3>3. call.seen \subseteq Assigned /\ roles[call.sub] \subseteq Assigned
      BY <2>2, <3>1 DEF ReadIsTyped, Asked, AsksForRole, UnderWay, IInv, RolesInv
    <3>4. \A r \in Assigned : r.expire \in Int
      BY <1>0 DEF Assigned, Forever
    <3>5. \A r \in Assigned : r.expire > now' => r.expire > now
      BY <1>1, <3>4
    <3> QED
      BY <3>2, <3>3, <3>5 DEF Live, Tick
  <2>4. calls'[c] = call
    BY <2>1 DEF Tick
  <2>5. CallInv(call)'
    BY <2>2, <2>3 DEF CallInv, IsCall, Asked, AsksForRole, AsksForPermission, ReadIsTyped
  <2> QED
    BY <2>4, <2>5
<1>4. calls' = [c \in CallIds |-> calls'[c]]
  BY DEF Tick, IInv, CallsInv
<1> QED
  BY <1>1, <1>2, <1>3, <1>4 DEF IInv, CallsInv

(* Every step keeps the invariant. *)
LEMMA NextInv == IInv /\ [Next]_vars => IInv'
<1> SUFFICES ASSUME IInv, [Next]_vars PROVE IInv'
  OBVIOUS
<1>0. ASSUME UNCHANGED <<docs, roles, now>>, CallsInv' PROVE IInv'
  BY <1>0 DEF IInv, DocsInv, RolesInv
<1>1. ASSUME NEW c \in CallIds, CallPermission(c) PROVE IInv'
  BY <1>0, <1>1, CallPermissionInv
<1>2. ASSUME NEW c \in CallIds, CallRole(c) PROVE IInv'
  BY <1>0, <1>2, CallRoleInv
<1>3. ASSUME NEW c \in CallIds, ListPermissions(c) PROVE IInv'
  BY <1>0, <1>3, ListPermissionsInv
<1>4. ASSUME NEW c \in CallIds, Decide(c) PROVE IInv'
  BY <1>0, <1>4, DecideInv
<1>5. ASSUME NEW c \in CallIds, Read(c) PROVE IInv'
  BY <1>0, <1>5, ReadInv
<1>6. ASSUME NEW c \in CallIds, Write(c) PROVE IInv'
  <2>1. now' = now
    BY <1>6 DEF Write
  <2> QED
    BY <1>6, <2>1, WriteTables, WriteCalls DEF IInv
<1>7. CASE Tick
  BY <1>7, TickInv
<1>8. CASE UNCHANGED vars
  BY <1>8 DEF vars, IInv, DocsInv, RolesInv, CallsInv, CallInv, IsCall, Asked, AsksForRole,
              AsksForPermission, ReadIsTyped, ReadIsCurrent, Live
<1> QED
  BY <1>1, <1>2, <1>3, <1>4, <1>5, <1>6, <1>7, <1>8 DEF Next

(* The invariant always holds. *)
LEMMA Invariance == Spec => []IInv
  BY InitInv, NextInv, PTL DEF Spec

(* Type correctness: the stored policies and roles are well formed whatever *)
(* the calls of concurrent requests do, and in particular no permission is  *)
(* ever twice in the policy of a marker, although grants check for it in a  *)
(* list that may be stale.                                                  *)
THEOREM TypeCorrect == Spec => []TypeOK
<1>1. IInv => TypeOK
  BY DEF IInv, DocsInv, RolesInv, CallsInv, CallInv, IsCall, UnderWay, TypeOK
<1> QED
  BY <1>1, Invariance, PTL

(* A call that is about to write ends by its write only. *)
LEMMA OnlyWriteEnds ==
    ASSUME IInv, [Next]_vars, NEW c \in CallIds, calls[c].pc = "write", calls'[c] = Done
    PROVE  Write(c)
<1>0. Done.pc = "done"
  BY DEF Done, NoCall
<1>1. calls = [d \in CallIds |-> calls[d]] /\ calls'[c] # calls[c]
  BY <1>0 DEF IInv, CallsInv
<1>2. ~UNCHANGED calls
  BY <1>1
<1>3. PICK d \in CallIds : \/ CallPermission(d) \/ CallRole(d) \/ ListPermissions(d)
                          \/ Decide(d) \/ Read(d) \/ Write(d)
  BY <1>2 DEF Next, vars, Tick
<1>4. ASSUME NEW x, calls' = [calls EXCEPT ![d] = x], calls[d].pc # "write" PROVE FALSE
  BY <1>1, <1>4
<1>5. ~CallPermission(d)
  BY <1>4 DEF CallPermission, Start, At
<1>6. ~CallRole(d)
  BY <1>4 DEF CallRole, Start, At
<1>7. ~ListPermissions(d)
  <2>1. SUFFICES ASSUME ListPermissions(d) PROVE FALSE
    OBVIOUS
  <2>2. PICK y : y = [m \in {Account} |-> ListPoliciesForMarker(m)]
    OBVIOUS
  <2>3. calls' = [calls EXCEPT ![d] = [calls[d] EXCEPT !.pc = "decide", !.perms = y]]
    BY <1>1, <2>1, <2>2 DEF ListPermissions
  <2>4. calls[d].pc = "list"
    BY <2>1 DEF ListPermissions, At
  <2> QED
    BY <1>4, <2>3, <2>4
<1>8. ~Decide(d)
  BY <1>4 DEF Decide, At
<1>9. ~Read(d)
  BY <1>4 DEF Read, At
<1>10. Write(d)
  BY <1>3, <1>5, <1>6, <1>7, <1>8, <1>9
<1>11. ASSUME d # c PROVE FALSE
  <2>1. calls'[c] = [calls[c] EXCEPT !.stale = @ \/ c \in Overtaken(d)]
    BY <1>10, <1>11 DEF Write
  <2>2. IsCall(calls[c])
    BY DEF IInv, CallsInv, CallInv
  <2>3. calls'[c].pc = calls[c].pc
    BY <2>1, <2>2 DEF IsCall
  <2> QED
    BY <1>0, <2>3
<1> QED
  BY <1>10, <1>11

(* The write of a role call that was not overtaken, on the subject it       *)
(* names.                                                                   *)
LEMMA OwnRole ==
    ASSUME IInv, NEW c \in CallIds, Write(c), ~calls[c].stale, IsRoleCall(calls[c])
    PROVE  LET call == calls[c]
               Others(R) == {r \in R : r.role # call.role /\ r.expire > now}
           IN /\ Others(roles'[call.sub]) = Others(roles[call.sub])
              /\ (\E r \in roles'[call.sub] : r.role = call.role)
                   <=> (call.op = "role.grant" /\ call.expire > now)
<1>1. PICK call : call = calls[c]
  OBVIOUS
<1>2. /\ roles' = [roles EXCEPT ![call.sub] = Live(NewRoles(call))] /\ call.pc = "write"
      /\ AsksForRole(call) /\ call.seen \subseteq Assigned /\ CallInv(call)
  BY <1>1, WriteCases
<1>3. Live(call.seen) = Live(roles[call.sub])
  BY <1>1, <1>2 DEF CallInv, ReadIsCurrent
<1>4. roles'[call.sub] = Live(NewRoles(call))
  BY <1>2 DEF AsksForRole, IInv, RolesInv
<1>5. /\ \A r \in Assigned : r.expire \in Int
      /\ call.expire \in Int /\ now \in Int
  <2>1. MaxTime \in Nat
    BY PolicyAssumption
  <2> QED
    BY <1>2, <2>1 DEF Assigned, Forever, AsksForRole, IInv
<1> DEFINE own == [role |-> call.role, expire |-> call.expire]
<1>6. own.role = call.role /\ own.expire = call.expire
  OBVIOUS
<1>7. CASE call.op = "role.revoke"
  <2>1. NewRoles(call) = {r \in call.seen : r.role # call.role}
    BY <1>7 DEF NewRoles
  <2> QED
    BY <1>1, <1>3, <1>4, <1>7, <2>1 DEF Live
<1>8. CASE call.op = "role.grant"
  <2>1. NewRoles(call) = {r \in call.seen : r.role # call.role \/ r.expire <= call.expire}
                           \cup {own}
    BY <1>8 DEF NewRoles
  <2> HIDE DEF own
  <2>2. \A r \in NewRoles(call) : r.role # call.role => r \in call.seen
    BY <1>6, <2>1
  <2>3. \A r \in call.seen : r.role # call.role => r \in NewRoles(call)
    BY <2>1
  <2>4. {r \in roles'[call.sub] : r.role # call.role /\ r.expire > now}
          = {r \in roles[call.sub] : r.role # call.role /\ r.expire > now}
    BY <1>3, <1>4, <2>2, <2>3 DEF Live
  <2>5. ASSUME call.expire > now PROVE own \in roles'[call.sub]
    BY <1>4, <1>6, <2>1, <2>5 DEF Live
  <2>6. ASSUME NEW r \in roles'[call.sub], r.role = call.role PROVE call.expire > now
    <3>1. r \in NewRoles(call) /\ r.expire > now
      BY <1>4, <2>6 DEF Live
    <3>2. CASE r = own
      BY <1>6, <3>1, <3>2
    <3>3. CASE r \in call.seen /\ r.expire <= call.expire
      BY <1>2, <1>5, <3>1, <3>3
    <3> QED
      BY <2>1, <2>6, <3>1, <3>2, <3>3
  <2> QED
    BY <1>1, <1>6, <1>8, <2>4, <2>5, <2>6
<1> QED
  BY <1>1, <1>7, <1>8 DEF IsRoleCall

(* The write of a permission call that was not overtaken, on the marker it  *)
(* names.                                                                   *)
LEMMA OwnPermission ==
    ASSUME IInv, NEW c \in CallIds, Write(c), ~calls[c].stale, ~IsRoleCall(calls[c])
    PROVE  LET call == calls[c]
               Rest(d) == Without(d[call.marker], call.permission)
           IN /\ Rest(docs') = Rest(docs)
              /\ (call.permission \in Range(docs'[call.marker]))
                   <=> (call.op = "policy.grantPermission")
<1>1. PICK call : call = calls[c]
  OBVIOUS
<1>2. /\ docs' = [docs EXCEPT ![call.marker] = NewPermissions(call)] /\ call.pc = "write"
      /\ AsksForPermission(call) /\ call.seen \in Seq(Permissions) /\ CallInv(call)
  BY <1>1, WriteCases
<1>3. call.seen = docs[call.marker]
  BY <1>1, <1>2 DEF CallInv, ReadIsCurrent
<1>4. docs'[call.marker] = NewPermissions(call)
  BY <1>2 DEF AsksForPermission, IInv, DocsInv
<1>5. call.permission \in Permissions
  BY <1>2 DEF AsksForPermission, Permissions
<1>6. CASE call.op = "policy.grantPermission"
  <2>1. NewPermissions(call) = Append(call.seen, call.permission)
    BY <1>6 DEF NewPermissions
  <2>2. Without(Append(call.seen, call.permission), call.permission)
          = Without(call.seen, call.permission)
    BY <1>2, <1>5, WithoutAppended
  <2>3. call.permission \in Range(Append(call.seen, call.permission))
    BY <1>2, <1>5, AppendedElements
  <2> QED
    BY <1>1, <1>3, <1>4, <1>6, <2>1, <2>2, <2>3
<1>7. CASE call.op # "policy.grantPermission"
  <2> DEFINE rest == Without(call.seen, call.permission)
  <2>1. NewPermissions(call) = rest
    BY <1>7 DEF NewPermissions
  <2>2. rest \in Seq(Permissions) /\ call.permission \notin Range(rest)
    BY <1>2, WithoutElements
  <2>3. Without(rest, call.permission) = rest
    <3> HIDE DEF rest
    <3> QED
      BY <2>2, WithoutAbsent
  <2> QED
    BY <1>1, <1>3, <1>4, <1>7, <2>1, <2>2, <2>3
<1> QED
  BY <1>6, <1>7

(* PolicyController.ts:208-400, 740-960. A call that no other call has      *)
(* overtaken changes the role or the permission it names and no other, for  *)
(* any number of concurrent calls.                                          *)
THEOREM WritesOnlyItsOwnHolds == Spec => WritesOnlyItsOwn
<1> DEFINE Own(c) ==
      At(c, "write") /\ calls'[c] = Done /\ ~calls[c].stale =>
          LET call == calls[c]
              Others(R) == {r \in R : r.role # call.role /\ r.expire > now}
              Rest(d) == Without(d[call.marker], call.permission)
          IN IF IsRoleCall(call)
               THEN /\ Others(roles'[call.sub]) = Others(roles[call.sub])
                    /\ (\E r \in roles'[call.sub] : r.role = call.role)
                          = (call.op = "role.grant" /\ call.expire > now)
               ELSE /\ Rest(docs') = Rest(docs)
                    /\ (call.permission \in Range(docs'[call.marker]))
                          = (call.op = "policy.grantPermission")
<1>1. ASSUME IInv, [Next]_vars, NEW c \in CallIds PROVE Own(c)
  <2>1. SUFFICES ASSUME calls[c].pc = "write", calls'[c] = Done, ~calls[c].stale PROVE Own(c)
    BY DEF At
  <2>2. Write(c)
    BY <1>1, <2>1, OnlyWriteEnds
  <2>3. CASE IsRoleCall(calls[c])
    BY <1>1, <2>1, <2>2, <2>3, OwnRole
  <2>4. CASE ~IsRoleCall(calls[c])
    BY <1>1, <2>1, <2>2, <2>4, OwnPermission
  <2> QED
    BY <2>3, <2>4
<1>2. IInv /\ [Next]_vars => [\A c \in CallIds : Own(c)]_vars
  BY <1>1
<1> QED
  BY <1>2, Invariance, PTL DEF Spec, WritesOnlyItsOwn

-----------------------------------------------------------------------------
(* SetToSeq, a CHOOSE in the library, lists exactly the elements of a       *)
(* finite set.                                                              *)
LEMMA ListOfSet ==
    ASSUME NEW S, IsFiniteSet(S)
    PROVE  SetToSeq(S) \in Seq(S) /\ Range(SetToSeq(S)) = S
<1>1. Cardinality(S) \in Nat /\ ExistsBijection(1 .. Cardinality(S), S)
  BY FS_CardinalityType
<1> DEFINE n == Cardinality(S)  f == SetToSeq(S)
<1>2. \E g \in [1 .. n -> S] : IsInjective(g)
  BY <1>1 DEF ExistsBijection, Bijection, Injection
<1>3. f \in [1 .. n -> S] /\ IsInjective(f)
  BY <1>2 DEF SetToSeq
<1> HIDE DEF f, n
<1>4. f \in Injection(1 .. n, S)
  BY <1>3 DEF Injection
<1>5. Cardinality(1 .. n) = n
  <2>1. Cardinality(1 .. n) = IF 1 > n THEN 0 ELSE n - 1 + 1
    BY <1>1, FS_Interval DEF n
  <2> QED
    BY <1>1, <2>1 DEF n
<1>6. f \in Surjection(1 .. n, S)
  BY <1>4, <1>5, FS_Injection DEF n
<1>7. f \in Seq(S)
  BY <1>1, <1>3 DEF n
<1>8. \A t \in S : \E k \in 1 .. n : f[k] = t
  BY <1>6 DEF Surjection
<1>9. Range(f) = S
  BY <1>3, <1>8 DEF Range
<1> QED
  BY <1>7, <1>9 DEF f

(* Every permission that a marker can have. *)
Listed == Range(DefaultAny) \cup Range(DefaultPublicRead) \cup Permissions

(* What the proofs of decisions use of a context. *)
IsContext(ctx) ==
    /\ \A m \in Marks : ctx.perms[m] \in Seq(Listed)
    /\ ctx.owner = Owner

(* The default policies: 22 permissions for admins, and no permission is    *)
(* for no role.                                                             *)
LEMMA DefaultsAreListed ==
    /\ DefaultAny \in Seq(Listed) /\ DefaultPublicRead \in Seq(Listed)
    /\ Len(DefaultAny) = 22 /\ \A k \in 1 .. 22 : DefaultAny[k].role = Admin
    /\ \A p \in Listed : p.role \in AllRoles /\ p.role # NoRole
<1>1. DOMAIN Types = 1 .. 22
  BY DEF Types
<1>2. ASSUME NEW t, NEW n \in Nat, DOMAIN t = 1 .. n, NEW r, NEW X,
             Range(Default(t, r)) \subseteq X
      PROVE  /\ Default(t, r) \in Seq(X) /\ Len(Default(t, r)) = n
             /\ \A k \in 1 .. n : Default(t, r)[k].role = r
             /\ \A p \in Range(Default(t, r)) : p.role = r
  <2> DEFINE d == Default(t, r)
  <2>2. DOMAIN d = 1 .. n /\ \A k \in 1 .. n : d[k].role = r
    BY <1>2 DEF Default
  <2>3. d = [k \in 1 .. n |-> d[k]]
    BY <1>2 DEF Default
  <2> HIDE DEF d
  <2>4. \A k \in 1 .. n : d[k] \in X
    BY <2>2, <1>2 DEF Range, d
  <2>5. d \in Seq(X) /\ Len(d) = n
    BY <1>2, <2>3, <2>4
  <2>6. \A p \in Range(d) : p.role = r
    BY <2>2 DEF Range
  <2> QED
    BY <2>2, <2>5, <2>6 DEF d
<1>3. DOMAIN <<"data.read", "data.list", "file.read", "event.count">> = 1 .. 4
  OBVIOUS
<1>4. /\ DefaultAny \in Seq(Listed) /\ Len(DefaultAny) = 22
      /\ \A k \in 1 .. 22 : DefaultAny[k].role = Admin
      /\ \A p \in Range(DefaultAny) : p.role = Admin
  <2>1. Range(DefaultAny) \subseteq Listed
    BY DEF Listed
  <2> QED
    BY <1>1, <1>2, <2>1 DEF DefaultAny
<1>5. /\ DefaultPublicRead \in Seq(Listed)
      /\ \A p \in Range(DefaultPublicRead) : p.role = Everyone
  <2>1. Range(DefaultPublicRead) \subseteq Listed
    BY DEF Listed
  <2> QED
    BY <1>2, <1>3, <2>1 DEF DefaultPublicRead
<1>6. \A p \in Listed : p.role \in AllRoles
  BY <1>4, <1>5, CallersAssumption DEF Listed, AllRoles
<1>7. NoRole \notin AllRoles
  BY PolicyAssumption DEF AllRoles, NoRole, Admin, Everyone
<1> QED
  BY <1>4, <1>5, <1>6, <1>7

(* The permissions of a marker begin with the default ones. *)
LEMMA PoliciesAreListed ==
    ASSUME DocsInv, NEW m \in Marks
    PROVE  /\ ListPoliciesForMarker(m) \in Seq(Listed)
           /\ \A k \in 1 .. 22 : k \in DOMAIN ListPoliciesForMarker(m)
                                 /\ ListPoliciesForMarker(m)[k] = DefaultAny[k]
<1>1. docs[m] \in Seq(Listed)
  <2>1. docs[m] \in Seq(Permissions) /\ Permissions \subseteq Listed
    BY DEF DocsInv, Listed
  <2>2. \A k \in 1 .. Len(docs[m]) : docs[m][k] \in Listed
    BY <2>1
  <2> QED
    BY <2>1, <2>2
<1> DEFINE a == DefaultAny  b == IF m = "publicRead" THEN DefaultPublicRead ELSE <<>>
<1>2. a \in Seq(Listed) /\ Len(a) = 22
  BY DefaultsAreListed
<1>3. b \in Seq(Listed)
  <2>1. <<>> \in Seq(Listed)
    OBVIOUS
  <2> QED
    BY <2>1, DefaultsAreListed
<1>4. ListPoliciesForMarker(m) = (a \o b) \o docs[m]
  BY DEF ListPoliciesForMarker
<1> HIDE DEF a, b
<1>5. ASSUME NEW x \in Seq(Listed), NEW y \in Seq(Listed), Len(x) >= 22
      PROVE  /\ x \o y \in Seq(Listed) /\ Len(x \o y) >= 22
             /\ \A k \in 1 .. 22 : k \in DOMAIN (x \o y) /\ (x \o y)[k] = x[k]
  <2>1. Len(x) \in Nat /\ Len(y) \in Nat
    OBVIOUS
  <2>2. /\ x \o y \in Seq(Listed) /\ Len(x \o y) = Len(x) + Len(y)
        /\ \A k \in 1 .. Len(x) : (x \o y)[k] = x[k]
    BY ConcatProperties
  <2>3. DOMAIN (x \o y) = 1 .. Len(x) + Len(y)
    BY <2>2
  <2>4. \A k \in 1 .. 22 : k \in 1 .. Len(x) /\ k \in 1 .. Len(x) + Len(y)
    BY <1>5, <2>1
  <2> QED
    BY <1>5, <2>1, <2>2, <2>3, <2>4
<1> DEFINE c == a \o b
<1>6. c \in Seq(Listed) /\ Len(c) >= 22 /\ \A k \in 1 .. 22 : c[k] = a[k]
  <2>1. Len(a) >= 22
    BY <1>2
  <2> QED
    BY <1>2, <1>3, <1>5, <2>1, Zenon
<1> HIDE DEF c
<1>7. /\ c \o docs[m] \in Seq(Listed)
      /\ \A k \in 1 .. 22 : k \in DOMAIN (c \o docs[m]) /\ (c \o docs[m])[k] = c[k]
  BY <1>1, <1>5, <1>6
<1> QED
  BY <1>4, <1>6, <1>7 DEF a, c

(* The context that a request reads is one. *)
LEMMA CurrentIsContext ==
    ASSUME DocsInv, NEW key \in BOOLEAN
    PROVE  /\ IsContext(CurrentContext(key)) /\ CurrentContext(key).key = key
           /\ \A m \in Marks : CurrentContext(key).perms[m] = ListPoliciesForMarker(m)
<1>1. \A m \in Marks : CurrentContext(key).perms[m] = ListPoliciesForMarker(m)
  BY DEF CurrentContext, Context
<1>2. CurrentContext(key).key = key /\ CurrentContext(key).owner = Owner
  BY DEF CurrentContext, Context
<1> QED
  BY <1>1, <1>2, PoliciesAreListed DEF IsContext

(* The search for a permission finds the first that passes, and a role if   *)
(* and only if there is one.                                                *)
LEMMA Found ==
    ASSUME NEW P \in Seq(Listed), NEW I \in SUBSET (1 .. Len(P)), NEW role,
           role = LET k == IF I # {} THEN Min(I) ELSE 0
                  IN IF k = 0 THEN NoRole ELSE P[k].role
    PROVE  /\ role # NoRole <=> I # {}
           /\ I # {} => \E k \in I : role = P[k].role /\ \A j \in I : k <= j
<1>1. CASE I = {}
  BY <1>1
<1>2. CASE I # {}
  <2>1. Len(P) \in Nat
    OBVIOUS
  <2>2. Min(I) \in I /\ \A j \in I : Min(I) <= j
    BY <1>2, <2>1, FirstIndex
  <2>3. Min(I) # 0 /\ Min(I) \in 1 .. Len(P)
    <3>1. Min(I) \in 1 .. Len(P)
      BY <2>2, Zenon
    <3> QED
      BY <2>1, <3>1
  <2>4. P[Min(I)] \in Listed
    BY <2>3
  <2> QED
    BY <1>2, <2>2, <2>3, <2>4, DefaultsAreListed
<1> QED
  BY <1>1, <1>2

-----------------------------------------------------------------------------
(* _byEveryoneRole, _byAdminRole and _bySubjectRole together pass the       *)
(* permissions of the roles that the subject may act under.                 *)
LEMMA FilterIsMayActUnder ==
    ASSUME NEW ctx, IsContext(ctx), NEW sub, NEW p \in Listed
    PROVE  DataFilter(ctx, sub, p) <=> p.role \in MayActUnder(ctx, sub)
<1>1. User(Owner) # Nobody
  BY PolicyAssumption DEF User, Nobody
<1>2. p.role \in AllRoles
  BY DefaultsAreListed
<1>3. ctx.owner = Owner
  BY DEF IsContext
<1> QED
  BY <1>1, <1>2, <1>3 DEF DataFilter, MayActUnder, ByAdminRole, ByRecordOwner, BySubjectRole

(* The first search, with no role yet: what it finds is the first           *)
(* permission of a role that the subject may act under.                     *)
LEMMA FirstAction ==
    ASSUME NEW ctx, IsContext(ctx), NEW sub, NEW m \in Marks, NEW type, NEW target,
           NEW role, role = FindAction(ctx, sub, m, type, target, NoRole)
    PROVE  /\ role # NoRole =>
                \E k \in DOMAIN ctx.perms[m] :
                  /\ role = ctx.perms[m][k].role /\ role \in MayActUnder(ctx, sub)
                  /\ Matches(ctx.perms[m][k], type, target)
                  /\ \A j \in DOMAIN ctx.perms[m] :
                       Matches(ctx.perms[m][j], type, target)
                         /\ ctx.perms[m][j].role \in MayActUnder(ctx, sub) => k <= j
           /\ (\E r \in MayActUnder(ctx, sub) : Grants(ctx, m, type, target, r))
                => role # NoRole
<1>1. PICK P : P = ctx.perms[m]
  OBVIOUS
<1>2. P \in Seq(Listed) /\ DOMAIN P = 1 .. Len(P) /\ \A k \in 1 .. Len(P) : P[k] \in Listed
  BY <1>1 DEF IsContext
<1> DEFINE I == {i \in 1 .. Len(P) : Matches(P[i], type, target) /\ DataFilter(ctx, sub, P[i])}
<1>3. role = LET k == IF I # {} THEN Min(I) ELSE 0 IN IF k = 0 THEN NoRole ELSE P[k].role
  BY <1>1 DEF FindAction, FindPermission, SelectInSeq
<1>4. I \in SUBSET (1 .. Len(P))
  OBVIOUS
<1>5. \A i \in 1 .. Len(P) : i \in I <=> /\ Matches(P[i], type, target)
                                         /\ P[i].role \in MayActUnder(ctx, sub)
  BY <1>2, FilterIsMayActUnder
<1> HIDE DEF I
<1>6. /\ role # NoRole <=> I # {}
      /\ I # {} => \E k \in I : role = P[k].role /\ \A j \in I : k <= j
  BY <1>2, <1>3, <1>4, Found
<1> QED
  BY <1>1, <1>2, <1>4, <1>5, <1>6 DEF Grants

(* The searches that follow find a permission for the role if and only if   *)
(* the marker grants one.                                                   *)
LEMMA FindForRole ==
    ASSUME NEW ctx, IsContext(ctx), NEW sub, NEW m \in Marks, NEW type, NEW target,
           NEW role, role # NoRole
    PROVE  FindAction(ctx, sub, m, type, target, role) # NoRole
             <=> Grants(ctx, m, type, target, role)
<1>1. PICK P : P = ctx.perms[m]
  OBVIOUS
<1>2. P \in Seq(Listed) /\ DOMAIN P = 1 .. Len(P)
  BY <1>1 DEF IsContext
<1> DEFINE I == {i \in 1 .. Len(P) : Matches(P[i], type, target) /\ P[i].role = role}
           found == FindAction(ctx, sub, m, type, target, role)
<1>3. found = LET k == IF I # {} THEN Min(I) ELSE 0 IN IF k = 0 THEN NoRole ELSE P[k].role
  BY <1>1 DEF FindAction, FindPermission, SelectInSeq
<1>4. I \in SUBSET (1 .. Len(P))
  OBVIOUS
<1>5. I # {} <=> Grants(ctx, m, type, target, role)
  BY <1>1, <1>2 DEF Grants
<1> HIDE DEF I, found
<1>6. found # NoRole <=> I # {}
  BY <1>2, <1>3, <1>4, Found
<1> QED
  BY <1>5, <1>6 DEF found

(* The search for policy.assign and policy.unassign. *)
LEMMA PolicyIsCovered ==
    ASSUME NEW ctx, IsContext(ctx), NEW m \in Marks, NEW type, NEW role
    PROVE  HasPolicy(ctx, m, type, role) <=> Covers(ctx, m, type, role)
<1>1. PICK P : P = ctx.perms[m]
  OBVIOUS
<1>2. P \in Seq(Listed) /\ DOMAIN P = 1 .. Len(P)
  BY <1>1 DEF IsContext
<1> DEFINE I == {i \in 1 .. Len(P) : Matches(P[i], type, m) /\ P[i].role \in {Everyone, role}}
           found == FindPermission(ctx.perms[m], SelectInSeq(ctx.perms[m],
                        LAMBDA p : Matches(p, type, m) /\ p.role \in {Everyone, role}))
<1>3. found = LET k == IF I # {} THEN Min(I) ELSE 0 IN IF k = 0 THEN NoRole ELSE P[k].role
  BY <1>1 DEF FindPermission, SelectInSeq
<1>4. I \in SUBSET (1 .. Len(P))
  OBVIOUS
<1>5. I # {} <=> Covers(ctx, m, type, role)
  BY <1>1, <1>2 DEF Covers, Grants
<1>6. HasPolicy(ctx, m, type, role) <=> found # NoRole
  BY DEF HasPolicy
<1> HIDE DEF I, found
<1>7. found # NoRole <=> I # {}
  BY <1>2, <1>3, <1>4, Found
<1> QED
  BY <1>5, <1>6, <1>7

(* role is the role that the loop over the markers settles on, if there is  *)
(* any to be found.                                                         *)
HeldRole(ctx, sub, markers, type, target, role) ==
    /\ role # NoRole => /\ role \in MayActUnder(ctx, sub)
                        /\ \E m \in Range(markers) :
                             /\ role = FindAction(ctx, sub, m, type, target, NoRole)
                             /\ Grants(ctx, m, type, target, role)
    /\ (\E m \in Range(markers), r \in MayActUnder(ctx, sub) :
          Grants(ctx, m, type, target, r)) => role # NoRole

(* The loop over the markers settles on a role that the subject may act     *)
(* under, and on none only if no marker grants any.                         *)
LEMMA FirstRoleIsHeld ==
    ASSUME NEW ctx, IsContext(ctx), NEW sub, NEW markers \in Seq(Marks), NEW type, NEW target
    PROVE  HeldRole(ctx, sub, markers, type, target,
                    FirstRole(ctx, sub, markers, type, target))
<1>0. PICK role : role = FirstRole(ctx, sub, markers, type, target)
  OBVIOUS
<1>1. /\ Len(markers) \in Nat /\ DOMAIN markers = 1 .. Len(markers)
      /\ \A k \in 1 .. Len(markers) : markers[k] \in Marks
  OBVIOUS
<1> DEFINE Find(m) == FindAction(ctx, sub, m, type, target, NoRole)
           I == {i \in 1 .. Len(markers) : Find(markers[i]) # NoRole}
<1>2. role = LET k == IF I # {} THEN Min(I) ELSE 0 IN IF k = 0 THEN NoRole ELSE Find(markers[k])
  BY <1>0 DEF FirstRole, SelectInSeq
<1>3. I \in SUBSET (1 .. Len(markers))
  OBVIOUS
<1>4. \A m \in Marks : Find(m) # NoRole => /\ Find(m) \in MayActUnder(ctx, sub)
                                           /\ Grants(ctx, m, type, target, Find(m))
  BY FirstAction DEF Grants
<1>5. \A m \in Marks, r \in MayActUnder(ctx, sub) :
        Grants(ctx, m, type, target, r) => Find(m) # NoRole
  BY FirstAction
<1> HIDE DEF Find
<1>6. CASE I = {}
  <2>1. role = NoRole
    BY <1>2, <1>6
  <2>2. \A m \in Range(markers) : m \in Marks /\ Find(m) = NoRole
    BY <1>1, <1>6 DEF Range
  <2> QED
    BY <1>0, <1>5, <2>1, <2>2 DEF HeldRole
<1>7. CASE I # {}
  <2>1. PICK k : k = Min(I)
    OBVIOUS
  <2>2. k \in I
    BY <1>1, <1>3, <1>7, <2>1, FirstIndex
  <2>3. k \in 1 .. Len(markers) /\ k # 0 /\ Find(markers[k]) # NoRole
    BY <1>1, <2>2
  <2>4. role = Find(markers[k]) /\ markers[k] \in Marks /\ markers[k] \in Range(markers)
    BY <1>1, <1>2, <1>7, <2>1, <2>3 DEF Range
  <2> QED
    BY <1>0, <1>4, <2>3, <2>4 DEF Find, HeldRole
<1> QED
  BY <1>6, <1>7

-----------------------------------------------------------------------------
(* The markers of an update. *)
IsUpdate(req) ==
    /\ req.action \in {"data.update", "file.update"}
    /\ Range(req.markers) = req.existing \cup req.added
    /\ req.removed \subseteq req.existing /\ req.removed \cap req.added = {}
    /\ req.existing # {} /\ (req.added # {} \/ req.existing # req.removed)
    /\ req.action = "file.update" => req.added # {} \/ req.removed # {}

(* A resource has at least one marker. *)
LEMMA ListsOfMarkers ==
    ASSUME NEW s \in MarkerLists
    PROVE  s \in Seq(Marks) /\ s # <<>> /\ Range(s) # {}
<1>1. ASSUME NEW m \in Marks, s = <<m>> PROVE s \in Seq(Marks) /\ Len(s) = 1
  BY <1>1
<1>2. ASSUME s \in Marks \X Marks PROVE s \in Seq(Marks) /\ Len(s) = 2
  <2>1. PICK a \in Marks, b \in Marks : s = <<a, b>>
    BY <1>2
  <2> QED
    BY <2>1
<1>3. s \in Seq(Marks) /\ Len(s) \in {1, 2}
  BY <1>1, <1>2 DEF MarkerLists
<1>4. 1 \in DOMAIN s
  BY <1>3
<1>5. s[1] \in Range(s) /\ s # <<>>
  BY <1>3, <1>4 DEF Range
<1> QED
  BY <1>3, <1>5

(* A request comes from a user or nobody, and from at most one inst. *)
LEMMA SomeParty ==
    ASSUME NEW p \in Parties
    PROVE  /\ p.user \in Subjects \cup {Nobody} /\ p.insts \subseteq Subjects
           /\ IsFiniteSet(p.insts) /\ Cardinality(p.insts) <= 1
<1>1. p.user \in {User(u) : u \in Users} \cup {Nobody}
  BY DEF Parties
<1>2. p.insts \in {{}} \cup {{Inst(i)} : i \in Insts}
  BY DEF Parties
<1>3. CASE p.insts = {}
  BY <1>1, <1>3, FS_EmptySet DEF Subjects
<1>4. ASSUME NEW i \in Insts, p.insts = {Inst(i)}
      PROVE  p.insts \subseteq Subjects /\ IsFiniteSet(p.insts) /\ Cardinality(p.insts) <= 1
  <2>1. IsFiniteSet({Inst(i)}) /\ Cardinality({Inst(i)}) = 1
    BY FS_Singleton
  <2> QED
    BY <1>4, <2>1 DEF Subjects
<1> QED
  BY <1>1, <1>2, <1>3, <1>4 DEF Subjects

(* What the requests have in common. *)
LEMMA RequestShape ==
    ASSUME NEW req \in Requests
    PROVE  /\ req.markers \in Seq(Marks) /\ req.markers # <<>> /\ req.target \in Addresses
           /\ req.user \in Subjects \cup {Nobody} /\ req.insts \subseteq Subjects
           /\ IsFiniteSet(req.insts) /\ Cardinality(req.insts) <= 1
           /\ req.action \in {"data.read", "data.create"} \/ IsUpdate(req)
<1>1. ASSUME req \in ResourceRequests
      PROVE  \E p \in Parties :
               /\ req.user = p.user /\ req.insts = p.insts /\ req.target \in Addresses
               /\ req.markers \in MarkerLists /\ req.action \in {"data.read", "data.create"}
  <2>1. PICK a \in {"data.read", "data.create"}, t \in Addresses, ms \in MarkerLists,
             p \in Parties :
           req = [action |-> a, target |-> t, markers |-> ms, user |-> p.user, insts |-> p.insts]
    BY <1>1 DEF ResourceRequests
  <2> QED
    BY <2>1
<1>2. ASSUME req \in UpdateRequests, req.action = "data.update" \/ req.added \cup req.removed # {}
      PROVE  \E p \in Parties :
               /\ req.user = p.user /\ req.insts = p.insts /\ req.target \in Addresses
               /\ req.markers \in Seq(Marks) /\ req.markers # <<>> /\ IsUpdate(req)
  <2>1. PICK a \in {"data.update", "file.update"}, t \in Addresses, p \in Parties,
             old \in MarkerLists, new \in (SUBSET Marks) \ {{}} :
           req = UpdateRequest(a, t, p, old, new)
    BY <1>2 DEF UpdateRequests
  <2> DEFINE added == new \ Range(old)  rest == SetToSeq(added)
  <2>2. /\ req.action = a /\ req.target = t /\ req.user = p.user /\ req.insts = p.insts
        /\ req.existing = Range(old) /\ req.added = added /\ req.removed = Range(old) \ new
        /\ req.markers = old \o rest
    BY <2>1 DEF UpdateRequest
  <2>3. added \subseteq Marks /\ IsFiniteSet(added)
    <3>1. IsFiniteSet(Marks)
      BY PolicyAssumption
    <3>2. added \in SUBSET Marks
      OBVIOUS
    <3> HIDE DEF added
    <3> QED
      BY <3>1, <3>2, FS_Subset
  <2>4. rest \in Seq(added) /\ Range(rest) = added
    <3> HIDE DEF added
    <3> QED
      BY <2>3, ListOfSet
  <2>5. rest \in Seq(Marks) /\ old \in Seq(Marks) /\ old # <<>> /\ Range(old) # {}
    <3>1. \A k \in 1 .. Len(rest) : rest[k] \in Marks
      BY <2>3, <2>4
    <3> QED
      BY <2>4, <3>1, ListsOfMarkers
  <2> HIDE DEF rest
  <2>6. /\ old \o rest \in Seq(Marks) /\ old \o rest # <<>>
        /\ Range(old \o rest) = Range(old) \cup Range(rest)
    <3>1. /\ Len(old) \in Nat /\ Len(rest) \in Nat /\ Len(old) # 0
          /\ DOMAIN old = 1 .. Len(old) /\ DOMAIN rest = 1 .. Len(rest)
      BY <2>5
    <3>2. /\ old \o rest \in Seq(Marks) /\ Len(old \o rest) = Len(old) + Len(rest)
          /\ \A i \in 1 .. Len(old) + Len(rest) :
               (old \o rest)[i] = IF i <= Len(old) THEN old[i] ELSE rest[i - Len(old)]
      BY <2>5, ConcatProperties
    <3> DEFINE all == old \o rest
    <3>3. DOMAIN all = 1 .. Len(old) + Len(rest) /\ all # <<>>
      BY <3>1, <3>2
    <3> HIDE DEF all
    <3>4. \A i \in 1 .. Len(old) : i \in DOMAIN all /\ all[i] = old[i]
      BY <3>1, <3>2, <3>3 DEF all
    <3>5. \A i \in 1 .. Len(rest) : i + Len(old) \in DOMAIN all /\ all[i + Len(old)] = rest[i]
      BY <3>1, <3>2, <3>3 DEF all
    <3>6. \A i \in DOMAIN all : (i \in 1 .. Len(old) /\ all[i] = old[i])
                                \/ (i - Len(old) \in 1 .. Len(rest) /\ all[i] = rest[i - Len(old)])
      BY <3>1, <3>2, <3>3 DEF all
    <3>7. Range(all) = Range(old) \cup Range(rest)
      BY <3>1, <3>4, <3>5, <3>6 DEF Range
    <3> QED
      BY <3>2, <3>3, <3>7 DEF all
  <2>7. new # {} /\ new \subseteq Marks
    OBVIOUS
  <2>8. IsUpdate(req)
    <3>1. Range(req.markers) = req.existing \cup req.added
      BY <2>2, <2>4, <2>6
    <3>2. req.added # {} \/ req.existing # req.removed
      BY <2>2, <2>7
    <3>3. req.action = "file.update" => req.added # {} \/ req.removed # {}
      BY <1>2, <2>2
    <3> QED
      BY <2>2, <2>5, <3>1, <3>2, <3>3 DEF IsUpdate
  <2> QED
    BY <2>2, <2>6, <2>8
<1>3. CASE req \in ResourceRequests
  <2>1. PICK p \in Parties :
               /\ req.user = p.user /\ req.insts = p.insts /\ req.target \in Addresses
               /\ req.markers \in MarkerLists /\ req.action \in {"data.read", "data.create"}
    BY <1>1, <1>3
  <2> QED
    BY <2>1, ListsOfMarkers, SomeParty
<1>4. CASE req \in UpdateRequests /\ (req.action = "data.update" \/ req.added \cup req.removed # {})
  <2>1. PICK p \in Parties :
               /\ req.user = p.user /\ req.insts = p.insts /\ req.target \in Addresses
               /\ req.markers \in Seq(Marks) /\ req.markers # <<>> /\ IsUpdate(req)
    BY <1>2, <1>4
  <2> QED
    BY <2>1, SomeParty
<1> QED
  BY <1>3, <1>4 DEF Requests

-----------------------------------------------------------------------------
(* Which loop decides which action. *)
LEMMA SubjectCases ==
    ASSUME NEW ctx, NEW req, NEW sub
    PROVE  /\ req.action = "data.read" =>
                AuthorizeSubject(ctx, req, sub) = AuthorizeAny(ctx, req, sub)
           /\ req.action = "data.create" =>
                AuthorizeSubject(ctx, req, sub) = AuthorizeAll(ctx, req, sub)
           /\ req.action = "data.update" =>
                AuthorizeSubject(ctx, req, sub)
                  = (WillMarkersBeRemaining(req) /\ AuthorizeUpdate(ctx, req, sub))
           /\ req.action = "file.update" =>
                AuthorizeSubject(ctx, req, sub)
                  = (WillMarkersBeRemaining(req) /\ AuthorizeFileUpdate(ctx, req, sub))
           /\ req.action \in {"data.read", "data.create", "data.update", "file.update"} =>
                req.action \notin AccountActions
  BY DEF AuthorizeSubject, AnyActions, AllActions, UpdateActions, AccountActions

(* The markers that the loop collects are those that grant the action to    *)
(* the role.                                                                *)
LEMMA HavingIsGranted ==
    ASSUME NEW ctx, IsContext(ctx), NEW sub, NEW markers \in Seq(Marks), NEW type, NEW target,
           NEW role, role # NoRole
    PROVE  Having(ctx, sub, markers, type, target, role)
             = {m \in Range(markers) : Grants(ctx, m, type, target, role)}
<1>1. \A m \in Range(markers) : m \in Marks
  BY DEF Range
<1>2. \A m \in Range(markers) : FindAction(ctx, sub, m, type, target, role) # NoRole
                                   <=> Grants(ctx, m, type, target, role)
  BY <1>1, FindForRole
<1> QED
  BY <1>2 DEF Having

(* Where one marker is enough, some marker has a permission exactly if the  *)
(* loop settles on a role.                                                  *)
LEMMA AnyIsFirst ==
    ASSUME NEW ctx, IsContext(ctx), NEW req, req.markers \in Seq(Marks), NEW sub
    PROVE  AuthorizeAny(ctx, req, sub)
             <=> FirstRole(ctx, sub, req.markers, req.action, req.target) # NoRole
<1>1. PICK type : type = req.action
  OBVIOUS
<1>2. PICK target : target = req.target
  OBVIOUS
<1>3. PICK markers \in Seq(Marks) : markers = req.markers
  OBVIOUS
<1> DEFINE role == FirstRole(ctx, sub, markers, type, target)
           Find(m) == FindAction(ctx, sub, m, type, target, NoRole)
<1>4. HeldRole(ctx, sub, markers, type, target, role)
  BY FirstRoleIsHeld
<1>5. AuthorizeAny(ctx, req, sub) <=> \E m \in Range(markers) : Find(m) # NoRole
  BY <1>1, <1>2, <1>3 DEF AuthorizeAny
<1>6. \A m \in Range(markers) : m \in Marks
  BY DEF Range
<1>7. \A m \in Marks : Find(m) # NoRole => /\ Find(m) \in MayActUnder(ctx, sub)
                                           /\ Grants(ctx, m, type, target, Find(m))
  BY FirstAction DEF Grants
<1> HIDE DEF role
<1>8. role # NoRole => \E m \in Range(markers) : Find(m) # NoRole
  BY <1>4 DEF HeldRole
<1> HIDE DEF Find
<1>9. (\E m \in Range(markers) : Find(m) # NoRole) => role # NoRole
  BY <1>4, <1>6, <1>7 DEF HeldRole
<1> QED
  BY <1>1, <1>2, <1>3, <1>5, <1>8, <1>9 DEF role

(* For one subject: what the loops allow is covered by one role that it may *)
(* act under, and for a read they allow all of that.                        *)
LEMMA SubjectIsJustified ==
    ASSUME NEW ctx, IsContext(ctx), NEW req \in Requests, NEW sub
    PROVE  IF req.action = "data.read"
             THEN AuthorizeSubject(ctx, req, sub) <=> Justified(ctx, req, sub)
             ELSE AuthorizeSubject(ctx, req, sub) => Justified(ctx, req, sub)
<1> DEFINE Act(m, r) == Grants(ctx, m, req.action, req.target, r)
           Assign(m, r) == Covers(ctx, m, "policy.assign", r)
           Unassign(m, r) == Covers(ctx, m, "policy.unassign", r)
           on == Range(req.markers)
           may == MayActUnder(ctx, sub)
           role == FirstRole(ctx, sub, req.markers, req.action, req.target)
           having == Having(ctx, sub, req.markers, req.action, req.target, role)
<1>1. /\ req.markers \in Seq(Marks) /\ on \subseteq Marks
      /\ req.action \in {"data.read", "data.create"} \/ IsUpdate(req)
  BY RequestShape DEF Range
<1>2. /\ role # NoRole => role \in may /\ \E m \in on : Act(m, role)
      /\ (\E m \in on, r \in may : Act(m, r)) => role # NoRole
  <2>1. HeldRole(ctx, sub, req.markers, req.action, req.target, role)
    BY <1>1, FirstRoleIsHeld
  <2> QED
    BY <2>1 DEF HeldRole
<1>3. ASSUME role # NoRole PROVE having = {m \in on : Act(m, role)}
  BY <1>1, <1>3, HavingIsGranted
<1>4. \A m \in on : \A r :
          /\ HasPolicy(ctx, m, "policy.assign", r) <=> Assign(m, r)
          /\ HasPolicy(ctx, m, "policy.unassign", r) <=> Unassign(m, r)
  BY <1>1, PolicyIsCovered
<1>5. CASE req.action = "data.read"
  <2>1. AuthorizeSubject(ctx, req, sub) <=> role # NoRole
    BY <1>1, <1>5, SubjectCases, AnyIsFirst
  <2>2. Justified(ctx, req, sub) <=> \E r \in may : \E m \in on : Act(m, r)
    BY <1>5 DEF Justified
  <2> HIDE DEF Act, on, may, role
  <2>3. role # NoRole <=> \E r \in may : \E m \in on : Act(m, r)
    BY <1>2
  <2> QED
    BY <1>5, <2>1, <2>2, <2>3
<1>6. CASE req.action = "data.create"
  <2>1. SUFFICES ASSUME AuthorizeAll(ctx, req, sub) PROVE Justified(ctx, req, sub)
    BY <1>6, SubjectCases
  <2>2. /\ role # NoRole /\ on \subseteq having
        /\ \A m \in on : HasPolicy(ctx, m, "policy.assign", role)
    BY <2>1 DEF AuthorizeAll
  <2>3. Justified(ctx, req, sub) <=> \E r \in may : \A m \in on : Act(m, r) /\ Assign(m, r)
    BY <1>6 DEF Justified
  <2> HIDE DEF Act, Assign, on, may, role, having
  <2> QED
    BY <1>2, <1>3, <1>4, <2>2, <2>3
<1>7. CASE req.action = "data.update"
  <2>1. SUFFICES ASSUME AuthorizeUpdate(ctx, req, sub) PROVE Justified(ctx, req, sub)
    BY <1>7, SubjectCases
  <2>2. /\ role # NoRole /\ (req.added \cup req.removed) \cap on \subseteq having
        /\ \A m \in having : MayChange(ctx, req, m, role)
        /\ having \cap req.existing # {} \/ on \subseteq having
    BY <2>1 DEF AuthorizeUpdate
  <2>3. Justified(ctx, req, sub)
          <=> \E r \in may : /\ \E m \in req.existing : Act(m, r)
                             /\ \A m \in req.added : Act(m, r) /\ Assign(m, r)
                             /\ \A m \in req.removed : Act(m, r) /\ Unassign(m, r)
    BY <1>7 DEF Justified
  <2>4. /\ on = req.existing \cup req.added /\ req.removed \subseteq req.existing
        /\ req.removed \cap req.added = {} /\ req.existing # {}
    BY <1>1, <1>7 DEF IsUpdate
  <2> HIDE DEF Act, Assign, Unassign, on, may, role, having
  <2>5. \E m \in req.existing : Act(m, role)
    BY <1>3, <2>2, <2>4
  <2>6. ASSUME NEW m \in req.added PROVE Act(m, role) /\ Assign(m, role)
    <3>1. m \in having /\ m \in on
      BY <2>2, <2>4
    <3> QED
      BY <1>3, <1>4, <2>2, <3>1 DEF MayChange
  <2>7. ASSUME NEW m \in req.removed PROVE Act(m, role) /\ Unassign(m, role)
    <3>1. m \in having /\ m \in on /\ m \in req.removed \ req.added
      BY <2>2, <2>4
    <3> QED
      BY <1>3, <1>4, <2>2, <3>1 DEF MayChange
  <2> QED
    BY <1>2, <2>2, <2>3, <2>5, <2>6, <2>7
<1>8. CASE req.action = "file.update"
  <2>1. SUFFICES ASSUME AuthorizeFileUpdate(ctx, req, sub) PROVE Justified(ctx, req, sub)
    BY <1>8, SubjectCases
  <2>2. /\ role # NoRole /\ on \subseteq having
        /\ \A m \in on : MayChange(ctx, req, m, role)
    BY <2>1 DEF AuthorizeFileUpdate
  <2>3. Justified(ctx, req, sub)
          <=> \E r \in may : /\ \A m \in on : Act(m, r)
                             /\ \A m \in req.added : Act(m, r) /\ Assign(m, r)
                             /\ \A m \in req.removed : Act(m, r) /\ Unassign(m, r)
    BY <1>8 DEF Justified
  <2>4. /\ on = req.existing \cup req.added /\ req.removed \subseteq req.existing
        /\ req.removed \cap req.added = {}
    BY <1>1, <1>8 DEF IsUpdate
  <2> HIDE DEF Act, Assign, Unassign, on, may, role, having
  <2>6. ASSUME NEW m \in req.added PROVE Act(m, role) /\ Assign(m, role)
    <3>1. m \in having /\ m \in on
      BY <2>2, <2>4
    <3> QED
      BY <1>3, <1>4, <2>2, <3>1 DEF MayChange
  <2>7. ASSUME NEW m \in req.removed PROVE Act(m, role) /\ Unassign(m, role)
    <3>1. m \in having /\ m \in on /\ m \in req.removed \ req.added
      BY <2>2, <2>4
    <3> QED
      BY <1>3, <1>4, <2>2, <3>1 DEF MayChange
  <2>8. \A m \in on : Act(m, role)
    BY <1>3, <2>2
  <2> QED
    BY <1>2, <2>2, <2>3, <2>6, <2>7, <2>8
<1> QED
  BY <1>1, <1>5, <1>6, <1>7, <1>8 DEF IsUpdate

(* The early refusals do not concern these requests, and which insts are    *)
(* checked depends on the record key alone.                                 *)
LEMMA InstsChecked ==
    ASSUME NEW ctx, NEW req \in Requests
    PROVE  /\ Cardinality(req.insts) <= MaxAllowedInstances /\ req.markers # <<>>
           /\ InstsToCheck(ctx, req) = IF ctx.key THEN {} ELSE req.insts
<1>1. /\ Cardinality(req.insts) <= 1 /\ IsFiniteSet(req.insts) /\ req.markers # <<>>
      /\ req.action \in {"data.read", "data.create", "data.update", "file.update"}
  BY RequestShape DEF IsUpdate
<1>2. Cardinality(req.insts) \in Nat
  BY <1>1, FS_CardinalityType
<1>3. req.action \notin AccountActions
  BY <1>1, SubjectCases
<1> QED
  BY <1>1, <1>2, <1>3, InstancesAssumption DEF InstsToCheck

(* AllowedIsJustified from the invariant. *)
LEMMA AllowedNow == ASSUME IInv PROVE AllowedIsJustified
<1>1. SUFFICES ASSUME NEW key \in BOOLEAN, NEW req \in Requests
      PROVE  LET ctx == CurrentContext(key)
                 justified == /\ Justified(ctx, req, req.user)
                              /\ key \/ \A i \in req.insts : Justified(ctx, req, i)
             IN IF req.action = "data.read" THEN AuthorizeRequest(ctx, req) <=> justified
                ELSE AuthorizeRequest(ctx, req) => justified
  BY DEF AllowedIsJustified, AuthorizeRequest
<1>2. PICK ctx : ctx = CurrentContext(key)
  OBVIOUS
<1>3. IsContext(ctx) /\ ctx.key = key
  BY <1>2, CurrentIsContext DEF IInv
<1>4. /\ Cardinality(req.insts) <= MaxAllowedInstances /\ req.markers # <<>>
      /\ InstsToCheck(ctx, req) = IF key THEN {} ELSE req.insts
  BY <1>3, InstsChecked
<1>5. AuthorizeRequest(ctx, req) <=> /\ AuthorizeSubject(ctx, req, req.user)
                                     /\ key \/ \A i \in req.insts : AuthorizeSubject(ctx, req, i)
  BY <1>4 DEF AuthorizeRequest
<1>6. ASSUME NEW sub
      PROVE  IF req.action = "data.read"
               THEN AuthorizeSubject(ctx, req, sub) <=> Justified(ctx, req, sub)
               ELSE AuthorizeSubject(ctx, req, sub) => Justified(ctx, req, sub)
  BY <1>3, SubjectIsJustified
<1> QED
  BY <1>2, <1>5, <1>6

(* PolicyController.ts _authorizeRequest. Whatever was granted and revoked  *)
(* before, in whatever order, a request is allowed only if there is one     *)
(* role that its user may act under, and one for every inst it comes from,  *)
(* whose permissions cover every marker the action needs; for a read that   *)
(* is also enough.                                                          *)
THEOREM AllowedIsJustifiedHolds == Spec => []AllowedIsJustified
  BY AllowedNow, Invariance, PTL

-----------------------------------------------------------------------------
(* The types of permission that the requests need. *)
ResourceTypes == {"data.read", "data.create", "data.update", "file.update",
                  "policy.assign", "policy.unassign"}

(* The default policy has each of them for admins, on everything. *)
LEMMA DefaultGrants ==
    ASSUME NEW type \in ResourceTypes
    PROVE  \E i \in 1 .. 22 : /\ DefaultAny[i].type = type /\ DefaultAny[i].role = Admin
                              /\ DefaultAny[i].scope = Addresses \cup Marks \cup {Account}
<1>1. DOMAIN Types = 1 .. 22
  BY DEF Types
<1>2. /\ Types[1] = "data.create" /\ Types[2] = "data.read" /\ Types[3] = "data.update"
      /\ Types[9] = "file.update" /\ Types[15] = "policy.assign" /\ Types[16] = "policy.unassign"
  BY DEF Types
<1>3. \E i \in 1 .. 22 : Types[i] = type
  BY <1>2 DEF ResourceTypes
<1>4. AllTargets(type) = Addresses \cup Marks \cup {Account}
  BY DEF AllTargets, ResourceTypes
<1>5. \A i \in 1 .. 22 : DefaultAny[i] = [type |-> Types[i], role |-> Admin,
                                         scope |-> AllTargets(Types[i])]
  BY <1>1 DEF DefaultAny, Default
<1> QED
  BY <1>3, <1>4, <1>5

(* Every marker grants them to admins. *)
LEMMA AdminGranted ==
    ASSUME IInv, NEW key \in BOOLEAN, NEW m \in Marks, NEW type \in ResourceTypes,
           NEW target \in Addresses \cup Marks
    PROVE  Grants(CurrentContext(key), m, type, target, Admin)
<1>1. PICK P : P = CurrentContext(key).perms[m]
  OBVIOUS
<1>2. \A k \in 1 .. 22 : k \in DOMAIN P /\ P[k] = DefaultAny[k]
  BY <1>1, CurrentIsContext, PoliciesAreListed DEF IInv
<1>3. PICK i \in 1 .. 22 : /\ DefaultAny[i].type = type /\ DefaultAny[i].role = Admin
                           /\ DefaultAny[i].scope = Addresses \cup Marks \cup {Account}
  BY DefaultGrants
<1>4. i \in DOMAIN P /\ P[i].role = Admin /\ Matches(P[i], type, target)
  BY <1>2, <1>3 DEF Matches
<1> QED
  BY <1>1, <1>4 DEF Grants

(* For the owner, and with a record key, the first search finds the admin   *)
(* role: its permissions come first, and the owner passes every filter.     *)
LEMMA AdminIsFirst ==
    ASSUME IInv, NEW key \in BOOLEAN, NEW sub, key \/ sub = User(Owner),
           NEW m \in Marks, NEW type \in ResourceTypes, NEW target \in Addresses
    PROVE  /\ Admin \in MayActUnder(CurrentContext(key), sub)
           /\ FindAction(CurrentContext(key), sub, m, type, target, NoRole) = Admin
<1>1. PICK ctx : ctx = CurrentContext(key)
  OBVIOUS
<1>2. IsContext(ctx) /\ ctx.key = key
  BY <1>1, CurrentIsContext DEF IInv
<1>3. Admin \in MayActUnder(ctx, sub)
  BY <1>2 DEF MayActUnder, AllRoles
<1>4. PICK P : P = ctx.perms[m]
  OBVIOUS
<1>5. \A k \in 1 .. 22 : k \in DOMAIN P /\ P[k] = DefaultAny[k]
  BY <1>1, <1>4, CurrentIsContext, PoliciesAreListed DEF IInv
<1>6. PICK i \in 1 .. 22 : /\ DefaultAny[i].type = type /\ DefaultAny[i].role = Admin
                           /\ DefaultAny[i].scope = Addresses \cup Marks \cup {Account}
  BY DefaultGrants
<1>7. i \in DOMAIN P /\ P[i].role = Admin /\ Matches(P[i], type, target)
  BY <1>5, <1>6 DEF Matches
<1>8. PICK role : role = FindAction(ctx, sub, m, type, target, NoRole)
  OBVIOUS
<1>9. Grants(ctx, m, type, target, Admin)
  BY <1>1, AdminGranted
<1>10. role # NoRole
  BY <1>2, <1>3, <1>8, <1>9, FirstAction
<1>11. PICK k \in DOMAIN P :
         /\ role = P[k].role
         /\ \A j \in DOMAIN P : Matches(P[j], type, target) /\ P[j].role \in MayActUnder(ctx, sub)
                                   => k <= j
  BY <1>2, <1>4, <1>8, <1>10, FirstAction
<1>12. k \in 1 .. 22
  <2>1. k <= i
    BY <1>3, <1>7, <1>11
  <2>2. k \in Nat /\ k >= 1
    BY <1>2, <1>4 DEF IsContext
  <2> QED
    BY <2>1, <2>2
<1>13. role = Admin
  BY <1>5, <1>11, <1>12, DefaultsAreListed
<1> QED
  BY <1>1, <1>3, <1>8, <1>13

(* So everything that follows is asked of the admin role, which has it all. *)
LEMMA AdminMayAll ==
    ASSUME IInv, NEW key \in BOOLEAN, NEW sub, key \/ sub = User(Owner), NEW req \in Requests
    PROVE  AuthorizeSubject(CurrentContext(key), req, sub)
<1>1. PICK ctx : ctx = CurrentContext(key)
  OBVIOUS
<1>2. IsContext(ctx)
  BY <1>1, CurrentIsContext DEF IInv
<1> DEFINE on == Range(req.markers)
           role == FirstRole(ctx, sub, req.markers, req.action, req.target)
           having == Having(ctx, sub, req.markers, req.action, req.target, role)
<1>3. /\ req.markers \in Seq(Marks) /\ on \subseteq Marks /\ on # {} /\ req.target \in Addresses
      /\ req.action \in {"data.read", "data.create"} \/ IsUpdate(req)
  <2>1. /\ req.markers \in Seq(Marks) /\ req.markers # <<>> /\ req.target \in Addresses
        /\ req.action \in {"data.read", "data.create"} \/ IsUpdate(req)
    BY RequestShape
  <2>2. PICK ms \in Seq(Marks) : ms = req.markers
    BY <2>1
  <2>3. 1 \in DOMAIN ms /\ \A k \in DOMAIN ms : ms[k] \in Marks
    BY <2>1, <2>2
  <2>4. Range(ms) \subseteq Marks /\ ms[1] \in Range(ms)
    BY <2>3 DEF Range
  <2>5. on \subseteq Marks /\ on # {}
    BY <2>2, <2>4
  <2> QED
    BY <2>1, <2>5
<1>4. req.action \in ResourceTypes
  BY <1>3 DEF IsUpdate, ResourceTypes
<1>5. \A m \in on : Grants(ctx, m, req.action, req.target, Admin)
  BY <1>1, <1>3, <1>4, AdminGranted
<1>6. \A m \in on : FindAction(ctx, sub, m, req.action, req.target, NoRole) = Admin
  BY <1>1, <1>3, <1>4, AdminIsFirst
<1>7. Admin \in MayActUnder(ctx, sub)
  BY <1>1, <1>3, <1>4, AdminIsFirst
<1>8. HeldRole(ctx, sub, req.markers, req.action, req.target, role)
  BY <1>2, <1>3, FirstRoleIsHeld
<1>9. role = Admin /\ role # NoRole
  <2> HIDE DEF role
  <2>1. role # NoRole
    BY <1>3, <1>5, <1>7, <1>8 DEF HeldRole
  <2> QED
    BY <1>6, <1>8, <2>1 DEF HeldRole
<1>10. having = on
  <2>1. having = {m \in on : Grants(ctx, m, req.action, req.target, role)}
    BY <1>2, <1>3, <1>9, HavingIsGranted
  <2> HIDE DEF having, role
  <2> QED
    BY <1>5, <1>9, <2>1
<1>11. \A m \in on : /\ HasPolicy(ctx, m, "policy.assign", role)
                     /\ HasPolicy(ctx, m, "policy.unassign", role)
  <2>1. ASSUME NEW m \in on, NEW type \in {"policy.assign", "policy.unassign"}
        PROVE  HasPolicy(ctx, m, type, Admin)
    <3>1. Grants(ctx, m, type, m, Admin)
      BY <1>1, <1>3, AdminGranted DEF ResourceTypes
    <3>2. m \in Marks
      BY <1>3
    <3> QED
      BY <1>2, <3>1, <3>2, PolicyIsCovered DEF Covers
  <2> HIDE DEF role
  <2> QED
    BY <1>9, <2>1
<1>12. CASE req.action = "data.read"
  BY <1>1, <1>2, <1>3, <1>9, <1>12, SubjectCases, AnyIsFirst
<1>13. CASE req.action = "data.create"
  <2>1. AuthorizeAll(ctx, req, sub)
    BY <1>9, <1>10, <1>11 DEF AuthorizeAll
  <2> QED
    BY <1>1, <1>13, <2>1, SubjectCases
<1>14. ASSUME IsUpdate(req)
       PROVE  WillMarkersBeRemaining(req) /\ \A m \in on : MayChange(ctx, req, m, role)
  BY <1>11, <1>14 DEF IsUpdate, WillMarkersBeRemaining, MayChange
<1>15. CASE req.action = "data.update"
  <2>1. IsUpdate(req)
    BY <1>3, <1>15
  <2>2. AuthorizeUpdate(ctx, req, sub)
    BY <1>9, <1>10, <1>14, <2>1 DEF AuthorizeUpdate
  <2> QED
    BY <1>1, <1>14, <1>15, <2>1, <2>2, SubjectCases
<1>16. CASE req.action = "file.update"
  <2>1. IsUpdate(req) /\ (req.added # {} \/ req.removed # {})
    BY <1>3, <1>16 DEF IsUpdate
  <2>2. AuthorizeFileUpdate(ctx, req, sub)
    BY <1>9, <1>10, <1>14, <2>1 DEF AuthorizeFileUpdate
  <2> QED
    BY <1>1, <1>14, <1>16, <2>1, <2>2, SubjectCases
<1> QED
  BY <1>3, <1>12, <1>13, <1>15, <1>16 DEF IsUpdate

(* OwnerKeepsControl from the invariant. *)
LEMMA OwnerNow == ASSUME IInv PROVE OwnerKeepsControl
<1>1. SUFFICES ASSUME NEW key \in BOOLEAN, NEW req \in Requests,
                      key \/ (req.user = User(Owner) /\ req.insts = {})
      PROVE  AuthorizeRequest(CurrentContext(key), req)
  BY DEF OwnerKeepsControl
<1>2. PICK ctx : ctx = CurrentContext(key)
  OBVIOUS
<1>3. ctx.key = key
  BY <1>2, CurrentIsContext DEF IInv
<1>4. /\ Cardinality(req.insts) <= MaxAllowedInstances /\ req.markers # <<>>
      /\ InstsToCheck(ctx, req) = IF key THEN {} ELSE req.insts
  BY <1>3, InstsChecked
<1>5. AuthorizeSubject(ctx, req, req.user)
  BY <1>1, <1>2, AdminMayAll
<1> QED
  BY <1>1, <1>2, <1>4, <1>5 DEF AuthorizeRequest

(* PolicyController.ts:3624, MongoDBPolicyStore.ts:35. Whatever was granted *)
(* and revoked, the owner of the record, and whoever has its key, can do    *)
(* everything.                                                              *)
THEOREM OwnerKeepsControlHolds == Spec => []OwnerKeepsControl
  BY OwnerNow, Invariance, PTL

-----------------------------------------------------------------------------
(* An item that is listed for a subject, under the role that some item of   *)
(* the list settled, is listed for it when it is asked for alone.           *)
LEMMA ListedAlone ==
    ASSUME NEW ctx, IsContext(ctx), NEW sub, NEW items, NEW n \in Nat,
           DOMAIN items = 1 .. n, Len(items) = n,
           \A k \in 1 .. n : items[k].markers \in Seq(Marks),
           NEW item \in ListItems(ctx, items, sub)
    PROVE  item \in ListItems(ctx, <<item>>, sub)
<1> DEFINE RoleFor(x) == FirstRole(ctx, sub, x.markers, "data.list", x.target)
           Has(x, r) == Having(ctx, sub, x.markers, "data.list", x.target, r) # {}
           Listing(s, k) == IF k = 0 THEN {} ELSE {x \in Range(s) : Has(x, RoleFor(s[k]))}
           I == {i \in 1 .. n : RoleFor(items[i]) # NoRole}
           one == <<item>>
           J == {i \in 1 .. Len(one) : RoleFor(one[i]) # NoRole}
<1>1. ListItems(ctx, items, sub) = Listing(items, IF I # {} THEN Min(I) ELSE 0)
  BY DEF ListItems, SelectInSeq
<1>2. ListItems(ctx, one, sub) = Listing(one, IF J # {} THEN Min(J) ELSE 0)
  <2> HIDE DEF one
  <2> QED
    BY DEF ListItems, SelectInSeq
<1>3. I # {} /\ item \in Range(items)
  BY <1>1
<1>4. PICK k : k = Min(I)
  OBVIOUS
<1>5. k \in I
  BY <1>3, <1>4, FirstIndex
<1>6. k \in 1 .. n /\ k # 0 /\ RoleFor(items[k]) # NoRole /\ Has(item, RoleFor(items[k]))
  BY <1>1, <1>3, <1>4, <1>5
<1>7. item.markers \in Seq(Marks)
  BY <1>3 DEF Range
<1>8. ASSUME NEW x, x.markers \in Seq(Marks)
      PROVE  HeldRole(ctx, sub, x.markers, "data.list", x.target, RoleFor(x))
  BY <1>8, FirstRoleIsHeld
<1>9. PICK r : r = RoleFor(items[k])
  OBVIOUS
<1>10. r # NoRole /\ r \in MayActUnder(ctx, sub)
  <2>1. HeldRole(ctx, sub, items[k].markers, "data.list", items[k].target, RoleFor(items[k]))
    BY <1>6, <1>8
  <2> QED
    BY <1>6, <1>9, <2>1 DEF HeldRole
<1>11. ASSUME NEW q, q # NoRole
       PROVE  Has(item, q) <=> \E m \in Range(item.markers) :
                                 Grants(ctx, m, "data.list", item.target, q)
  <2>1. PICK H : H = Having(ctx, sub, item.markers, "data.list", item.target, q)
    OBVIOUS
  <2>2. H = {m \in Range(item.markers) : Grants(ctx, m, "data.list", item.target, q)}
    BY <1>7, <1>11, <2>1, HavingIsGranted
  <2>3. Has(item, q) <=> H # {}
    BY <2>1
  <2> QED
    BY <2>2, <2>3
<1>12. HeldRole(ctx, sub, item.markers, "data.list", item.target, RoleFor(item))
  BY <1>7, <1>8
<1>13. RoleFor(item) # NoRole
  BY <1>6, <1>9, <1>10, <1>11, <1>12 DEF HeldRole
<1>14. Has(item, RoleFor(item))
  BY <1>11, <1>12, <1>13 DEF HeldRole
<1>15. J = {1}
  <2>1. Len(one) = 1 /\ one[1] = item
    OBVIOUS
  <2> HIDE DEF one, RoleFor
  <2> QED
    BY <1>13, <2>1
<1>16. Min({1}) = 1
  BY DEF Min
<1>17. one[1] = item /\ item \in Range(one)
  BY DEF Range
<1>18. item \in ListItems(ctx, one, sub)
  <2> HIDE DEF RoleFor, Has, J, one
  <2> QED
    BY <1>2, <1>14, <1>15, <1>16, <1>17
<1> QED
  BY <1>18

(* ListedIsReadable from the invariant. *)
LEMMA ListedNow == ASSUME IInv PROVE ListedIsReadable
<1>1. SUFFICES ASSUME NEW req \in ListRequests,
                      NEW item \in AuthorizeList(CurrentContext(FALSE), req),
                      NEW s \in {req.user} \cup req.insts
      PROVE  item \in ListItems(CurrentContext(FALSE), <<item>>, s)
  BY DEF ListedIsReadable
<1>2. PICK ctx : ctx = CurrentContext(FALSE)
  OBVIOUS
<1>3. IsContext(ctx) /\ ctx.key = FALSE
  BY <1>2, CurrentIsContext DEF IInv
<1>4. PICK a \in Addresses \X Addresses, m \in Marks, n \in Marks, p \in Parties :
        req = [action |-> "data.list", user |-> p.user, insts |-> p.insts,
               items |-> <<[target |-> a[1], markers |-> <<m, n>>],
                           [target |-> a[2], markers |-> <<n>>]>>]
  BY DEF ListRequests
<1>5. /\ DOMAIN req.items = 1 .. 2 /\ Len(req.items) = 2
      /\ \A k \in 1 .. 2 : req.items[k].markers \in Seq(Marks)
  <2>1. PICK x : x = [target |-> a[1], markers |-> <<m, n>>]
    OBVIOUS
  <2>2. PICK y : y = [target |-> a[2], markers |-> <<n>>]
    OBVIOUS
  <2>3. x.markers \in Seq(Marks)
    BY <2>1
  <2>4. y.markers \in Seq(Marks)
    BY <2>2
  <2>5. req.items = <<x, y>>
    BY <1>4, <2>1, <2>2
  <2> QED
    BY <2>3, <2>4, <2>5
<1>6. req.insts = InstsToCheck(ctx, req)
  BY <1>3 DEF InstsToCheck
<1>7. item \in ListItems(ctx, req.items, s)
  BY <1>1, <1>2, <1>6 DEF AuthorizeList
<1> QED
  BY <1>2, <1>3, <1>5, <1>7, ListedAlone

(* PolicyController.ts:1571, 3373-3393. An item is listed only for a user   *)
(* and insts that may each list it by itself, although the role under which *)
(* a list is made is settled by its first item.                             *)
THEOREM ListedIsReadableHolds == Spec => []ListedIsReadable
  BY ListedNow, Invariance, PTL
=============================================================================
