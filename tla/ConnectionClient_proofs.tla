---------------------- MODULE ConnectionClient_proofs -----------------------
(***************************************************************************)
(* Proofs about ConnectionClient, for every number of lost sockets, every  *)
(* number of uses of the offline switch and therefore any number of        *)
(* replaced sockets and of events that concatMap holds back.               *)
(***************************************************************************)
EXTENDS ConnectionClient, WellFoundedInduction, SequenceTheorems, TLAPS

(* The order of the naturals as a set of pairs. *)
Less == {ss \in Nat \X Nat : ss[1] < ss[2]}

(* A set of naturals that is not empty has a least element. *)
LEMMA LeastNat ==
    ASSUME NEW T, T \subseteq Nat, T # {}
    PROVE  \E x \in T : \A y \in T : ~(y < x)
<1>1. IsWellFoundedOn(Less, Nat)
  BY NatLessThanWellFounded DEF OpToRel, Less
<1>2. PICK x \in T : \A y \in T : ~(<<y, x>> \in Less)
  BY <1>1, WFMin
<1>3. \A y \in T : y < x => <<y, x>> \in Less
  BY DEF Less
<1> QED
  BY <1>2, <1>3

(* FirstTrue, a CHOOSE in the model, is the place of an open event if the   *)
(* queue holds one.                                                         *)
LEMMA FirstTrueExists ==
    ASSUME NEW q \in Seq(BOOLEAN), ~NoTrue(q)
    PROVE  FirstTrue(q) \in 1 .. Len(q) /\ q[FirstTrue(q)]
<1> DEFINE T == {i \in 1 .. Len(q) : q[i]}
<1>1. T \subseteq Nat /\ T # {} /\ DOMAIN q = 1 .. Len(q)
  BY DEF NoTrue
<1>2. PICK x \in T : \A y \in T : ~(y < x)
  <2> HIDE DEF T
  <2> QED BY <1>1, LeastNat
<1>3. x \in DOMAIN q /\ q[x] /\ \A j \in 1 .. (x - 1) : ~q[j]
  BY <1>1, <1>2
<1> QED
  BY <1>1, <1>3 DEF FirstTrue

(* The values of connectionState. *)
States == {"no", "yes", "error"}

(* The readyState of a WebSocket. *)
ReadyStates == {"connecting", "open", "closing", "closed"}

(* The type invariant in three parts: the login, the sockets, the rest. *)
LoginType ==
    /\ connected \in States /\ loggingIn \in BOOLEAN
    /\ queue \in Seq(BOOLEAN) /\ reply \in BOOLEAN

(* The current socket and the replaced ones. *)
SocketType ==
    /\ socket \in ReadyStates /\ closing \in BOOLEAN /\ replaced \in Nat

(* The timer, the switch and the counters. *)
OtherType ==
    /\ timer \in BOOLEAN /\ forcedOffline \in BOOLEAN /\ settled \in BOOLEAN
    /\ losses \in 0 .. MaxLosses /\ toggles \in 0 .. MaxToggles

(* The three parts are the type invariant. *)
LEMMA TypeParts == TypeOK <=> LoginType /\ SocketType /\ OtherType
BY Zenon DEF TypeOK, LoginType, SocketType, OtherType, States, ReadyStates

(* The same after a step. *)
LEMMA TypePartsNext == TypeOK' <=> LoginType' /\ SocketType' /\ OtherType'
BY Zenon DEF TypeOK, LoginType, SocketType, OtherType, States, ReadyStates

(* Going on with the held-back events keeps the types of the login. *)
LEMMA ProceedType ==
    ASSUME NEW q \in Seq(BOOLEAN), NEW state \in States,
           NEW s \in ReadyStates, Proceed(q, state, s)
    PROVE  LoginType'
<1>1. CASE NoTrue(q)
  <2>1. <<>> \in Seq(BOOLEAN)
    BY EmptySeq
  <2>2. connected' \in States
    BY <1>1 DEF Proceed, States
  <2> QED
    BY <1>1, <2>1, <2>2, Zenon DEF Proceed, LoginType
<1>2. CASE ~NoTrue(q)
  <2>1. FirstTrue(q) \in 1 .. Len(q)
    BY <1>2, FirstTrueExists
  <2>2. SubSeq(q, FirstTrue(q) + 1, Len(q)) \in Seq(BOOLEAN)
    BY <2>1, SubSeqProperties
  <2>3. queue' \in Seq(BOOLEAN)
    BY <1>2, <2>2 DEF Proceed
  <2>4. connected' \in States
    BY <1>2 DEF Proceed, States
  <2>5. loggingIn' \in BOOLEAN /\ reply' \in BOOLEAN
    BY <1>2, Zenon DEF Proceed
  <2> QED
    BY <2>3, <2>4, <2>5 DEF LoginType
<1> QED
  BY <1>1, <1>2

(* An event that is held back keeps the queue a sequence of events. *)
LEMMA AppendBoolean ==
    ASSUME NEW q \in Seq(BOOLEAN), NEW b \in BOOLEAN
    PROVE  Append(q, b) \in Seq(BOOLEAN)
BY AppendProperties

(* A close event keeps the types of the login and of the timer. *)
LEMMA CloseEventType ==
    ASSUME LoginType, timer \in BOOLEAN, NEW s \in ReadyStates, CloseEvent(s)
    PROVE  LoginType' /\ timer' \in BOOLEAN
<1>1. timer' \in BOOLEAN
  BY DEF CloseEvent
<1>2. CASE connected = "error"
  BY <1>1, <1>2, Zenon DEF LoginType, CloseEvent
<1>3. CASE connected # "error"
  <2>1. Append(queue, FALSE) \in Seq(BOOLEAN)
    BY AppendBoolean, Zenon DEF LoginType
  <2>2. Proceed(Append(queue, FALSE), connected, s)
    BY <1>3, Zenon DEF CloseEvent
  <2>3. connected \in States
    BY DEF LoginType
  <2> QED
    BY <1>1, <2>1, <2>2, <2>3, ProceedType, Zenon
<1> QED
  BY <1>2, <1>3

(* open() keeps the types of the sockets, and at most forgets a             *)
(* login_result that was due.                                               *)
LEMMA OpenType ==
    ASSUME SocketType, Open
    PROVE  SocketType' /\ (reply' = reply \/ reply' = FALSE)
<1>1. socket' \in ReadyStates /\ replaced' \in Nat
  BY DEF SocketType, Open, ReadyStates
<1>2. closing' \in BOOLEAN /\ (reply' = reply \/ reply' = FALSE)
  BY Zenon DEF SocketType, Open
<1> QED
  BY <1>1, <1>2, Zenon DEF SocketType

(* Type correctness: every variable of the connection keeps its type. *)
THEOREM TypeCorrect == Spec => []TypeOK
<1>1. Init => TypeOK
  <2> SUFFICES ASSUME Init PROVE TypeOK
    OBVIOUS
  <2>1. LoginType
    BY EmptySeq, Zenon DEF Init, LoginType, States
  <2>2. SocketType
    BY DEF Init, SocketType, ReadyStates
  <2>3. OtherType
    <3>1. losses \in 0 .. MaxLosses /\ toggles \in 0 .. MaxToggles
      BY ConnectionAssumption DEF Init
    <3> QED BY <3>1, Zenon DEF Init, OtherType
  <2> QED
    BY <2>1, <2>2, <2>3, TypeParts
<1>2. TypeOK /\ [Next]_vars => TypeOK'
  <2> SUFFICES ASSUME TypeOK, [Next]_vars PROVE TypeOK'
    OBVIOUS
  <2> USE ConnectionAssumption
  <2>0. LoginType /\ SocketType /\ OtherType
    BY TypeParts
  <2>00. timer \in BOOLEAN /\ connected \in States /\ queue \in Seq(BOOLEAN)
    BY <2>0, Zenon DEF LoginType, OtherType
  <2>000. /\ "open" \in ReadyStates /\ "closed" \in ReadyStates /\ "closing" \in ReadyStates
          /\ socket \in ReadyStates /\ "yes" \in States
    BY <2>0 DEF ReadyStates, States, SocketType
  <2>1. CASE OnOpen
    <3>1. LoginType'
      <4>1. CASE connected = "error" \/ loggingIn
        <5>1. Append(queue, TRUE) \in Seq(BOOLEAN)
          BY <2>00, AppendBoolean, Zenon
        <5> QED BY <2>0, <2>1, <4>1, <5>1, Zenon DEF LoginType, OnOpen
      <4>2. CASE ~(connected = "error" \/ loggingIn)
        <5>1. Append(<<>>, TRUE) \in Seq(BOOLEAN) /\ Append(<<>>, TRUE) = <<TRUE>>
          BY AppendBoolean, EmptySeq
        <5>2. Proceed(<<TRUE>>, connected, "open")
          BY <2>1, <4>2, Zenon DEF OnOpen
        <5>3. <<TRUE>> \in Seq(BOOLEAN)
          BY <5>1
        <5> QED BY <2>00, <2>000, <5>3, <5>2, ProceedType, Zenon
      <4> QED BY <4>1, <4>2
    <3>2. SocketType'
      BY <2>0, <2>1 DEF SocketType, OnOpen, ReadyStates
    <3>3. OtherType'
      BY <2>0, <2>1, Zenon DEF OtherType, OnOpen
    <3> QED BY <3>1, <3>2, <3>3, TypePartsNext, Zenon
  <2>2. CASE Lose
    <3>1. LoginType' /\ timer' \in BOOLEAN
      BY <2>0, <2>00, <2>000, <2>2, CloseEventType, Zenon DEF Lose
    <3>2. SocketType'
      BY <2>0, <2>2 DEF SocketType, Lose, ReadyStates
    <3>3. losses' \in 0 .. MaxLosses /\ toggles' \in 0 .. MaxToggles
      BY <2>0, <2>2 DEF OtherType, Lose
    <3>4. OtherType'
      BY <2>0, <2>2, <3>1, <3>3, Zenon DEF OtherType, Lose
    <3> QED BY <3>1, <3>2, <3>4, TypePartsNext, Zenon
  <2>3. CASE CloseCompletes
    <3>1. LoginType' /\ timer' \in BOOLEAN
      BY <2>0, <2>00, <2>000, <2>3, CloseEventType, Zenon DEF CloseCompletes
    <3>2. SocketType'
      BY <2>0, <2>3 DEF SocketType, CloseCompletes, ReadyStates
    <3>3. OtherType'
      BY <2>0, <2>3, <3>1, Zenon DEF OtherType, CloseCompletes
    <3> QED BY <3>1, <3>2, <3>3, TypePartsNext, Zenon
  <2>4. CASE ReplacedCloses
    <3>1. LoginType' /\ timer' \in BOOLEAN
      BY <2>0, <2>00, <2>000, <2>4, CloseEventType, Zenon DEF ReplacedCloses
    <3>2. SocketType'
      BY <2>0, <2>4 DEF SocketType, ReplacedCloses, ReadyStates
    <3>3. OtherType'
      BY <2>0, <2>4, <3>1, Zenon DEF OtherType, ReplacedCloses
    <3> QED BY <3>1, <3>2, <3>3, TypePartsNext, Zenon
  <2>5. CASE LoginResult
    <3>1. LoginType'
      BY <2>00, <2>000, <2>5, ProceedType, Zenon DEF LoginResult
    <3>2. SocketType'
      BY <2>0, <2>5 DEF SocketType, LoginResult
    <3>3. OtherType'
      BY <2>0, <2>5, Zenon DEF OtherType, LoginResult
    <3> QED BY <3>1, <3>2, <3>3, TypePartsNext, Zenon
  <2>6. CASE Reconnect
    <3>1. SocketType' /\ (reply' = reply \/ reply' = FALSE)
      BY <2>0, <2>6, OpenType, Zenon DEF Reconnect
    <3>2. LoginType'
      BY <2>0, <2>6, <3>1, Zenon DEF LoginType, Reconnect
    <3>3. OtherType'
      BY <2>0, <2>6, Zenon DEF OtherType, Reconnect
    <3> QED BY <3>1, <3>2, <3>3, TypePartsNext, Zenon
  <2>7. CASE GoOffline
    <3>1. SocketType'
      BY <2>0, <2>7 DEF SocketType, GoOffline, CloseSocket, ReadyStates
    <3>2. LoginType'
      BY <2>0, <2>7, Zenon DEF LoginType, GoOffline
    <3>3. losses' \in 0 .. MaxLosses /\ toggles' \in 0 .. MaxToggles
      BY <2>0, <2>7 DEF OtherType, GoOffline
    <3>4. OtherType'
      BY <2>0, <2>7, <3>3, Zenon DEF OtherType, GoOffline, Settle
    <3> QED BY <3>1, <3>2, <3>4, TypePartsNext, Zenon
  <2>8. CASE GoOnline
    <3>1. SocketType' /\ (reply' = reply \/ reply' = FALSE)
      BY <2>0, <2>8, OpenType, Zenon DEF GoOnline
    <3>2. LoginType'
      BY <2>0, <2>8, <3>1, Zenon DEF LoginType, GoOnline
    <3>3. losses' \in 0 .. MaxLosses /\ toggles' \in 0 .. MaxToggles
      BY <2>0, <2>8 DEF OtherType, GoOnline
    <3>4. OtherType'
      BY <2>0, <2>8, <3>3, Zenon DEF OtherType, GoOnline, Settle
    <3> QED BY <3>1, <3>2, <3>4, TypePartsNext, Zenon
  <2>9. CASE UNCHANGED vars
    <3>1. LoginType' /\ SocketType' /\ OtherType'
      BY <2>0, <2>9, Zenon DEF LoginType, SocketType, OtherType, vars
    <3> QED BY <3>1, TypePartsNext, Zenon
  <2> QED
    BY <2>1, <2>2, <2>3, <2>4, <2>5, <2>6, <2>7, <2>8, <2>9, Zenon DEF Next
<1> QED
  BY <1>1, <1>2, PTL DEF Spec

-----------------------------------------------------------------------------
(* Why a lost socket is always replaced: _closing is not set on a socket    *)
(* that opens or is open, and a socket is closing only while the user has   *)
(* switched it off.                                                         *)
ClosingIsAsked ==
    /\ socket \in {"connecting", "open"} => ~closing
    /\ socket = "closing" => forcedOffline
    /\ NeverGivesUp

(* The client never gives up: unless the user has switched it off, a closed *)
(* socket is reopened by a pending timer.                                   *)
THEOREM NeverGivesUpHolds == Spec => []NeverGivesUp
<1>1. Init => ClosingIsAsked
  BY DEF Init, ClosingIsAsked, NeverGivesUp
<1>2. TypeOK /\ ClosingIsAsked /\ [Next]_vars => ClosingIsAsked'
  <2> SUFFICES ASSUME TypeOK, ClosingIsAsked, [Next]_vars PROVE ClosingIsAsked'
    OBVIOUS
  <2>0. SocketType /\ closing \in BOOLEAN /\ timer \in BOOLEAN /\ forcedOffline \in BOOLEAN
    BY TypeParts, Zenon DEF SocketType, OtherType
  <2> USE <2>0 DEF ClosingIsAsked, NeverGivesUp, ReadyStates
  <2>1. CASE OnOpen
    BY <2>1 DEF OnOpen
  <2>2. CASE Lose
    BY <2>2 DEF Lose, CloseEvent
  <2>3. CASE CloseCompletes
    BY <2>3 DEF CloseCompletes, CloseEvent
  <2>4. CASE ReplacedCloses
    BY <2>4 DEF ReplacedCloses, CloseEvent
  <2>5. CASE LoginResult
    BY <2>5 DEF LoginResult
  <2>6. CASE Reconnect
    BY <2>6 DEF Reconnect, Open
  <2>7. CASE GoOffline
    BY <2>7 DEF GoOffline, CloseSocket
  <2>8. CASE GoOnline
    BY <2>8 DEF GoOnline, Open, SocketType
  <2>9. CASE UNCHANGED vars
    BY <2>9 DEF vars
  <2> QED
    BY <2>1, <2>2, <2>3, <2>4, <2>5, <2>6, <2>7, <2>8, <2>9 DEF Next
<1>3. ClosingIsAsked => NeverGivesUp
  BY DEF ClosingIsAsked
<1> QED
  BY <1>1, <1>2, <1>3, TypeCorrect, PTL DEF Spec

-----------------------------------------------------------------------------
(* While the switch was used only when nothing was pending, there is one    *)
(* socket at a time: no replaced one, no event held back, a login and a     *)
(* connected state only on a socket that is open or closing, and no timer   *)
(* beside a socket.                                                         *)
NothingHeldBack ==
    settled =>
        /\ replaced = 0
        /\ queue = <<>>
        /\ connected # "error"
        /\ loggingIn \/ connected = "yes" => socket \in {"open", "closing"}
        /\ socket = "closing" => closing
        /\ timer => socket = "closed"

(* The queue of one close event holds no open event. *)
LEMMA NoTrueFalse == NoTrue(Append(<<>>, FALSE)) /\ Append(<<>>, FALSE) # <<>>
<1> DEFINE q == Append(<<>>, FALSE)
<1>1. Len(q) = 1 /\ DOMAIN q = 1 .. Len(q)
  BY AppendProperties, EmptySeq
<1>2. q[1] = FALSE
  BY AppendProperties, EmptySeq
<1>3. DOMAIN q = {1} /\ q # <<>>
  BY <1>1
<1> HIDE DEF q
<1>4. NoTrue(q)
  BY <1>2, <1>3, Zenon DEF NoTrue
<1> QED
  BY <1>3, <1>4 DEF q

(* The login after a single open event leaves nothing held back. *)
LEMMA ProceedOpen ==
    ASSUME NEW state, Proceed(<<TRUE>>, state, "open")
    PROVE  queue' = <<>> /\ connected' = state
<1>1. ~NoTrue(<<TRUE>>)
  <2>1. 1 \in DOMAIN <<TRUE>>
    OBVIOUS
  <2>2. <<TRUE>>[1]
    OBVIOUS
  <2> QED
    BY <2>1, <2>2 DEF NoTrue
<1>2. FirstTrue(<<TRUE>>) = 1
  BY DEF FirstTrue
<1>3. SubSeq(<<TRUE>>, 2, 1) = <<>>
  OBVIOUS
<1> QED
  BY <1>1, <1>2, <1>3 DEF Proceed

(* A close event that finds nothing held back leaves the client logged out  *)
(* and nothing held back.                                                   *)
LEMMA CloseEventSettled ==
    ASSUME settled \in BOOLEAN, settled, NothingHeldBack, NEW s, CloseEvent(s)
    PROVE  queue' = <<>> /\ connected' = "no" /\ loggingIn' = FALSE
BY NoTrueFalse DEF NothingHeldBack, CloseEvent, Proceed

(* As long as the switch was used only when nothing was pending, the client *)
(* says that it is connected only while its socket is open (or is being     *)
(* closed).                                                                 *)
THEOREM ConnectedMeansLoggedInHolds == Spec => []ConnectedMeansLoggedIn
<1>1. Init => NothingHeldBack
  BY DEF Init, NothingHeldBack
<1>2. TypeOK /\ NothingHeldBack /\ [Next]_vars => NothingHeldBack'
  <2> SUFFICES ASSUME TypeOK, NothingHeldBack, [Next]_vars, settled' PROVE NothingHeldBack'
    BY DEF NothingHeldBack
  <2>0. /\ SocketType /\ settled \in BOOLEAN /\ timer \in BOOLEAN /\ closing \in BOOLEAN
        /\ loggingIn \in BOOLEAN
    BY TypeParts, Zenon DEF OtherType, LoginType, SocketType
  <2>00. settled
    <3>1. settled' = settled \/ Settle
      BY Zenon DEF Next, OnOpen, Lose, CloseCompletes, ReplacedCloses, LoginResult, Reconnect,
           GoOffline, GoOnline, vars
    <3> QED BY <2>0, <3>1 DEF Settle
  <2>000. replaced = 0 /\ queue = <<>>
    BY <2>00 DEF NothingHeldBack
  <2>1. CASE OnOpen
    <3>1. ~loggingIn /\ connected # "error" /\ ~timer
      BY <2>0, <2>00, <2>1 DEF NothingHeldBack, OnOpen
    <3>2. queue' = <<>> /\ connected' = connected
      BY <3>1, <2>1, ProceedOpen DEF OnOpen
    <3> QED BY <2>0, <2>00, <2>1, <3>1, <3>2 DEF NothingHeldBack, OnOpen
  <2>2. CASE Lose
    <3>1. queue' = <<>> /\ connected' = "no" /\ loggingIn' = FALSE
      BY <2>0, <2>00, <2>2, CloseEventSettled DEF Lose
    <3> QED BY <2>0, <2>00, <2>2, <3>1 DEF NothingHeldBack, Lose
  <2>3. CASE CloseCompletes
    <3>1. queue' = <<>> /\ connected' = "no" /\ loggingIn' = FALSE
      BY <2>0, <2>00, <2>3, CloseEventSettled DEF CloseCompletes
    <3> QED BY <2>0, <2>00, <2>3, <3>1 DEF NothingHeldBack, CloseCompletes
  <2>4. CASE ReplacedCloses
    BY <2>4, <2>000 DEF ReplacedCloses
  <2>5. CASE LoginResult
    <3>1. queue' = <<>> /\ connected' = "yes" /\ loggingIn' = FALSE
      BY <2>5, <2>000 DEF LoginResult, Proceed, NoTrue
    <3> QED BY <2>0, <2>00, <2>5, <3>1 DEF NothingHeldBack, LoginResult
  <2>6. CASE Reconnect
    BY <2>0, <2>00, <2>6 DEF NothingHeldBack, Reconnect, Open
  <2>7. CASE GoOffline
    BY <2>0, <2>00, <2>7 DEF NothingHeldBack, GoOffline, CloseSocket, Settle
  <2>8. CASE GoOnline
    BY <2>0, <2>00, <2>8 DEF NothingHeldBack, GoOnline, Open, Settle, SocketType, ReadyStates
  <2>9. CASE UNCHANGED vars
    BY <2>00, <2>9 DEF NothingHeldBack, vars
  <2> QED
    BY <2>1, <2>2, <2>3, <2>4, <2>5, <2>6, <2>7, <2>8, <2>9 DEF Next
<1>3. NothingHeldBack => ConnectedMeansLoggedIn
  BY DEF NothingHeldBack, ConnectedMeansLoggedIn
<1> QED
  BY <1>1, <1>2, <1>3, TypeCorrect, PTL DEF Spec
=============================================================================
