-------------------------- MODULE InstSync_proofs ---------------------------
(***************************************************************************)
(* Proofs about InstSync, for every number of devices, connections,        *)
(* updates and invocations and for every set of faults.                    *)
(***************************************************************************)
EXTENDS InstSync, TLAPS

(* The parts of connections, of invocations and of messages have their types. *)
LEMMA ConnType == ASSUME NEW k \in Conns
                  PROVE  k[1] \in Clients /\ k[2] \in 1 .. MaxConns /\ k = <<k[1], k[2]>>
  BY DEF Conns

LEMMA AddType == ASSUME NEW a \in Adds
                 PROVE  a[1] \in Conns /\ a[2] \in Updates /\ a = <<a[1], a[2]>>
  BY DEF Adds

LEMMA LeaveType == ASSUME NEW h \in Leaves
                   PROVE  h[1] \in {"unwatch", "close"} /\ h[2] \in Conns /\ h = <<h[1], h[2]>>
  BY DEF Leaves

LEMMA MessageType ==
  ASSUME NEW k \in Conns, NEW type \in {"initial", "updates", "ack", "error"},
         NEW ups \in SUBSET Updates
  PROVE  Message(k, type, ups) \in Messages
  BY DEF Message, Messages

(* One post of the broadcast, and what it leaves alone. *)
LEMMA BroadcastPost ==
  ASSUME NEW a, Broadcast(a)
  PROVE  /\ \E k \in targets[a] : /\ Post(k, Message(k, "updates", {a[2]}))
                                  /\ targets' = [targets EXCEPT ![a] = @ \ {k}]
         /\ \/ addPc' = addPc
            \/ addPc' = [addPc EXCEPT ![a] = IF @ = "send" THEN "swallowed" ELSE @]
         /\ UNCHANGED <<clientVars, storeVars, watchVars, leavePc, refused>>
  BY DEF Broadcast, Post, addVars, storeVars

(* One post keeps the types of what it may change. *)
LEMMA PostType ==
  ASSUME TypeOK, NEW k \in Conns, NEW m \in Messages, Post(k, m)
  PROVE  /\ inbox' \subseteq Messages
         /\ connections' \subseteq Conns /\ nsConns' \subseteq Conns /\ connNs' \subseteq Conns
         /\ broken' \subseteq Conns
  BY DEF TypeOK, Post, Deliver, Expire, PostFails, connStore, storeVars

(* Type correctness: every variable of the protocol keeps its type. *)
THEOREM TypeCorrect == Spec => []TypeOK
<1>1. Init => TypeOK
  BY ConstantsAssumption DEF Init, TypeOK, Conns, Adds, Leaves
<1>2. TypeOK /\ [Next]_vars => TypeOK'
  <2> SUFFICES ASSUME TypeOK, [Next]_vars PROVE TypeOK'
    OBVIOUS
  <2> USE ConstantsAssumption
  <2>1. ASSUME NEW c \in Clients, Connect(c) PROVE TypeOK'
    <3>1. <<c, epoch[c] + 1>> \in Conns
      BY <2>1 DEF TypeOK, Connect, Conns, storeVars
    <3>2. /\ online' \in [Clients -> BOOLEAN] /\ epoch' \in [Clients -> 0 .. MaxConns]
          /\ connections' \subseteq Conns
      <4>1. /\ online \in [Clients -> BOOLEAN] /\ epoch \in [Clients -> 0 .. MaxConns]
            /\ connections \subseteq Conns
        BY DEF TypeOK
      <4>2. /\ online' = [online EXCEPT ![c] = TRUE]
            /\ epoch' = [epoch EXCEPT ![c] = @ + 1] /\ epoch[c] < MaxConns
            /\ connections' = connections \cup {<<c, epoch[c] + 1>>}
        BY <2>1 DEF Connect, storeVars
      <4>3. epoch[c] + 1 \in 0 .. MaxConns
        BY <4>1, <4>2
      <4>4. epoch' \in [Clients -> 0 .. MaxConns]
        BY <4>1, <4>2, <4>3
      <4> QED BY <3>1, <4>1, <4>2, <4>4
    <3>3. /\ scan' \in [Clients -> {"null", "waiting", "event"}]
          /\ buffer' \in [Clients -> SUBSET Updates]
          /\ watchPc' \in [Conns -> {"none", "sent", "found", "failed", "saved", "read", "done"}]
      BY <2>1 DEF TypeOK, Connect, storeVars
    <3>4. addPc' \in [Adds -> {"none", "sent", "full", "merge", "stored", "refused",
                           "send", "swallowed", "done"}]
      BY <2>1 DEF TypeOK, Connect, storeVars
    <3> QED BY <2>1, <3>2, <3>3, <3>4 DEF TypeOK, Connect, storeVars
  <2>2. ASSUME NEW c \in Clients, Close(c) PROVE TypeOK'
    BY <2>2 DEF TypeOK, Close, connStore, lambdas, storeVars
  <2>3. ASSUME NEW c \in Clients, AddUpdates(c) PROVE TypeOK'
    <3>1. <<c, counter[c] + 1>> \in Updates
      BY <2>3 DEF TypeOK, AddUpdates, Updates, storeVars
    <3>2. /\ doc' \in [Clients -> SUBSET Updates]
          /\ sentUpdates' \in [Clients -> SUBSET Updates]
      BY <2>3, <3>1 DEF TypeOK, AddUpdates
    <3>4. counter' \in [Clients -> 0 .. MaxUpdates]
      BY <2>3 DEF TypeOK, AddUpdates
    <3>3. addPc' \in [Adds -> {"none", "sent", "full", "merge", "stored", "refused",
                           "send", "swallowed", "done"}]
      BY <2>3 DEF TypeOK, AddUpdates, storeVars
    <3> QED BY <2>3, <3>2, <3>3, <3>4 DEF TypeOK, AddUpdates, connStore, watchVars, storeVars
  <2>4. ASSUME NEW c \in Clients, Receive(c) PROVE TypeOK'
    <3> PICK m \in inbox : \/ ReceiveUpdates(c, m)
                           \/ ReceiveInitial(c, m)
                           \/ ReceiveAck(c, m)
      BY <2>4 DEF Receive, storeVars
    <3>1. m.updates \subseteq Updates
      BY DEF TypeOK, Messages
    <3>2. UNCHANGED <<online, epoch, watching, connStore, storeVars, lambdas, broken>>
      BY <2>4 DEF Receive
    <3>3. CASE ReceiveUpdates(c, m)
      BY <3>1, <3>2, <3>3 DEF TypeOK, ReceiveUpdates, connStore, lambdas, storeVars
    <3>4. CASE ReceiveInitial(c, m)
      BY <3>1, <3>2, <3>4 DEF TypeOK, ReceiveInitial, connStore, lambdas, storeVars
    <3>5. CASE ReceiveAck(c, m)
      BY <3>1, <3>2, <3>5 DEF TypeOK, ReceiveAck, connStore, lambdas, storeVars
    <3> QED BY <3>3, <3>4, <3>5
  <2>5. ASSUME NEW c \in Clients, Unwatch(c) PROVE TypeOK'
    BY <2>5 DEF TypeOK, Unwatch, connStore, watchVars, addVars, storeVars
  <2>6. ASSUME NEW k \in Conns, WatchBranch(k) PROVE TypeOK'
    <3>1. CASE GetConnection(k)
      BY <3>1 DEF TypeOK, GetConnection, clientVars, connStore, addVars, storeVars
    <3>2. CASE SaveNamespaceConnection(k)
      BY <3>2 DEF TypeOK, SaveNamespaceConnection, clientVars, addVars, storeVars
    <3>3. CASE GetUpdates(k)
      BY <3>3 DEF TypeOK, GetUpdates, clientVars, connStore, addVars, storeVars
    <3>4. CASE SendInitial(k)
      <4>1. Message(k, "initial", snapshot[k]) \in Messages
        BY MessageType DEF TypeOK
      <4>2. Post(k, Message(k, "initial", snapshot[k]))
        BY <3>4 DEF SendInitial, storeVars
      <4> QED BY <3>4, <4>1, <4>2, PostType DEF TypeOK, SendInitial, clientVars, addVars,
           storeVars
    <3> QED BY <2>6, <3>1, <3>2, <3>3, <3>4 DEF WatchBranch, storeVars
  <2>7. ASSUME NEW k \in Conns, KeyExpires(k) PROVE TypeOK'
    BY <2>7 DEF TypeOK, KeyExpires, clientVars, lambdas, storeVars
  <2>8. ASSUME NEW k \in Conns, RateLimited(k) PROVE TypeOK'
    <3>1. /\ UNCHANGED <<clientVars, connStore, storeVars, snapshot, targets, inbox, refused>>
          /\ broken' \subseteq Conns
      BY <2>8 DEF TypeOK, RateLimited
    <3>2. /\ watchPc' \in [Conns -> {"none", "sent", "found", "failed", "saved", "read", "done"}]
          /\ leavePc' \in [Leaves -> {"none", "sent", "found", "loaded", "empty", "count",
                                     "clear", "done"}]
      <4>1. /\ watchPc' = watchPc \/ watchPc' = [watchPc EXCEPT ![k] = "failed"]
            /\ leavePc' = leavePc \/ leavePc' = [leavePc EXCEPT ![<<"unwatch", k>>] = "done"]
        BY <2>8 DEF RateLimited
      <4>2. watchPc' \in [Conns -> {"none", "sent", "found", "failed", "saved", "read", "done"}]
        BY <4>1 DEF TypeOK
      <4>3. leavePc' \in [Leaves -> {"none", "sent", "found", "loaded", "empty", "count",
                                    "clear", "done"}]
        BY <4>1 DEF TypeOK
      <4> QED BY <4>2, <4>3
    <3>3. addPc' \in [Adds -> {"none", "sent", "full", "merge", "stored", "refused",
                               "send", "swallowed", "done"}]
      <4>1. \/ addPc' = addPc
            \/ \E u \in Updates : addPc' = [addPc EXCEPT ![<<k, u>>] = "done"]
        BY <2>8 DEF RateLimited
      <4> QED BY <4>1 DEF TypeOK
    <3> QED BY <3>1, <3>2, <3>3 DEF TypeOK, clientVars, connStore, storeVars
  <2>9. ASSUME NEW k \in Conns, CrashWatch(k) PROVE TypeOK'
    BY <2>9 DEF TypeOK, CrashWatch, clientVars, connStore, addVars, storeVars
  <2>10. ASSUME NEW a \in Adds, AddUpdatesHandler(a) PROVE TypeOK'
    <3>1. CASE Store(a)
      BY <3>1, AddType DEF TypeOK, Store, clientVars, connStore, watchVars, storeVars
    <3>2. CASE MaxSizeReached(a)
      BY <3>2 DEF TypeOK, MaxSizeReached, clientVars, connStore, watchVars, storeVars
    <3>6. CASE ReadToMerge(a)
      BY <3>6 DEF TypeOK, ReadToMerge, clientVars, connStore, watchVars, storeVars
    <3>7. CASE ReplaceUpdates(a)
      <4>1. stored' \subseteq Updates /\ revived' \subseteq Updates
        BY <3>7, AddType DEF TypeOK, ReplaceUpdates
      <4> QED BY <3>7, <4>1 DEF TypeOK, ReplaceUpdates, clientVars, connStore, watchVars,
                                storeVars
    <3>8. CASE MergeFails(a)
      BY <3>8 DEF TypeOK, MergeFails, clientVars, connStore, watchVars, storeVars
    <3>3. CASE GetConnectionsByNamespace(a)
      BY <3>3 DEF TypeOK, GetConnectionsByNamespace, clientVars, connStore, watchVars,
                  storeVars
    <3>4. CASE Broadcast(a)
      <4>1. PICK k \in targets[a] : /\ Post(k, Message(k, "updates", {a[2]}))
                                    /\ targets' = [targets EXCEPT ![a] = @ \ {k}]
        BY <3>4, BroadcastPost
      <4>2. k \in Conns /\ Message(k, "updates", {a[2]}) \in Messages
        BY <4>1, MessageType, AddType DEF TypeOK
      <4>3. addPc' = addPc \/ addPc' = [addPc EXCEPT ![a] = IF @ = "send" THEN "swallowed" ELSE @]
        BY <3>4, BroadcastPost
      <4>4. UNCHANGED <<clientVars, storeVars, watchVars, leavePc, refused>>
        BY <3>4, BroadcastPost
      <4> QED BY <4>1, <4>2, <4>3, <4>4, PostType DEF TypeOK, clientVars, watchVars, storeVars
    <3>5. CASE SendUpdatesReceived(a)
      <4> DEFINE type == IF addPc[a] = "refused" THEN "error" ELSE "ack"
      <4>1. Message(a[1], type, {a[2]}) \in Messages
        BY MessageType, AddType
      <4>2. Post(a[1], Message(a[1], type, {a[2]}))
        BY <3>5 DEF SendUpdatesReceived, storeVars
      <4> HIDE DEF type
      <4> QED BY <3>5, <4>1, <4>2, PostType, AddType
              DEF TypeOK, SendUpdatesReceived, clientVars, watchVars, storeVars
    <3> QED BY <2>10, <3>1, <3>2, <3>3, <3>4, <3>5, <3>6, <3>7, <3>8 DEF AddUpdatesHandler
  <2>11. ASSUME NEW a \in Adds, CrashAdd(a) PROVE TypeOK'
    BY <2>11 DEF TypeOK, CrashAdd, clientVars, connStore, watchVars, storeVars
  <2>12. ASSUME NEW h \in Leaves, Leave(h) PROVE TypeOK'
    <3>1. CASE GetNamespaceConnection(h)
      BY <3>1 DEF TypeOK, GetNamespaceConnection, clientVars, connStore, watchVars,
                  addVars, storeVars
    <3>2. CASE DeleteNamespaceConnection(h)
      BY <3>2 DEF TypeOK, DeleteNamespaceConnection, AfterLeaving, clientVars, watchVars,
                  addVars, storeVars
    <3>3. CASE GetConnections(h)
      BY <3>3 DEF TypeOK, GetConnections, clientVars, connStore, watchVars, addVars, storeVars
    <3>4. CASE ClearConnection(h)
      BY <3>4 DEF TypeOK, ClearConnection, AfterLeaving, clientVars, watchVars, addVars,
                  storeVars
    <3>5. CASE CountConnections(h)
      BY <3>5 DEF TypeOK, CountConnections, clientVars, connStore, watchVars, addVars,
                  storeVars
    <3>6. CASE ClearUpdates(h)
      BY <3>6 DEF TypeOK, ClearUpdates, clientVars, connStore, watchVars, addVars, storeVars
    <3> QED BY <2>12, <3>1, <3>2, <3>3, <3>4, <3>5, <3>6 DEF Leave, storeVars
  <2>13. ASSUME NEW h \in Leaves, CrashLeave(h) PROVE TypeOK'
    BY <2>13 DEF TypeOK, CrashLeave, clientVars, connStore, watchVars, addVars, storeVars
  <2>14. CASE UNCHANGED vars
    BY <2>14 DEF TypeOK, vars, clientVars, connStore, lambdas, storeVars
  <2> QED BY <2>1, <2>2, <2>3, <2>4, <2>5, <2>6, <2>7, <2>8, <2>9, <2>10, <2>11,
             <2>12, <2>13, <2>14 DEF Next
<1> QED BY <1>1, <1>2, PTL DEF Spec

-----------------------------------------------------------------------------
(* An edit is kept.  The strengthening follows an update through the          *)
(* protocol: once it left the hands of its author it is safe, that is, stored *)
(* (or, on a temporary branch that may be cleared, filed for good).           *)

Safe(u) == IF Temporary THEN u \in sentUpdates[u[1]] ELSE u \in stored

KeptInv == \A c \in Clients : \A u \in doc[c] :
    u[1] = c => \/ u \in sentUpdates[c]
                \/ ~Temporary /\ u \in stored \cup refused

FiledInv == \A c \in Clients : \A u \in sentUpdates[c] : u[1] = c

OnTheWayInv ==
    /\ \A m \in inbox : m.type # "error" => \A u \in m.updates : Safe(u)
    /\ \A c \in Clients : \A u \in buffer[c] : Safe(u)
    /\ \A k \in Conns : \A u \in snapshot[k] : Safe(u)
    /\ \A a \in Adds : \A u \in merging[a] : Safe(u)
    /\ \A u \in stored : Safe(u)

HandlerInv == \A a \in Adds :
    /\ addPc[a] \in {"stored", "send", "swallowed"} => Safe(a[2])
    /\ Temporary /\ addPc[a] \in {"sent", "full", "merge"} => Safe(a[2])

(* An invocation sends only what is safe, after it has ended as well. *)
TargetsSafe == \A a \in Adds : targets[a] # {} => Safe(a[2])

ClearInv == ~Temporary =>
    /\ \A h \in Leaves : leavePc[h] \notin {"count", "clear"}
    /\ stale = {}

EditInv == KeptInv /\ FiledInv /\ OnTheWayInv /\ HandlerInv /\ TargetsSafe /\ ClearInv

(* A post brings at most its own message to the client. *)
LEMMA PostInbox ==
  ASSUME NEW k, NEW m, Post(k, m)
  PROVE  inbox' \subseteq inbox \cup {m}
  BY DEF Post, Deliver, Expire, PostFails

(* What is safe stays safe: only the acknowledgement of a persistent branch   *)
(* takes an update out of _sentUpdates, and only a temporary one is cleared.  *)
LEMMA SafeStays ==
  ASSUME TypeOK, ClearInv, [Next]_vars, NEW u \in Updates, Safe(u)
  PROVE  Safe(u)'
<1>0. u[1] \in Clients
  BY DEF Updates
<1>1. CASE Temporary
  <2> SUFFICES sentUpdates[u[1]] \subseteq sentUpdates'[u[1]]
    BY <1>1 DEF Safe
  <2>1. ASSUME NEW c \in Clients, AddUpdates(c)
        PROVE  sentUpdates[u[1]] \subseteq sentUpdates'[u[1]]
    BY <1>0, <2>1 DEF TypeOK, AddUpdates, storeVars
  <2>2. ASSUME NEW c \in Clients, Receive(c)
        PROVE  sentUpdates[u[1]] \subseteq sentUpdates'[u[1]]
    BY <1>1, <2>2 DEF Receive, ReceiveUpdates, ReceiveInitial, ReceiveAck, storeVars
  <2>3. ASSUME sentUpdates' = sentUpdates PROVE sentUpdates[u[1]] \subseteq sentUpdates'[u[1]]
    BY <2>3
  <2>4. \/ \E c \in Clients : AddUpdates(c) \/ Receive(c)
        \/ sentUpdates' = sentUpdates
    BY DEF Next, Connect, Close, Unwatch, WatchBranch, GetConnection,
           SaveNamespaceConnection, GetUpdates, SendInitial, KeyExpires, RateLimited,
           CrashWatch, AddUpdatesHandler, Store, MaxSizeReached, ReadToMerge,
           ReplaceUpdates, MergeFails, GetConnectionsByNamespace, Broadcast,
           SendUpdatesReceived, CrashAdd, Leave, GetNamespaceConnection,
           DeleteNamespaceConnection, GetConnections, ClearConnection, CountConnections,
           ClearUpdates, CrashLeave, clientVars, vars, storeVars
  <2> QED BY <2>1, <2>2, <2>3, <2>4
<1>2. CASE ~Temporary
  <2>1. \A h \in Leaves : ~ClearUpdates(h)
    BY <1>2 DEF ClearInv, ClearUpdates
  <2>2. \/ stored' = stored
        \/ \E a \in Adds : Store(a)
        \/ \E a \in Adds : ReplaceUpdates(a)
    BY <2>1 DEF Next, Connect, Close, AddUpdates, Receive, Unwatch, WatchBranch,
                GetConnection, SaveNamespaceConnection, GetUpdates, SendInitial,
                KeyExpires, RateLimited, CrashWatch, AddUpdatesHandler, MaxSizeReached,
                ReadToMerge, ReplaceUpdates, MergeFails, GetConnectionsByNamespace,
                Broadcast, SendUpdatesReceived, CrashAdd, Leave, GetNamespaceConnection,
                DeleteNamespaceConnection, GetConnections, ClearConnection,
                CountConnections, CrashLeave, vars, storeVars
  <2> QED BY <1>2, <2>2 DEF Safe, Store, ReplaceUpdates, ClearInv
<1> QED BY <1>1, <1>2

LEMMA EditInvInit == Init => EditInv
  BY DEF Init, EditInv, KeptInv, FiledInv, OnTheWayInv, HandlerInv, TargetsSafe, ClearInv

LEMMA EditInvStep ==
  ASSUME TypeOK, EditInv, [Next]_vars
  PROVE  EditInv'
<1>0. \A u \in Updates : Safe(u) => Safe(u)'
  BY SafeStays DEF EditInv
<1>1. ASSUME NEW c \in Clients, Connect(c) PROVE EditInv'
  <2>1. KeptInv' /\ FiledInv' /\ ClearInv'
    BY <1>1 DEF EditInv, KeptInv, FiledInv, ClearInv, Connect, storeVars
  <2>4. TargetsSafe'
    BY <1>0, <1>1, AddType DEF EditInv, TargetsSafe, Connect, storeVars
  <2>2. OnTheWayInv'
    BY <1>0, <1>1 DEF EditInv, OnTheWayInv, TypeOK, Messages, Connect, storeVars
  <2>3. ASSUME NEW a \in Adds PROVE /\ addPc'[a] \in {"stored", "send", "swallowed"} => Safe(a[2])'
                                    /\ Temporary /\ addPc'[a] \in {"sent", "full", "merge"}
                                       => Safe(a[2])'
    <3>1. a[2] \in Updates
      BY AddType
    <3>2. CASE addPc'[a] = addPc[a]
      BY <1>0, <3>1, <3>2 DEF EditInv, HandlerInv
    <3>3. CASE addPc'[a] = "sent" /\ a[2] \in sentUpdates[c]
      BY <1>0, <3>1, <3>3 DEF EditInv, FiledInv, Safe
    <3>4. \/ addPc'[a] = addPc[a]
          \/ addPc'[a] = "sent" /\ a[2] \in sentUpdates[c]
      BY <1>1 DEF Connect, TypeOK, storeVars
    <3> QED BY <3>2, <3>3, <3>4
  <2> QED BY <2>1, <2>2, <2>3, <2>4 DEF EditInv, HandlerInv
<1>2. ASSUME NEW c \in Clients, Close(c) PROVE EditInv'
  <2>1. UNCHANGED <<doc, sentUpdates, storeVars, refused, buffer, snapshot, addPc, targets, leavePc>>
        /\ inbox' \subseteq inbox
    BY <1>2 DEF Close, lambdas, storeVars
  <2> QED BY <2>1 DEF EditInv, KeptInv, FiledInv, OnTheWayInv, HandlerInv, TargetsSafe,
                      ClearInv, Safe, storeVars
<1>3. ASSUME NEW c \in Clients, AddUpdates(c) PROVE EditInv'
  <2>1. PICK u : u = <<c, counter[c] + 1>>
    OBVIOUS
  <2>0. /\ u[1] = c
        /\ doc' = [doc EXCEPT ![c] = @ \cup {u}]
        /\ sentUpdates' = [sentUpdates EXCEPT ![c] = @ \cup {u}]
        /\ UNCHANGED <<storeVars, refused, buffer, snapshot, inbox, targets, leavePc>>
        /\ \A a \in Adds : \/ addPc'[a] = addPc[a]
                           \/ a[2] = u /\ addPc'[a] = "sent"
    BY <1>3, <2>1 DEF AddUpdates, TypeOK, watchVars, storeVars
  <2>2. KeptInv' /\ FiledInv' /\ ClearInv'
    BY <2>0 DEF EditInv, KeptInv, FiledInv, ClearInv, TypeOK, storeVars
  <2>3. OnTheWayInv'
    BY <1>0, <2>0 DEF EditInv, OnTheWayInv, TypeOK, Messages, storeVars
  <2>4. Temporary => Safe(u)'
    BY <2>0 DEF Safe, TypeOK
  <2>5. HandlerInv' /\ TargetsSafe'
    BY <1>0, <2>0, <2>4, AddType DEF EditInv, HandlerInv, TargetsSafe
  <2> QED BY <2>2, <2>3, <2>5 DEF EditInv
<1>4. ASSUME NEW c \in Clients, Receive(c) PROVE EditInv'
  <2> PICK m \in inbox : \/ ReceiveUpdates(c, m)
                         \/ ReceiveInitial(c, m)
                         \/ ReceiveAck(c, m)
    BY <1>4 DEF Receive, storeVars
  <2>1. UNCHANGED <<snapshot, storeVars, addPc, targets, leavePc>> /\ inbox' \subseteq inbox
    BY <1>4 DEF Receive, ReceiveUpdates, ReceiveInitial, ReceiveAck, lambdas, storeVars
  <2>2. m.updates \subseteq Updates /\ m.type \in {"initial", "updates", "ack", "error"}
    BY DEF TypeOK, Messages
  <2>3. HandlerInv' /\ TargetsSafe' /\ ClearInv'
    BY <1>0, <2>1, AddType DEF EditInv, HandlerInv, TargetsSafe, ClearInv, storeVars
  <2>4. CASE ReceiveUpdates(c, m) \/ ReceiveInitial(c, m)
    <3>1. \A u \in m.updates : Safe(u)
      BY <2>2, <2>4 DEF EditInv, OnTheWayInv, ReceiveUpdates, ReceiveInitial
    <3>2. /\ UNCHANGED <<sentUpdates, refused>>
          /\ \A d \in Clients : /\ doc'[d] \subseteq doc[d] \cup buffer[d] \cup m.updates
                                /\ buffer'[d] \subseteq buffer[d] \cup m.updates
      BY <2>4 DEF ReceiveUpdates, ReceiveInitial, TypeOK
    <3>3. FiledInv'
      BY <3>2 DEF EditInv, FiledInv
    <3>4. KeptInv'
      BY <2>1, <3>1, <3>2 DEF EditInv, KeptInv, OnTheWayInv, Safe, storeVars
    <3>5. OnTheWayInv'
      BY <2>1, <3>1, <3>2 DEF EditInv, OnTheWayInv, Safe, storeVars
    <3> QED BY <2>3, <3>3, <3>4, <3>5 DEF EditInv
  <2>5. CASE ReceiveAck(c, m)
    <3>1. UNCHANGED <<doc, buffer>>
      BY <2>5 DEF ReceiveAck
    <3>2. OnTheWayInv'
      BY <1>0, <2>1, <3>1 DEF EditInv, OnTheWayInv, TypeOK, Messages, storeVars
    <3>3. FiledInv'
      BY <2>5 DEF EditInv, FiledInv, ReceiveAck, TypeOK
    <3>4. KeptInv'
      <4>1. CASE Temporary
        BY <2>5, <4>1, <3>1 DEF EditInv, KeptInv, ReceiveAck
      <4>2. CASE ~Temporary
        <5>1. \A u \in m.updates : u \in stored \cup refused'
          BY <2>2, <2>5, <4>2 DEF ReceiveAck, EditInv, OnTheWayInv, Safe
        <5>2. refused \subseteq refused'
          BY <2>5 DEF ReceiveAck
        <5>3. \A d \in Clients : sentUpdates[d] \subseteq sentUpdates'[d] \cup m.updates
          BY <2>5 DEF ReceiveAck, TypeOK
        <5> QED BY <2>1, <3>1, <4>2, <5>1, <5>2, <5>3 DEF EditInv, KeptInv, storeVars
      <4> QED BY <4>1, <4>2
    <3> QED BY <2>3, <3>2, <3>3, <3>4 DEF EditInv
  <2> QED BY <2>4, <2>5
<1>5. ASSUME NEW c \in Clients, Unwatch(c) PROVE EditInv'
  <2>1. /\ UNCHANGED <<doc, sentUpdates, storeVars, refused, buffer, snapshot, addPc, targets, inbox>>
        /\ \A h \in Leaves : leavePc'[h] \in {leavePc[h], "sent"}
    BY <1>5 DEF Unwatch, watchVars, addVars, TypeOK, storeVars
  <2> QED BY <2>1 DEF EditInv, KeptInv, FiledInv, OnTheWayInv, HandlerInv, TargetsSafe,
                      ClearInv, Safe, storeVars
<1>6. ASSUME NEW k \in Conns, WatchBranch(k) PROVE EditInv'
  <2>1. UNCHANGED <<doc, sentUpdates, storeVars, refused, buffer, addPc, targets, leavePc>>
    BY <1>6 DEF WatchBranch, GetConnection, SaveNamespaceConnection, GetUpdates,
                SendInitial, clientVars, addVars, storeVars
  <2>2. \A j \in Conns : snapshot'[j] \subseteq snapshot[j] \cup stored
    BY <1>6 DEF WatchBranch, GetConnection, SaveNamespaceConnection, GetUpdates,
                SendInitial, TypeOK, storeVars
  <2>3. inbox' \subseteq inbox \cup {Message(k, "initial", snapshot[k])}
    BY <1>6, PostInbox DEF WatchBranch, GetConnection, SaveNamespaceConnection,
                GetUpdates, SendInitial, storeVars
  <2>4. OnTheWayInv'
    BY <2>1, <2>2, <2>3 DEF EditInv, OnTheWayInv, Safe, Message, storeVars
  <2> QED BY <2>1, <2>4 DEF EditInv, KeptInv, FiledInv, HandlerInv, TargetsSafe, ClearInv,
                            Safe, storeVars
<1>7. ASSUME NEW a \in Adds, AddUpdatesHandler(a) PROVE EditInv'
  <2>0. a[2] \in Updates
    BY AddType
  <2>1. UNCHANGED <<doc, sentUpdates, refused, buffer, snapshot, leavePc>>
    BY <1>7, BroadcastPost DEF AddUpdatesHandler, Store, MaxSizeReached, ReadToMerge,
                               ReplaceUpdates, MergeFails, GetConnectionsByNamespace,
                               SendUpdatesReceived, clientVars, watchVars, storeVars
  <2>2. ASSUME ~Temporary PROVE stored \subseteq stored' /\ stale' = stale
    <3>1. CASE ReplaceUpdates(a)
      BY <2>2, <3>1 DEF ReplaceUpdates, EditInv, ClearInv
    <3>2. CASE ~ReplaceUpdates(a)
      <4>1. stored \subseteq stored'
        BY <1>7, <3>2, BroadcastPost DEF AddUpdatesHandler, Store, MaxSizeReached, ReadToMerge,
                    MergeFails, GetConnectionsByNamespace, SendUpdatesReceived, storeVars
      <4>2. stale' = stale \/ stale' = stale \ {a}
        BY <1>7, <3>2, BroadcastPost DEF AddUpdatesHandler, Store, MaxSizeReached, ReadToMerge,
                    MergeFails, GetConnectionsByNamespace, SendUpdatesReceived, storeVars
      <4> QED BY <2>2, <4>1, <4>2 DEF EditInv, ClearInv
    <3> QED BY <3>1, <3>2
  <2>3. KeptInv' /\ FiledInv' /\ ClearInv'
    BY <2>1, <2>2 DEF EditInv, KeptInv, FiledInv, ClearInv
  <2>8. TargetsSafe'
    <3>1. ASSUME NEW b \in Adds, targets'[b] # {} PROVE targets[b] # {} \/ addPc[b] = "stored"
      BY <1>7, <3>1, BroadcastPost
         DEF AddUpdatesHandler, Store, MaxSizeReached, ReadToMerge, ReplaceUpdates, MergeFails,
             GetConnectionsByNamespace, SendUpdatesReceived, TypeOK, storeVars
    <3> QED BY <1>0, <3>1, AddType DEF TargetsSafe, EditInv, HandlerInv
  <2>4. CASE Store(a) \/ ReplaceUpdates(a)
    <3>1. addPc' = [addPc EXCEPT ![a] = "stored"] /\ inbox' = inbox
          /\ addPc[a] \in {"sent", "merge"} /\ a[2] \in stored'
          /\ \A b \in Adds : merging'[b] \subseteq merging[b]
          /\ stored' \subseteq stored \cup merging[a] \cup {a[2]}
      BY <2>4 DEF Store, ReplaceUpdates, TypeOK
    <3>2. Safe(a[2])'
      BY <1>0, <2>0, <3>1 DEF EditInv, HandlerInv, Safe
    <3>3. OnTheWayInv'
      BY <1>0, <2>1, <3>1, <3>2 DEF EditInv, OnTheWayInv, TypeOK, Messages
    <3>4. HandlerInv'
      BY <1>0, <3>1, <3>2, AddType DEF EditInv, HandlerInv, TypeOK
    <3> QED BY <2>3, <2>8, <3>3, <3>4 DEF EditInv
  <2>5. CASE \/ MaxSizeReached(a) \/ ReadToMerge(a) \/ MergeFails(a)
             \/ GetConnectionsByNamespace(a)
    <3>1. UNCHANGED <<inbox, stored>> /\ \A b \in Adds : merging'[b] \subseteq merging[b] \cup stored
      BY <2>5 DEF MaxSizeReached, ReadToMerge, MergeFails, GetConnectionsByNamespace,
                  storeVars, TypeOK
    <3>2. HandlerInv'
      <4>1. \A b \in Adds : b # a => addPc'[b] = addPc[b]
        BY <2>5 DEF MaxSizeReached, ReadToMerge, MergeFails, GetConnectionsByNamespace,
                    TypeOK, storeVars
      <4>2. \/ addPc'[a] \in {"refused", "done"}
            \/ addPc'[a] \in {"full", "merge"} /\ addPc[a] \in {"sent", "full"}
            \/ addPc'[a] = "send" /\ addPc[a] = "stored"
        BY <2>5 DEF MaxSizeReached, ReadToMerge, MergeFails, GetConnectionsByNamespace,
                    TypeOK, storeVars
      <4>3. \A b \in Adds : Safe(b[2]) => Safe(b[2])'
        BY <1>0, AddType
      <4>4. ASSUME NEW b \in Adds
            PROVE  /\ addPc'[b] \in {"stored", "send", "swallowed"} => Safe(b[2])'
                   /\ Temporary /\ addPc'[b] \in {"sent", "full", "merge"} => Safe(b[2])'
        <5>1. CASE b = a
          BY <4>2, <4>3, <5>1 DEF EditInv, HandlerInv
        <5>2. CASE b # a
          BY <4>1, <4>3, <5>2 DEF EditInv, HandlerInv
        <5> QED BY <5>1, <5>2
      <4> QED BY <4>4 DEF HandlerInv
    <3>3. OnTheWayInv'
      BY <2>1, <3>1 DEF EditInv, OnTheWayInv, Safe
    <3> QED BY <2>3, <2>8, <3>2, <3>3 DEF EditInv
  <2>6. CASE Broadcast(a)
    <3>1. PICK k : Post(k, Message(k, "updates", {a[2]}))
      BY <2>6, BroadcastPost
    <3>2. Safe(a[2])
      <4>1. targets[a] # {}
        BY <2>6, BroadcastPost
      <4> QED BY <4>1 DEF EditInv, TargetsSafe
    <3>3. OnTheWayInv'
      BY <2>1, <2>6, <3>1, <3>2, PostInbox, BroadcastPost
         DEF EditInv, OnTheWayInv, Safe, Message, storeVars
    <3>4. HandlerInv'
      BY <1>0, <2>6, AddType, BroadcastPost DEF EditInv, HandlerInv, TypeOK
    <3> QED BY <2>3, <2>8, <3>3, <3>4 DEF EditInv
  <2>7. CASE SendUpdatesReceived(a)
    <3>1. PICK type : /\ type = IF addPc[a] = "refused" THEN "error" ELSE "ack"
                      /\ Post(a[1], Message(a[1], type, {a[2]}))
      BY <2>7 DEF SendUpdatesReceived, storeVars
    <3>2. type = "error" \/ Safe(a[2])
      BY <2>7, <3>1 DEF SendUpdatesReceived, EditInv, HandlerInv, storeVars
    <3>3. OnTheWayInv'
      BY <2>1, <2>7, <3>1, <3>2, PostInbox
         DEF SendUpdatesReceived, EditInv, OnTheWayInv, Safe, Message, storeVars
    <3>4. HandlerInv'
      BY <1>0, <2>7, AddType DEF SendUpdatesReceived, EditInv, HandlerInv, TypeOK, storeVars
    <3> QED BY <2>3, <2>8, <3>3, <3>4 DEF EditInv
  <2> QED BY <1>7, <2>4, <2>5, <2>6, <2>7 DEF AddUpdatesHandler
<1>8. ASSUME NEW h \in Leaves, Leave(h) PROVE EditInv'
  <2>1. /\ UNCHANGED <<doc, sentUpdates, refused, buffer, snapshot, merging, addPc, targets,
                       inbox>>
        /\ stored' \subseteq stored
        /\ ~Temporary => stored' = stored
        /\ ~Temporary => ClearInv'
    BY <1>8 DEF Leave, GetNamespaceConnection, DeleteNamespaceConnection, GetConnections,
                ClearConnection, CountConnections, ClearUpdates, AfterLeaving, EditInv,
                ClearInv, TypeOK, clientVars, watchVars, addVars, storeVars
  <2> QED BY <2>1 DEF EditInv, KeptInv, FiledInv, OnTheWayInv, HandlerInv, TargetsSafe,
                      ClearInv, Safe, storeVars
<1>9. CASE \/ \E k \in Conns : KeyExpires(k) \/ RateLimited(k) \/ CrashWatch(k)
           \/ \E a \in Adds : CrashAdd(a)
           \/ \E h \in Leaves : CrashLeave(h)
           \/ UNCHANGED vars
  <2> DEFINE Ends == /\ UNCHANGED <<doc, sentUpdates, stored, refused, buffer, inbox>>
                     /\ stale' \subseteq stale
                     /\ \A b \in Adds : /\ merging'[b] \subseteq merging[b]
                                         /\ targets'[b] \subseteq targets[b]
                     /\ \A j \in Conns : snapshot'[j] \subseteq snapshot[j]
                     /\ \A b \in Adds : addPc'[b] \in {addPc[b], "done"}
                     /\ \A g \in Leaves : leavePc'[g] \in {leavePc[g], "done"}
  <2>1. ASSUME NEW k \in Conns, KeyExpires(k) PROVE Ends
    BY <2>1 DEF KeyExpires, clientVars, lambdas, storeVars
  <2>2. ASSUME NEW k \in Conns, RateLimited(k) PROVE Ends
    BY <2>2 DEF RateLimited, TypeOK, clientVars, storeVars
  <2>3. ASSUME NEW k \in Conns, CrashWatch(k) PROVE Ends
    BY <2>3 DEF CrashWatch, TypeOK, clientVars, addVars, storeVars
  <2>4. ASSUME NEW a \in Adds, CrashAdd(a) PROVE Ends
    BY <2>4 DEF CrashAdd, TypeOK, clientVars, watchVars, storeVars
  <2>5. ASSUME NEW h \in Leaves, CrashLeave(h) PROVE Ends
    BY <2>5 DEF CrashLeave, TypeOK, clientVars, watchVars, addVars, storeVars
  <2>6. ASSUME UNCHANGED vars PROVE Ends
    BY <2>6 DEF vars, clientVars, lambdas, storeVars
  <2>7. Ends
    BY <1>9, <2>1, <2>2, <2>3, <2>4, <2>5, <2>6
  <2> QED BY <2>7 DEF EditInv, KeptInv, FiledInv, OnTheWayInv, HandlerInv, TargetsSafe,
                      ClearInv, Safe, storeVars
<1> QED BY <1>1, <1>2, <1>3, <1>4, <1>5, <1>6, <1>7, <1>8, <1>9 DEF Next

(* An edit is never dropped by its author before the server has it, whatever  *)
(* is lost, refused or dies on the way.                                      *)
THEOREM EditsAreKept == Spec => []EditKept
<1>1. TypeOK /\ EditInv /\ [Next]_vars => EditInv'
  BY EditInvStep
<1>2. EditInv => EditKept
  BY DEF EditInv, KeptInv, EditKept
<1> QED BY EditInvInit, TypeCorrect, <1>1, <1>2, PTL DEF Spec

-----------------------------------------------------------------------------
(* No update is lost.  A connection is owed the updates from the moment       *)
(* watchBranch has saved it, as long as it lives and loses nothing.           *)

Owed(k) ==
    /\ Live(k) /\ watching[k[1]] /\ k \notin broken
    /\ watchPc[k] \in {"saved", "read", "done"}

(* The update has reached the device, is in a message to it, or will be in    *)
(* the snapshot that watchBranch sends.                                      *)
Covered(k, u) ==
    \/ u \in doc[k[1]]
    \/ u \in buffer[k[1]]
    \/ InFlight(k, u)
    \/ watchPc[k] = "saved"
    \/ watchPc[k] = "read" /\ u \in snapshot[k]

OnlineInv == \A c \in Clients : online[c] => epoch[c] \in 1 .. MaxConns

InboxInv == \A m \in inbox :
    Live(m.to) /\ (m.type = "initial" => watchPc[m.to] = "done")

ScanInv == \A c \in Clients :
    online[c] /\ watching[c] /\ scan[c] = "event"
    => watchPc[Cur(c)] = "done" /\ buffer[c] = {}

LeaveInv == \A k \in Conns :
    /\ leavePc[<<"unwatch", k>>] # "none" => ~watching[k[1]]
    /\ leavePc[<<"close", k>>] # "none" => k[2] <= epoch[k[1]] /\ ~Live(k)

RegisteredInv == \A k \in Conns : Owed(k) => k \in nsConns

OwnInv ==
    /\ \A c \in Clients : sentUpdates[c] \subseteq doc[c]
    /\ \A a \in Adds : addPc[a] # "none" => a[2] \in doc[a[1][1]] /\ a[2][1] = a[1][1]

(* The post of an update to connection k that its invocation did not wait for. *)
Straggling(k, u) == \E b \in Conns :
    addPc[<<b, u>>] = "done" /\ k \in targets[<<b, u>>]

Reached(k, u) == Covered(k, u) \/ Straggling(k, u)

(* Only an invocation that has begun to send has somewhere to send to.        *)
TargetsInv == \A a \in Adds :
    targets[a] # {} => addPc[a] \in {"send", "swallowed", "done"}

(* Where a persistent branch relies on an update having been sent to all: in  *)
(* a handler, for the connections it is through with; in an acknowledgement;  *)
(* and once the author has marked the update off.                            *)
SentInv == \A a \in Adds : ~Temporary /\ addPc[a] \in {"send", "swallowed"} =>
    \A k \in Conns : Owed(k) /\ k \notin targets[a] => Covered(k, a[2])

AckInv == \A m \in inbox : ~Temporary /\ m.type = "ack" =>
    \A k \in Conns : Owed(k) => \A u \in m.updates : Reached(k, u)

MarkedInv == \A u \in stored \ refused : ~Temporary /\ u \notin sentUpdates[u[1]] =>
    \A k \in Conns : Owed(k) => Reached(k, u)

OwedInv == \A k \in Conns : Owed(k) => \A u \in stored \ (refused \cup Unannounced) :
    Covered(k, u) \/ Broadcasting(k, u) \/ Resendable(u)

LinkInv == OnlineInv /\ InboxInv /\ ScanInv /\ LeaveInv /\ RegisteredInv /\ OwnInv
CoverInv == TargetsInv /\ SentInv /\ AckInv /\ MarkedInv /\ OwedInv

LEMMA LinkInvInit == Init => LinkInv
<1> SUFFICES ASSUME Init PROVE LinkInv
  OBVIOUS
<1>1. OnlineInv /\ InboxInv /\ ScanInv
  BY DEF Init, OnlineInv, InboxInv, ScanInv
<1>2. LeaveInv
  BY DEF Init, LeaveInv, Leaves
<1>3. RegisteredInv
  BY ConnType DEF Init, RegisteredInv, Owed, Live
<1>4. OwnInv
  BY DEF Init, OwnInv
<1> QED BY <1>1, <1>2, <1>3, <1>4 DEF LinkInv

LEMMA CurLive == ASSUME NEW k \in Conns, Live(k) PROVE k = Cur(k[1]) /\ online[k[1]]
  BY ConnType DEF Live, Cur

(* One post, seen from the links: it leaves a live connection registered, and *)
(* what it delivers goes to a live connection.                               *)
LEMMA PostLinks ==
  ASSUME NEW k, NEW m, Post(k, m), m.to = k
  PROVE  /\ \A n \in inbox' : n \in inbox \/ (n = m /\ Live(k))
         /\ \A j \in nsConns : Live(j) => j \in nsConns'
         /\ broken \subseteq broken'
<1>1. CASE Deliver(k, m)
  <2>1. inbox' = inbox \cup {m} /\ nsConns' = nsConns /\ broken' = broken
    BY <1>1 DEF Deliver, connStore, storeVars
  <2>2. Live(k)
    BY <1>1 DEF Deliver
  <2> QED BY <2>1, <2>2
<1>2. CASE Expire(k)
  BY <1>2 DEF Expire
<1>3. CASE PostFails(k)
  BY <1>3 DEF PostFails, connStore, storeVars
<1> QED BY <1>1, <1>2, <1>3 DEF Post

(* Steps that leave the client side alone keep the links if they unregister   *)
(* only connections that are owed nothing.                                   *)
LEMMA LinkFrame ==
  ASSUME TypeOK, LinkInv,
         UNCHANGED clientVars,
         \A j \in Conns : /\ watchPc'[j] = "saved" => watchPc[j] = "saved" \/ j \in nsConns'
                          /\ watchPc'[j] = "read" => watchPc[j] \in {"saved", "read"}
                          /\ watchPc'[j] = "done" => watchPc[j] \in {"read", "done"}
                          /\ watchPc[j] = "done" => watchPc'[j] = "done",
         \A j \in nsConns : Owed(j) => j \in nsConns',
         broken \subseteq broken',
         \A n \in inbox' : n \in inbox
                           \/ /\ n.to \in Conns /\ Live(n.to)
                              /\ n.type = "initial" => watchPc'[n.to] = "done",
         \A a \in Adds : addPc'[a] # "none" => addPc[a] # "none",
         \A j \in Conns :
            /\ leavePc'[<<"unwatch", j>>] # "none" => leavePc[<<"unwatch", j>>] # "none"
            /\ leavePc'[<<"close", j>>] # "none"
               => leavePc[<<"close", j>>] # "none" \/ (j[2] <= epoch[j[1]] /\ ~Live(j))
  PROVE  LinkInv'
<1>1. OnlineInv'
  BY DEF LinkInv, OnlineInv, clientVars, storeVars
<1>2. InboxInv'
  BY DEF LinkInv, InboxInv, Live, clientVars, TypeOK, Messages, storeVars
<1>3. ScanInv'
  <2> SUFFICES ASSUME NEW c \in Clients, online[c], watching[c], scan[c] = "event"
               PROVE  watchPc'[Cur(c)] = "done" /\ buffer[c] = {}
    BY DEF ScanInv, Cur, clientVars, storeVars
  <2>1. watchPc[Cur(c)] = "done" /\ buffer[c] = {}
    BY DEF LinkInv, ScanInv
  <2>2. Cur(c) \in Conns
    BY DEF LinkInv, OnlineInv, Cur, Conns
  <2> QED BY <2>1, <2>2
<1>4. LeaveInv'
  BY DEF LinkInv, LeaveInv, Live, clientVars, storeVars
<1>5. RegisteredInv'
  <2> SUFFICES ASSUME NEW k \in Conns, Owed(k)' PROVE k \in nsConns'
    BY DEF RegisteredInv
  <2>1. Live(k) /\ watching[k[1]] /\ k \notin broken
    BY DEF Owed, Live, clientVars, storeVars
  <2>2. CASE watchPc[k] \in {"saved", "read", "done"}
    BY <2>1, <2>2 DEF LinkInv, RegisteredInv, Owed
  <2>3. CASE watchPc[k] \notin {"saved", "read", "done"}
    BY <2>3 DEF Owed
  <2> QED BY <2>2, <2>3
<1>6. OwnInv'
  BY DEF LinkInv, OwnInv, clientVars, storeVars
<1> QED BY <1>1, <1>2, <1>3, <1>4, <1>5, <1>6 DEF LinkInv

LEMMA LinkInvStep ==
  ASSUME TypeOK, EditInv, LinkInv, [Next]_vars
  PROVE  LinkInv'
<1>1. ASSUME NEW c \in Clients, Connect(c) PROVE LinkInv'
  <2>1. PICK k : k = <<c, epoch[c] + 1>>
    OBVIOUS
  <2>2. /\ k \in Conns /\ k[1] = c /\ k[2] = epoch[c] + 1
        /\ ~online[c]
        /\ online' = [online EXCEPT ![c] = TRUE] /\ epoch' = [epoch EXCEPT ![c] = @ + 1]
        /\ watchPc' = IF watching[c] THEN [watchPc EXCEPT ![k] = "sent"] ELSE watchPc
        /\ scan' = IF watching[c] THEN [scan EXCEPT ![c] = "null"] ELSE scan
        /\ buffer' = IF watching[c] THEN [buffer EXCEPT ![c] = {}] ELSE buffer
        /\ UNCHANGED <<watching, doc, sentUpdates, nsConns, leavePc, inbox, broken>>
    BY <1>1, <2>1, ConstantsAssumption DEF Connect, TypeOK, Conns, storeVars
  <2>3. \A a \in Adds : \/ addPc'[a] = addPc[a]
                        \/ a[1] = k /\ a[2] \in sentUpdates[c]
    BY <1>1, <2>1 DEF Connect, TypeOK, storeVars
  <2>4. \A j \in Conns : \/ j[1] # c /\ (Live(j)' <=> Live(j)) /\ watchPc'[j] = watchPc[j]
                         \/ j[1] = c /\ ~Live(j) /\ (Live(j)' => j = k)
    BY <2>2, ConnType DEF Live, TypeOK
  <2>5. OnlineInv'
    BY <2>2, ConstantsAssumption DEF LinkInv, OnlineInv, TypeOK, Conns
  <2>6. InboxInv'
    BY <2>2, <2>4 DEF LinkInv, InboxInv, TypeOK, Messages
  <2>7. ScanInv'
    <3> SUFFICES ASSUME NEW d \in Clients, online'[d], watching[d], scan'[d] = "event"
                 PROVE  watchPc'[Cur(d)'] = "done" /\ buffer'[d] = {}
      BY <2>2 DEF ScanInv
    <3>1. d # c
      BY <2>2 DEF TypeOK
    <3>2. online[d] /\ scan[d] = "event" /\ Cur(d)' = Cur(d) /\ buffer'[d] = buffer[d]
      BY <2>2, <3>1 DEF TypeOK, Cur
    <3>3. Cur(d) \in Conns /\ Cur(d)[1] # c
      BY <3>1, <3>2 DEF LinkInv, OnlineInv, Cur, Conns
    <3> QED BY <2>4, <3>2, <3>3 DEF LinkInv, ScanInv
  <2>8. LeaveInv'
    <3> SUFFICES ASSUME NEW j \in Conns
                 PROVE  /\ leavePc[<<"unwatch", j>>] # "none" => ~watching[j[1]]
                        /\ leavePc[<<"close", j>>] # "none" => j[2] <= epoch'[j[1]] /\ ~Live(j)'
      BY <2>2 DEF LeaveInv
    <3>1. leavePc[<<"unwatch", j>>] # "none" => ~watching[j[1]]
      BY DEF LinkInv, LeaveInv
    <3>2. ASSUME leavePc[<<"close", j>>] # "none" PROVE j[2] <= epoch'[j[1]] /\ ~Live(j)'
      <4>1. j[2] <= epoch[j[1]] /\ ~Live(j)
        BY <3>2 DEF LinkInv, LeaveInv
      <4> QED BY <2>2, <2>4, <4>1, ConnType DEF TypeOK
    <3> QED BY <3>1, <3>2
  <2>9. RegisteredInv'
    BY <2>2, <2>4 DEF LinkInv, RegisteredInv, Owed, TypeOK
  <2>10. OwnInv'
    <3>1. \A a \in Adds : addPc'[a] # "none" => a[2] \in doc[a[1][1]] /\ a[2][1] = a[1][1]
      BY <2>2, <2>3 DEF LinkInv, OwnInv, EditInv, FiledInv
    <3> QED BY <2>2, <3>1 DEF LinkInv, OwnInv
  <2> QED BY <2>5, <2>6, <2>7, <2>8, <2>9, <2>10 DEF LinkInv
<1>2. ASSUME NEW c \in Clients, Close(c) PROVE LinkInv'
  <2>1. /\ online' = [online EXCEPT ![c] = FALSE]
        /\ inbox' = {m \in inbox : m.to # Cur(c)}
        /\ UNCHANGED <<epoch, watching, scan, buffer, doc, sentUpdates, nsConns, watchPc,
                       addPc, leavePc, broken>>
    BY <1>2 DEF Close, lambdas, connStore, storeVars
  <2>2. \A j \in Conns : Live(j)' <=> Live(j) /\ j # Cur(c)
    BY <2>1, ConnType DEF Live, Cur, TypeOK
  <2>3. OnlineInv' /\ OwnInv'
    BY <2>1 DEF LinkInv, OnlineInv, OwnInv, TypeOK
  <2>4. InboxInv'
    BY <2>1, <2>2 DEF LinkInv, InboxInv, TypeOK, Messages
  <2>5. ScanInv'
    BY <2>1 DEF LinkInv, ScanInv, TypeOK, Cur
  <2>6. LeaveInv' /\ RegisteredInv'
    BY <2>1, <2>2 DEF LinkInv, LeaveInv, RegisteredInv, Owed
  <2> QED BY <2>3, <2>4, <2>5, <2>6 DEF LinkInv
<1>3. ASSUME NEW c \in Clients, AddUpdates(c) PROVE LinkInv'
  <2>1. PICK u : u = <<c, counter[c] + 1>>
    OBVIOUS
  <2>2. /\ u[1] = c
        /\ doc' = [doc EXCEPT ![c] = @ \cup {u}]
        /\ sentUpdates' = [sentUpdates EXCEPT ![c] = @ \cup {u}]
        /\ UNCHANGED <<online, epoch, watching, scan, buffer, nsConns, watchPc, leavePc,
                       inbox, broken>>
    BY <1>3, <2>1 DEF AddUpdates, connStore, watchVars, storeVars
  <2>3. \A a \in Adds : \/ addPc'[a] = addPc[a]
                        \/ a[2] = u /\ a[1] = Cur(c)
    BY <1>3, <2>1 DEF AddUpdates, TypeOK, storeVars
  <2>4. Cur(c)[1] = c
    BY DEF Cur
  <2>5. OnlineInv' /\ InboxInv' /\ ScanInv' /\ LeaveInv' /\ RegisteredInv'
    BY <2>2 DEF LinkInv, OnlineInv, InboxInv, ScanInv, LeaveInv, RegisteredInv, Owed, Live, Cur
  <2>6. OwnInv'
    <3>1. \A d \in Clients : sentUpdates'[d] \subseteq doc'[d] /\ doc[d] \subseteq doc'[d]
      BY <2>2 DEF LinkInv, OwnInv, TypeOK
    <3>2. u \in doc'[c]
      BY <2>2 DEF TypeOK
    <3>3. \A a \in Adds : addPc'[a] # "none" => a[2] \in doc'[a[1][1]] /\ a[2][1] = a[1][1]
      BY <2>2, <2>3, <2>4, <3>1, <3>2, AddType, ConnType DEF LinkInv, OwnInv
    <3> QED BY <3>1, <3>3 DEF OwnInv
  <2> QED BY <2>5, <2>6 DEF LinkInv
<1>4. ASSUME NEW c \in Clients, Receive(c) PROVE LinkInv'
  <2>1. PICK m \in inbox : /\ m.to = Cur(c)
                           /\ \/ ReceiveUpdates(c, m)
                              \/ ReceiveInitial(c, m)
                              \/ ReceiveAck(c, m)
    BY <1>4 DEF Receive, storeVars
  <2>2. /\ UNCHANGED <<online, epoch, watching, nsConns, watchPc, addPc, leavePc, broken>>
        /\ inbox' \subseteq inbox
    BY <1>4 DEF Receive, connStore, lambdas, ReceiveUpdates, ReceiveInitial, ReceiveAck,
                storeVars
  <2>3. \A d \in Clients : doc[d] \subseteq doc'[d] /\ sentUpdates'[d] \subseteq sentUpdates[d]
    BY <2>1 DEF ReceiveUpdates, ReceiveInitial, ReceiveAck, TypeOK
  <2>4. OnlineInv' /\ InboxInv' /\ LeaveInv' /\ RegisteredInv'
    BY <2>2 DEF LinkInv, OnlineInv, InboxInv, LeaveInv, RegisteredInv, Owed, Live
  <2>5. OwnInv'
    BY <2>2, <2>3, AddType, ConnType DEF LinkInv, OwnInv
  <2>6. ScanInv'
    <3>1. CASE ReceiveInitial(c, m)
      <4>1. watchPc[Cur(c)] = "done"
        BY <2>1, <3>1 DEF LinkInv, InboxInv, ReceiveInitial
      <4> QED BY <2>2, <3>1, <4>1 DEF LinkInv, ScanInv, ReceiveInitial, Cur, TypeOK
    <3>2. CASE ReceiveUpdates(c, m)
      BY <2>2, <3>2 DEF LinkInv, ScanInv, ReceiveUpdates, Cur, TypeOK
    <3>3. CASE ReceiveAck(c, m)
      BY <2>2, <3>3 DEF LinkInv, ScanInv, ReceiveAck, Cur
    <3> QED BY <2>1, <3>1, <3>2, <3>3
  <2> QED BY <2>4, <2>5, <2>6 DEF LinkInv
<1>5. ASSUME NEW c \in Clients, Unwatch(c) PROVE LinkInv'
  <2>1. /\ watching' = [watching EXCEPT ![c] = FALSE]
        /\ UNCHANGED <<online, epoch, scan, buffer, doc, sentUpdates, nsConns, watchPc,
                       addPc, inbox, broken>>
    BY <1>5 DEF Unwatch, connStore, watchVars, addVars, storeVars
  <2>2. \A j \in Conns :
          /\ leavePc'[<<"close", j>>] = leavePc[<<"close", j>>]
          /\ leavePc'[<<"unwatch", j>>] = leavePc[<<"unwatch", j>>] \/ j[1] = c
    BY <1>5 DEF Unwatch, Cur, TypeOK, Leaves, storeVars
  <2>3. OnlineInv' /\ InboxInv' /\ OwnInv'
    BY <2>1 DEF LinkInv, OnlineInv, InboxInv, OwnInv, Live
  <2>4. ScanInv'
    BY <2>1 DEF LinkInv, ScanInv, TypeOK, Cur
  <2>5. LeaveInv' /\ RegisteredInv'
    BY <2>1, <2>2, ConnType DEF LinkInv, LeaveInv, RegisteredInv, Owed, Live, TypeOK
  <2> QED BY <2>3, <2>4, <2>5 DEF LinkInv
<1>6. ASSUME NEW k \in Conns, WatchBranch(k) PROVE LinkInv'
  <2>1. CASE GetConnection(k)
    BY <2>1, LinkFrame DEF GetConnection, TypeOK, connStore, addVars, storeVars
  <2>2. CASE SaveNamespaceConnection(k)
    BY <2>2, LinkFrame DEF SaveNamespaceConnection, TypeOK, addVars, storeVars
  <2>3. CASE GetUpdates(k)
    BY <2>3, LinkFrame DEF GetUpdates, TypeOK, connStore, addVars, storeVars
  <2>4. CASE SendInitial(k)
    <3>1. PICK m : m = Message(k, "initial", snapshot[k])
      OBVIOUS
    <3>2. Post(k, m) /\ m.to = k
      BY <2>4, <3>1 DEF SendInitial, Message, storeVars
    <3>3. /\ \A n \in inbox' : n \in inbox \/ (n = m /\ Live(k))
          /\ \A j \in nsConns : Live(j) => j \in nsConns'
          /\ broken \subseteq broken'
      BY <3>2, PostLinks
    <3>4. watchPc' = [watchPc EXCEPT ![k] = "done"] /\ watchPc[k] = "read"
          /\ UNCHANGED <<clientVars, addPc, leavePc>>
      BY <2>4 DEF SendInitial, addVars, storeVars
    <3> QED BY <3>2, <3>3, <3>4, LinkFrame DEF TypeOK, Owed
  <2> QED BY <1>6, <2>1, <2>2, <2>3, <2>4 DEF WatchBranch, storeVars
<1>7. ASSUME NEW a \in Adds, AddUpdatesHandler(a) PROVE LinkInv'
  <2>1. UNCHANGED <<clientVars, watchPc, leavePc>>
    BY <1>7 DEF AddUpdatesHandler, Store, MaxSizeReached, ReadToMerge, ReplaceUpdates,
                MergeFails, GetConnectionsByNamespace, Broadcast, SendUpdatesReceived,
                watchVars, storeVars
  <2>2. \A b \in Adds : addPc'[b] # "none" => addPc[b] # "none"
    BY <1>7 DEF AddUpdatesHandler, Store, MaxSizeReached, ReadToMerge, ReplaceUpdates,
                MergeFails, GetConnectionsByNamespace, Broadcast, SendUpdatesReceived,
                TypeOK, storeVars
  <2>3. CASE \/ Store(a) \/ MaxSizeReached(a) \/ ReadToMerge(a) \/ ReplaceUpdates(a) \/ MergeFails(a)
             \/ GetConnectionsByNamespace(a)
    <3>1. UNCHANGED <<nsConns, inbox, broken>>
      BY <2>3 DEF Store, MaxSizeReached, ReadToMerge, ReplaceUpdates, MergeFails,
                  GetConnectionsByNamespace, connStore, storeVars
    <3> QED BY <2>1, <2>2, <3>1, LinkFrame
  <2>4. CASE Broadcast(a) \/ SendUpdatesReceived(a)
    <3>1. PICK k \in Conns, m \in Messages : Post(k, m) /\ m.to = k /\ m.type # "initial"
      <4>1. CASE Broadcast(a)
        <5>1. PICK k \in targets[a] : Post(k, Message(k, "updates", {a[2]}))
          BY <4>1, BroadcastPost
        <5>2. k \in Conns
          BY <5>1 DEF TypeOK
        <5>3. Message(k, "updates", {a[2]}).to = k
              /\ Message(k, "updates", {a[2]}).type # "initial"
          BY DEF Message
        <5>4. Message(k, "updates", {a[2]}) \in Messages
          BY <5>2, AddType, MessageType
        <5> QED BY <5>1, <5>2, <5>3, <5>4
      <4>2. CASE SendUpdatesReceived(a)
        <5>1. PICK type \in {"error", "ack"} : Post(a[1], Message(a[1], type, {a[2]}))
          BY <4>2 DEF SendUpdatesReceived, storeVars
        <5>2. Message(a[1], type, {a[2]}).to = a[1]
              /\ Message(a[1], type, {a[2]}).type # "initial"
          BY DEF Message
        <5>3. Message(a[1], type, {a[2]}) \in Messages
          BY AddType, MessageType
        <5> QED BY <5>1, <5>2, <5>3, AddType
      <4> QED BY <2>4, <4>1, <4>2
    <3>2. /\ \A n \in inbox' : n \in inbox \/ (n = m /\ Live(k))
          /\ \A j \in nsConns : Live(j) => j \in nsConns'
          /\ broken \subseteq broken'
      BY <3>1, PostLinks
    <3> QED BY <2>1, <2>2, <3>1, <3>2, LinkFrame DEF Owed
  <2> QED BY <1>7, <2>3, <2>4 DEF AddUpdatesHandler
<1>8. ASSUME NEW h \in Leaves, Leave(h) PROVE LinkInv'
  <2>1. UNCHANGED <<clientVars, watchPc, addPc, inbox, broken>>
    BY <1>8 DEF Leave, GetNamespaceConnection, DeleteNamespaceConnection, GetConnections,
                ClearConnection, CountConnections, ClearUpdates, watchVars, addVars,
                storeVars
  <2>2. h = <<h[1], h[2]>> /\ h[2] \in Conns /\ h[1] \in {"unwatch", "close"}
    BY LeaveType
  <2>3. \A j \in nsConns : Owed(j) => j \in nsConns'
    <3>1. \/ nsConns' = nsConns
          \/ nsConns' = nsConns \ {h[2]} /\ leavePc[h] # "none"
      BY <1>8 DEF Leave, GetNamespaceConnection, DeleteNamespaceConnection, GetConnections,
                ClearConnection, CountConnections, ClearUpdates, connStore, storeVars
    <3>2. leavePc[h] # "none" => ~Owed(h[2])
      BY <2>2 DEF LinkInv, LeaveInv, Owed
    <3> QED BY <3>1, <3>2
  <2>4. \A j \in Conns :
            /\ leavePc'[<<"unwatch", j>>] # "none" => leavePc[<<"unwatch", j>>] # "none"
            /\ leavePc'[<<"close", j>>] # "none"
               => leavePc[<<"close", j>>] # "none" \/ (j[2] <= epoch[j[1]] /\ ~Live(j))
    <3>1. leavePc[h] = "none" => h[1] = "close" /\ h[2][2] <= epoch[h[2][1]] /\ ~Live(h[2])
      BY <1>8 DEF Leave, GetNamespaceConnection, DeleteNamespaceConnection, GetConnections,
                  ClearConnection, CountConnections, ClearUpdates, storeVars
    <3>2. \A g \in Leaves : g # h => leavePc'[g] = leavePc[g]
      BY <1>8 DEF Leave, GetNamespaceConnection, DeleteNamespaceConnection, GetConnections,
                  ClearConnection, CountConnections, ClearUpdates, TypeOK, storeVars
    <3>3. \A j \in Conns : <<"unwatch", j>> \in Leaves /\ <<"close", j>> \in Leaves
      BY DEF Leaves
    <3> SUFFICES ASSUME NEW j \in Conns
                 PROVE  /\ leavePc'[<<"unwatch", j>>] # "none" => leavePc[<<"unwatch", j>>] # "none"
                        /\ leavePc'[<<"close", j>>] # "none"
                           => leavePc[<<"close", j>>] # "none" \/ (j[2] <= epoch[j[1]] /\ ~Live(j))
      OBVIOUS
    <3>4. CASE h = <<"unwatch", j>>
      BY <3>1, <3>2, <3>3, <3>4
    <3>5. CASE h = <<"close", j>>
      <4>1. h[2] = j
        BY <3>5
      <4> QED BY <3>1, <3>2, <3>3, <3>5, <4>1
    <3>6. CASE h # <<"unwatch", j>> /\ h # <<"close", j>>
      BY <3>2, <3>3, <3>6
    <3> QED BY <3>4, <3>5, <3>6
  <2> QED BY <2>1, <2>3, <2>4, LinkFrame
<1>9. ASSUME NEW k \in Conns, KeyExpires(k) \/ RateLimited(k) \/ CrashWatch(k) PROVE LinkInv'
  <2>1. UNCHANGED <<clientVars, nsConns, inbox>> /\ broken \subseteq broken'
    BY <1>9 DEF KeyExpires, RateLimited, CrashWatch, connStore, storeVars
  <2>2. \A j \in Conns : \/ watchPc'[j] = watchPc[j]
                         \/ watchPc[j] # "done" /\ watchPc'[j] = "failed"
    BY <1>9 DEF KeyExpires, RateLimited, CrashWatch, lambdas, TypeOK, storeVars
  <2>3. \A a \in Adds : addPc'[a] # "none" => addPc[a] # "none"
    BY <1>9 DEF KeyExpires, RateLimited, CrashWatch, lambdas, addVars, TypeOK, storeVars
  <2>4. \A h \in Leaves : leavePc'[h] # "none" => leavePc[h] # "none"
    BY <1>9 DEF KeyExpires, RateLimited, CrashWatch, lambdas, TypeOK, storeVars
  <2>5. \A j \in Conns : <<"unwatch", j>> \in Leaves /\ <<"close", j>> \in Leaves
    BY DEF Leaves
  <2> QED BY <2>1, <2>2, <2>3, <2>4, <2>5, LinkFrame
<1>10. ASSUME NEW a \in Adds, CrashAdd(a) PROVE LinkInv'
  <2>1. UNCHANGED <<clientVars, nsConns, inbox, broken, watchPc, leavePc>>
    BY <1>10 DEF CrashAdd, connStore, watchVars, storeVars
  <2>2. \A b \in Adds : addPc'[b] # "none" => addPc[b] # "none"
    BY <1>10 DEF CrashAdd, AddUnderWay, TypeOK
  <2> QED BY <2>1, <2>2, LinkFrame
<1>11. ASSUME NEW h \in Leaves, CrashLeave(h) PROVE LinkInv'
  <2>1. UNCHANGED <<clientVars, nsConns, inbox, broken, watchPc, addPc>>
    BY <1>11 DEF CrashLeave, connStore, watchVars, addVars, storeVars
  <2>2. \A g \in Leaves : leavePc'[g] # "none" => leavePc[g] # "none"
    BY <1>11 DEF CrashLeave, TypeOK, storeVars
  <2>3. \A j \in Conns : <<"unwatch", j>> \in Leaves /\ <<"close", j>> \in Leaves
    BY DEF Leaves
  <2> QED BY <2>1, <2>2, <2>3, LinkFrame
<1>12. CASE UNCHANGED vars
  BY <1>12, LinkFrame DEF vars, connStore, lambdas, storeVars
<1> QED BY <1>1, <1>2, <1>3, <1>4, <1>5, <1>6, <1>7, <1>8, <1>9, <1>10, <1>11, <1>12 DEF Next

-----------------------------------------------------------------------------
(* Connections and updates are used once: no invocation runs for a connection *)
(* that was never opened, and no update is anywhere before its author made it. *)
FreshInv ==
    /\ \A a \in Adds : addPc[a] # "none" => a[1][2] <= epoch[a[1][1]]
    /\ \A c \in Clients : \A u \in doc[c] : u[2] <= counter[u[1]]
    /\ \A u \in stored : u[2] <= counter[u[1]]

LEMMA UpdateType == ASSUME NEW u \in Updates
                    PROVE  u[1] \in Clients /\ u[2] \in Nat /\ u = <<u[1], u[2]>>
  BY ConstantsAssumption DEF Updates

LEMMA FreshInvStep ==
  ASSUME TypeOK, EditInv, LinkInv, FreshInv, [Next]_vars
  PROVE  FreshInv'
<1>1. ASSUME NEW c \in Clients, Connect(c) PROVE FreshInv'
  <2>1. /\ epoch' = [epoch EXCEPT ![c] = @ + 1]
        /\ UNCHANGED <<doc, counter, stored>>
        /\ \A a \in Adds : addPc'[a] = addPc[a] \/ a[1] = <<c, epoch[c] + 1>>
    BY <1>1 DEF Connect, TypeOK, storeVars
  <2>2. \A d \in Clients : epoch[d] \in Nat /\ epoch'[d] \in Nat /\ epoch[d] <= epoch'[d]
    BY <2>1, ConstantsAssumption DEF TypeOK
  <2>3. ASSUME NEW a \in Adds, addPc'[a] # "none" PROVE a[1][2] <= epoch'[a[1][1]]
    <3>1. a[1][1] \in Clients /\ a[1][2] \in Nat
      BY AddType, ConnType, ConstantsAssumption
    <3>2. CASE addPc'[a] = addPc[a]
      BY <2>2, <2>3, <3>1, <3>2 DEF FreshInv
    <3>3. CASE a[1] = <<c, epoch[c] + 1>>
      BY <2>1, <2>2, <3>3 DEF TypeOK
    <3> QED BY <2>1, <3>2, <3>3
  <2> QED BY <2>1, <2>3 DEF FreshInv
<1>2. ASSUME NEW c \in Clients, AddUpdates(c) PROVE FreshInv'
  <2>1. PICK u : u = <<c, counter[c] + 1>>
    OBVIOUS
  <2>2. /\ counter' = [counter EXCEPT ![c] = @ + 1]
        /\ doc' = [doc EXCEPT ![c] = @ \cup {u}]
        /\ UNCHANGED <<epoch, stored>>
        /\ \A a \in Adds : addPc'[a] = addPc[a] \/ a[1] = Cur(c)
    BY <1>2, <2>1 DEF AddUpdates, TypeOK, storeVars
  <2>3. \A d \in Clients : counter[d] \in Nat /\ counter'[d] \in Nat /\ counter[d] <= counter'[d]
    BY <2>2, ConstantsAssumption DEF TypeOK
  <2>4. u[2] <= counter'[u[1]]
    BY <2>1, <2>2, <2>3 DEF TypeOK
  <2>5. \A v \in Updates : v[2] <= counter[v[1]] => v[2] <= counter'[v[1]]
    BY <2>3, UpdateType
  <2>6. \A d \in Clients : \A v \in doc'[d] : v[2] <= counter'[v[1]]
    BY <2>2, <2>4, <2>5 DEF FreshInv, TypeOK
  <2>7. \A v \in stored' : v[2] <= counter'[v[1]]
    BY <2>2, <2>5 DEF FreshInv, TypeOK
  <2>8. Cur(c)[2] <= epoch[Cur(c)[1]]
    BY ConstantsAssumption DEF Cur, TypeOK
  <2>9. \A a \in Adds : addPc'[a] # "none" => a[1][2] <= epoch[a[1][1]]
    BY <2>2, <2>8 DEF FreshInv
  <2> QED BY <2>2, <2>6, <2>7, <2>9 DEF FreshInv
<1>3. ASSUME NEW c \in Clients, Receive(c) PROVE FreshInv'
  <2>1. PICK m \in inbox : \/ ReceiveUpdates(c, m)
                           \/ ReceiveInitial(c, m)
                           \/ ReceiveAck(c, m)
    BY <1>3 DEF Receive, storeVars
  <2>2. UNCHANGED <<epoch, counter, stored, addPc>>
    BY <1>3, <2>1 DEF Receive, lambdas, ReceiveUpdates, ReceiveInitial, ReceiveAck, storeVars
  <2>3. \A d \in Clients :
            \/ doc'[d] = doc[d]
            \/ m.type # "error" /\ doc'[d] \subseteq doc[d] \cup buffer[d] \cup m.updates
    BY <2>1 DEF ReceiveUpdates, ReceiveInitial, ReceiveAck, TypeOK
  <2>4. m.updates \subseteq Updates /\ \A d \in Clients : buffer[d] \subseteq Updates
    BY DEF TypeOK, Messages
  <2>5. \A u \in Updates : Safe(u) => u[2] <= counter[u[1]]
    BY UpdateType DEF Safe, FreshInv, LinkInv, OwnInv
  <2>6. \A d \in Clients : \A u \in doc'[d] : u[2] <= counter[u[1]]
    BY <2>3, <2>4, <2>5 DEF FreshInv, EditInv, OnTheWayInv
  <2> QED BY <2>2, <2>6 DEF FreshInv
<1>4. ASSUME NEW a \in Adds, Store(a) \/ ReplaceUpdates(a) PROVE FreshInv'
  <2>1. /\ UNCHANGED <<epoch, counter, doc>>
        /\ stored' \subseteq stored \cup merging[a] \cup {a[2]}
        /\ \A b \in Adds : addPc'[b] # "none" => addPc[b] # "none"
    BY <1>4 DEF Store, ReplaceUpdates, clientVars, TypeOK
  <2>2. a[2][2] <= counter[a[2][1]]
    BY <1>4, AddType, ConnType DEF Store, ReplaceUpdates, FreshInv, LinkInv, OwnInv
  <2>3. \A u \in merging[a] : u[2] <= counter[u[1]]
    <3>1. \A u \in Updates : Safe(u) => u[2] <= counter[u[1]]
      BY UpdateType DEF Safe, FreshInv, LinkInv, OwnInv
    <3> QED BY <3>1 DEF EditInv, OnTheWayInv, TypeOK
  <2> QED BY <2>1, <2>2, <2>3 DEF FreshInv
<1>5. ASSUME UNCHANGED <<epoch, doc, counter>>, stored' \subseteq stored,
             \A b \in Adds : addPc'[b] # "none" => addPc[b] # "none"
      PROVE  FreshInv'
  BY <1>5 DEF FreshInv
<1>6. ASSUME NEW c \in Clients, Close(c) \/ Unwatch(c) PROVE FreshInv'
  BY <1>5, <1>6 DEF Close, Unwatch, lambdas, addVars, storeVars
<1>7. ASSUME NEW k \in Conns, WatchBranch(k) PROVE FreshInv'
  BY <1>5, <1>7 DEF WatchBranch, GetConnection, SaveNamespaceConnection, GetUpdates,
                    SendInitial, clientVars, addVars, storeVars
<1>8. ASSUME NEW a \in Adds, \/ MaxSizeReached(a) \/ ReadToMerge(a) \/ MergeFails(a)
                             \/ GetConnectionsByNamespace(a)
                             \/ Broadcast(a) \/ SendUpdatesReceived(a)
      PROVE  FreshInv'
  <2>1. UNCHANGED <<epoch, doc, counter, stored>>
    BY <1>8, BroadcastPost DEF MaxSizeReached, ReadToMerge, MergeFails,
                               GetConnectionsByNamespace, SendUpdatesReceived, clientVars,
                               storeVars
  <2>2. \A b \in Adds : addPc'[b] # "none" => addPc[b] # "none"
    BY <1>8, BroadcastPost DEF MaxSizeReached, ReadToMerge, MergeFails,
                               GetConnectionsByNamespace, SendUpdatesReceived, TypeOK
  <2> QED BY <1>5, <2>1, <2>2
<1>9. ASSUME NEW h \in Leaves, Leave(h) \/ CrashLeave(h) PROVE FreshInv'
  <2>1. UNCHANGED <<epoch, doc, counter, addPc>> /\ stored' \subseteq stored
    BY <1>9 DEF Leave, GetNamespaceConnection, DeleteNamespaceConnection, GetConnections,
                ClearConnection, CountConnections, ClearUpdates, CrashLeave, clientVars,
                addVars, storeVars
  <2> QED BY <1>5, <2>1
<1>10. ASSUME NEW k \in Conns, KeyExpires(k) \/ RateLimited(k) \/ CrashWatch(k) PROVE FreshInv'
  <2>1. UNCHANGED <<epoch, doc, counter, stored>>
    BY <1>10 DEF KeyExpires, RateLimited, CrashWatch, clientVars, storeVars
  <2>2. \A b \in Adds : addPc'[b] # "none" => addPc[b] # "none"
    BY <1>10 DEF KeyExpires, RateLimited, CrashWatch, lambdas, addVars, TypeOK, storeVars
  <2> QED BY <1>5, <2>1, <2>2
<1>11. ASSUME NEW a \in Adds, CrashAdd(a) PROVE FreshInv'
  <2>1. UNCHANGED <<epoch, doc, counter, stored>>
        /\ \A b \in Adds : addPc'[b] # "none" => addPc[b] # "none"
    BY <1>11 DEF CrashAdd, AddUnderWay, clientVars, TypeOK, storeVars
  <2> QED BY <1>5, <2>1
<1>12. CASE UNCHANGED vars
  BY <1>5, <1>12 DEF vars, clientVars, lambdas, storeVars
<1> QED BY <1>1, <1>2, <1>3, <1>4, <1>6, <1>7, <1>8, <1>9, <1>10, <1>11, <1>12
        DEF Next, AddUpdatesHandler

-----------------------------------------------------------------------------
(* A connection becomes owed the updates when watchBranch saves it, and at no *)
(* other step.                                                               *)
LEMMA OwedFrom ==
  ASSUME TypeOK, [Next]_vars, NEW k \in Conns, Owed(k)'
  PROVE  Owed(k) \/ watchPc'[k] = "saved"
<1>1. ASSUME NEW c \in Clients, Connect(c) PROVE Owed(k) \/ watchPc'[k] = "saved"
  <2>1. PICK j : j = <<c, epoch[c] + 1>>
    OBVIOUS
  <2>2. /\ j[1] = c /\ j \in Conns
        /\ online' = [online EXCEPT ![c] = TRUE] /\ epoch' = [epoch EXCEPT ![c] = @ + 1]
        /\ watchPc' = IF watching[c] THEN [watchPc EXCEPT ![j] = "sent"] ELSE watchPc
        /\ UNCHANGED <<watching, broken>>
    BY <1>1, <2>1, ConstantsAssumption DEF Connect, TypeOK, Conns, storeVars
  <2>3. CASE k[1] # c
    BY <2>2, <2>3, ConnType DEF Owed, Live, TypeOK
  <2>4. CASE k[1] = c
    <3>1. k[2] = epoch[c] + 1
      BY <2>2, <2>4, ConnType DEF Owed, Live, TypeOK
    <3>2. k = j
      BY <2>1, <2>4, <3>1, ConnType
    <3>3. watching[c] /\ watchPc'[k] = "sent"
      BY <2>2, <2>4, <3>2 DEF Owed, TypeOK
    <3> QED BY <3>3 DEF Owed
  <2> QED BY <2>3, <2>4
<1>2. ASSUME Live(k)' => Live(k), watching'[k[1]] => watching[k[1]], broken \subseteq broken',
             \/ watchPc'[k] = watchPc[k]
             \/ watchPc'[k] \notin {"read", "done"}
             \/ watchPc[k] \in {"saved", "read"}
      PROVE  Owed(k) \/ watchPc'[k] = "saved"
  BY <1>2 DEF Owed
<1>3. ASSUME NEW c \in Clients, Close(c) PROVE Owed(k) \/ watchPc'[k] = "saved"
  <2>1. Live(k)' => Live(k)
    BY <1>3, ConnType DEF Close, Live, TypeOK, storeVars
  <2> QED BY <1>2, <1>3, <2>1 DEF Close, lambdas, storeVars
<1>4. ASSUME NEW c \in Clients, AddUpdates(c) \/ Receive(c)
      PROVE  Owed(k) \/ watchPc'[k] = "saved"
  <2>1. UNCHANGED <<online, epoch, watching, broken, watchPc>>
    BY <1>4 DEF AddUpdates, Receive, watchVars, lambdas, storeVars
  <2> QED BY <1>2, <2>1 DEF Live
<1>5. ASSUME NEW c \in Clients, Unwatch(c) PROVE Owed(k) \/ watchPc'[k] = "saved"
  <2>1. watching'[k[1]] => watching[k[1]]
    BY <1>5, ConnType DEF Unwatch, TypeOK, storeVars
  <2>2. UNCHANGED <<online, epoch, broken, watchPc>>
    BY <1>5 DEF Unwatch, watchVars, storeVars
  <2> QED BY <1>2, <2>1, <2>2 DEF Live
<1>6. ASSUME NEW j \in Conns, WatchBranch(j) PROVE Owed(k) \/ watchPc'[k] = "saved"
  <2>1. UNCHANGED <<online, epoch, watching>> /\ broken \subseteq broken'
    BY <1>6 DEF WatchBranch, GetConnection, SaveNamespaceConnection, GetUpdates, SendInitial,
                Post, Deliver, Expire, PostFails, clientVars, storeVars
  <2>2. \/ watchPc'[k] = watchPc[k]
        \/ watchPc'[k] \notin {"read", "done"}
        \/ watchPc[k] \in {"saved", "read"}
    BY <1>6 DEF WatchBranch, GetConnection, SaveNamespaceConnection, GetUpdates,
                SendInitial, TypeOK, storeVars
  <2> QED BY <1>2, <2>1, <2>2 DEF Live
<1>7. ASSUME NEW a \in Adds, AddUpdatesHandler(a) \/ CrashAdd(a)
      PROVE  Owed(k) \/ watchPc'[k] = "saved"
  <2>1. UNCHANGED <<online, epoch, watching, watchPc>> /\ broken \subseteq broken'
    BY <1>7 DEF AddUpdatesHandler, Store, MaxSizeReached, ReadToMerge, ReplaceUpdates,
                MergeFails, GetConnectionsByNamespace, Broadcast, SendUpdatesReceived,
                CrashAdd, Post, Deliver, Expire, PostFails, clientVars, watchVars, storeVars
  <2> QED BY <1>2, <2>1 DEF Live
<1>8. ASSUME NEW h \in Leaves, Leave(h) \/ CrashLeave(h) PROVE Owed(k) \/ watchPc'[k] = "saved"
  <2>1. UNCHANGED <<online, epoch, watching, watchPc, broken>>
    BY <1>8 DEF Leave, GetNamespaceConnection, DeleteNamespaceConnection, GetConnections,
                ClearConnection, CountConnections, ClearUpdates, CrashLeave, clientVars,
                watchVars, storeVars
  <2> QED BY <1>2, <2>1 DEF Live
<1>9. ASSUME NEW j \in Conns, KeyExpires(j) \/ RateLimited(j) \/ CrashWatch(j)
      PROVE  Owed(k) \/ watchPc'[k] = "saved"
  <2>1. UNCHANGED <<online, epoch, watching>> /\ broken \subseteq broken'
    BY <1>9 DEF KeyExpires, RateLimited, CrashWatch, clientVars, storeVars
  <2>2. watchPc'[k] = watchPc[k] \/ watchPc'[k] = "failed"
    BY <1>9 DEF KeyExpires, RateLimited, CrashWatch, lambdas, TypeOK, storeVars
  <2> QED BY <1>2, <2>1, <2>2 DEF Live
<1>10. CASE UNCHANGED vars
  BY <1>2, <1>10 DEF vars, clientVars, lambdas, Live, storeVars
<1> QED BY <1>1, <1>3, <1>4, <1>5, <1>6, <1>7, <1>8, <1>9, <1>10 DEF Next

(* A stored update that is covered stays covered while its connection is owed *)
(* it: what is taken out of a message is applied or held back, what is held   *)
(* back is applied, and what watchBranch read is sent.                        *)
LEMMA CoveredStays ==
  ASSUME TypeOK, LinkInv, [Next]_vars, NEW k \in Conns, NEW u \in stored,
         Owed(k), Owed(k)', Covered(k, u)
  PROVE  Covered(k, u)'
<1> USE ConnType
<1>1. ASSUME doc[k[1]] \subseteq doc'[k[1]],
             buffer[k[1]] \subseteq doc'[k[1]] \cup buffer'[k[1]],
             \A m \in inbox : m.to = k => m \in inbox',
             watchPc'[k] = watchPc[k], snapshot'[k] = snapshot[k]
      PROVE  Covered(k, u)'
  <2>1. InFlight(k, u) => InFlight(k, u)'
    BY <1>1 DEF InFlight
  <2> QED BY <1>1, <2>1 DEF Covered
<1>2. k = Cur(k[1]) /\ online[k[1]] /\ watching[k[1]]
  BY CurLive DEF Owed
<1>3. ASSUME NEW c \in Clients, Connect(c) PROVE Covered(k, u)'
  <2>1. k[1] # c
    BY <1>2, <1>3 DEF Connect, storeVars
  <2>2. buffer'[k[1]] = buffer[k[1]] /\ watchPc'[k] = watchPc[k]
    BY <1>3, <2>1 DEF Connect, TypeOK, storeVars
  <2>3. UNCHANGED <<doc, inbox, snapshot>>
    BY <1>3 DEF Connect, storeVars
  <2> QED BY <1>1, <2>2, <2>3
<1>4. ASSUME NEW c \in Clients, Close(c) PROVE Covered(k, u)'
  <2>1. k[1] # c
    BY <1>4 DEF Close, Owed, Live, TypeOK, storeVars
  <2>2. k # Cur(c)
    BY <2>1 DEF Cur
  <2> QED BY <1>1, <1>4, <2>2 DEF Close, lambdas, storeVars
<1>5. ASSUME NEW c \in Clients, AddUpdates(c) PROVE Covered(k, u)'
  <2>1. doc[k[1]] \subseteq doc'[k[1]]
    BY <1>5 DEF AddUpdates, TypeOK, storeVars
  <2> QED BY <1>1, <1>5, <2>1 DEF AddUpdates, watchVars, storeVars
<1>6. ASSUME NEW c \in Clients, Receive(c) PROVE Covered(k, u)'
  <2>1. PICK m \in inbox : /\ m.to = Cur(c)
                           /\ \/ ReceiveUpdates(c, m)
                              \/ ReceiveInitial(c, m)
                              \/ ReceiveAck(c, m)
    BY <1>6 DEF Receive, storeVars
  <2>2. UNCHANGED <<watchPc, snapshot>> /\ inbox' = inbox \ {m}
    BY <1>6, <2>1 DEF Receive, lambdas, ReceiveUpdates, ReceiveInitial, ReceiveAck, storeVars
  <2>3. /\ doc[k[1]] \subseteq doc'[k[1]]
        /\ buffer[k[1]] \subseteq doc'[k[1]] \cup buffer'[k[1]]
    <3>1. CASE ReceiveUpdates(c, m)
      BY <3>1 DEF ReceiveUpdates, TypeOK
    <3>2. CASE ReceiveInitial(c, m)
      BY <3>2 DEF ReceiveInitial, TypeOK
    <3>3. CASE ReceiveAck(c, m)
      BY <3>3 DEF ReceiveAck
    <3> QED BY <2>1, <3>1, <3>2, <3>3
  <2>4. CASE m.to # k \/ m.type \notin {"updates", "initial"}
    <3>1. InFlight(k, u) => InFlight(k, u)'
      BY <2>2, <2>4 DEF InFlight
    <3> QED BY <2>2, <2>3, <3>1 DEF Covered
  <2>5. CASE m.to = k /\ m.type \in {"updates", "initial"}
    <3>1. k[1] = c
      BY <2>1, <2>5 DEF Cur
    <3>2. m.updates \subseteq doc'[c] \cup buffer'[c]
      BY <2>1, <2>5 DEF ReceiveUpdates, ReceiveInitial, ReceiveAck, TypeOK
    <3>3. InFlight(k, u) => InFlight(k, u)' \/ u \in m.updates
      BY <2>2 DEF InFlight
    <3> QED BY <2>2, <2>3, <3>1, <3>2, <3>3 DEF Covered
  <2> QED BY <2>4, <2>5
<1>7. ASSUME NEW c \in Clients, Unwatch(c) PROVE Covered(k, u)'
  BY <1>1, <1>7 DEF Unwatch, watchVars, storeVars
<1>8. ASSUME NEW j \in Conns, WatchBranch(j) PROVE Covered(k, u)'
  <2>1. UNCHANGED <<doc, buffer>>
    BY <1>8 DEF WatchBranch, GetConnection, SaveNamespaceConnection, GetUpdates, SendInitial,
                clientVars, storeVars
  <2>2. inbox \subseteq inbox'
    BY <1>8 DEF WatchBranch, GetConnection, SaveNamespaceConnection, GetUpdates, SendInitial,
                Post, Deliver, Expire, PostFails, storeVars
  <2>3. CASE j # k
    <3>1. watchPc'[k] = watchPc[k] /\ snapshot'[k] = snapshot[k]
      BY <1>8, <2>3 DEF WatchBranch, GetConnection, SaveNamespaceConnection, GetUpdates,
                        SendInitial, TypeOK, storeVars
    <3> QED BY <1>1, <2>1, <2>2, <3>1
  <2>4. CASE j = k
    <3>1. CASE GetUpdates(k)
      BY <3>1 DEF GetUpdates, Covered, TypeOK, storeVars
    <3>2. CASE SendInitial(k)
      <4>1. InFlight(k, u) => InFlight(k, u)'
        BY <2>2 DEF InFlight
      <4>2. Deliver(k, Message(k, "initial", snapshot[k]))
        BY <3>2 DEF SendInitial, Post, Expire, PostFails, Owed, storeVars
      <4>3. ASSUME u \in snapshot[k] PROVE InFlight(k, u)'
        <5>1. PICK m : m = Message(k, "initial", snapshot[k])
          OBVIOUS
        <5>2. m \in inbox'
          BY <4>2, <5>1 DEF Deliver
        <5>3. m.to = k /\ m.type = "initial" /\ u \in m.updates
          BY <4>3, <5>1 DEF Message
        <5> QED BY <5>2, <5>3 DEF InFlight
      <4> QED BY <2>1, <3>2, <4>1, <4>3 DEF Covered, SendInitial, storeVars
    <3>3. ~GetConnection(k) /\ ~SaveNamespaceConnection(k)
      BY DEF GetConnection, SaveNamespaceConnection, Owed, storeVars
    <3> QED BY <1>8, <2>4, <3>1, <3>2, <3>3 DEF WatchBranch, storeVars
  <2> QED BY <2>3, <2>4
<1>9. ASSUME NEW a \in Adds, AddUpdatesHandler(a) \/ CrashAdd(a) PROVE Covered(k, u)'
  <2>1. UNCHANGED <<doc, buffer, watchPc, snapshot>>
    BY <1>9 DEF AddUpdatesHandler, Store, MaxSizeReached, ReadToMerge, ReplaceUpdates,
                MergeFails, GetConnectionsByNamespace, Broadcast, SendUpdatesReceived,
                CrashAdd, clientVars, watchVars, storeVars
  <2>2. inbox \subseteq inbox'
    BY <1>9 DEF AddUpdatesHandler, Store, MaxSizeReached, ReadToMerge, ReplaceUpdates,
                MergeFails, GetConnectionsByNamespace, Broadcast, SendUpdatesReceived,
                CrashAdd, Post, Deliver, Expire, PostFails, storeVars
  <2> QED BY <1>1, <2>1, <2>2
<1>10. ASSUME NEW h \in Leaves, Leave(h) \/ CrashLeave(h) PROVE Covered(k, u)'
  <2>1. UNCHANGED <<doc, buffer, watchPc, snapshot, inbox>>
    BY <1>10 DEF Leave, GetNamespaceConnection, DeleteNamespaceConnection, GetConnections,
                 ClearConnection, CountConnections, ClearUpdates, CrashLeave, clientVars,
                 watchVars, storeVars
  <2> QED BY <1>1, <2>1
<1>11. ASSUME NEW j \in Conns, KeyExpires(j) \/ RateLimited(j) PROVE Covered(k, u)'
  <2>1. UNCHANGED <<doc, buffer, snapshot, inbox>>
    BY <1>11 DEF KeyExpires, RateLimited, clientVars, lambdas, storeVars
  <2>2. watchPc'[k] = watchPc[k]
    BY <1>11 DEF KeyExpires, RateLimited, lambdas, TypeOK, Owed, storeVars
  <2> QED BY <1>1, <2>1, <2>2
<1>12. ASSUME NEW j \in Conns, CrashWatch(j) PROVE Covered(k, u)'
  <2>1. j # k
    BY <1>12 DEF CrashWatch, Owed, TypeOK, storeVars
  <2> QED BY <1>1, <1>12, <2>1 DEF CrashWatch, clientVars, TypeOK, storeVars
<1>13. CASE UNCHANGED vars
  BY <1>1, <1>13 DEF vars, clientVars, lambdas, storeVars
<1> QED BY <1>3, <1>4, <1>5, <1>6, <1>7, <1>8, <1>9, <1>10, <1>11, <1>12, <1>13 DEF Next

LEMMA CoveredNext ==
  ASSUME TypeOK, LinkInv, [Next]_vars, NEW k \in Conns, NEW u \in stored,
         Owed(k)', Owed(k) => Covered(k, u)
  PROVE  Covered(k, u)'
<1>1. CASE Owed(k)
  BY <1>1, CoveredStays
<1>2. CASE watchPc'[k] = "saved"
  BY <1>2 DEF Covered
<1> QED BY <1>1, <1>2, OwedFrom

(* A post to a connection that is owed updates before and after is delivered. *)
LEMMA PostReaches ==
  ASSUME NEW k \in Conns, NEW u, Owed(k), Owed(k)', Post(k, Message(k, "updates", {u}))
  PROVE  Covered(k, u)'
<1>1. Deliver(k, Message(k, "updates", {u}))
  BY DEF Post, Expire, PostFails, Owed
<1>2. PICK m : m = Message(k, "updates", {u})
  OBVIOUS
<1>3. m \in inbox'
  BY <1>1, <1>2 DEF Deliver
<1>4. m.to = k /\ m.type = "updates" /\ u \in m.updates
  BY <1>2 DEF Message
<1> QED BY <1>3, <1>4 DEF InFlight, Covered

(* What a step can do to one addUpdates invocation: it takes a step of its    *)
(* own, dies, or is left alone, unless it has not started yet.               *)
LEMMA HandlerStep ==
  ASSUME TypeOK, LinkInv, FreshInv, [Next]_vars, NEW a \in Adds
  PROVE  \/ AddUpdatesHandler(a)
         \/ CrashAdd(a)
         \/ addPc'[a] = addPc[a] /\ targets'[a] = targets[a]
         \/ /\ addPc[a] \in {"none", "sent"} /\ addPc'[a] \in {"sent", "done"}
            /\ targets'[a] = targets[a]
<1> DEFINE Goal == \/ AddUpdatesHandler(a)
                   \/ CrashAdd(a)
                   \/ addPc'[a] = addPc[a] /\ targets'[a] = targets[a]
                   \/ /\ addPc[a] \in {"none", "sent"} /\ addPc'[a] \in {"sent", "done"}
                      /\ targets'[a] = targets[a]
<1>0. /\ a[1] \in Conns /\ a[2] \in Updates /\ a = <<a[1], a[2]>>
      /\ a[1][1] \in Clients /\ a[1][2] \in Nat /\ a[2][1] \in Clients /\ a[2][2] \in Nat
  BY AddType, ConnType, UpdateType, ConstantsAssumption
<1>1. ASSUME NEW c \in Clients, Connect(c) PROVE Goal
  <2>1. targets' = targets
    BY <1>1 DEF Connect, storeVars
  <2>2. addPc'[a] = addPc[a] \/ (addPc'[a] = "sent" /\ a[1] = <<c, epoch[c] + 1>>)
    BY <1>1 DEF Connect, TypeOK, storeVars
  <2>3. ASSUME a[1] = <<c, epoch[c] + 1>> PROVE addPc[a] = "none"
    <3>1. a[1][1] = c /\ a[1][2] = epoch[c] + 1
      BY <2>3
    <3> QED BY <3>1, ConstantsAssumption DEF FreshInv, TypeOK
  <2> QED BY <2>1, <2>2, <2>3
<1>2. ASSUME NEW c \in Clients, AddUpdates(c) PROVE Goal
  <2>1. targets' = targets
    BY <1>2 DEF AddUpdates, storeVars
  <2>2. addPc'[a] = addPc[a] \/ (addPc'[a] = "sent" /\ a = <<Cur(c), <<c, counter[c] + 1>> >>)
    BY <1>2 DEF AddUpdates, TypeOK, storeVars
  <2>3. ASSUME a = <<Cur(c), <<c, counter[c] + 1>> >> PROVE addPc[a] = "none"
    <3>1. a[2][1] = c /\ a[2][2] = counter[c] + 1
      BY <2>3
    <3>2. a[2] \notin doc[a[1][1]]
      BY <1>0, <3>1, ConstantsAssumption DEF FreshInv, TypeOK
    <3> QED BY <3>2 DEF LinkInv, OwnInv
  <2> QED BY <2>1, <2>2, <2>3
<1>3. ASSUME NEW c \in Clients, Close(c) \/ Receive(c) \/ Unwatch(c) PROVE Goal
  BY <1>3 DEF Close, Receive, Unwatch, lambdas, addVars, storeVars
<1>4. ASSUME NEW k \in Conns, WatchBranch(k) \/ KeyExpires(k) \/ CrashWatch(k) PROVE Goal
  BY <1>4 DEF WatchBranch, GetConnection, SaveNamespaceConnection, GetUpdates, SendInitial,
              KeyExpires, CrashWatch, addVars, lambdas, storeVars
<1>5. ASSUME NEW k \in Conns, RateLimited(k) PROVE Goal
  <2>1. targets' = targets
    BY <1>5 DEF RateLimited, storeVars
  <2>2. \/ addPc' = addPc
        \/ \E u \in Updates : /\ addPc[<<k, u>>] = "sent"
                              /\ addPc' = [addPc EXCEPT ![<<k, u>>] = "done"]
    BY <1>5 DEF RateLimited, storeVars
  <2>3. addPc'[a] = addPc[a] \/ (addPc[a] = "sent" /\ addPc'[a] = "done")
    BY <2>2 DEF TypeOK
  <2> QED BY <2>1, <2>3
<1>6. ASSUME NEW b \in Adds, AddUpdatesHandler(b) \/ CrashAdd(b) PROVE Goal
  <2>1. CASE b = a
    BY <1>6, <2>1
  <2>2. CASE b # a
    <3>1. addPc'[a] = addPc[a] /\ targets'[a] = targets[a]
      BY <1>6, <2>2 DEF AddUpdatesHandler, Store, MaxSizeReached, ReadToMerge,
                        ReplaceUpdates, MergeFails, GetConnectionsByNamespace, Broadcast,
                        SendUpdatesReceived, CrashAdd, TypeOK, storeVars
    <3> QED BY <3>1
  <2> QED BY <2>1, <2>2
<1>7. ASSUME NEW h \in Leaves, Leave(h) \/ CrashLeave(h) PROVE Goal
  BY <1>7 DEF Leave, GetNamespaceConnection, DeleteNamespaceConnection, GetConnections,
              ClearConnection, CountConnections, ClearUpdates, CrashLeave, addVars,
              storeVars
<1>8. CASE UNCHANGED vars
  BY <1>8 DEF vars, lambdas, storeVars
<1> QED BY <1>1, <1>2, <1>3, <1>4, <1>5, <1>6, <1>7, <1>8 DEF Next

(* What the targets become: GetConnectionsByNamespace leaves out only the     *)
(* author's own connection, and the author has the update.                   *)
LEMMA TargetsCover ==
  ASSUME TypeOK, LinkInv, NEW a \in Adds, GetConnectionsByNamespace(a),
         NEW k \in Conns, Owed(k), Owed(k)'
  PROVE  k \in targets'[a] \/ Covered(k, a[2])'
<1>1. k \in nsConns
  BY DEF LinkInv, RegisteredInv
<1>2. targets'[a] = nsConns \ {a[1]} /\ doc' = doc /\ addPc[a] = "stored"
  BY DEF GetConnectionsByNamespace, TypeOK, clientVars, storeVars
<1>3. a[2] \in doc[a[1][1]]
  BY <1>2 DEF LinkInv, OwnInv
<1>4. CASE k = a[1]
  BY <1>2, <1>3, <1>4 DEF Covered
<1> QED BY <1>1, <1>2, <1>4

(* A message is sent by watchBranch or by addUpdates, and nowhere else.       *)
LEMMA InboxFrom ==
  ASSUME [Next]_vars
  PROVE  \/ inbox' \subseteq inbox
         \/ \E a \in Adds : SendUpdatesReceived(a) \/ Broadcast(a)
         \/ \E j \in Conns : SendInitial(j)
  BY ZenonT(40) DEF Next, Connect, Close, AddUpdates, Receive, ReceiveUpdates, ReceiveInitial,
           ReceiveAck, Unwatch, WatchBranch, GetConnection, SaveNamespaceConnection,
           GetUpdates, KeyExpires, RateLimited, CrashWatch, AddUpdatesHandler, Store,
           MaxSizeReached, ReadToMerge, ReplaceUpdates, MergeFails,
           GetConnectionsByNamespace, CrashAdd, Leave, GetNamespaceConnection,
           DeleteNamespaceConnection, GetConnections, ClearConnection,
           CountConnections, ClearUpdates, CrashLeave, vars, storeVars

LEMMA TargetsInvStep ==
  ASSUME TypeOK, LinkInv, FreshInv, TargetsInv, [Next]_vars
  PROVE  TargetsInv'
<1> SUFFICES ASSUME NEW a \in Adds, targets'[a] # {}
             PROVE  addPc'[a] \in {"send", "swallowed", "done"}
  BY DEF TargetsInv
<1>1. CASE GetConnectionsByNamespace(a)
  BY <1>1 DEF GetConnectionsByNamespace, TypeOK
<1>2. CASE Broadcast(a)
  <2>1. targets[a] # {}
    BY <1>2, BroadcastPost
  <2> QED BY <1>2, <2>1, BroadcastPost DEF TargetsInv, TypeOK
<1>3. CASE SendUpdatesReceived(a)
  BY <1>3 DEF SendUpdatesReceived, TypeOK
<1>4. CASE Store(a) \/ MaxSizeReached(a) \/ ReadToMerge(a) \/ ReplaceUpdates(a) \/ MergeFails(a)
  <2>1. targets' = targets /\ addPc[a] \in {"sent", "full", "merge"}
    BY <1>4 DEF Store, MaxSizeReached, ReadToMerge, ReplaceUpdates, MergeFails
  <2> QED BY <2>1 DEF TargetsInv
<1>5. CASE CrashAdd(a)
  BY <1>5 DEF CrashAdd, TypeOK
<1>6. CASE targets'[a] = targets[a] /\ (addPc'[a] = addPc[a] \/ addPc[a] \in {"none", "sent"})
  BY <1>6 DEF TargetsInv
<1> QED BY <1>1, <1>2, <1>3, <1>4, <1>5, <1>6, HandlerStep DEF AddUpdatesHandler

(* One post of the broadcast, seen from one connection that is owed the       *)
(* update before and after: it is delivered, or still to be made.             *)
LEMMA BroadcastReaches ==
  ASSUME TypeOK, NEW a \in Adds, Broadcast(a), NEW k \in targets[a],
         Owed(k), Owed(k)'
  PROVE  k \in targets'[a] \/ Covered(k, a[2])'
<1>1. PICK j \in targets[a] : /\ Post(j, Message(j, "updates", {a[2]}))
                              /\ targets' = [targets EXCEPT ![a] = @ \ {j}]
  BY BroadcastPost
<1>2. CASE j = k
  <2>1. k \in Conns
    BY DEF TypeOK
  <2> QED BY <1>1, <1>2, <2>1, PostReaches
<1>3. CASE j # k
  BY <1>1, <1>3 DEF TypeOK
<1> QED BY <1>2, <1>3

(* A straggling post is made, or stays to be made.                            *)
LEMMA ReachedNext ==
  ASSUME TypeOK, LinkInv, FreshInv, [Next]_vars, NEW k \in Conns, NEW u \in stored,
         Owed(k)', Owed(k) => Reached(k, u)
  PROVE  Reached(k, u)'
<1>1. CASE ~Owed(k)
  BY <1>1, CoveredNext DEF Reached
<1>2. CASE Owed(k) /\ Covered(k, u)
  BY <1>2, CoveredNext DEF Reached
<1>3. CASE Owed(k) /\ Straggling(k, u)
  <2>1. PICK b \in Conns : addPc[<<b, u>>] = "done" /\ k \in targets[<<b, u>>]
    BY <1>3 DEF Straggling
  <2>2. PICK a \in Adds : a = <<b, u>> /\ a[2] = u
    <3>1. u \in Updates
      BY DEF TypeOK
    <3>2. <<b, u>> \in Adds
      BY <3>1 DEF Adds
    <3> QED BY <3>2
  <2>3. addPc[a] = "done" /\ k \in targets[a]
    BY <2>1, <2>2
  <2>4. CASE addPc'[a] = "done" /\ k \in targets'[a]
    BY <2>2, <2>4 DEF Straggling, Reached
  <2>5. CASE Broadcast(a)
    <3>1. addPc'[a] = "done"
      BY <2>3, <2>5, BroadcastPost DEF TypeOK
    <3>2. k \in targets'[a] \/ Covered(k, u)'
      BY <1>3, <2>2, <2>3, <2>5, BroadcastReaches
    <3> QED BY <2>4, <3>1, <3>2 DEF Reached
  <2>6. /\ ~CrashAdd(a) /\ ~Store(a) /\ ~MaxSizeReached(a) /\ ~ReadToMerge(a)
        /\ ~ReplaceUpdates(a) /\ ~MergeFails(a) /\ ~GetConnectionsByNamespace(a)
        /\ ~SendUpdatesReceived(a)
    BY <2>3 DEF CrashAdd, Store, MaxSizeReached, ReadToMerge, ReplaceUpdates, MergeFails,
                GetConnectionsByNamespace, SendUpdatesReceived, AddUnderWay
  <2> QED BY <2>3, <2>4, <2>5, <2>6, HandlerStep DEF AddUpdatesHandler
<1> QED BY <1>1, <1>2, <1>3 DEF Reached

LEMMA SentInvStep ==
  ASSUME TypeOK, EditInv, LinkInv, FreshInv, SentInv, [Next]_vars
  PROVE  SentInv'
<1> SUFFICES ASSUME NEW a \in Adds, ~Temporary, addPc'[a] \in {"send", "swallowed"},
                    NEW k \in Conns, Owed(k)', k \notin targets'[a]
             PROVE  Covered(k, a[2])'
  BY DEF SentInv
<1>1. CASE ~Owed(k)
  BY <1>1, OwedFrom DEF Covered
<1>2. CASE Owed(k)
  <2>1. CASE addPc[a] \in {"send", "swallowed"} /\ k \notin targets[a]
    <3>1. a[2] \in stored
      BY <2>1 DEF EditInv, HandlerInv, Safe
    <3> QED BY <1>2, <2>1, <3>1, CoveredNext DEF SentInv
  <2>2. CASE GetConnectionsByNamespace(a)
    BY <1>2, <2>2, TargetsCover
  <2>3. CASE Broadcast(a) /\ k \in targets[a]
    BY <1>2, <2>3, BroadcastReaches
  <2>4. \/ addPc[a] \in {"send", "swallowed"} /\ k \notin targets[a]
        \/ GetConnectionsByNamespace(a)
        \/ Broadcast(a) /\ k \in targets[a]
    <3>1. CASE Broadcast(a)
      BY <3>1, BroadcastPost DEF TypeOK
    <3>2. ~CrashAdd(a) /\ ~SendUpdatesReceived(a)
      BY DEF CrashAdd, SendUpdatesReceived, TypeOK
    <3>3. /\ ~Store(a) /\ ~MaxSizeReached(a) /\ ~ReadToMerge(a) /\ ~ReplaceUpdates(a)
          /\ ~MergeFails(a)
      BY DEF Store, MaxSizeReached, ReadToMerge, ReplaceUpdates, MergeFails, TypeOK
    <3> QED BY <3>1, <3>2, <3>3, HandlerStep DEF AddUpdatesHandler
  <2> QED BY <2>1, <2>2, <2>3, <2>4
<1> QED BY <1>1, <1>2

LEMMA AckInvStep ==
  ASSUME TypeOK, EditInv, LinkInv, FreshInv, SentInv, AckInv, [Next]_vars
  PROVE  AckInv'
<1> SUFFICES ASSUME NEW m \in inbox', ~Temporary, m.type = "ack",
                    NEW k \in Conns, Owed(k)', NEW u \in m.updates
             PROVE  Reached(k, u)'
  BY DEF AckInv
<1>1. CASE m \in inbox
  <2>1. u \in stored
    BY <1>1 DEF EditInv, OnTheWayInv, Safe
  <2> QED BY <1>1, <2>1, ReachedNext DEF AckInv
<1>2. ASSUME NEW a \in Adds, SendUpdatesReceived(a), addPc[a] # "refused", u = a[2]
      PROVE  Reached(k, u)'
  <2>1. addPc[a] \in {"send", "swallowed"} /\ addPc'[a] = "done" /\ targets' = targets
    BY <1>2 DEF SendUpdatesReceived, TypeOK
  <2>2. u \in stored
    BY <1>2, <2>1 DEF EditInv, HandlerInv, Safe
  <2>3. CASE k \notin targets[a]
    <3>1. Owed(k) => Covered(k, u)
      BY <1>2, <2>1, <2>3 DEF SentInv
    <3> QED BY <2>2, <3>1, CoveredNext DEF Reached
  <2>4. CASE k \in targets[a]
    <3>1. a[1] \in Conns /\ a = <<a[1], u>>
      BY <1>2, AddType
    <3>2. addPc'[<<a[1], u>>] = "done" /\ k \in targets'[<<a[1], u>>]
      BY <2>1, <2>4, <3>1
    <3> QED BY <3>1, <3>2 DEF Straggling, Reached
  <2> QED BY <2>3, <2>4
<1>3. ASSUME m \notin inbox
      PROVE  \E a \in Adds : SendUpdatesReceived(a) /\ addPc[a] # "refused" /\ u = a[2]
  <2>1. ASSUME NEW a \in Adds, SendUpdatesReceived(a)
        PROVE  addPc[a] # "refused" /\ u = a[2]
    <3>1. PICK type : /\ type = IF addPc[a] = "refused" THEN "error" ELSE "ack"
                      /\ Post(a[1], Message(a[1], type, {a[2]}))
      BY <2>1 DEF SendUpdatesReceived
    <3>2. m = Message(a[1], type, {a[2]})
      BY <1>3, <3>1, PostInbox
    <3>3. m.type = type /\ m.updates = {a[2]}
      BY <3>2 DEF Message
    <3> QED BY <3>1, <3>3
  <2>2. ASSUME NEW a \in Adds, Broadcast(a) PROVE FALSE
    <3>1. PICK j : Post(j, Message(j, "updates", {a[2]}))
      BY <2>2, BroadcastPost
    <3>2. m = Message(j, "updates", {a[2]})
      BY <1>3, <3>1, PostInbox
    <3> QED BY <3>2 DEF Message
  <2>3. ASSUME NEW j \in Conns, SendInitial(j) PROVE FALSE
    <3>1. m = Message(j, "initial", snapshot[j])
      BY <1>3, <2>3, PostInbox DEF SendInitial
    <3> QED BY <3>1 DEF Message
  <2> QED BY <1>3, <2>1, <2>2, <2>3, InboxFrom
<1> QED BY <1>1, <1>2, <1>3

(* An update leaves _sentUpdates only with an answer, and enters the store    *)
(* only through addUpdates.                                                  *)
LEMMA MarkedOff ==
  ASSUME TypeOK, AckInv, [Next]_vars, NEW u \in Updates,
         u \in sentUpdates[u[1]], u \notin sentUpdates'[u[1]], u \notin refused'
  PROVE  ~Temporary /\ \A k \in Conns : Owed(k) => Reached(k, u)
<1>0. u[1] \in Clients
  BY UpdateType
<1>1. ASSUME NEW c \in Clients, AddUpdates(c) PROVE FALSE
  BY <1>0, <1>1 DEF AddUpdates, TypeOK, storeVars
<1>2. \/ sentUpdates' = sentUpdates
      \/ \E c \in Clients : AddUpdates(c)
      \/ \E c \in Clients, m \in inbox : ReceiveAck(c, m)
  BY ZenonT(40) DEF Next, Connect, Close, Receive, ReceiveUpdates, ReceiveInitial, Unwatch,
         WatchBranch, GetConnection, SaveNamespaceConnection, GetUpdates, SendInitial,
         KeyExpires, RateLimited, CrashWatch, AddUpdatesHandler, Store, MaxSizeReached,
         ReadToMerge, ReplaceUpdates, MergeFails, GetConnectionsByNamespace, Broadcast,
         SendUpdatesReceived, CrashAdd, Leave, GetNamespaceConnection,
         DeleteNamespaceConnection, GetConnections, ClearConnection, CountConnections,
         ClearUpdates, CrashLeave, clientVars, vars, storeVars
<1>3. PICK c \in Clients, m \in inbox : ReceiveAck(c, m)
  BY <1>1, <1>2
<1>4. ~Temporary /\ u \in m.updates
  BY <1>0, <1>3 DEF ReceiveAck, TypeOK
<1>5. m.type = "ack"
  BY <1>3, <1>4 DEF ReceiveAck
<1> QED BY <1>4, <1>5 DEF AckInv

LEMMA StoredFrom ==
  ASSUME EditInv, [Next]_vars, NEW u, u \in stored', u \notin Unannounced'
  PROVE  \/ u \in stored /\ u \notin Unannounced
         \/ \E a \in Adds : (Store(a) \/ ReplaceUpdates(a)) /\ u = a[2]
<1>1. \/ stored' = stored /\ revived' = revived
      \/ \E a \in Adds : Store(a) \/ ReplaceUpdates(a)
      \/ stored' = {}
  BY ZenonT(40) DEF Next, Connect, Close, AddUpdates, Receive, Unwatch, WatchBranch, GetConnection,
         SaveNamespaceConnection, GetUpdates, SendInitial, KeyExpires, RateLimited,
         CrashWatch, AddUpdatesHandler, MaxSizeReached, ReadToMerge, MergeFails,
         GetConnectionsByNamespace, Broadcast, SendUpdatesReceived, CrashAdd, Leave,
         GetNamespaceConnection, DeleteNamespaceConnection, GetConnections,
         ClearConnection, CountConnections, ClearUpdates, CrashLeave, vars, storeVars
<1>2. ASSUME NEW a \in Adds, Store(a) PROVE u = a[2] \/ (u \in stored /\ u \notin Unannounced)
  BY <1>2 DEF Store, Unannounced
<1>3. ASSUME NEW a \in Adds, ReplaceUpdates(a)
      PROVE  u = a[2] \/ (u \in stored /\ u \notin Unannounced)
  <2>1. CASE Temporary
    BY <1>3, <2>1 DEF ReplaceUpdates, Unannounced
  <2>2. CASE ~Temporary
    <3>1. merging[a] \subseteq stored
      BY <2>2 DEF EditInv, OnTheWayInv, Safe
    <3> QED BY <1>3, <2>2, <3>1 DEF ReplaceUpdates, Unannounced
  <2> QED BY <2>1, <2>2
<1> QED BY <1>1, <1>2, <1>3 DEF Unannounced

LEMMA RefusedStays == ASSUME [Next]_vars PROVE refused \subseteq refused'
  BY ZenonT(40) DEF Next, Connect, Close, AddUpdates, Receive, ReceiveUpdates, ReceiveInitial,
         ReceiveAck, Unwatch, WatchBranch, GetConnection, SaveNamespaceConnection,
         GetUpdates, SendInitial,
         KeyExpires, RateLimited, CrashWatch, AddUpdatesHandler, Store, MaxSizeReached,
         ReadToMerge, ReplaceUpdates, MergeFails,
         GetConnectionsByNamespace, Broadcast, SendUpdatesReceived, CrashAdd, Leave,
         GetNamespaceConnection, DeleteNamespaceConnection, GetConnections,
         ClearConnection, CountConnections, ClearUpdates, CrashLeave, vars, storeVars

LEMMA MarkedInvStep ==
  ASSUME TypeOK, EditInv, LinkInv, FreshInv, AckInv, MarkedInv, [Next]_vars
  PROVE  MarkedInv'
<1> SUFFICES ASSUME NEW u \in stored', u \notin refused', ~Temporary,
                    u \notin sentUpdates'[u[1]], NEW k \in Conns, Owed(k)'
             PROVE  Reached(k, u)'
  BY DEF MarkedInv
<1>0. u \notin refused
  BY RefusedStays
<1>1. CASE u \in stored
  <2>0. u \in Updates
    BY <1>1 DEF TypeOK
  <2>1. Owed(k) => Reached(k, u)
    BY <1>0, <1>1, <2>0, MarkedOff DEF MarkedInv
  <2> QED BY <1>1, <2>1, ReachedNext
<1>2. CASE u \notin stored
  <2>1. PICK a \in Adds : (Store(a) \/ ReplaceUpdates(a)) /\ u = a[2]
    BY <1>2, StoredFrom DEF Unannounced
  <2>2. u \in doc[u[1]] /\ u[1] \in Clients
    BY <2>1, AddType, ConnType DEF Store, ReplaceUpdates, LinkInv, OwnInv
  <2>3. sentUpdates' = sentUpdates
    BY <2>1 DEF Store, ReplaceUpdates, clientVars
  <2> QED BY <1>0, <1>2, <2>2, <2>3 DEF EditInv, KeptInv
<1> QED BY <1>1, <1>2

LEMMA OwedInvStep ==
  ASSUME TypeOK, EditInv, LinkInv, FreshInv, CoverInv, [Next]_vars
  PROVE  OwedInv'
<1> SUFFICES ASSUME NEW k \in Conns, Owed(k)', NEW u \in stored', u \notin refused',
                    u \notin Unannounced'
             PROVE  Covered(k, u)' \/ Broadcasting(k, u)' \/ Resendable(u)'
  BY DEF OwedInv
<1>0. u \notin refused
  BY RefusedStays
<1>1. ASSUME NEW a \in Adds, Store(a) \/ ReplaceUpdates(a), u = a[2]
      PROVE  Broadcasting(k, u)'
  <2>1. a[1] \in Conns /\ a = <<a[1], u>> /\ addPc'[a] = "stored"
    BY <1>1, AddType DEF Store, ReplaceUpdates, TypeOK
  <2> QED BY <2>1 DEF Broadcasting
<1>2. CASE ~Owed(k)
  BY <1>2, OwedFrom DEF Covered
<1>3. CASE u \in stored /\ u \notin Unannounced /\ Owed(k)
  <2>0. u \in Updates
    BY <1>3 DEF TypeOK
  <2>1. CASE Covered(k, u)
    BY <1>3, <2>1, CoveredNext
  <2>2. CASE Reached(k, u)
    <3>1. Reached(k, u)'
      BY <1>3, <2>2, ReachedNext
    <3> QED BY <3>1 DEF Reached, Straggling, Broadcasting
  <2>3. CASE Resendable(u)
    BY <1>3, <2>0, <2>2, <2>3, MarkedOff DEF Resendable, CoverInv
  <2>4. CASE Broadcasting(k, u) /\ ~Reached(k, u)
    <3>1. PICK b \in Conns : addPc[<<b, u>>] = "stored" \/ k \in targets[<<b, u>>]
      BY <2>4 DEF Broadcasting
    <3>2. PICK a \in Adds : a = <<b, u>>
      BY <2>0 DEF Adds
    <3>3. a[2] = u
      BY <3>2
    <3>4. CASE addPc'[a] = "stored" \/ k \in targets'[a]
      BY <3>2, <3>4 DEF Broadcasting
    <3>5. CASE GetConnectionsByNamespace(a)
      BY <1>3, <3>3, <3>4, <3>5, TargetsCover
    <3>6. CASE Broadcast(a)
      <4>1. targets[a] # {}
        BY <3>6, BroadcastPost
      <4>2. addPc[a] # "stored"
        BY <4>1 DEF CoverInv, TargetsInv
      <4>3. k \in targets[a]
        BY <3>1, <3>2, <4>2
      <4> QED BY <1>3, <3>3, <3>4, <3>6, <4>3, BroadcastReaches
    <3>7. CASE CrashAdd(a)
      <4>1. "crash" \in Faults /\ sentUpdates' = sentUpdates
        BY <3>7 DEF CrashAdd, clientVars
      <4>2. CASE u \in sentUpdates[u[1]]
        BY <4>1, <4>2 DEF Resendable
      <4>3. CASE u \notin sentUpdates[u[1]]
        <5>1. ~Temporary
          BY <1>3, <4>3 DEF EditInv, OnTheWayInv, Safe
        <5> QED BY <1>0, <1>3, <2>4, <4>3, <5>1 DEF CoverInv, MarkedInv
      <4> QED BY <4>2, <4>3
    <3>8. CASE targets'[a] = targets[a] /\ addPc[a] # "stored"
      BY <3>1, <3>2, <3>4, <3>8
    <3>9. CASE \/ Store(a) \/ MaxSizeReached(a) \/ ReadToMerge(a) \/ ReplaceUpdates(a)
               \/ MergeFails(a) \/ SendUpdatesReceived(a)
      <4>1. targets' = targets /\ addPc[a] # "stored"
        BY <3>9 DEF Store, MaxSizeReached, ReadToMerge, ReplaceUpdates, MergeFails,
                    SendUpdatesReceived
      <4> QED BY <3>8, <4>1
    <3>10. CASE addPc'[a] = addPc[a] /\ targets'[a] = targets[a]
      BY <3>1, <3>2, <3>4, <3>10
    <3> QED BY <3>5, <3>6, <3>7, <3>8, <3>9, <3>10, HandlerStep DEF AddUpdatesHandler
  <2> QED BY <1>0, <1>3, <2>2, <2>3, <2>4 DEF CoverInv, OwedInv, Reached
<1> QED BY <1>1, <1>2, <1>3, StoredFrom

(* No update falls between the snapshot of watchBranch and the broadcasts of  *)
(* addUpdates, for any interleaving of any number of invocations.            *)
THEOREM NoUpdateIsLost == Spec => []NoLostUpdate
<1> DEFINE Inv == LinkInv /\ FreshInv /\ CoverInv
<1>1. Init => Inv
  <2> SUFFICES ASSUME Init PROVE Inv
    OBVIOUS
  <2>1. FreshInv
    BY DEF Init, FreshInv
  <2>2. CoverInv
    BY DEF Init, CoverInv, TargetsInv, SentInv, AckInv, MarkedInv, OwedInv
  <2> QED BY <2>1, <2>2, LinkInvInit
<1>2. TypeOK /\ EditInv /\ Inv /\ [Next]_vars => Inv'
  <2> SUFFICES ASSUME TypeOK, EditInv, Inv, [Next]_vars PROVE Inv'
    OBVIOUS
  <2>1. CoverInv'
    BY TargetsInvStep, SentInvStep, AckInvStep, MarkedInvStep, OwedInvStep DEF CoverInv
  <2> QED BY <2>1, LinkInvStep, FreshInvStep
<1>3. TypeOK /\ Inv => NoLostUpdate
  <2> SUFFICES ASSUME TypeOK, Inv, NEW c \in Clients, Synced(c),
                      NEW u \in stored \ (refused \cup Unannounced)
               PROVE  HasOrGets(c, u)
    BY DEF NoLostUpdate
  <2>1. Cur(c) \in Conns /\ Cur(c)[1] = c
    BY DEF Synced, LinkInv, OnlineInv, Cur, Conns
  <2>2. watchPc[Cur(c)] = "done" /\ buffer[c] = {}
    BY DEF Synced, LinkInv, ScanInv
  <2>3. Owed(Cur(c))
    BY <2>2 DEF Synced, Owed, Live, Cur
  <2> QED BY <2>1, <2>2, <2>3 DEF CoverInv, OwedInv, Covered, HasOrGets
<1>4. TypeOK /\ EditInv /\ [Next]_vars => EditInv'
  BY EditInvStep
<1> QED BY <1>1, <1>2, <1>3, <1>4, EditInvInit, TypeCorrect, PTL DEF Spec

-----------------------------------------------------------------------------
(* The protocol implements SharedInst. What is missing for it is that an    *)
(* answer finds the update it is about still filed, so that it is one       *)
(* confirmation or one rejection.                                           *)

(* Where an addUpdates invocation may still answer. *)
Open == {"sent"} \cup AddUnderWay

(* UPDATES_RECEIVED, with or without an error code. *)
IsAnswer(m) == m.type \in {"ack", "error"}

(* While an invocation for a live connection may still answer, the update   *)
(* is filed with its author.                                                *)
OpenInv == \A a \in Adds :
    Live(a[1]) /\ addPc[a] \in Open => a[2] \in sentUpdates[a[1][1]]

(* An answer that is on its way is about one update, comes from an          *)
(* invocation that has ended, and finds the update still filed.             *)
AnswerInv == \A m \in inbox : IsAnswer(m) =>
    \E u \in Updates : /\ m.updates = {u}
                       /\ addPc[<<m.to, u>>] = "done"
                       /\ u \in sentUpdates[m.to[1]]

(* There is one answer for a connection and an update. *)
OneAnswerInv == \A m, n \in inbox :
    IsAnswer(m) /\ IsAnswer(n) /\ m.to = n.to /\ m.updates = n.updates => m = n

(* The three together are inductive. *)
AnswersInv == OpenInv /\ AnswerInv /\ OneAnswerInv

(* Only an answer on the current connection takes an update out of          *)
(* _sentUpdates.                                                            *)
LEMMA FiledUntilAnswered ==
  ASSUME TypeOK, [Next]_vars, NEW c \in Clients, NEW u \in sentUpdates[c],
         u \notin sentUpdates'[c]
  PROVE  /\ ~Temporary
         /\ online[c]
         /\ UNCHANGED <<online, epoch, addPc>>
         /\ \E m \in inbox : /\ m.to = Cur(c) /\ IsAnswer(m) /\ u \in m.updates
                             /\ inbox' = inbox \ {m}
                             /\ sentUpdates' = [sentUpdates EXCEPT ![c] = @ \ m.updates]
<1>1. ASSUME NEW d \in Clients, AddUpdates(d) PROVE FALSE
  BY <1>1 DEF AddUpdates, TypeOK, storeVars
<1>2. \/ sentUpdates' = sentUpdates
      \/ \E d \in Clients : AddUpdates(d)
      \/ \E d \in Clients : Receive(d)
  BY DEF Next, Connect, Close, Unwatch, WatchBranch, GetConnection,
         SaveNamespaceConnection, GetUpdates, SendInitial, KeyExpires, RateLimited,
         CrashWatch, AddUpdatesHandler, Store, MaxSizeReached, ReadToMerge,
         ReplaceUpdates, MergeFails, GetConnectionsByNamespace, Broadcast,
         SendUpdatesReceived, CrashAdd, Leave, GetNamespaceConnection,
         DeleteNamespaceConnection, GetConnections, ClearConnection, CountConnections,
         ClearUpdates, CrashLeave, clientVars, vars, storeVars
<1>3. PICK d \in Clients : Receive(d)
  BY <1>1, <1>2
<1>4. UNCHANGED <<online, epoch, addPc>> /\ online[d]
  BY <1>3 DEF Receive, lambdas, storeVars
<1>5. PICK m \in inbox : m.to = Cur(d) /\ ReceiveAck(d, m)
  BY <1>3 DEF Receive, ReceiveUpdates, ReceiveInitial, storeVars
<1>6. /\ ~Temporary /\ IsAnswer(m) /\ inbox' = inbox \ {m}
      /\ sentUpdates' = [sentUpdates EXCEPT ![d] = @ \ m.updates]
  BY <1>5 DEF ReceiveAck, IsAnswer
<1>7. d = c /\ u \in m.updates
  BY <1>6 DEF TypeOK
<1> QED BY <1>4, <1>5, <1>6, <1>7

(* A connection becomes live when it is opened. *)
LEMMA LiveFrom ==
  ASSUME TypeOK, [Next]_vars, NEW k \in Conns, Live(k)', ~Live(k)
  PROVE  Connect(k[1]) /\ k = <<k[1], epoch[k[1]] + 1>>
<1>0. k[1] \in Clients /\ k[2] \in Nat /\ k = <<k[1], k[2]>>
  BY ConnType
<1>1. ASSUME NEW c \in Clients, Close(c) PROVE FALSE
  BY <1>0, <1>1 DEF Close, Live, TypeOK, storeVars
<1>2. ASSUME UNCHANGED <<online, epoch>> PROVE FALSE
  BY <1>2 DEF Live
<1>3. \/ UNCHANGED <<online, epoch>>
      \/ \E d \in Clients : Close(d)
      \/ \E d \in Clients : Connect(d)
  BY ZenonT(40) DEF Next, AddUpdates, Receive, Unwatch, WatchBranch, GetConnection,
         SaveNamespaceConnection, GetUpdates, SendInitial, KeyExpires, RateLimited,
         CrashWatch, AddUpdatesHandler, Store, MaxSizeReached, ReadToMerge,
         ReplaceUpdates, MergeFails, GetConnectionsByNamespace, Broadcast,
         SendUpdatesReceived, CrashAdd, Leave, GetNamespaceConnection,
         DeleteNamespaceConnection, GetConnections, ClearConnection, CountConnections,
         ClearUpdates, CrashLeave, clientVars, vars, storeVars
<1>4. PICK c \in Clients : Connect(c)
  BY <1>1, <1>2, <1>3
<1>5. k[1] = c /\ k[2] = epoch[c] + 1
  BY <1>0, <1>4 DEF Connect, Live, TypeOK, storeVars
<1> QED BY <1>0, <1>4, <1>5

(* An update is sent by its author, who has it filed. *)
LEMMA SentFrom ==
  ASSUME TypeOK, [Next]_vars, NEW a \in Adds, addPc[a] = "none", addPc'[a] # "none"
  PROVE  addPc'[a] = "sent" /\ a[2] \in sentUpdates'[a[1][1]]
<1> DEFINE Goal == addPc'[a] = "sent" /\ a[2] \in sentUpdates'[a[1][1]]
<1>1. ASSUME NEW c \in Clients, Connect(c) PROVE Goal
  <2>1. addPc'[a] = "sent" /\ a[1] = <<c, epoch[c] + 1>> /\ a[2] \in sentUpdates[c]
    BY <1>1 DEF Connect, TypeOK, storeVars
  <2>2. a[1][1] = c /\ sentUpdates' = sentUpdates
    BY <1>1, <2>1 DEF Connect, storeVars
  <2> QED BY <2>1, <2>2
<1>2. ASSUME NEW c \in Clients, AddUpdates(c) PROVE Goal
  <2>1. PICK u : u = <<c, counter[c] + 1>>
    OBVIOUS
  <2>2. addPc'[a] = "sent" /\ a = <<Cur(c), u>>
    BY <1>2, <2>1 DEF AddUpdates, TypeOK, storeVars
  <2>3. a[2] = u /\ a[1][1] = c
    BY <2>2 DEF Cur
  <2>4. u \in sentUpdates'[c]
    BY <1>2, <2>1 DEF AddUpdates, TypeOK, storeVars
  <2> QED BY <2>2, <2>3, <2>4
<1>3. ASSUME NEW b \in Adds, AddUpdatesHandler(b) \/ CrashAdd(b) PROVE FALSE
  <2>1. CASE Broadcast(b)
    BY <2>1, BroadcastPost DEF TypeOK
  <2>2. CASE ~Broadcast(b)
    <3>1. addPc[b] # "none" /\ \A d \in Adds : d # b => addPc'[d] = addPc[d]
      BY <1>3, <2>2 DEF AddUpdatesHandler, Store, MaxSizeReached, ReadToMerge, ReplaceUpdates,
                        MergeFails, GetConnectionsByNamespace, SendUpdatesReceived, CrashAdd,
                        AddUnderWay, TypeOK
    <3> QED BY <3>1
  <2> QED BY <2>1, <2>2
<1>4. ASSUME NEW k \in Conns, RateLimited(k) PROVE FALSE
  <2>1. \/ addPc' = addPc
        \/ \E u \in Updates : /\ addPc[<<k, u>>] = "sent"
                              /\ addPc' = [addPc EXCEPT ![<<k, u>>] = "done"]
    BY <1>4 DEF RateLimited, storeVars
  <2> QED BY <2>1 DEF TypeOK
<1>5. \/ addPc' = addPc
      \/ \E c \in Clients : Connect(c) \/ AddUpdates(c)
      \/ \E b \in Adds : AddUpdatesHandler(b) \/ CrashAdd(b)
      \/ \E k \in Conns : RateLimited(k)
  BY DEF Next, Close, Receive, Unwatch, WatchBranch, GetConnection,
         SaveNamespaceConnection, GetUpdates, SendInitial, KeyExpires, CrashWatch, Leave,
         GetNamespaceConnection, DeleteNamespaceConnection, GetConnections,
         ClearConnection, CountConnections, ClearUpdates, CrashLeave, addVars, lambdas,
         vars, storeVars
<1> QED BY <1>1, <1>2, <1>3, <1>4, <1>5

(* An invocation that has ended stays ended. *)
LEMMA DoneStays ==
  ASSUME TypeOK, LinkInv, FreshInv, [Next]_vars, NEW a \in Adds, addPc[a] = "done"
  PROVE  addPc'[a] = "done"
<1>1. CASE AddUpdatesHandler(a) \/ CrashAdd(a)
  <2>1. CASE Broadcast(a)
    BY <2>1, BroadcastPost DEF TypeOK
  <2>2. CASE ~Broadcast(a)
    BY <1>1, <2>2 DEF AddUpdatesHandler, Store, MaxSizeReached, ReadToMerge, ReplaceUpdates,
                      MergeFails, GetConnectionsByNamespace, SendUpdatesReceived, CrashAdd,
                      AddUnderWay
  <2> QED BY <2>1, <2>2
<1> QED BY <1>1, HandlerStep

(* Every step keeps the updates of open invocations filed: their answer has *)
(* not been sent, so the author cannot have received it.                    *)
LEMMA OpenInvStep ==
  ASSUME TypeOK, LinkInv, FreshInv, AnswersInv, [Next]_vars
  PROVE  OpenInv'
<1> SUFFICES ASSUME NEW a \in Adds, Live(a[1])', addPc'[a] \in Open
             PROVE  a[2] \in sentUpdates'[a[1][1]]
  BY DEF OpenInv, Open, AddUnderWay
<1>0. a[1] \in Conns /\ a[2] \in Updates /\ a = <<a[1], a[2]>> /\ a[1][1] \in Clients
  BY AddType, ConnType
<1>1. CASE addPc[a] = "none"
  BY <1>1, SentFrom DEF Open, AddUnderWay
<1>2. CASE addPc[a] # "none"
  <2>1. addPc[a] \in Open
    BY <1>2, DoneStays DEF Open, AddUnderWay, TypeOK
  <2>2. Live(a[1])
    <3> SUFFICES ASSUME ~Live(a[1]) PROVE FALSE
      OBVIOUS
    <3>1. a[1] = <<a[1][1], epoch[a[1][1]] + 1>>
      BY <1>0, LiveFrom
    <3>2. a[1][2] = epoch[a[1][1]] + 1 /\ epoch[a[1][1]] \in Nat
      BY <1>0, <3>1, ConstantsAssumption DEF TypeOK
    <3>3. a[1][2] <= epoch[a[1][1]]
      BY <1>2 DEF FreshInv
    <3> QED BY <3>2, <3>3
  <2>3. a[2] \in sentUpdates[a[1][1]]
    BY <2>1, <2>2 DEF AnswersInv, OpenInv
  <2>4. SUFFICES ASSUME a[2] \notin sentUpdates'[a[1][1]] PROVE FALSE
    OBVIOUS
  <2>5. addPc' = addPc
    BY <1>0, <2>3, <2>4, FiledUntilAnswered
  <2>6. PICK m \in inbox : m.to = Cur(a[1][1]) /\ IsAnswer(m) /\ a[2] \in m.updates
    BY <1>0, <2>3, <2>4, FiledUntilAnswered
  <2>7. m.to = a[1]
    BY <1>0, <2>2, <2>6, CurLive
  <2>8. addPc[<<m.to, a[2]>>] = "done"
    BY <2>6 DEF AnswersInv, AnswerInv
  <2> QED BY <1>0, <2>1, <2>7, <2>8 DEF Open, AddUnderWay
<1> QED BY <1>1, <1>2

(* An answer is sent by an open invocation, which ends with it. *)
LEMMA AnswerFrom ==
  ASSUME TypeOK, LinkInv, AnswersInv, [Next]_vars, NEW m \in inbox', m \notin inbox, IsAnswer(m)
  PROVE  \E a \in Adds : /\ m.to = a[1] /\ m.updates = {a[2]}
                         /\ Live(a[1])
                         /\ addPc[a] \in Open /\ addPc'[a] = "done"
                         /\ sentUpdates' = sentUpdates
                         /\ inbox' = inbox \cup {m}
<1>1. ASSUME NEW a \in Adds, SendUpdatesReceived(a)
      PROVE  /\ m.to = a[1] /\ m.updates = {a[2]}
             /\ Live(a[1])
             /\ addPc[a] \in Open /\ addPc'[a] = "done"
             /\ sentUpdates' = sentUpdates
             /\ inbox' = inbox \cup {m}
  <2>1. PICK type : Post(a[1], Message(a[1], type, {a[2]}))
    BY <1>1 DEF SendUpdatesReceived, storeVars
  <2>2. m = Message(a[1], type, {a[2]})
    BY <2>1, PostInbox
  <2>3. m.to = a[1] /\ m.updates = {a[2]}
    BY <2>2 DEF Message
  <2>4. Deliver(a[1], m)
    BY <2>1, <2>2 DEF Post, Expire, PostFails
  <2>5. addPc[a] \in Open /\ addPc'[a] = "done" /\ sentUpdates' = sentUpdates
    BY <1>1 DEF SendUpdatesReceived, Open, AddUnderWay, TypeOK, clientVars, storeVars
  <2> QED BY <2>3, <2>4, <2>5 DEF Deliver
<1>2. ASSUME NEW a \in Adds, Broadcast(a) PROVE FALSE
  <2>1. PICK j : Post(j, Message(j, "updates", {a[2]}))
    BY <1>2, BroadcastPost
  <2>2. m = Message(j, "updates", {a[2]})
    BY <2>1, PostInbox
  <2> QED BY <2>2 DEF Message, IsAnswer
<1>3. ASSUME NEW j \in Conns, SendInitial(j) PROVE FALSE
  <2>1. m = Message(j, "initial", snapshot[j])
    BY <1>3, PostInbox DEF SendInitial, storeVars
  <2> QED BY <2>1 DEF Message, IsAnswer
<1> QED BY <1>1, <1>2, <1>3, InboxFrom

(* Every step keeps answers about filed updates. *)
LEMMA AnswerInvStep ==
  ASSUME TypeOK, LinkInv, FreshInv, AnswersInv, [Next]_vars
  PROVE  AnswerInv'
<1> SUFFICES ASSUME NEW m \in inbox', IsAnswer(m)
             PROVE  \E u \in Updates : /\ m.updates = {u}
                                       /\ addPc'[<<m.to, u>>] = "done"
                                       /\ u \in sentUpdates'[m.to[1]]
  BY DEF AnswerInv, IsAnswer
<1>1. CASE m \notin inbox
  <2>1. PICK a \in Adds : /\ m.to = a[1] /\ m.updates = {a[2]}
                          /\ Live(a[1])
                          /\ addPc[a] \in Open /\ addPc'[a] = "done"
                          /\ sentUpdates' = sentUpdates
    BY <1>1, AnswerFrom
  <2>2. a[2] \in Updates /\ a = <<a[1], a[2]>>
    BY AddType
  <2>3. a[2] \in sentUpdates[a[1][1]]
    BY <2>1 DEF AnswersInv, OpenInv
  <2> QED BY <2>1, <2>2, <2>3
<1>2. CASE m \in inbox
  <2>1. PICK u \in Updates : /\ m.updates = {u}
                             /\ addPc[<<m.to, u>>] = "done"
                             /\ u \in sentUpdates[m.to[1]]
    BY <1>2 DEF AnswersInv, AnswerInv
  <2>2. m.to \in Conns /\ m.to[1] \in Clients /\ Live(m.to)
    BY <1>2, ConnType DEF TypeOK, Messages, LinkInv, InboxInv
  <2>3. <<m.to, u>> \in Adds
    BY <2>1, <2>2 DEF Adds
  <2>4. addPc'[<<m.to, u>>] = "done"
    BY <2>1, <2>3, DoneStays
  <2>5. u \in sentUpdates'[m.to[1]]
    <3> SUFFICES ASSUME u \notin sentUpdates'[m.to[1]] PROVE FALSE
      OBVIOUS
    <3>1. PICK n \in inbox : /\ n.to = Cur(m.to[1]) /\ IsAnswer(n) /\ u \in n.updates
                             /\ inbox' = inbox \ {n}
      BY <2>1, <2>2, FiledUntilAnswered
    <3>2. n.to = m.to
      BY <2>2, <3>1, CurLive
    <3>3. n.updates = {u}
      BY <3>1 DEF AnswersInv, AnswerInv
    <3>4. m = n
      BY <1>2, <2>1, <3>1, <3>2, <3>3 DEF AnswersInv, OneAnswerInv
    <3> QED BY <3>1, <3>4
  <2> QED BY <2>1, <2>4, <2>5
<1> QED BY <1>1, <1>2

(* Every step keeps answers unique. *)
LEMMA OneAnswerInvStep ==
  ASSUME TypeOK, LinkInv, FreshInv, AnswersInv, [Next]_vars
  PROVE  OneAnswerInv'
<1> SUFFICES ASSUME NEW m \in inbox', NEW n \in inbox', IsAnswer(m), IsAnswer(n),
                    m.to = n.to, m.updates = n.updates
             PROVE  m = n
  BY DEF OneAnswerInv, IsAnswer
<1>1. ASSUME NEW p \in inbox', NEW q \in inbox', IsAnswer(p), IsAnswer(q),
             p.to = q.to, p.updates = q.updates, p \notin inbox
      PROVE  p = q
  <2>1. PICK a \in Adds : /\ p.to = a[1] /\ p.updates = {a[2]}
                          /\ addPc[a] \in Open
                          /\ inbox' = inbox \cup {p}
    BY <1>1, AnswerFrom
  <2> SUFFICES ASSUME q \in inbox PROVE FALSE
    BY <2>1
  <2>2. PICK u \in Updates : q.updates = {u} /\ addPc[<<q.to, u>>] = "done"
    BY <1>1 DEF AnswersInv, AnswerInv
  <2>3. u = a[2] /\ q.to = a[1]
    BY <1>1, <2>1, <2>2
  <2>4. <<q.to, u>> = a
    BY <2>3, AddType
  <2> QED BY <2>1, <2>2, <2>4 DEF Open, AddUnderWay
<1>2. CASE m \in inbox /\ n \in inbox
  BY <1>2 DEF AnswersInv, OneAnswerInv
<1> QED BY <1>1, <1>2

(* Nothing is under way at first. *)
LEMMA AnswersInvInit == Init => AnswersInv
  BY DEF Init, AnswersInv, OpenInv, AnswerInv, OneAnswerInv, Open, AddUnderWay

(* On a persistent branch every step is a step of SharedInst, or none:      *)
(* addUpdates edits, the store publishes, what is received was published,   *)
(* and an answer confirms or rejects one update that is still unsaved.      *)
LEMMA SharedStep ==
  ASSUME ~Temporary, TypeOK, EditInv, LinkInv, FreshInv, AnswersInv, [Next]_vars
  PROVE  [Shared!Next]_(Shared!vars)
<1> USE DEF Shared!Next, Shared!vars, storeVars
<1> DEFINE Stutter == UNCHANGED <<doc, sentUpdates, stored, refused>>
<1>1. ASSUME NEW c \in Clients, AddUpdates(c) PROVE [Shared!Next]_(Shared!vars)
  <2>1. PICK u : u = <<c, counter[c] + 1>>
    OBVIOUS
  <2>2. /\ u \in Updates /\ u[1] = c /\ u[2] = counter[c] + 1
        /\ doc' = [doc EXCEPT ![c] = @ \cup {u}]
        /\ sentUpdates' = [sentUpdates EXCEPT ![c] = @ \cup {u}]
        /\ stored' = stored /\ refused' = refused
    BY <1>1, <2>1, ConstantsAssumption DEF AddUpdates, TypeOK, Updates, storeVars
  <2>3. u \notin doc[c]
    <3>1. counter[c] \in Nat
      BY ConstantsAssumption DEF TypeOK
    <3> QED BY <2>2, <3>1 DEF FreshInv
  <2>4. Shared!Edit(c, u)
    BY <2>2, <2>3 DEF Shared!Edit
  <2> QED BY <2>2, <2>4
<1>2. ASSUME NEW c \in Clients, Receive(c) PROVE [Shared!Next]_(Shared!vars)
  <2>1. PICK m \in inbox : /\ m.to = Cur(c)
                           /\ \/ ReceiveUpdates(c, m)
                              \/ ReceiveInitial(c, m)
                              \/ ReceiveAck(c, m)
    BY <1>2 DEF Receive, storeVars
  <2>2. stored' = stored
    BY <1>2 DEF Receive, storeVars
  <2>3. CASE ReceiveUpdates(c, m) \/ ReceiveInitial(c, m)
    <3>1. UNCHANGED <<sentUpdates, refused>>
      BY <2>3 DEF ReceiveUpdates, ReceiveInitial
    <3>2. m.updates \in SUBSET stored /\ buffer[c] \in SUBSET stored
      BY <2>3 DEF ReceiveUpdates, ReceiveInitial, EditInv, OnTheWayInv, Safe
    <3>3. \/ doc' = doc
          \/ \E S \in SUBSET stored : doc' = [doc EXCEPT ![c] = @ \cup S]
      <4>1. CASE ReceiveUpdates(c, m)
        BY <3>2, <4>1 DEF ReceiveUpdates
      <4>2. CASE ReceiveInitial(c, m)
        <5>1. buffer[c] \cup m.updates \in SUBSET stored
          BY <3>2
        <5>2. doc' = [doc EXCEPT ![c] = @ \cup (buffer[c] \cup m.updates)]
          BY <4>2 DEF ReceiveInitial, TypeOK
        <5> QED BY <5>1, <5>2
      <4> QED BY <2>3, <4>1, <4>2
    <3>4. CASE doc' = doc
      BY <2>2, <3>1, <3>4
    <3>5. CASE \E S \in SUBSET stored : doc' = [doc EXCEPT ![c] = @ \cup S]
      <4>1. Shared!Sync(c)
        BY <2>2, <3>1, <3>5 DEF Shared!Sync
      <4> QED BY <4>1
    <3> QED BY <3>3, <3>4, <3>5
  <2>4. CASE ReceiveAck(c, m)
    <3>1. PICK u \in Updates : m.updates = {u} /\ u \in sentUpdates[c]
      <4>1. IsAnswer(m) /\ m.to[1] = c
        BY <2>1, <2>4 DEF ReceiveAck, IsAnswer, Cur
      <4> QED BY <4>1 DEF AnswersInv, AnswerInv
    <3>2. /\ sentUpdates' = [sentUpdates EXCEPT ![c] = @ \ {u}]
          /\ doc' = doc
      BY <2>4, <3>1 DEF ReceiveAck
    <3>3. CASE m.type = "error"
      <4>1. refused' = refused \cup {u}
        BY <2>4, <3>1, <3>3 DEF ReceiveAck
      <4>2. Shared!Reject(c, u)
        BY <2>2, <3>1, <3>2, <4>1 DEF Shared!Reject
      <4> QED BY <4>2
    <3>4. CASE m.type # "error"
      <4>1. refused' = refused
        BY <2>4, <3>4 DEF ReceiveAck
      <4>2. u \in stored
        BY <3>1, <3>4 DEF EditInv, OnTheWayInv, Safe
      <4>3. Shared!Confirm(c, u)
        BY <2>2, <3>1, <3>2, <4>1, <4>2 DEF Shared!Confirm
      <4> QED BY <4>3
    <3> QED BY <3>3, <3>4
  <2> QED BY <2>1, <2>3, <2>4
<1>3. ASSUME NEW a \in Adds, Store(a) \/ ReplaceUpdates(a) PROVE [Shared!Next]_(Shared!vars)
  <2>1. /\ UNCHANGED <<doc, sentUpdates, refused>>
        /\ addPc[a] # "none"
    BY <1>3 DEF Store, ReplaceUpdates, clientVars
  <2>2. stored' = stored \cup {a[2]}
    <3>1. merging[a] \subseteq stored /\ stale = {}
      BY DEF EditInv, OnTheWayInv, ClearInv, Safe
    <3> QED BY <1>3, <3>1 DEF Store, ReplaceUpdates
  <2>3. a[2] \in Updates /\ a[2] \in doc[a[2][1]]
    BY <2>1, AddType DEF LinkInv, OwnInv
  <2>4. Shared!Publish(a[2])
    BY <2>1, <2>2, <2>3 DEF Shared!Publish
  <2> QED BY <2>3, <2>4
<1>4. ASSUME NEW h \in Leaves, ClearUpdates(h) PROVE FALSE
  BY <1>4 DEF EditInv, ClearInv, ClearUpdates
<1>5. \/ \E c \in Clients : AddUpdates(c) \/ Receive(c)
      \/ \E a \in Adds : Store(a) \/ ReplaceUpdates(a)
      \/ \E h \in Leaves : ClearUpdates(h)
      \/ Stutter
  BY ZenonT(40) DEF Next, Connect, Close, Unwatch, WatchBranch,
         GetConnection, SaveNamespaceConnection, GetUpdates, SendInitial, KeyExpires,
         RateLimited, CrashWatch, AddUpdatesHandler, MaxSizeReached, ReadToMerge,
         ReplaceUpdates, MergeFails,
         GetConnectionsByNamespace, Broadcast, SendUpdatesReceived, CrashAdd, Leave,
         GetNamespaceConnection, DeleteNamespaceConnection, GetConnections,
         ClearConnection, CountConnections, CrashLeave, clientVars, vars, storeVars
<1> QED BY <1>1, <1>2, <1>3, <1>4, <1>5

(* On a persistent branch the protocol implements SharedInst: whatever a    *)
(* device sees of another is durable, an update is marked off only after it *)
(* was stored or the device was told that it does not fit, and neither      *)
(* documents nor the stored contents shrink.                                *)
THEOREM InstImplementsSharedInst ==
  ASSUME ~Temporary
  PROVE  Spec => ImplementsSharedInst
<1> DEFINE Inv == EditInv /\ LinkInv /\ FreshInv /\ AnswersInv
<1>1. Init => Inv /\ Shared!Init
  <2> SUFFICES ASSUME Init PROVE Inv /\ Shared!Init
    OBVIOUS
  <2>1. FreshInv
    BY DEF Init, FreshInv
  <2>2. Shared!Init
    BY DEF Init, Shared!Init
  <2> QED BY <2>1, <2>2, EditInvInit, LinkInvInit, AnswersInvInit
<1>2. TypeOK /\ Inv /\ [Next]_vars => Inv'
  <2> SUFFICES ASSUME TypeOK, Inv, [Next]_vars PROVE Inv'
    OBVIOUS
  <2>1. AnswersInv'
    BY OpenInvStep, AnswerInvStep, OneAnswerInvStep DEF AnswersInv
  <2> QED BY <2>1, EditInvStep, LinkInvStep, FreshInvStep
<1>3. TypeOK /\ Inv /\ [Next]_vars => [Shared!Next]_(Shared!vars)
  BY SharedStep
<1> QED
  BY <1>1, <1>2, <1>3, TypeCorrect, PTL DEF Spec, ImplementsSharedInst, Shared!Spec

=============================================================================
