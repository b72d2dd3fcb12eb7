------------------------ MODULE BranchDevices_proofs ------------------------
(***************************************************************************)
(* Proofs about BranchDevices, for every set of devices and every number   *)
(* of their connections and of connections of the observer. The argument   *)
(* for the devices that join and stay follows the news of such a device    *)
(* from its watchBranch, or from the observer's watchBranchDevices, to the *)
(* observer's list.                                                        *)
(***************************************************************************)
EXTENDS BranchDevices, TLAPS

(* A connection is a device and a number. *)
LEMMA ConnsPair ==
    \A k \in Conns : k[1] \in Devices /\ k[2] \in 1 .. MaxConns /\ k = <<k[1], k[2]>>
BY DEF Conns

(* One round of notifications: a message to the connected observer arrives  *)
(* or is recorded as lost, and an observer that is connected stays          *)
(* registered.                                                              *)
LEMMA NotifyEffect ==
    ASSUME NEW to, NEW messages, Notify(to, messages)
    PROVE  /\ inbox \subseteq inbox' /\ inbox' \subseteq inbox \cup messages
           /\ lost \subseteq lost' /\ lost' \subseteq lost \cup {m.conn : m \in messages}
           /\ watchers' \subseteq watchers
           /\ ~online => UNCHANGED <<inbox, lost>>
           /\ online /\ watch \in watchers => watch \in watchers'
           /\ online /\ watch \in to => \A m \in messages : m \in inbox' \/ m.conn \in lost'
<1>1. PICK failed \in [messages -> Swallows], kept \in [to -> Swallows] :
        /\ inbox' = IF online /\ watch \in to
                    THEN inbox \cup {m \in messages : ~failed[m]} ELSE inbox
        /\ lost' = IF online /\ watch \in to
                   THEN lost \cup {m.conn : m \in {n \in messages : failed[n]}} ELSE lost
        /\ watchers' = watchers \ {w \in to : ~(online /\ w = watch) /\ ~kept[w]}
  BY DEF Notify
<1>2. inbox \subseteq inbox' /\ inbox' \subseteq inbox \cup messages
  BY <1>1
<1>3. lost \subseteq lost' /\ lost' \subseteq lost \cup {m.conn : m \in messages}
  BY <1>1
<1>4. /\ watchers' \subseteq watchers
      /\ online /\ watch \in watchers => watch \in watchers'
  BY <1>1
<1>5. ASSUME online, watch \in to, NEW m \in messages PROVE m \in inbox' \/ m.conn \in lost'
  <2>1. CASE failed[m]
    <3>1. m.conn \in {n.conn : n \in {l \in messages : failed[l]}}
      BY <2>1
    <3> QED BY <1>1, <1>5, <3>1
  <2>2. CASE ~failed[m]
    BY <1>1, <1>5, <2>2
  <2> QED BY <2>1, <2>2
<1>6. ~online => UNCHANGED <<inbox, lost>>
  BY <1>1
<1> QED BY <1>2, <1>3, <1>4, <1>5, <1>6

(* One round of notifications keeps the types of what it changes.           *)
LEMMA NotifyType ==
    ASSUME TypeOK, NEW to, NEW messages, Notify(to, messages),
           online => messages \subseteq Notifications
    PROVE  inbox' \subseteq Notifications /\ watchers' \subseteq Watches /\ lost' \subseteq Conns
<1>1. \A m \in Notifications : m.conn \in Conns
  BY DEF Notifications
<1> QED BY <1>1, NotifyEffect DEF TypeOK

(* What is sent to the observer is a notification. *)
LEMMA NotificationType ==
    ASSUME TypeOK, watch \in Watches, NEW k \in Conns,
           NEW type \in {"connected", "disconnected"}, NEW by \in {"join", "leave", "list"}
    PROVE  Notification(type, k, by) \in Notifications
BY DEF Notification, Notifications

(* The observer is online only on a connection it has opened. *)
OnlineWatch == online => watch \in Watches

(* Type correctness: every variable keeps its type, and an online observer  *)
(* has a connection.                                                        *)
THEOREM TypeCorrect == Spec => [](TypeOK /\ OnlineWatch)
<1> USE DevicesAssumption
<1>1. Init => TypeOK /\ OnlineWatch
  <2> SUFFICES ASSUME Init PROVE TypeOK /\ OnlineWatch
    OBVIOUS
  <2>1. joinPc \in [Conns -> {"none", "sent", "found", "saved", "notify", "done"}]
    BY DEF Init
  <2>2. leavePc \in [Conns -> {"none", "unwatch", "close", "found", "loaded", "empty",
                              "cleared", "notify", "dead", "done"}]
    BY DEF Init
  <2>3. watchPc \in [Watches -> {"none", "sent", "saved", "list", "failed", "done"}]
    BY DEF Init
  <2>4. readers \in [Conns -> [join : SUBSET Watches, leave : SUBSET Watches]]
    BY DEF Init
  <2>5. listed \in [Watches -> SUBSET Conns] 
    BY DEF Init
  <2>6. joined \in [Devices -> BOOLEAN]
    BY Zenon DEF Init
  <2>7. epoch \in [Devices -> 0 .. MaxConns] /\ watch \in 0 .. MaxWatches
    BY DEF Init
  <2> QED
    BY <2>1, <2>2, <2>3, <2>4, <2>5, <2>6, <2>7 DEF Init, TypeOK, OnlineWatch
<1>2. TypeOK /\ OnlineWatch /\ [Next]_vars => TypeOK' /\ OnlineWatch'
  <2> SUFFICES ASSUME TypeOK, OnlineWatch, [Next]_vars PROVE TypeOK' /\ OnlineWatch'
    OBVIOUS
  <2> USE DEF deviceVars, clientVars, storeVars
  <2>1. ASSUME NEW d \in Devices, Join(d) PROVE TypeOK' /\ OnlineWatch'
    <3>1. epoch[d] + 1 \in 1 .. MaxConns
      BY <2>1 DEF TypeOK, Join
    <3>2. <<d, epoch[d] + 1>> \in Conns
      BY <3>1 DEF Conns
    <3>3. epoch' \in [Devices -> 0 .. MaxConns]
      BY <2>1, <3>1 DEF TypeOK, Join
    <3>4. connections' \subseteq Conns
      BY <2>1, <3>2 DEF TypeOK, Join
    <3>5. joinPc' \in [Conns -> {"none", "sent", "found", "saved", "notify", "done"}]
      BY <2>1, <3>2 DEF TypeOK, Join
    <3>6. joined' \in [Devices -> BOOLEAN]
      BY <2>1 DEF TypeOK, Join
    <3> QED BY <2>1, <3>3, <3>4, <3>5, <3>6 DEF TypeOK, Join, OnlineWatch
  <2>2. ASSUME NEW d \in Devices, Leave(d) PROVE TypeOK' /\ OnlineWatch'
    BY <2>2 DEF TypeOK, Leave, OnlineWatch
  <2>3. CASE Connect
    BY <2>3 DEF TypeOK, Connect, OnlineWatch, Watches
  <2>4. CASE Disconnect
    BY <2>4 DEF TypeOK, Disconnect, OnlineWatch
  <2>5. ASSUME NEW m \in inbox, Receive(m) PROVE TypeOK' /\ OnlineWatch'
    <3>1. m.conn[1] \in Devices
      BY ConnsPair DEF TypeOK, Notifications
    <3> QED BY <2>5, <3>1 DEF TypeOK, Receive, OnlineWatch
  <2>6. ASSUME NEW k \in Conns, WatchBranch(k) PROVE TypeOK' /\ OnlineWatch'
    <3>1. CASE JoinFound(k)
      BY <3>1 DEF TypeOK, JoinFound, OnlineWatch
    <3>2. CASE JoinSave(k)
      BY <3>2 DEF TypeOK, JoinSave, OnlineWatch
    <3>3. CASE JoinRead(k)
      BY <3>3 DEF TypeOK, JoinRead, OnlineWatch
    <3>4. CASE JoinNotify(k)
      <4>1. online => {Notification("connected", k, "join")} \subseteq Notifications
        BY NotificationType DEF OnlineWatch
      <4>2. inbox' \subseteq Notifications /\ watchers' \subseteq Watches /\ lost' \subseteq Conns
        BY <3>4, <4>1, NotifyType DEF JoinNotify
      <4> QED BY <3>4, <4>2 DEF TypeOK, JoinNotify, OnlineWatch
    <3> QED BY <2>6, <3>1, <3>2, <3>3, <3>4 DEF WatchBranch
  <2>7. ASSUME NEW k \in Conns, LeaveBranch(k) PROVE TypeOK' /\ OnlineWatch'
    <3>1. CASE LeaveLoad(k)
      BY <3>1 DEF TypeOK, LeaveLoad, OnlineWatch
    <3>2. CASE LeaveClear(k)
      BY <3>2 DEF TypeOK, LeaveClear, OnlineWatch
    <3>3. CASE LeaveRead(k)
      BY <3>3 DEF TypeOK, LeaveRead, OnlineWatch
    <3>4. CASE LeaveNotify(k)
      <4>1. online => {Notification("disconnected", k, "leave")} \subseteq Notifications
        BY NotificationType DEF OnlineWatch
      <4>2. inbox' \subseteq Notifications /\ watchers' \subseteq Watches /\ lost' \subseteq Conns
        BY <3>4, <4>1, NotifyType DEF LeaveNotify
      <4> QED BY <3>4, <4>2 DEF TypeOK, LeaveNotify, OnlineWatch
    <3> QED BY <2>7, <3>1, <3>2, <3>3, <3>4 DEF LeaveBranch
  <2>8. ASSUME NEW k \in Conns, KeyExpires(k) PROVE TypeOK' /\ OnlineWatch'
    BY <2>8 DEF TypeOK, KeyExpires, OnlineWatch
  <2>9. ASSUME NEW w \in Watches, WatchBranchDevices(w) PROVE TypeOK' /\ OnlineWatch'
    <3>1. CASE WatchUnknown(w)
      BY <3>1 DEF TypeOK, WatchUnknown, OnlineWatch
    <3>2. CASE WatchSave(w)
      BY <3>2 DEF TypeOK, WatchSave, OnlineWatch
    <3>3. CASE WatchList(w)
      BY <3>3 DEF TypeOK, WatchList, OnlineWatch
    <3>4. CASE WatchNotify(w)
      <4>1. online => {Notification("connected", k, "list") : k \in listed[w]}
                      \subseteq Notifications
        BY NotificationType DEF OnlineWatch, TypeOK
      <4>2. inbox' \subseteq Notifications /\ watchers' \subseteq Watches /\ lost' \subseteq Conns
        BY <3>4, <4>1, NotifyType DEF WatchNotify
      <4> QED BY <3>4, <4>2 DEF TypeOK, WatchNotify, OnlineWatch
    <3> QED BY <2>9, <3>1, <3>2, <3>3, <3>4 DEF WatchBranchDevices
  <2>10. ASSUME NEW w \in Watches, WatchGone(w) PROVE TypeOK' /\ OnlineWatch'
    BY <2>10 DEF TypeOK, WatchGone, OnlineWatch
  <2>11. ASSUME NEW k \in Conns, RateLimitedDevice(k) PROVE TypeOK' /\ OnlineWatch'
    BY <2>11 DEF TypeOK, RateLimitedDevice, OnlineWatch
  <2>12. ASSUME NEW w \in Watches, RateLimitedWatch(w) PROVE TypeOK' /\ OnlineWatch'
    BY <2>12 DEF TypeOK, RateLimitedWatch, OnlineWatch
  <2>13. ASSUME NEW k \in Conns, CrashJoin(k) PROVE TypeOK' /\ OnlineWatch'
    BY <2>13 DEF TypeOK, CrashJoin, OnlineWatch
  <2>14. ASSUME NEW k \in Conns, CrashLeave(k) PROVE TypeOK' /\ OnlineWatch'
    BY <2>14 DEF TypeOK, CrashLeave, OnlineWatch
  <2>15. ASSUME NEW w \in Watches, CrashWatch(w) PROVE TypeOK' /\ OnlineWatch'
    BY <2>15 DEF TypeOK, CrashWatch, OnlineWatch
  <2>16. CASE UNCHANGED vars
    BY <2>16 DEF TypeOK, vars, OnlineWatch
  <2> QED
    BY <2>1, <2>2, <2>3, <2>4, <2>5, <2>6, <2>7, <2>8, <2>9, <2>10, <2>11, <2>12, <2>13,
       <2>14, <2>15, <2>16 DEF Next
<1> QED
  BY <1>1, <1>2, PTL DEF Spec

-----------------------------------------------------------------------------
(* The device is on its first connection and has not left. *)
Stays(d) == joined[d] /\ epoch[d] = 1

(* The connection has not been opened yet. *)
Later(k) == k[2] > epoch[k[1]]

(* The connection is the one its device is using. *)
Present(k) == joined[k[1]] /\ k[2] = epoch[k[1]]

(* No handler runs for a connection before it is opened and none removes it *)
(* while it is used; one that is used is known to the server and, once      *)
(* watchBranch has saved it, listed on the branch, unless it was dropped or *)
(* died.                                                                    *)
ConnectionsInv ==
    \A k \in Conns :
        /\ Later(k) \/ Present(k) => leavePc[k] = "none"
        /\ Later(k) => joinPc[k] = "none"
        /\ Present(k) => k \in connections /\ joinPc[k] # "none"
        /\ Present(k) /\ joinPc[k] \in {"saved", "notify", "done"}
            => k \in branchConns \/ k \in lost

(* The observer is told that a connection is gone only after it was         *)
(* removed.                                                                 *)
GoneInv == \A m \in inbox : m.type = "disconnected" => leavePc[m.conn] = "done"

(* The observer is online on its first connection. *)
First == online /\ watch = 1

(* On its first connection the observer shows exactly the devices it knows, *)
(* and it is registered once watchBranchDevices has saved it.               *)
WatchInv ==
    /\ watch = 0 => ~online /\ known = shown
    /\ First => /\ known = shown
                /\ watchPc[1] # "none"
                /\ watchPc[1] \in {"saved", "list", "done"} => 1 \in watchers

(* The observer shows the device, is being told of it, or has still to be   *)
(* told: by the watchBranch of the device, or by its own                    *)
(* watchBranchDevices.  Otherwise the news was lost, or the observer's      *)
(* watchBranchDevices was not served.                                       *)
OnItsWay(k) ==
    \/ k[1] \in shown
    \/ \E m \in inbox : m.type = "connected" /\ m.conn = k
    \/ joinPc[k] \in {"sent", "found", "saved"}
    \/ joinPc[k] = "notify" /\ 1 \in readers[k].join
    \/ watchPc[1] \in {"sent", "saved"}
    \/ watchPc[1] = "list" /\ k \in listed[1]
    \/ k \in lost
    \/ watchPc[1] = "failed"

(* Of every device that stays on its first connection the news is on its    *)
(* way.                                                                     *)
ShownInv == First => \A d \in Devices : Stays(d) => OnItsWay(<<d, 1>>)

(* The inductive invariant. *)
PresenceInv == TypeOK /\ OnlineWatch /\ ConnectionsInv /\ GoneInv /\ WatchInv /\ ShownInv

(* Every step keeps what is known of the connections. *)
LEMMA ConnectionsStep ==
    ASSUME TypeOK, ConnectionsInv, [Next]_vars
    PROVE  ConnectionsInv'
<1> USE DevicesAssumption
    DEF deviceVars, clientVars, storeVars, TypeOK, ConnectionsInv, Later, Present
<1>1. ASSUME NEW e \in Devices, Join(e) PROVE ConnectionsInv'
  <2> DEFINE new == <<e, epoch[e] + 1>>
  <2>1. new \in Conns
    BY <1>1 DEF Join, Conns
  <2>2. Later(new) /\ new[1] = e /\ new[2] = epoch[e] + 1
    BY <1>1
  <2>3. joinPc' = [joinPc EXCEPT ![new] = "sent"] /\ connections' = connections \cup {new}
    BY <1>1 DEF Join
  <2>4. ASSUME NEW k \in Conns, k[1] # e
        PROVE  Later(k)' = Later(k) /\ Present(k)' = Present(k)
    BY <1>1, <2>4, ConnsPair DEF Join
  <2>5. ASSUME NEW k \in Conns, k[1] = e
        PROVE  (Later(k)' => Later(k) /\ k # new) /\ (Present(k)' => k = new)
    <3>1. k[2] \in Nat /\ epoch' [e] = epoch[e] + 1 /\ k = <<e, k[2]>>
      BY <1>1, <2>5, ConnsPair DEF Join
    <3> QED BY <2>5, <3>1
  <2>6. UNCHANGED <<branchConns, leavePc, lost>>
    BY <1>1 DEF Join
  <2> HIDE DEF Later, Present, new
  <2> QED
    BY <2>1, <2>2, <2>3, <2>4, <2>5, <2>6 DEF new
<1>2. ASSUME NEW e \in Devices, Leave(e) PROVE ConnectionsInv'
  BY <1>2 DEF Leave
<1>3. CASE Connect
  BY <1>3 DEF Connect
<1>4. CASE Disconnect
  BY <1>4 DEF Disconnect
<1>5. ASSUME NEW m \in inbox, Receive(m) PROVE ConnectionsInv'
  BY <1>5 DEF Receive
<1>6. ASSUME NEW j \in Conns, JoinFound(j) PROVE ConnectionsInv'
  BY <1>6 DEF JoinFound
<1>7. ASSUME NEW j \in Conns, JoinSave(j) PROVE ConnectionsInv'
  BY <1>7 DEF JoinSave
<1>8. ASSUME NEW j \in Conns, JoinRead(j) PROVE ConnectionsInv'
  BY <1>8 DEF JoinRead
<1>9. ASSUME NEW j \in Conns, JoinNotify(j) PROVE ConnectionsInv'
  BY <1>9, NotifyEffect DEF JoinNotify, Notification, Gone
<1>10. ASSUME NEW j \in Conns, LeaveLoad(j) PROVE ConnectionsInv'
  BY <1>10 DEF LeaveLoad
<1>11. ASSUME NEW j \in Conns, LeaveClear(j) PROVE ConnectionsInv'
  BY <1>11 DEF LeaveClear
<1>12. ASSUME NEW j \in Conns, LeaveRead(j) PROVE ConnectionsInv'
  BY <1>12 DEF LeaveRead
<1>13. ASSUME NEW j \in Conns, LeaveNotify(j) PROVE ConnectionsInv'
  BY <1>13, NotifyEffect DEF LeaveNotify, Notification
<1>14. ASSUME NEW j \in Conns, KeyExpires(j) PROVE ConnectionsInv'
  BY <1>14 DEF KeyExpires
<1>15. ASSUME NEW w \in Watches, WatchUnknown(w) PROVE ConnectionsInv'
  BY <1>15 DEF WatchUnknown
<1>16. ASSUME NEW w \in Watches, WatchSave(w) PROVE ConnectionsInv'
  BY <1>16 DEF WatchSave
<1>17. ASSUME NEW w \in Watches, WatchList(w) PROVE ConnectionsInv'
  BY <1>17 DEF WatchList
<1>18. ASSUME NEW w \in Watches, WatchNotify(w) PROVE ConnectionsInv'
  BY <1>18, NotifyEffect DEF WatchNotify, Notification
<1>19. ASSUME NEW w \in Watches, WatchGone(w) PROVE ConnectionsInv'
  BY <1>19 DEF WatchGone
<1>20. ASSUME NEW j \in Conns, RateLimitedDevice(j) PROVE ConnectionsInv'
  BY <1>20 DEF RateLimitedDevice
<1>21. ASSUME NEW w \in Watches, RateLimitedWatch(w) PROVE ConnectionsInv'
  BY <1>21 DEF RateLimitedWatch
<1>22. ASSUME NEW j \in Conns, CrashJoin(j) PROVE ConnectionsInv'
  BY <1>22 DEF CrashJoin
<1>23. ASSUME NEW j \in Conns, CrashLeave(j) PROVE ConnectionsInv'
  BY <1>23 DEF CrashLeave
<1>24. ASSUME NEW w \in Watches, CrashWatch(w) PROVE ConnectionsInv'
  BY <1>24 DEF CrashWatch
<1>25. CASE UNCHANGED vars
  BY <1>25 DEF vars
<1> QED
  BY <1>1, <1>2, <1>3, <1>4, <1>5, <1>6, <1>7, <1>8, <1>9, <1>10, <1>11, <1>12, <1>13,
     <1>14, <1>15, <1>16, <1>17, <1>18, <1>19, <1>20, <1>21, <1>22, <1>23, <1>24, <1>25
     DEF Next, WatchBranch, LeaveBranch, WatchBranchDevices

(* Every step keeps that only removed connections are reported as gone. *)
LEMMA GoneStep ==
    ASSUME TypeOK, ConnectionsInv, GoneInv, [Next]_vars
    PROVE  GoneInv'
<1> USE DevicesAssumption
    DEF deviceVars, clientVars, storeVars, TypeOK, ConnectionsInv, GoneInv, Later, Present,
        Notifications
<1>1. ASSUME NEW e \in Devices, Join(e) PROVE GoneInv'
  BY <1>1 DEF Join
<1>2. ASSUME NEW e \in Devices, Leave(e) PROVE GoneInv'
  BY <1>2 DEF Leave
<1>3. CASE Connect
  BY <1>3 DEF Connect
<1>4. CASE Disconnect
  BY <1>4 DEF Disconnect
<1>5. ASSUME NEW m \in inbox, Receive(m) PROVE GoneInv'
  BY <1>5 DEF Receive
<1>6. ASSUME NEW j \in Conns, JoinFound(j) PROVE GoneInv'
  BY <1>6 DEF JoinFound
<1>7. ASSUME NEW j \in Conns, JoinSave(j) PROVE GoneInv'
  BY <1>7 DEF JoinSave
<1>8. ASSUME NEW j \in Conns, JoinRead(j) PROVE GoneInv'
  BY <1>8 DEF JoinRead
<1>9. ASSUME NEW j \in Conns, JoinNotify(j) PROVE GoneInv'
  BY <1>9, NotifyEffect DEF JoinNotify, Notification, Gone
<1>10. ASSUME NEW j \in Conns, LeaveLoad(j) PROVE GoneInv'
  BY <1>10 DEF LeaveLoad
<1>11. ASSUME NEW j \in Conns, LeaveClear(j) PROVE GoneInv'
  BY <1>11 DEF LeaveClear
<1>12. ASSUME NEW j \in Conns, LeaveRead(j) PROVE GoneInv'
  BY <1>12 DEF LeaveRead
<1>13. ASSUME NEW j \in Conns, LeaveNotify(j) PROVE GoneInv'
  BY <1>13, NotifyEffect DEF LeaveNotify, Notification
<1>14. ASSUME NEW j \in Conns, KeyExpires(j) PROVE GoneInv'
  BY <1>14 DEF KeyExpires
<1>15. ASSUME NEW w \in Watches, WatchUnknown(w) PROVE GoneInv'
  BY <1>15 DEF WatchUnknown
<1>16. ASSUME NEW w \in Watches, WatchSave(w) PROVE GoneInv'
  BY <1>16 DEF WatchSave
<1>17. ASSUME NEW w \in Watches, WatchList(w) PROVE GoneInv'
  BY <1>17 DEF WatchList
<1>18. ASSUME NEW w \in Watches, WatchNotify(w) PROVE GoneInv'
  BY <1>18, NotifyEffect DEF WatchNotify, Notification
<1>19. ASSUME NEW w \in Watches, WatchGone(w) PROVE GoneInv'
  BY <1>19 DEF WatchGone
<1>20. ASSUME NEW j \in Conns, RateLimitedDevice(j) PROVE GoneInv'
  BY <1>20 DEF RateLimitedDevice
<1>21. ASSUME NEW w \in Watches, RateLimitedWatch(w) PROVE GoneInv'
  BY <1>21 DEF RateLimitedWatch
<1>22. ASSUME NEW j \in Conns, CrashJoin(j) PROVE GoneInv'
  BY <1>22 DEF CrashJoin
<1>23. ASSUME NEW j \in Conns, CrashLeave(j) PROVE GoneInv'
  BY <1>23 DEF CrashLeave
<1>24. ASSUME NEW w \in Watches, CrashWatch(w) PROVE GoneInv'
  BY <1>24 DEF CrashWatch
<1>25. CASE UNCHANGED vars
  BY <1>25 DEF vars
<1> QED
  BY <1>1, <1>2, <1>3, <1>4, <1>5, <1>6, <1>7, <1>8, <1>9, <1>10, <1>11, <1>12, <1>13,
     <1>14, <1>15, <1>16, <1>17, <1>18, <1>19, <1>20, <1>21, <1>22, <1>23, <1>24, <1>25
     DEF Next, WatchBranch, LeaveBranch, WatchBranchDevices

(* Every step keeps that the observer, on its first connection, shows what  *)
(* it knows.                                                                *)
LEMMA WatchStep ==
    ASSUME TypeOK, ConnectionsInv, GoneInv, WatchInv, [Next]_vars
    PROVE  WatchInv'
<1> USE DevicesAssumption
    DEF deviceVars, clientVars, storeVars, TypeOK, WatchInv, First, Watches
<1>1. ASSUME NEW e \in Devices, Join(e) PROVE WatchInv'
  BY <1>1 DEF Join
<1>2. ASSUME NEW e \in Devices, Leave(e) PROVE WatchInv'
  BY <1>2 DEF Leave
<1>3. CASE Connect
  BY <1>3 DEF Connect
<1>4. CASE Disconnect
  BY <1>4 DEF Disconnect
<1>5. ASSUME NEW m \in inbox, Receive(m) PROVE WatchInv'
  <2>1. online /\ UNCHANGED <<online, watch, watchPc, watchers>>
    BY <1>5 DEF Receive
  <2>2. known = shown => known' = shown'
    <3> SUFFICES ASSUME known = shown PROVE known' = shown'
      OBVIOUS
    <3> DEFINE e == m.conn[1]
    <3>1. CASE m.type = "connected"
      <4>1. known' = known \cup {e} /\ shown' = IF e \in known THEN shown ELSE shown \cup {e}
        BY <1>5, <3>1, Zenon DEF Receive
      <4> HIDE DEF e
      <4> QED BY <4>1
    <3>2. CASE m.type # "connected"
      <4>1. known' = known \ {e} /\ shown' = IF e \in known THEN shown \ {e} ELSE shown
        BY <1>5, <3>2, Zenon DEF Receive
      <4> HIDE DEF e
      <4> QED BY <4>1
    <3> QED BY <3>1, <3>2
  <2> QED BY <2>1, <2>2
<1>6. ASSUME NEW j \in Conns, JoinFound(j) PROVE WatchInv'
  BY <1>6 DEF JoinFound
<1>7. ASSUME NEW j \in Conns, JoinSave(j) PROVE WatchInv'
  BY <1>7 DEF JoinSave
<1>8. ASSUME NEW j \in Conns, JoinRead(j) PROVE WatchInv'
  BY <1>8 DEF JoinRead
<1>9. ASSUME NEW j \in Conns, JoinNotify(j) PROVE WatchInv'
  BY <1>9, NotifyEffect DEF JoinNotify, Notification, Gone
<1>10. ASSUME NEW j \in Conns, LeaveLoad(j) PROVE WatchInv'
  BY <1>10 DEF LeaveLoad
<1>11. ASSUME NEW j \in Conns, LeaveClear(j) PROVE WatchInv'
  BY <1>11 DEF LeaveClear
<1>12. ASSUME NEW j \in Conns, LeaveRead(j) PROVE WatchInv'
  BY <1>12 DEF LeaveRead
<1>13. ASSUME NEW j \in Conns, LeaveNotify(j) PROVE WatchInv'
  BY <1>13, NotifyEffect DEF LeaveNotify, Notification
<1>14. ASSUME NEW j \in Conns, KeyExpires(j) PROVE WatchInv'
  BY <1>14 DEF KeyExpires
<1>15. ASSUME NEW w \in Watches, WatchUnknown(w) PROVE WatchInv'
  BY <1>15 DEF WatchUnknown
<1>16. ASSUME NEW w \in Watches, WatchSave(w) PROVE WatchInv'
  BY <1>16 DEF WatchSave
<1>17. ASSUME NEW w \in Watches, WatchList(w) PROVE WatchInv'
  BY <1>17 DEF WatchList
<1>18. ASSUME NEW w \in Watches, WatchNotify(w) PROVE WatchInv'
  BY <1>18, NotifyEffect DEF WatchNotify, Notification
<1>19. ASSUME NEW w \in Watches, WatchGone(w) PROVE WatchInv'
  BY <1>19 DEF WatchGone
<1>20. ASSUME NEW j \in Conns, RateLimitedDevice(j) PROVE WatchInv'
  BY <1>20 DEF RateLimitedDevice
<1>21. ASSUME NEW w \in Watches, RateLimitedWatch(w) PROVE WatchInv'
  BY <1>21 DEF RateLimitedWatch
<1>22. ASSUME NEW j \in Conns, CrashJoin(j) PROVE WatchInv'
  BY <1>22 DEF CrashJoin
<1>23. ASSUME NEW j \in Conns, CrashLeave(j) PROVE WatchInv'
  BY <1>23 DEF CrashLeave
<1>24. ASSUME NEW w \in Watches, CrashWatch(w) PROVE WatchInv'
  BY <1>24 DEF CrashWatch
<1>25. CASE UNCHANGED vars
  BY <1>25 DEF vars
<1> QED
  BY <1>1, <1>2, <1>3, <1>4, <1>5, <1>6, <1>7, <1>8, <1>9, <1>10, <1>11, <1>12, <1>13,
     <1>14, <1>15, <1>16, <1>17, <1>18, <1>19, <1>20, <1>21, <1>22, <1>23, <1>24, <1>25
     DEF Next, WatchBranch, LeaveBranch, WatchBranchDevices

(* Every step keeps the news of a device that stays on its way. The two     *)
(* readings, of the watchers by watchBranch and of the connections by       *)
(* watchBranchDevices, each come after the saving of the other side, so one *)
(* of them finds the other.                                                 *)
LEMMA ShownStep ==
    ASSUME PresenceInv, [Next]_vars
    PROVE  ShownInv'
<1> SUFFICES ASSUME NEW d \in Devices, First', Stays(d)'
             PROVE  OnItsWay(<<d, 1>>)'
  BY DEF ShownInv
<1> DEFINE k == <<d, 1>>
<1>k. k \in Conns /\ 1 \in Watches /\ k[1] = d /\ k[2] = 1
  BY DevicesAssumption DEF Conns, Watches
<1> USE DEF deviceVars, clientVars, storeVars
<1>1. CASE \E e \in Devices : Join(e)
  <2>1. PICK e \in Devices : Join(e)
    BY <1>1
  <2>2. CASE e = d
    <3>1. epoch[d] \in Nat /\ epoch'[d] = epoch[d] + 1
      BY <2>1, <2>2 DEF Join, PresenceInv, TypeOK
    <3>2. epoch[d] = 0
      BY <3>1 DEF Stays
    <3>3. joinPc'[k] = "sent"
      BY <1>k, <2>1, <2>2, <3>2 DEF Join, PresenceInv, TypeOK
    <3> QED BY <3>3 DEF OnItsWay
  <2>3. CASE e # d
    <3>1. Stays(d) /\ First
      BY <2>1, <2>3 DEF Join, Stays, First, PresenceInv, TypeOK
    <3>2. OnItsWay(k)
      BY <3>1 DEF PresenceInv, ShownInv
    <3>3. joinPc'[k] = joinPc[k]
      BY <1>k, <2>1, <2>3 DEF Join, PresenceInv, TypeOK
    <3> QED BY <2>1, <3>2, <3>3 DEF Join, OnItsWay
  <2> QED BY <2>2, <2>3
<1>2. CASE Connect
  <2>1. watchPc'[1] = "sent"
    BY <1>2, <1>k DEF Connect, PresenceInv, TypeOK, First
  <2> QED BY <2>1 DEF OnItsWay
<1>3. CASE Disconnect
  BY <1>3 DEF Disconnect, First
<1>4. ASSUME ~(\E e \in Devices : Join(e)), ~Connect, ~Disconnect
      PROVE  OnItsWay(k)'
  <2>1. First /\ Stays(d)
    <3>1. UNCHANGED <<online, watch>>
      BY <1>4 DEF Next, WatchBranch, LeaveBranch, WatchBranchDevices, Leave, Receive, JoinFound,
         JoinSave, JoinRead, JoinNotify, LeaveLoad, LeaveClear, LeaveRead, LeaveNotify,
         KeyExpires, WatchUnknown, WatchSave, WatchList, WatchNotify, WatchGone,
         RateLimitedDevice, RateLimitedWatch, CrashJoin,
         CrashLeave, CrashWatch, vars
    <3>2. UNCHANGED deviceVars \/ \E e \in Devices : Leave(e)
      BY <1>4 DEF Next, WatchBranch, LeaveBranch, WatchBranchDevices, Receive, JoinFound,
         JoinSave, JoinRead, JoinNotify, LeaveLoad, LeaveClear, LeaveRead, LeaveNotify,
         KeyExpires, WatchUnknown, WatchSave, WatchList, WatchNotify, WatchGone,
         RateLimitedDevice, RateLimitedWatch, CrashJoin,
         CrashLeave, CrashWatch, vars
    <3>3. epoch' = epoch /\ (joined'[d] => joined[d])
      BY <3>2 DEF Leave, PresenceInv, TypeOK
    <3> QED BY <3>1, <3>3 DEF First, Stays
  <2>2. OnItsWay(k)
    BY <2>1 DEF PresenceInv, ShownInv
  <2>3. Present(k)
    BY <1>k, <2>1 DEF Present, Stays
  <2>4. leavePc[k] = "none" /\ k \in connections /\ ~Gone(k)
    BY <1>k, <2>3 DEF PresenceInv, ConnectionsInv, Gone
  <2>5. joinPc[k] \in {"saved", "notify", "done"} => k \in branchConns \/ k \in lost
    BY <1>k, <2>3 DEF PresenceInv, ConnectionsInv
  <2>6. joinPc[k] \in {"sent", "found", "saved", "notify", "done"}
    BY <1>k, <2>3 DEF PresenceInv, ConnectionsInv, TypeOK
  <2>7. /\ known = shown /\ watch = 1 /\ online
        /\ watchPc[1] \in {"sent", "saved", "list", "failed", "done"}
        /\ watchPc[1] \in {"saved", "list", "done"} => 1 \in watchers
    BY <1>k, <2>1 DEF PresenceInv, WatchInv, TypeOK, First
  <2>8. \A m \in inbox : m.type \in {"connected", "disconnected"} /\ m.conn \in Conns
    BY DEF PresenceInv, TypeOK, Notifications
  <2>9. \A m \in inbox : m.type = "disconnected" => m.conn[1] # d
    <3> SUFFICES ASSUME NEW m \in inbox, m.type = "disconnected", m.conn[1] = d PROVE FALSE
      OBVIOUS
    <3>1. leavePc[m.conn] = "done" /\ m.conn \in Conns
      BY <2>8 DEF PresenceInv, GoneInv
    <3>2. m.conn[2] >= 1 /\ epoch[d] = 1 /\ joined[d] /\ m.conn[2] \in Nat
      BY <2>1, <3>1, ConnsPair DEF Stays
    <3>3. Later(m.conn) \/ Present(m.conn)
      BY <3>2 DEF Later, Present
    <3> QED BY <3>1, <3>3 DEF PresenceInv, ConnectionsInv
  <2>10. /\ joinPc \in [Conns -> {"none", "sent", "found", "saved", "notify", "done"}]
         /\ watchPc \in [Watches -> {"none", "sent", "saved", "list", "failed", "done"}]
         /\ readers \in [Conns -> [join : SUBSET Watches, leave : SUBSET Watches]]
         /\ listed \in [Watches -> SUBSET Conns]
    BY DEF PresenceInv, TypeOK
  <2> HIDE DEF k
  <2> USE <1>k, <2>2, <2>4, <2>5, <2>6, <2>7, <2>10 DEF OnItsWay
  <2>11. ASSUME NEW e \in Devices, Leave(e) PROVE OnItsWay(k)'
    BY <2>11 DEF Leave
  <2>12. ASSUME NEW m \in inbox, Receive(m) PROVE OnItsWay(k)'
    <3>1. d \in shown => d \in shown'
      BY <2>12, <2>8, <2>9 DEF Receive
    <3>2. m.type = "connected" /\ m.conn = k => d \in shown'
      BY <2>12 DEF Receive
    <3>3. \A n \in inbox : n # m => n \in inbox'
      BY <2>12 DEF Receive
    <3>4. UNCHANGED <<joinPc, readers, watchPc, listed, lost>>
      BY <2>12 DEF Receive
    <3> QED BY <3>1, <3>2, <3>3, <3>4
  <2>13. ASSUME NEW j \in Conns, JoinFound(j) PROVE OnItsWay(k)'
    BY <2>13 DEF JoinFound
  <2>14. ASSUME NEW j \in Conns, JoinSave(j) PROVE OnItsWay(k)'
    BY <2>14 DEF JoinSave
  <2>15. ASSUME NEW j \in Conns, JoinRead(j) PROVE OnItsWay(k)'
    BY <2>15 DEF JoinRead
  <2>16. ASSUME NEW j \in Conns, JoinNotify(j) PROVE OnItsWay(k)'
    <3>1. inbox \subseteq inbox' /\ lost \subseteq lost'
      BY <2>16, NotifyEffect DEF JoinNotify
    <3>2. CASE j = k
      <4>1. 1 \in readers[k].join => \/ Notification("connected", k, "join") \in inbox'
                                     \/ Notification("connected", k, "join").conn \in lost'
        BY <2>16, <3>2, NotifyEffect DEF JoinNotify
      <4>2. /\ Notification("connected", k, "join").type = "connected"
            /\ Notification("connected", k, "join").conn = k
        BY DEF Notification
      <4>3. UNCHANGED <<shown, watchPc, listed>> /\ joinPc[k] = "notify"
        BY <2>16, <3>2 DEF JoinNotify
      <4> QED BY <3>1, <4>1, <4>2, <4>3
    <3>3. CASE j # k
      <4>1. /\ joinPc'[k] = joinPc[k] /\ readers'[k] = readers[k]
            /\ UNCHANGED <<shown, watchPc, listed>>
        BY <2>16, <3>3 DEF JoinNotify
      <4> QED BY <3>1, <4>1
    <3> QED BY <3>2, <3>3
  <2>17. ASSUME NEW j \in Conns, LeaveLoad(j) PROVE OnItsWay(k)'
    BY <2>17 DEF LeaveLoad
  <2>18. ASSUME NEW j \in Conns, LeaveClear(j) PROVE OnItsWay(k)'
    BY <2>18 DEF LeaveClear
  <2>19. ASSUME NEW j \in Conns, LeaveRead(j) PROVE OnItsWay(k)'
    <3>1. readers'[k].join = readers[k].join
      BY <2>19 DEF LeaveRead
    <3> QED BY <2>19, <3>1 DEF LeaveRead
  <2>20. ASSUME NEW j \in Conns, LeaveNotify(j) PROVE OnItsWay(k)'
    <3>1. readers'[k].join = readers[k].join
      BY <2>20 DEF LeaveNotify
    <3>2. inbox \subseteq inbox' /\ lost \subseteq lost'
      BY <2>20, NotifyEffect DEF LeaveNotify
    <3> QED BY <2>20, <3>1, <3>2 DEF LeaveNotify
  <2>21. ASSUME NEW j \in Conns, KeyExpires(j) PROVE OnItsWay(k)'
    BY <2>21 DEF KeyExpires
  <2>22. ASSUME NEW w \in Watches, WatchUnknown(w) PROVE OnItsWay(k)'
    BY <2>22 DEF WatchUnknown
  <2>23. ASSUME NEW w \in Watches, WatchSave(w) PROVE OnItsWay(k)'
    BY <2>23 DEF WatchSave
  <2>24. ASSUME NEW w \in Watches, WatchList(w) PROVE OnItsWay(k)'
    BY <2>24 DEF WatchList
  <2>25. ASSUME NEW w \in Watches, WatchNotify(w) PROVE OnItsWay(k)'
    <3>1. inbox \subseteq inbox' /\ lost \subseteq lost'
      BY <2>25, NotifyEffect DEF WatchNotify
    <3>2. CASE w = 1
      <4>1. k \in listed[1] => \/ Notification("connected", k, "list") \in inbox'
                               \/ Notification("connected", k, "list").conn \in lost'
        BY <2>25, <3>2, NotifyEffect DEF WatchNotify
      <4>2. /\ Notification("connected", k, "list").type = "connected"
            /\ Notification("connected", k, "list").conn = k
        BY DEF Notification
      <4>3. UNCHANGED <<shown, joinPc, readers>> /\ watchPc[1] = "list"
        BY <2>25, <3>2 DEF WatchNotify
      <4> QED BY <3>1, <4>1, <4>2, <4>3
    <3>3. CASE w # 1
      <4>1. /\ watchPc'[1] = watchPc[1] /\ listed'[1] = listed[1]
            /\ UNCHANGED <<shown, joinPc, readers>>
        BY <2>25, <3>3 DEF WatchNotify
      <4> QED BY <3>1, <4>1
    <3> QED BY <3>2, <3>3
  <2>26. ASSUME NEW w \in Watches, WatchGone(w) PROVE OnItsWay(k)'
    BY <2>26 DEF WatchGone
  <2>27. CASE UNCHANGED vars
    BY <2>27 DEF vars
  <2>28. ASSUME NEW j \in Conns, RateLimitedDevice(j) PROVE OnItsWay(k)'
    BY <2>28 DEF RateLimitedDevice
  <2>29. ASSUME NEW w \in Watches, RateLimitedWatch(w) PROVE OnItsWay(k)'
    BY <2>29 DEF RateLimitedWatch
  <2>30. ASSUME NEW j \in Conns, CrashJoin(j) PROVE OnItsWay(k)'
    BY <2>30 DEF CrashJoin
  <2>31. ASSUME NEW j \in Conns, CrashLeave(j) PROVE OnItsWay(k)'
    <3>1. readers'[k].join = readers[k].join
      BY <2>31 DEF CrashLeave
    <3> QED BY <2>31, <3>1 DEF CrashLeave
  <2>32. ASSUME NEW w \in Watches, CrashWatch(w) PROVE OnItsWay(k)'
    BY <2>32 DEF CrashWatch
  <2> QED
    BY <1>4, <2>11, <2>12, <2>13, <2>14, <2>15, <2>16, <2>17, <2>18, <2>19, <2>20, <2>21,
       <2>22, <2>23, <2>24, <2>25, <2>26, <2>27, <2>28, <2>29, <2>30, <2>31, <2>32
       DEF Next, WatchBranch, LeaveBranch, WatchBranchDevices
<1> QED
  BY <1>1, <1>2, <1>3, <1>4

(* Once nothing is under way, an observer on its first connection shows     *)
(* every device that joined and stayed and whose news was not lost, however *)
(* watchBranch and watchBranchDevices interleaved and whatever packets,     *)
(* messages or invocations of others were lost.                             *)
THEOREM NoMissedDeviceHolds == Spec => []NoMissedDevice
<1>1. Init => ConnectionsInv /\ GoneInv /\ WatchInv /\ ShownInv
  <2> SUFFICES ASSUME Init PROVE ConnectionsInv /\ GoneInv /\ WatchInv /\ ShownInv
    OBVIOUS
  <2>1. ConnectionsInv
    BY ConnsPair DEF Init, ConnectionsInv, Later, Present
  <2> QED
    BY <2>1 DEF Init, GoneInv, WatchInv, ShownInv, First
<1>2. TypeOK /\ OnlineWatch /\ ConnectionsInv /\ GoneInv /\ WatchInv /\ ShownInv /\ [Next]_vars
      => ConnectionsInv' /\ GoneInv' /\ WatchInv' /\ ShownInv'
  BY ConnectionsStep, GoneStep, WatchStep, ShownStep DEF PresenceInv
<1>3. TypeOK /\ WatchInv /\ ConnectionsInv /\ ShownInv => NoMissedDevice
  <2> SUFFICES ASSUME TypeOK, WatchInv, ConnectionsInv, ShownInv, Quiet, watch = 1,
                      NEW d \in Devices, Stays(d), <<d, 1>> \notin lost
               PROVE  d \in shown
    BY DEF NoMissedDevice, Stays
  <2>1. <<d, 1>> \in Conns
    BY DevicesAssumption DEF Conns
  <2>2. OnItsWay(<<d, 1>>)
    BY DEF ShownInv, First, Quiet
  <2>3. joinPc[<<d, 1>>] = "done"
    BY <2>1 DEF ConnectionsInv, Present, Stays, Quiet
  <2> QED
    BY <2>2, <2>3 DEF OnItsWay, Quiet
<1> QED
  BY <1>1, <1>2, <1>3, TypeCorrect, PTL DEF Spec
=============================================================================
