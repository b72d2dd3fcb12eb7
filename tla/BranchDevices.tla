--------------------------- MODULE BranchDevices ----------------------------
(***************************************************************************)
(* Who is on a branch, as one observing client learns it through           *)
(* watchBranchDevices().                                                   *)
(*                                                                         *)
(* Devices join the branch (watchBranch) and leave it (unwatchBranch, or   *)
(* disconnect when their connection is lost); the invocations notify the   *)
(* observer.  A device keeps its session id over all of its connections,   *)
(* and the client knows devices by session id only.  Packets are refused by *)
(* the rate limit, invocations die and posts fail as in InstSync; an       *)
(* invocation counts as under way until the last of its posts has ended.   *)
(***************************************************************************)
EXTENDS Naturals

CONSTANTS
    Devices,
    MaxConns,     \* bound: connections of a device
    MaxWatches,   \* bound: connections of the observer
    Leaving,      \* the devices that may leave the branch again
    Faults        \* the faults the environment may cause, see FaultKinds

FaultKinds == {"messenger", "rateLimit", "crash"}

ASSUME DevicesAssumption ==
    /\ MaxConns \in Nat \ {0}
    /\ MaxWatches \in Nat \ {0}
    /\ Leaving \subseteq Devices
    /\ Faults \subseteq FaultKinds

Conns == Devices \X (1 .. MaxConns)
Watches == 1 .. MaxWatches

VARIABLES
    joined,      \* whether a device's client watches the branch
    epoch,       \* number of connections the device has had
    online,      \* whether the observer is connected
    watch,       \* number of connections the observer has had
    known,       \* _connectedDevices of the observer
    shown,       \* devices that are connected by the events it emitted
    connections, \* connections of devices known to the server
    branchConns, \* connections in the namespace of the branch
    connNs,      \* connections whose own Redis hash lists the branch
    watchers,    \* connections in the namespace of its device watchers
    joinPc,      \* where watchBranch is
    leavePc,     \* where unwatchBranch or disconnect is
    watchPc,     \* where watchBranchDevices is
    readers,     \* the watchers an invocation read before it notifies them
    listed,      \* the connections watchBranchDevices read
    inbox,       \* notifications on their way to the observer
    lost         \* history: connections of devices whose watchBranch was dropped
                 \* or died, or of which a notification did not reach the observer

deviceVars == <<joined, epoch>>
clientVars == <<online, watch, known, shown>>
storeVars  == <<connections, branchConns, connNs, watchers>>
vars == <<deviceVars, clientVars, storeVars, joinPc, leavePc, watchPc, readers,
          listed, inbox, lost>>

(* by: the invocation that sent it, for the device connection conn. *)
Notifications ==
    [to : Watches, type : {"connected", "disconnected"}, conn : Conns,
     by : {"join", "leave", "list"}]

Init ==
    /\ joined = [d \in Devices |-> FALSE]
    /\ epoch = [d \in Devices |-> 0]
    /\ online = FALSE /\ watch = 0
    /\ known = {} /\ shown = {}
    /\ connections = {} /\ branchConns = {} /\ connNs = {} /\ watchers = {}
    /\ joinPc = [k \in Conns |-> "none"]
    /\ leavePc = [k \in Conns |-> "none"]
    /\ watchPc = [w \in Watches |-> "none"]
    /\ readers = [k \in Conns |-> [join |-> {}, leave |-> {}]]
    /\ listed = [w \in Watches |-> {}]
    /\ inbox = {} /\ lost = {}

-----------------------------------------------------------------------------
(* The devices. *)

(* A device logs in, which saves its connection, and sends WATCH_BRANCH. *)
Join(d) ==
    /\ ~joined[d]
    /\ epoch[d] < MaxConns
    /\ joined' = [joined EXCEPT ![d] = TRUE]
    /\ epoch' = [epoch EXCEPT ![d] = @ + 1]
    /\ connections' = connections \cup {<<d, epoch[d] + 1>>}
    /\ joinPc' = [joinPc EXCEPT ![<<d, epoch[d] + 1>>] = "sent"]
    /\ UNCHANGED <<clientVars, branchConns, connNs, watchers, leavePc, watchPc,
                   readers, listed, inbox, lost>>

(* The device unwatches the branch, or its connection is lost. *)
Leave(d) ==
    /\ d \in Leaving
    /\ joined[d]
    /\ joined' = [joined EXCEPT ![d] = FALSE]
    /\ \E how \in {"unwatch", "close"} :
        leavePc' = [leavePc EXCEPT ![<<d, epoch[d]>>] = how]
    /\ UNCHANGED <<epoch, clientVars, storeVars, joinPc, watchPc, readers, listed,
                   inbox, lost>>

-----------------------------------------------------------------------------
(* The observer. *)

(* _watchConnectedDevices() *)
Connect ==
    /\ ~online
    /\ watch < MaxWatches
    /\ online' = TRUE
    /\ watch' = watch + 1
    /\ watchPc' = [watchPc EXCEPT ![watch + 1] = "sent"]
    /\ UNCHANGED <<deviceVars, known, shown, storeVars, joinPc, leavePc, readers,
                   listed, inbox, lost>>

(* The connection is lost: _disconnectDevices() emits an event for every      *)
(* device in _connectedDevices, and leaves the map as it is.                 *)
Disconnect ==
    /\ online
    /\ watch < MaxWatches
    /\ online' = FALSE
    /\ shown' = shown \ known
    /\ inbox' = {}
    /\ UNCHANGED <<deviceVars, watch, known, storeVars, joinPc, leavePc, watchPc,
                   readers, listed, lost>>

(* A notification about a device already known (or not known) is filtered out. *)
Receive(m) ==
    /\ online
    /\ LET d == m.conn[1] IN
       IF m.type = "connected"
       THEN /\ shown' = IF d \in known THEN shown ELSE shown \cup {d}
            /\ known' = known \cup {d}
       ELSE /\ shown' = IF d \in known THEN shown \ {d} ELSE shown
            /\ known' = known \ {d}
    /\ inbox' = inbox \ {m}
    /\ UNCHANGED <<deviceVars, online, watch, storeVars, joinPc, leavePc, watchPc,
                   readers, listed, lost>>

-----------------------------------------------------------------------------
(* Mutant of Notify: the message goes out although the watcher is gone. *)
NotifyAlways(to, messages) ==
    /\ inbox' = inbox \cup messages
    /\ UNCHANGED <<watchers, lost>>

Swallows == IF "messenger" \in Faults THEN {TRUE, FALSE} ELSE {FALSE}

(* sendMessage() to watchers, once per message: one that is gone is expired.  *)
(* Any other error of a post is swallowed: the message does not arrive, or a   *)
(* watcher that is gone stays registered.                                    *)
Notify(to, messages) ==
    \E failed \in [messages -> Swallows], kept \in [to -> Swallows] :
        /\ inbox' = IF online /\ watch \in to
                    THEN inbox \cup {m \in messages : ~failed[m]} ELSE inbox
        /\ lost' = IF online /\ watch \in to
                   THEN lost \cup {m.conn : m \in {n \in messages : failed[n]}} ELSE lost
        /\ watchers' = watchers \ {w \in to : ~(online /\ w = watch) /\ ~kept[w]}

Notification(type, k, by) == [to |-> watch, type |-> type, conn |-> k, by |-> by]

(* Whether the socket of a device connection is closed. *)
Gone(k) == leavePc[k] \in {"close", "loaded", "empty", "dead"} \/ k \notin connections

(* watchBranch *)
JoinFound(k) ==
    /\ joinPc[k] = "sent"
    /\ joinPc' = [joinPc EXCEPT ![k] = IF k \in connections THEN "found" ELSE "done"]
    /\ UNCHANGED <<deviceVars, clientVars, storeVars, leavePc, watchPc, readers,
                   listed, inbox, lost>>

JoinSave(k) ==
    /\ joinPc[k] = "found"
    /\ branchConns' = branchConns \cup {k}
    /\ connNs' = connNs \cup {k}
    /\ joinPc' = [joinPc EXCEPT ![k] = "saved"]
    /\ UNCHANGED <<deviceVars, clientVars, connections, watchers, leavePc, watchPc,
                   readers, listed, inbox, lost>>

JoinRead(k) ==
    /\ joinPc[k] = "saved"
    /\ readers' = [readers EXCEPT ![k].join = watchers]
    /\ joinPc' = [joinPc EXCEPT ![k] = "notify"]
    /\ UNCHANGED <<deviceVars, clientVars, storeVars, leavePc, watchPc, listed,
                   inbox, lost>>

(* The watchers are notified and the initial updates are sent to k itself: if *)
(* k is gone, expireConnection() takes it off the branch but keeps its hash.  *)
JoinNotify(k) ==
    /\ joinPc[k] = "notify"
    /\ Notify(readers[k].join, {Notification("connected", k, "join")})
    /\ \E failed \in Swallows :
        /\ branchConns' = IF Gone(k) /\ ~failed THEN branchConns \ {k} ELSE branchConns
        /\ connections' = IF Gone(k) /\ ~failed THEN connections \ {k} ELSE connections
    /\ readers' = [readers EXCEPT ![k].join = {}]
    /\ joinPc' = [joinPc EXCEPT ![k] = "done"]
    /\ UNCHANGED <<deviceVars, clientVars, connNs, leavePc, watchPc, listed>>

(* The 10 seconds that expireConnection() gave the connection's hash end. *)
KeyExpires(k) ==
    /\ k \in connNs \ branchConns
    /\ Gone(k)
    /\ connNs' = connNs \ {k}
    /\ UNCHANGED <<deviceVars, clientVars, connections, branchConns, watchers,
                   joinPc, leavePc, watchPc, readers, listed, inbox, lost>>

WatchBranch(k) == JoinFound(k) \/ JoinSave(k) \/ JoinRead(k) \/ JoinNotify(k)

(* unwatchBranch and disconnect: what is registered is read first, then       *)
(* removed, and a connection that was registered is announced.               *)
LeaveLoad(k) ==
    /\ leavePc[k] \in {"unwatch", "close"}
    /\ leavePc' = [leavePc EXCEPT ![k] =
           IF @ = "unwatch" THEN IF k \in branchConns THEN "found" ELSE "done"
           ELSE IF k \in connNs THEN "loaded" ELSE "empty"]
    /\ UNCHANGED <<deviceVars, clientVars, storeVars, joinPc, watchPc, readers,
                   listed, inbox, lost>>

LeaveClear(k) ==
    /\ leavePc[k] \in {"found", "loaded", "empty"}
    /\ branchConns' = branchConns \ {k}
    /\ connNs' = connNs \ {k}
    /\ connections' = IF leavePc[k] = "found" THEN connections ELSE connections \ {k}
    /\ leavePc' = [leavePc EXCEPT ![k] = IF @ = "empty" THEN "done" ELSE "cleared"]
    /\ UNCHANGED <<deviceVars, clientVars, watchers, joinPc, watchPc, readers,
                   listed, inbox, lost>>

LeaveRead(k) ==
    /\ leavePc[k] = "cleared"
    /\ readers' = [readers EXCEPT ![k].leave = watchers]
    /\ leavePc' = [leavePc EXCEPT ![k] = "notify"]
    /\ UNCHANGED <<deviceVars, clientVars, storeVars, joinPc, watchPc, listed,
                   inbox, lost>>

LeaveNotify(k) ==
    /\ leavePc[k] = "notify"
    /\ Notify(readers[k].leave, {Notification("disconnected", k, "leave")})
    /\ readers' = [readers EXCEPT ![k].leave = {}]
    /\ leavePc' = [leavePc EXCEPT ![k] = "done"]
    /\ UNCHANGED <<deviceVars, clientVars, connections, branchConns, connNs, joinPc,
                   watchPc, listed>>

LeaveBranch(k) == LeaveLoad(k) \/ LeaveClear(k) \/ LeaveRead(k) \/ LeaveNotify(k)

(* watchBranchDevices: throws when the connection is not known, because the   *)
(* disconnect of a socket that is closed cleared it; otherwise the watcher is *)
(* registered before the devices are read.                                    *)
WatchUnknown(w) ==
    /\ watchPc[w] = "sent"
    /\ ~(online /\ w = watch)
    /\ watchPc' = [watchPc EXCEPT ![w] = "done"]
    /\ UNCHANGED <<deviceVars, clientVars, storeVars, joinPc, leavePc, readers,
                   listed, inbox, lost>>

WatchSave(w) ==
    /\ watchPc[w] = "sent"
    /\ watchers' = watchers \cup {w}
    /\ watchPc' = [watchPc EXCEPT ![w] = "saved"]
    /\ UNCHANGED <<deviceVars, clientVars, connections, branchConns, connNs, joinPc,
                   leavePc, readers, listed, inbox, lost>>

WatchList(w) ==
    /\ watchPc[w] = "saved"
    /\ listed' = [listed EXCEPT ![w] = branchConns]
    /\ watchPc' = [watchPc EXCEPT ![w] = "list"]
    /\ UNCHANGED <<deviceVars, clientVars, storeVars, joinPc, leavePc, readers,
                   inbox, lost>>

WatchNotify(w) ==
    /\ watchPc[w] = "list"
    /\ Notify({w}, {Notification("connected", k, "list") : k \in listed[w]})
    /\ listed' = [listed EXCEPT ![w] = {}]
    /\ watchPc' = [watchPc EXCEPT ![w] = "done"]
    /\ UNCHANGED <<deviceVars, clientVars, connections, branchConns, connNs, joinPc,
                   leavePc, readers>>

(* Mutant of WatchBranchDevices: the devices are read before the watcher is    *)
(* registered.                                                               *)
WatchBranchDevicesListFirst(w) ==
    \/ /\ watchPc[w] = "sent"
       /\ listed' = [listed EXCEPT ![w] = branchConns]
       /\ watchPc' = [watchPc EXCEPT ![w] = "saved"]
       /\ UNCHANGED <<deviceVars, clientVars, storeVars, joinPc, leavePc, readers,
                      inbox, lost>>
    \/ /\ watchPc[w] = "saved"
       /\ watchers' = watchers \cup {w}
       /\ watchPc' = [watchPc EXCEPT ![w] = "list"]
       /\ UNCHANGED <<deviceVars, clientVars, connections, branchConns, connNs,
                      joinPc, leavePc, readers, listed, inbox, lost>>
    \/ WatchNotify(w)
    \/ WatchUnknown(w)

WatchBranchDevices(w) ==
    WatchUnknown(w) \/ WatchSave(w) \/ WatchList(w) \/ WatchNotify(w)

(* The disconnect invocation for a connection the observer lost clears it. *)
WatchGone(w) ==
    /\ w \in watchers
    /\ ~(online /\ w = watch)
    /\ watchers' = watchers \ {w}
    /\ UNCHANGED <<deviceVars, clientVars, connections, branchConns, connNs, joinPc,
                   leavePc, watchPc, readers, listed, inbox, lost>>

-----------------------------------------------------------------------------
(* Faults of the server. *)

(* rateLimit() refuses a packet: the handler returns without serving it. *)
RateLimitedDevice(k) ==
    /\ "rateLimit" \in Faults
    /\ \/ /\ joinPc[k] = "sent"
          /\ joinPc' = [joinPc EXCEPT ![k] = "done"]
          /\ lost' = lost \cup {k}
          /\ UNCHANGED leavePc
       \/ /\ leavePc[k] = "unwatch"
          /\ leavePc' = [leavePc EXCEPT ![k] = "done"]
          /\ UNCHANGED <<joinPc, lost>>
    /\ UNCHANGED <<deviceVars, clientVars, storeVars, watchPc, readers, listed,
                   inbox>>

RateLimitedWatch(w) ==
    /\ "rateLimit" \in Faults
    /\ watchPc[w] = "sent"
    /\ watchPc' = [watchPc EXCEPT ![w] = "failed"]
    /\ UNCHANGED <<deviceVars, clientVars, storeVars, joinPc, leavePc, readers,
                   listed, inbox, lost>>

(* An invocation dies between two awaits. *)
CrashJoin(k) ==
    /\ "crash" \in Faults
    /\ joinPc[k] \in {"found", "saved", "notify"}
    /\ joinPc' = [joinPc EXCEPT ![k] = "done"]
    /\ readers' = [readers EXCEPT ![k].join = {}]
    /\ lost' = lost \cup {k}
    /\ UNCHANGED <<deviceVars, clientVars, storeVars, leavePc, watchPc, listed,
                   inbox>>

CrashLeave(k) ==
    /\ "crash" \in Faults
    /\ leavePc[k] \in {"found", "loaded", "empty", "cleared", "notify"}
    /\ leavePc' = [leavePc EXCEPT ![k] =
           IF @ \in {"loaded", "empty"} THEN "dead" ELSE "done"]
    /\ readers' = [readers EXCEPT ![k].leave = {}]
    /\ UNCHANGED <<deviceVars, clientVars, storeVars, joinPc, watchPc, listed,
                   inbox, lost>>

CrashWatch(w) ==
    /\ "crash" \in Faults
    /\ watchPc[w] \in {"saved", "list"}
    /\ watchPc' = [watchPc EXCEPT ![w] = "failed"]
    /\ listed' = [listed EXCEPT ![w] = {}]
    /\ UNCHANGED <<deviceVars, clientVars, storeVars, joinPc, leavePc, readers,
                   inbox, lost>>

-----------------------------------------------------------------------------
Next ==
    \/ \E d \in Devices : Join(d) \/ Leave(d)
    \/ Connect \/ Disconnect
    \/ \E m \in inbox : Receive(m)
    \/ \E k \in Conns :
        \/ WatchBranch(k) \/ LeaveBranch(k) \/ KeyExpires(k)
        \/ RateLimitedDevice(k) \/ CrashJoin(k) \/ CrashLeave(k)
    \/ \E w \in Watches :
        WatchBranchDevices(w) \/ WatchGone(w) \/ RateLimitedWatch(w) \/ CrashWatch(w)

Spec == Init /\ [][Next]_vars

-----------------------------------------------------------------------------
TypeOK ==
    /\ joined \in [Devices -> BOOLEAN]
    /\ epoch \in [Devices -> 0 .. MaxConns]
    /\ online \in BOOLEAN
    /\ watch \in 0 .. MaxWatches
    /\ known \subseteq Devices
    /\ shown \subseteq Devices
    /\ connections \subseteq Conns
    /\ branchConns \subseteq Conns
    /\ connNs \subseteq Conns
    /\ watchers \subseteq Watches
    /\ joinPc \in [Conns -> {"none", "sent", "found", "saved", "notify", "done"}]
    /\ leavePc \in [Conns -> {"none", "unwatch", "close", "found", "loaded", "empty",
                              "cleared", "notify", "dead", "done"}]
    /\ watchPc \in [Watches -> {"none", "sent", "saved", "list", "failed", "done"}]
    /\ readers \in [Conns -> [join : SUBSET Watches, leave : SUBSET Watches]]
    /\ listed \in [Watches -> SUBSET Conns]
    /\ inbox \subseteq Notifications
    /\ lost \subseteq Conns

(* Nothing is under way and the observer's watch was served. *)
Quiet ==
    /\ inbox = {}
    /\ online /\ watchPc[watch] = "done"
    /\ \A k \in Conns : /\ joinPc[k] \in {"none", "done"}
                        /\ leavePc[k] \in {"none", "dead", "done"}

(* No device is missed between the list of devices and the notifications: on  *)
(* its first connection the observer, whose watchBranchDevices was served, is  *)
(* shown every device that joined the branch and stayed, in whatever order    *)
(* the invocations ran.  Only a device whose own watchBranch was dropped or    *)
(* died, or one whose notification was itself lost, may be missed.            *)
NoMissedDevice ==
    Quiet /\ watch = 1 =>
        {d \in Devices : joined[d] /\ epoch[d] = 1 /\ <<d, 1>> \notin lost} \subseteq shown

(* "Watches for device connection/disconnection events on the given branch":  *)
(* when nothing is under way, the devices the events leave connected are the  *)
(* devices on the branch.                                                    *)
(* The code does not keep this; README.md, Disagreements, has the steps.      *)
PresenceAccurate == Quiet => shown = {k[1] : k \in branchConns}
=============================================================================
