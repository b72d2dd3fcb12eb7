------------------------------ MODULE InstSync ------------------------------
(***************************************************************************)
(* Realtime synchronisation of one inst (branch) between CausalRepoClient  *)
(* and ApiaryCausalRepoServer.                                             *)
(*                                                                         *)
(* The server keeps nothing in memory: every packet and every socket close *)
(* starts a Lambda invocation of its own, and all of them run concurrently *)
(* over the shared Redis stores.  An action below is one awaited call of a *)
(* store or of the messenger with what the handler does up to the next     *)
(* one, so every interleaving of the handlers is explored.  A call of a    *)
(* store is one step: RedisUpdatesStore runs a Lua script per call, the    *)
(* calls of RedisConnectionStore are short sequences of Redis commands.    *)
(* A client uses one connection id per socket it opens.                    *)
(*                                                                         *)
(* An update is identified by its author and by the updateId the author's  *)
(* _updateCounter gave it.  Updates are CRDT deltas (they may be applied   *)
(* in any order and several times), so a set of updates stands for a       *)
(* document, for the stored list and for the contents of a message.        *)
(***************************************************************************)
EXTENDS Naturals, FiniteSets

CONSTANTS
    Clients,      \* the devices
    Editors,      \* those whose partition is not readOnly
    Flaky,        \* those whose connection may be lost
    MaxConns,     \* bound: connections a device has
    MaxUpdates,   \* bound: calls of addUpdates an editor makes
    MaxLambdas,   \* bound: invocations the account runs at once
    Temporary,    \* WatchBranchEvent.temporary
    Faults        \* the faults the environment may cause, see FaultKinds

FaultKinds == {"unwatch", "rateLimit", "messenger", "refuse", "crash"}

ASSUME ConstantsAssumption ==
    /\ Editors \subseteq Clients
    /\ Flaky \subseteq Clients
    /\ MaxConns \in Nat
    /\ MaxUpdates \in Nat
    /\ MaxLambdas \in Nat
    /\ Temporary \in BOOLEAN
    /\ Faults \subseteq FaultKinds

Conns == Clients \X (1 .. MaxConns)
Updates == Clients \X (1 .. MaxUpdates)

(* The invocation of addUpdates for one ADD_UPDATES packet. *)
Adds == Conns \X Updates

(* The invocations of unwatchBranch and of disconnect. *)
Leaves == {"unwatch", "close"} \X Conns

VARIABLES
    online,       \* connectionState.connected: the socket is open and logged in
    epoch,        \* number of connections the client has had
    watching,     \* whether watchBranchUpdates() has a subscriber
    scan,         \* state of the scan() over ADD_UPDATES events
    buffer,       \* the updates that scan() holds back
    doc,          \* the updates applied to the client's document
    counter,      \* _updateCounter
    sentUpdates,  \* _sentUpdates
    connections,  \* Redis /connections
    nsConns,      \* Redis /namespace_connections of the branch
    connNs,       \* connections whose own Redis hash lists the branch
    stored,       \* contents of the UpdatesStore for the branch
    merging,      \* what an addUpdates that found the branch full read of it
    stale,        \* history: those of them for which the branch was cleared since
    revived,      \* history: cleared updates that a merge put back
    watchPc,      \* where watchBranch is
    snapshot,     \* what watchBranch read from the store
    addPc,        \* where addUpdates is
    targets,      \* the connections addUpdates has yet to send to
    leavePc,      \* where unwatchBranch and disconnect are
    inbox,        \* messages on their way to a client
    broken,       \* history: connections that lost a packet or a message
    refused       \* history: updates the client was told do not fit

clientVars == <<online, epoch, watching, scan, buffer, doc, counter, sentUpdates>>
connStore  == <<connections, nsConns, connNs>>
storeVars  == <<stored, merging, stale, revived>>
watchVars  == <<watchPc, snapshot>>
addVars    == <<addPc, targets>>
lambdas    == <<watchPc, snapshot, addPc, targets, leavePc>>
vars == <<clientVars, connStore, storeVars, lambdas, inbox, broken, refused>>

Messages ==
    [to : Conns, type : {"initial", "updates", "ack", "error"},
     updates : SUBSET Updates]

Message(k, type, ups) == [to |-> k, type |-> type, updates |-> ups]

AddUnderWay == {"full", "merge", "stored", "send", "swallowed", "refused"}

(* The number of invocations that have started and not ended. *)
Running ==
    Cardinality({k \in Conns : watchPc[k] \in {"found", "saved", "read"}})
    + Cardinality({a \in Adds : addPc[a] \in AddUnderWay})
    + Cardinality({h \in Leaves :
                    leavePc[h] \in {"found", "loaded", "empty", "count", "clear"}})

MayStart == Running < MaxLambdas

(* The connection a client is using, and whether a connection is in use. *)
Cur(c) == <<c, epoch[c]>>
Live(k) == online[k[1]] /\ epoch[k[1]] = k[2]

-----------------------------------------------------------------------------
Init ==
    /\ online = [c \in Clients |-> FALSE]
    /\ epoch = [c \in Clients |-> 0]
    /\ watching = [c \in Clients |-> TRUE]
    /\ scan = [c \in Clients |-> "null"]
    /\ buffer = [c \in Clients |-> {}]
    /\ doc = [c \in Clients |-> {}]
    /\ counter = [c \in Clients |-> 0]
    /\ sentUpdates = [c \in Clients |-> {}]
    /\ connections = {} /\ nsConns = {} /\ connNs = {}
    /\ stored = {} /\ revived = {}
    /\ merging = [a \in Adds |-> {}] /\ stale = {}
    /\ watchPc = [k \in Conns |-> "none"]
    /\ snapshot = [k \in Conns |-> {}]
    /\ addPc = [a \in Adds |-> "none"]
    /\ targets = [a \in Adds |-> {}]
    /\ leavePc = [h \in Leaves |-> "none"]
    /\ inbox = {}
    /\ broken = {} /\ refused = {}

-----------------------------------------------------------------------------
(* The client. *)

(* Mutant of Connect: nothing is resent when the client reconnects. *)
ConnectWithoutResend(c) ==
    /\ ~online[c]
    /\ epoch[c] < MaxConns
    /\ LET k == <<c, epoch[c] + 1>> IN
       /\ online' = [online EXCEPT ![c] = TRUE]
       /\ epoch' = [epoch EXCEPT ![c] = @ + 1]
       /\ connections' = connections \cup {k}
       /\ watchPc' = IF watching[c] THEN [watchPc EXCEPT ![k] = "sent"] ELSE watchPc
       /\ scan' = [scan EXCEPT ![c] = "null"]
       /\ buffer' = [buffer EXCEPT ![c] = {}]
    /\ UNCHANGED <<watching, doc, counter, sentUpdates, nsConns, connNs, storeVars,
                   snapshot, addVars, leavePc, inbox, broken, refused>>

(* The socket opens, the login invocation runs server.connect() and the      *)
(* client gets login_result (module ConnectionClient has these steps), so     *)
(* _whenConnected() emits: watchBranchUpdates() sends WATCH_BRANCH, resends   *)
(* every unacknowledged update and starts a new scan().                       *)
Connect(c) ==
    /\ ~online[c]
    /\ epoch[c] < MaxConns
    /\ LET k == <<c, epoch[c] + 1>> IN
       /\ online' = [online EXCEPT ![c] = TRUE]
       /\ epoch' = [epoch EXCEPT ![c] = @ + 1]
       /\ connections' = connections \cup {k}
       /\ IF watching[c]
          THEN /\ watchPc' = [watchPc EXCEPT ![k] = "sent"]
               /\ addPc' = [a \in Adds |->
                     IF a[1] = k /\ a[2] \in sentUpdates[c] THEN "sent" ELSE addPc[a]]
               /\ scan' = [scan EXCEPT ![c] = "null"]
               /\ buffer' = [buffer EXCEPT ![c] = {}]
          ELSE UNCHANGED <<watchPc, addPc, scan, buffer>>
    /\ UNCHANGED <<watching, doc, counter, sentUpdates, nsConns, connNs, storeVars,
                   snapshot, targets, leavePc, inbox, broken, refused>>

(* The connection is lost, with what was on its way to the client. *)
Close(c) ==
    /\ c \in Flaky
    /\ online[c]
    /\ online' = [online EXCEPT ![c] = FALSE]
    /\ inbox' = {m \in inbox : m.to # Cur(c)}
    /\ UNCHANGED <<epoch, watching, scan, buffer, doc, counter, sentUpdates,
                   connStore, storeVars, lambdas, broken, refused>>

(* Mutants of AddUpdates: the update takes the counter's old value; the       *)
(* update is only filed when it can be sent.                                 *)
AddUpdatesOldId(c) ==
    /\ c \in Editors /\ watching[c] /\ counter[c] < MaxUpdates
    /\ counter' = [counter EXCEPT ![c] = @ + 1]
    /\ doc' = [doc EXCEPT ![c] = @ \cup {<<c, counter[c]>>}]
    /\ sentUpdates' = [sentUpdates EXCEPT ![c] = @ \cup {<<c, counter[c]>>}]
    /\ UNCHANGED <<online, epoch, watching, scan, buffer, connStore, storeVars,
                   lambdas, inbox, broken, refused>>

AddUpdatesWhenOnline(c) ==
    /\ c \in Editors /\ watching[c] /\ counter[c] < MaxUpdates
    /\ LET u == <<c, counter[c] + 1>> IN
       /\ counter' = [counter EXCEPT ![c] = @ + 1]
       /\ doc' = [doc EXCEPT ![c] = @ \cup {u}]
       /\ IF online[c]
          THEN /\ sentUpdates' = [sentUpdates EXCEPT ![c] = @ \cup {u}]
               /\ addPc' = [addPc EXCEPT ![<<Cur(c), u>>] = "sent"]
          ELSE UNCHANGED <<sentUpdates, addPc>>
    /\ UNCHANGED <<online, epoch, watching, scan, buffer, connStore, storeVars,
                   watchVars, targets, leavePc, inbox, broken, refused>>

(* A local edit: addUpdates() files the update under the next updateId and   *)
(* sends it at once when the client is connected.                            *)
AddUpdates(c) ==
    /\ c \in Editors
    /\ watching[c]
    /\ counter[c] < MaxUpdates
    /\ LET u == <<c, counter[c] + 1>> IN
       /\ counter' = [counter EXCEPT ![c] = @ + 1]
       /\ doc' = [doc EXCEPT ![c] = @ \cup {u}]
       /\ sentUpdates' = [sentUpdates EXCEPT ![c] = @ \cup {u}]
       /\ addPc' = IF online[c]
                   THEN [addPc EXCEPT ![<<Cur(c), u>>] = "sent"] ELSE addPc
    /\ UNCHANGED <<online, epoch, watching, scan, buffer, connStore, storeVars,
                   watchVars, targets, leavePc, inbox, broken, refused>>

(* Mutant of ReceiveUpdates: what comes before the initial event is dropped. *)
ReceiveUpdatesDropped(c, m) ==
    /\ watching[c] /\ m.type = "updates"
    /\ doc' = IF scan[c] = "event" THEN [doc EXCEPT ![c] = @ \cup m.updates] ELSE doc
    /\ inbox' = inbox \ {m}
    /\ UNCHANGED <<scan, buffer, counter, sentUpdates, refused>>

(* ADD_UPDATES without initial: held back until the initial event came. *)
ReceiveUpdates(c, m) ==
    /\ watching[c] /\ m.type = "updates"
    /\ IF scan[c] = "event"
       THEN /\ doc' = [doc EXCEPT ![c] = @ \cup m.updates]
            /\ UNCHANGED <<scan, buffer>>
       ELSE /\ scan' = [scan EXCEPT ![c] = "waiting"]
            /\ buffer' = [buffer EXCEPT ![c] = @ \cup m.updates]
            /\ UNCHANGED doc
    /\ inbox' = inbox \ {m}
    /\ UNCHANGED <<counter, sentUpdates, refused>>

(* ADD_UPDATES with initial: emitted together with what was held back. *)
ReceiveInitial(c, m) ==
    /\ watching[c] /\ m.type = "initial"
    /\ doc' = [doc EXCEPT ![c] = @ \cup buffer[c] \cup m.updates]
    /\ scan' = [scan EXCEPT ![c] = "event"]
    /\ buffer' = [buffer EXCEPT ![c] = {}]
    /\ inbox' = inbox \ {m}
    /\ UNCHANGED <<counter, sentUpdates, refused>>

(* Mutant of ReceiveAck: a temporary branch marks updates off as well. *)
ReceiveAckAlways(c, m) ==
    /\ watching[c] /\ m.type \in {"ack", "error"}
    /\ sentUpdates' = [sentUpdates EXCEPT ![c] = @ \ m.updates]
    /\ refused' = IF m.type = "error" THEN refused \cup m.updates ELSE refused
    /\ inbox' = inbox \ {m}
    /\ UNCHANGED <<scan, buffer, doc, counter>>

(* UPDATES_RECEIVED, with or without an error code: the update is marked off, *)
(* except on a temporary branch.                                             *)
ReceiveAck(c, m) ==
    /\ watching[c] /\ m.type \in {"ack", "error"}
    /\ sentUpdates' = IF Temporary THEN sentUpdates
                      ELSE [sentUpdates EXCEPT ![c] = @ \ m.updates]
    /\ refused' = IF m.type = "error" THEN refused \cup m.updates ELSE refused
    /\ inbox' = inbox \ {m}
    /\ UNCHANGED <<scan, buffer, doc, counter>>

Receive(c) ==
    /\ online[c]
    /\ \E m \in inbox :
        /\ m.to = Cur(c)
        /\ \/ ReceiveUpdates(c, m)
           \/ ReceiveInitial(c, m)
           \/ ReceiveAck(c, m)
    /\ UNCHANGED <<online, epoch, watching, connStore, storeVars, lambdas, broken>>

(* The subscriber leaves: finalize() sends UNWATCH_BRANCH if connected. *)
Unwatch(c) ==
    /\ "unwatch" \in Faults
    /\ watching[c]
    /\ watching' = [watching EXCEPT ![c] = FALSE]
    /\ leavePc' = IF online[c]
                  THEN [leavePc EXCEPT ![<<"unwatch", Cur(c)>>] = "sent"] ELSE leavePc
    /\ UNCHANGED <<online, epoch, scan, buffer, doc, counter, sentUpdates, connStore,
                   storeVars, watchVars, addVars, inbox, broken, refused>>

-----------------------------------------------------------------------------
(* ApiGatewayMessenger: one post to one connection. *)

Deliver(k, m) ==
    /\ Live(k)
    /\ inbox' = inbox \cup {m}
    /\ UNCHANGED <<connStore, broken>>

(* GoneException: expireConnection() takes the connection out of the         *)
(* namespace and of the list of connections, but leaves its own hash.        *)
Expire(k) ==
    /\ ~Live(k)
    /\ connections' = connections \ {k}
    /\ nsConns' = IF k \in connNs THEN nsConns \ {k} ELSE nsConns
    /\ UNCHANGED <<connNs, inbox, broken>>

(* Any other error is swallowed by sendMessage(): the message is lost. *)
PostFails(k) ==
    /\ "messenger" \in Faults
    /\ Live(k)
    /\ broken' = broken \cup {k}
    /\ UNCHANGED <<connStore, inbox>>

Post(k, m) == Deliver(k, m) \/ Expire(k) \/ PostFails(k)

(* The 10 seconds that expireConnection() gave the connection's hash end. *)
KeyExpires(k) ==
    /\ k \in connNs \ nsConns
    /\ ~Live(k)
    /\ connNs' = connNs \ {k}
    /\ UNCHANGED <<clientVars, connections, nsConns, storeVars, lambdas, inbox,
                   broken, refused>>

-----------------------------------------------------------------------------
(* watchBranch *)

(* Throws when the connection is not known. *)
GetConnection(k) ==
    /\ watchPc[k] = "sent"
    /\ MayStart
    /\ watchPc' = [watchPc EXCEPT ![k] = IF k \in connections THEN "found" ELSE "failed"]
    /\ UNCHANGED <<clientVars, connStore, storeVars, snapshot, addVars, leavePc,
                   inbox, broken, refused>>

SaveNamespaceConnection(k) ==
    /\ watchPc[k] = "found"
    /\ nsConns' = nsConns \cup {k}
    /\ connNs' = connNs \cup {k}
    /\ watchPc' = [watchPc EXCEPT ![k] = "saved"]
    /\ UNCHANGED <<clientVars, connections, storeVars, snapshot, addVars, leavePc,
                   inbox, broken, refused>>

GetUpdates(k) ==
    /\ watchPc[k] = "saved"
    /\ snapshot' = [snapshot EXCEPT ![k] = stored]
    /\ watchPc' = [watchPc EXCEPT ![k] = "read"]
    /\ UNCHANGED <<clientVars, connStore, storeVars, addVars, leavePc, inbox,
                   broken, refused>>

SendInitial(k) ==
    /\ watchPc[k] = "read"
    /\ Post(k, Message(k, "initial", snapshot[k]))
    /\ watchPc' = [watchPc EXCEPT ![k] = "done"]
    /\ snapshot' = [snapshot EXCEPT ![k] = {}]
    /\ UNCHANGED <<clientVars, storeVars, addVars, leavePc, refused>>

(* Mutant of WatchBranch: the updates are read before the connection is saved. *)
WatchBranchReadsFirst(k) ==
    \/ GetConnection(k)
    \/ /\ watchPc[k] = "found"
       /\ snapshot' = [snapshot EXCEPT ![k] = stored]
       /\ watchPc' = [watchPc EXCEPT ![k] = "saved"]
       /\ UNCHANGED <<clientVars, connStore, storeVars, addVars, leavePc, inbox,
                      broken, refused>>
    \/ /\ watchPc[k] = "saved"
       /\ nsConns' = nsConns \cup {k}
       /\ connNs' = connNs \cup {k}
       /\ watchPc' = [watchPc EXCEPT ![k] = "read"]
       /\ UNCHANGED <<clientVars, connections, storeVars, snapshot, addVars, leavePc,
                      inbox, broken, refused>>
    \/ SendInitial(k)

WatchBranch(k) ==
    \/ GetConnection(k)
    \/ SaveNamespaceConnection(k)
    \/ GetUpdates(k)
    \/ SendInitial(k)

-----------------------------------------------------------------------------
(* addUpdates.  When the branch is full the handler reads it, merges the new  *)
(* update with what it read and replaces the contents, if the merge is        *)
(* configured; the device is told when that does not help either.  Why a      *)
(* store answers what it answers is in module RedisUpdatesStore.              *)

(* Mutant of Store: the handler goes on although nothing was stored. *)
StoreNothing(a) ==
    /\ addPc[a] = "sent"
    /\ MayStart
    /\ addPc' = [addPc EXCEPT ![a] = "stored"]
    /\ UNCHANGED <<clientVars, connStore, storeVars, watchVars, targets, leavePc, inbox,
                   broken, refused>>

Store(a) ==
    /\ addPc[a] = "sent"
    /\ MayStart
    /\ stored' = stored \cup {a[2]}
    /\ revived' = revived \ {a[2]}
    /\ addPc' = [addPc EXCEPT ![a] = "stored"]
    /\ UNCHANGED <<clientVars, connStore, merging, stale, watchVars, targets, leavePc,
                   inbox, broken, refused>>

MaxSizeReached(a) ==
    /\ "refuse" \in Faults
    /\ addPc[a] = "sent"
    /\ MayStart
    /\ \E mergeUpdatesOnMaxSizeExceeded \in BOOLEAN :
        addPc' = [addPc EXCEPT ![a] = IF mergeUpdatesOnMaxSizeExceeded
                                      THEN "full" ELSE "refused"]
    /\ UNCHANGED <<clientVars, connStore, storeVars, watchVars, targets, leavePc,
                   inbox, broken, refused>>

ReadToMerge(a) ==
    /\ addPc[a] = "full"
    /\ merging' = [merging EXCEPT ![a] = stored]
    /\ addPc' = [addPc EXCEPT ![a] = "merge"]
    /\ UNCHANGED <<clientVars, connStore, stored, stale, revived, watchVars, targets,
                   leavePc, inbox, broken, refused>>

(* replaceUpdates() takes out what was read by its place in the list.  If the *)
(* branch was cleared since, that is any part of what was stored after it,    *)
(* and the merge brings back what was cleared (UpdatesStore, AcceptStale).    *)
ReplaceUpdates(a) ==
    /\ addPc[a] = "merge"
    /\ merging[a] # {}
    /\ \E kept \in IF a \in stale THEN SUBSET stored ELSE {stored} :
        stored' = kept \cup merging[a] \cup {a[2]}
    /\ revived' = (stored' \cap (revived \cup (merging[a] \ stored))) \ {a[2]}
    /\ merging' = [merging EXCEPT ![a] = {}]
    /\ stale' = stale \ {a}
    /\ addPc' = [addPc EXCEPT ![a] = "stored"]
    /\ UNCHANGED <<clientVars, connStore, watchVars, targets, leavePc, inbox, broken,
                   refused>>

(* The merge does not fit either, or one of its calls throws, as              *)
(* replaceUpdates() does when nothing was read: the handler keeps the answer  *)
(* max_size_reached.                                                          *)
MergeFails(a) ==
    /\ addPc[a] \in {"full", "merge"}
    /\ addPc' = [addPc EXCEPT ![a] = "refused"]
    /\ merging' = [merging EXCEPT ![a] = {}]
    /\ stale' = stale \ {a}
    /\ UNCHANGED <<clientVars, connStore, stored, revived, watchVars, targets, leavePc,
                   inbox, broken, refused>>

GetConnectionsByNamespace(a) ==
    /\ addPc[a] = "stored"
    /\ targets' = [targets EXCEPT ![a] = nsConns \ {a[1]}]
    /\ addPc' = [addPc EXCEPT ![a] = "send"]
    /\ UNCHANGED <<clientVars, connStore, storeVars, watchVars, leavePc, inbox,
                   broken, refused>>

(* The posts of one sendMessage() run concurrently: they end in any order.    *)
(* The first that fails rejects the Promise.all, so the handler goes on while *)
(* the others are still out; they may end after the handler did.              *)
Broadcast(a) ==
    \E k \in targets[a] :
        /\ targets' = [targets EXCEPT ![a] = @ \ {k}]
        /\ \/ /\ \/ Deliver(k, Message(k, "updates", {a[2]}))
                 \/ Expire(k)
              /\ UNCHANGED addPc
           \/ /\ PostFails(k)
              /\ addPc' = [addPc EXCEPT ![a] = IF @ = "send" THEN "swallowed" ELSE @]
        /\ UNCHANGED <<clientVars, storeVars, watchVars, leavePc, refused>>

SendUpdatesReceived(a) ==
    /\ \/ addPc[a] = "send" /\ targets[a] = {}
       \/ addPc[a] \in {"swallowed", "refused"}
    /\ LET type == IF addPc[a] = "refused" THEN "error" ELSE "ack"
       IN  Post(a[1], Message(a[1], type, {a[2]}))
    /\ addPc' = [addPc EXCEPT ![a] = "done"]
    /\ UNCHANGED <<clientVars, storeVars, watchVars, targets, leavePc, refused>>

AddUpdatesHandler(a) ==
    \/ Store(a)
    \/ MaxSizeReached(a)
    \/ ReadToMerge(a)
    \/ ReplaceUpdates(a)
    \/ MergeFails(a)
    \/ GetConnectionsByNamespace(a)
    \/ Broadcast(a)
    \/ SendUpdatesReceived(a)

-----------------------------------------------------------------------------
(* unwatchBranch and disconnect.  Both end by counting the connections left  *)
(* and clearing a temporary branch that has none.                            *)

AfterLeaving == IF Temporary THEN "count" ELSE "done"

GetNamespaceConnection(h) ==
    /\ h[1] = "unwatch"
    /\ leavePc[h] = "sent"
    /\ MayStart
    /\ leavePc' = [leavePc EXCEPT ![h] = IF h[2] \in nsConns THEN "found" ELSE "done"]
    /\ UNCHANGED <<clientVars, connStore, storeVars, watchVars, addVars, inbox,
                   broken, refused>>

DeleteNamespaceConnection(h) ==
    /\ h[1] = "unwatch"
    /\ leavePc[h] = "found"
    /\ nsConns' = nsConns \ {h[2]}
    /\ connNs' = connNs \ {h[2]}
    /\ leavePc' = [leavePc EXCEPT ![h] = AfterLeaving]
    /\ UNCHANGED <<clientVars, connections, storeVars, watchVars, addVars, inbox,
                   broken, refused>>

(* disconnect: the namespaces of the connection are read before they are     *)
(* cleared, and only those are looked at afterwards.                         *)
GetConnections(h) ==
    /\ h[1] = "close"
    /\ leavePc[h] = "none"
    /\ MayStart
    /\ h[2][2] <= epoch[h[2][1]] /\ ~Live(h[2])
    /\ leavePc' = [leavePc EXCEPT ![h] = IF h[2] \in connNs THEN "loaded" ELSE "empty"]
    /\ UNCHANGED <<clientVars, connStore, storeVars, watchVars, addVars, inbox,
                   broken, refused>>

ClearConnection(h) ==
    /\ h[1] = "close"
    /\ leavePc[h] \in {"loaded", "empty"}
    /\ nsConns' = IF h[2] \in connNs THEN nsConns \ {h[2]} ELSE nsConns
    /\ connections' = connections \ {h[2]}
    /\ connNs' = connNs \ {h[2]}
    /\ leavePc' = [leavePc EXCEPT ![h] = IF @ = "loaded" THEN AfterLeaving ELSE "done"]
    /\ UNCHANGED <<clientVars, storeVars, watchVars, addVars, inbox, broken, refused>>

CountConnections(h) ==
    /\ leavePc[h] = "count"
    /\ leavePc' = [leavePc EXCEPT ![h] = IF nsConns = {} THEN "clear" ELSE "done"]
    /\ UNCHANGED <<clientVars, connStore, storeVars, watchVars, addVars, inbox,
                   broken, refused>>

ClearUpdates(h) ==
    /\ leavePc[h] = "clear"
    /\ stored' = {}
    /\ stale' = stale \cup {a \in Adds : addPc[a] = "merge"}
    /\ revived' = {}
    /\ leavePc' = [leavePc EXCEPT ![h] = "done"]
    /\ UNCHANGED <<clientVars, connStore, merging, watchVars, addVars, inbox, broken,
                   refused>>

Leave(h) ==
    \/ GetNamespaceConnection(h)
    \/ DeleteNamespaceConnection(h)
    \/ GetConnections(h)
    \/ ClearConnection(h)
    \/ CountConnections(h)
    \/ ClearUpdates(h)

-----------------------------------------------------------------------------
(* Faults of the server. *)

(* rateLimit() refuses the packet: the handler returns without serving it    *)
(* and the client is told nothing about this packet.                         *)
RateLimited(k) ==
    /\ "rateLimit" \in Faults
    /\ \/ /\ watchPc[k] = "sent"
          /\ watchPc' = [watchPc EXCEPT ![k] = "failed"]
          /\ UNCHANGED <<addPc, leavePc>>
       \/ \E u \in Updates :
          /\ addPc[<<k, u>>] = "sent"
          /\ addPc' = [addPc EXCEPT ![<<k, u>>] = "done"]
          /\ UNCHANGED <<watchPc, leavePc>>
       \/ /\ leavePc[<<"unwatch", k>>] = "sent"
          /\ leavePc' = [leavePc EXCEPT ![<<"unwatch", k>>] = "done"]
          /\ UNCHANGED <<watchPc, addPc>>
    /\ broken' = broken \cup {k}
    /\ UNCHANGED <<clientVars, connStore, storeVars, snapshot, targets, inbox, refused>>

(* An invocation dies (timeout, a rejected Redis call) between two awaits. *)
CrashWatch(k) ==
    /\ "crash" \in Faults
    /\ watchPc[k] \in {"found", "saved", "read"}
    /\ watchPc' = [watchPc EXCEPT ![k] = "failed"]
    /\ snapshot' = [snapshot EXCEPT ![k] = {}]
    /\ UNCHANGED <<clientVars, connStore, storeVars, addVars, leavePc, inbox, broken, refused>>

CrashAdd(a) ==
    /\ "crash" \in Faults
    /\ addPc[a] \in AddUnderWay
    /\ addPc' = [addPc EXCEPT ![a] = "done"]
    /\ targets' = [targets EXCEPT ![a] = {}]
    /\ merging' = [merging EXCEPT ![a] = {}]
    /\ stale' = stale \ {a}
    /\ UNCHANGED <<clientVars, connStore, stored, revived, watchVars, leavePc, inbox,
                   broken, refused>>

CrashLeave(h) ==
    /\ "crash" \in Faults
    /\ leavePc[h] \in {"found", "loaded", "empty", "count", "clear"}
    /\ leavePc' = [leavePc EXCEPT ![h] = "done"]
    /\ UNCHANGED <<clientVars, connStore, storeVars, watchVars, addVars, inbox, broken, refused>>

-----------------------------------------------------------------------------
Next ==
    \/ \E c \in Clients :
        Connect(c) \/ Close(c) \/ AddUpdates(c) \/ Receive(c) \/ Unwatch(c)
    \/ \E k \in Conns :
        WatchBranch(k) \/ KeyExpires(k) \/ RateLimited(k) \/ CrashWatch(k)
    \/ \E a \in Adds : AddUpdatesHandler(a) \/ CrashAdd(a)
    \/ \E h \in Leaves : Leave(h) \/ CrashLeave(h)

(* A packet that reached the gateway is served and an invocation that started *)
(* runs on; a packet of a socket that closed may never have left the client.  *)
Fairness ==
    /\ \A c \in Clients :
        WF_vars(Connect(c)) /\ WF_vars(Receive(c))
    /\ \A k \in Conns :
        WF_vars(WatchBranch(k) /\ (Live(k) \/ watchPc[k] # "sent"))
    /\ \A a \in Adds : WF_vars(AddUpdatesHandler(a) /\ (Live(a[1]) \/ addPc[a] # "sent"))

Spec == Init /\ [][Next]_vars
FairSpec == Spec /\ Fairness

-----------------------------------------------------------------------------
(* Type invariant. *)
TypeOK ==
    /\ online \in [Clients -> BOOLEAN]
    /\ epoch \in [Clients -> 0 .. MaxConns]
    /\ watching \in [Clients -> BOOLEAN]
    /\ scan \in [Clients -> {"null", "waiting", "event"}]
    /\ buffer \in [Clients -> SUBSET Updates]
    /\ doc \in [Clients -> SUBSET Updates]
    /\ counter \in [Clients -> 0 .. MaxUpdates]
    /\ sentUpdates \in [Clients -> SUBSET Updates]
    /\ connections \subseteq Conns
    /\ nsConns \subseteq Conns
    /\ connNs \subseteq Conns
    /\ stored \subseteq Updates
    /\ merging \in [Adds -> SUBSET Updates]
    /\ stale \subseteq Adds
    /\ revived \subseteq Updates
    /\ watchPc \in [Conns -> {"none", "sent", "found", "failed", "saved", "read", "done"}]
    /\ snapshot \in [Conns -> SUBSET Updates]
    /\ addPc \in [Adds -> {"none", "sent", "full", "merge", "stored", "refused",
                           "send", "swallowed", "done"}]
    /\ targets \in [Adds -> SUBSET Conns]
    /\ leavePc \in [Leaves -> {"none", "sent", "found", "loaded", "empty", "count",
                               "clear", "done"}]
    /\ inbox \subseteq Messages
    /\ broken \subseteq Conns
    /\ refused \subseteq Updates

-----------------------------------------------------------------------------
(* Properties. *)

(* Where an update may be on its way to connection k: in a message, or with  *)
(* an addUpdates invocation that has still to send it there.                 *)
InFlight(k, u) == \E m \in inbox :
    m.to = k /\ m.type \in {"updates", "initial"} /\ u \in m.updates

Broadcasting(k, u) == \E b \in Conns :
    \/ addPc[<<b, u>>] = "stored"
    \/ k \in targets[<<b, u>>]

(* Only if an invocation may die midway: its author still has the update in   *)
(* _sentUpdates and sends it again when it reconnects.                        *)
Resendable(u) == "crash" \in Faults /\ u \in sentUpdates[u[1]]

Synced(c) ==
    /\ online[c] /\ watching[c] /\ scan[c] = "event"
    /\ Cur(c) \notin broken

(* The updates that a merge put back after a temporary branch was cleared:    *)
(* the handler broadcasts only its own update.                               *)
Unannounced == IF Temporary THEN revived ELSE {}

HasOrGets(c, u) ==
    \/ u \in doc[c]
    \/ InFlight(Cur(c), u)
    \/ Broadcasting(Cur(c), u)
    \/ Resendable(u)

(* No update falls between the initial snapshot and the broadcasts: a client *)
(* that got its initial event, on a connection that lost no packet, has      *)
(* every stored update or is certain to be sent it, however watchBranch and  *)
(* the addUpdates of the other devices interleaved.                          *)
NoLostUpdate ==
    \A c \in Clients : Synced(c) =>
        \A u \in stored \ (refused \cup Unannounced) : HasOrGets(c, u)

(* The same of every stored update.  The code does not keep this on a         *)
(* temporary branch; README.md, Disagreements, has the steps.                 *)
NoStoredUpdateIsLost ==
    \A c \in Clients : Synced(c) => \A u \in stored \ refused : HasOrGets(c, u)

(* An edit is never dropped by its author before the server has it: through  *)
(* lost connections, dropped packets and dead invocations it stays in         *)
(* _sentUpdates until it is stored or the client was told it does not fit.   *)
EditKept ==
    \A c \in Clients : \A u \in doc[c] :
        u[1] = c => u \in sentUpdates[c] \cup stored \cup refused

(* On a persistent branch the protocol implements SharedInst: every change a *)
(* device sees from another device is already durable, an update is marked   *)
(* off only after it was stored (or the device was told it does not fit),    *)
(* and neither the documents nor the stored contents ever shrink.            *)
Shared == INSTANCE SharedInst WITH
    docs <- doc, unsaved <- sentUpdates, published <- stored, rejected <- refused

ImplementsSharedInst == Shared!Spec

(* Devices converge: once every device stays connected on a connection that  *)
(* loses nothing, each of them ends up with every stored update and with no  *)
(* update of its own unacknowledged.                                         *)
Converges ==
    <>[](\A c \in Clients : online[c] /\ watching[c] /\ Cur(c) \notin broken)
    => <>[](\A c \in Clients : stored \subseteq doc[c] /\ sentUpdates[c] = {})

(* "should delete temporary updates when all devices have left the branch":  *)
(* the updates of a temporary branch are deleted only while no device is     *)
(* registered for the branch.                                                *)
(* The code does not keep this; README.md, Disagreements, has the steps.      *)
ClearedOnlyWhenAllLeft ==
    [][stored' # stored /\ stored' = {} => nsConns = {}]_vars

=============================================================================
