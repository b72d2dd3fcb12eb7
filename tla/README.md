# CasualOS: TLA+ models of its server side protocols

CasualOS lets several devices edit one *inst* (in the code: a *branch*) at the
same time, and keeps accounts, records and policies beside it. This directory
models

* realtime synchronisation: the client (`CausalRepoClient`), the serverless
  server (`ApiaryCausalRepoServer` on AWS Lambda), its Redis stores, its
  messenger and the reconnecting connection underneath;
* the stateful server of the atoms protocol (`CausalRepoServer`, `CausalRepo`)
  and the causal tree that atoms are woven into (`Weave`, `CausalTree`);
* login and sessions (`AuthController`), and authorization (`PolicyController`).

Paths below are relative to `src/src/`.

## 1. The system

### 1.1 Inventory

| Component | State | Operations | Interacts with |
|---|---|---|---|
| Inst server, `casual-apiary/src/ApiaryCausalRepoServer.ts` | none: every packet is an invocation of its own | `connect`, `disconnect`, `watchBranch`, `unwatchBranch`, `addUpdates`, `addAtoms`, `sendEvent`, `watchBranchDevices`, `getUpdates`, `webhook`, `syncTime`, `rateLimitExceeded` | awaits the stores and the messenger |
| Connection store, `casual-apiary-redis/src/RedisConnectionStore.ts` | three families of Redis hashes: all connections, connections of a namespace, namespaces of a connection | save, delete, clear, expire, list, count | called by the server and by the messenger |
| Updates store, `casual-apiary-redis/src/RedisUpdatesStore.ts` | list of updates, accounted size, update count, merge time of each branch | `getUpdates`, `addUpdates`, `replaceUpdates`, `clearUpdates`; two are Lua scripts | called by the server |
| Messenger, `casual-apiary-aws/src/ApiGatewayMessenger.ts` | none | `sendMessage` (concurrent posts), `sendPacket` | posts to connections; expires those that are gone |
| Lambda entry points, `casual-apiary-aws/handler.ts` | none | `message`, `disconnect`, `login`, `webhook`; rate limit in front of each packet | start the server's handlers |
| Inst client, `causal-trees/core2/CausalRepoClient.ts` | `_sentUpdates`, `_updateCounter`, `_sentAtoms`, `_connectedDevices`, the `scan` of each watch | `watchBranchUpdates`, `addUpdates`, `watchBranchDevices`, `forcedOffline`, atoms, commits, events | sends packets, gets messages |
| Connection, `websocket/ReconnectableSocket.ts`, `websocket/WebSocketManager.ts`, `causal-tree-client-apiary/ApiaryConnectionClient.ts` | current socket, `_closing`, reconnect timer, connection state, events held back by `concatMap` | open, close, reconnect, log in | socket events, user's offline switch |
| Stateful inst server, `causal-tree-server/CausalRepoServer.ts`; repo, `causal-trees/core2/CausalRepo.ts`; stage, `aux-server/server/redis/RedisStageStore.ts` | loaded repos and the promises of those being loaded, channels; head and commits of a branch, its stage | watch, get, add and remove atoms, commit, checkout, restore, unwatch, disconnect; load, unload | one process; awaits the database and the stage store |
| Causal tree, `causal-trees/core2/Weave2.ts`, `CausalTree2.ts`, `SiteStatus.ts` | linked lists of atoms, reorder buffer, maps by id and hash, cardinality; clocks of the site | insert, remove, add an atom, remove siblings | used by `CausalRepoServer` and the partitions |
| In-memory stores, `MemoryUpdatesStore.ts` and others | maps | as the Redis ones | self-hosted server, tests |
| Authentication, `aux-records/AuthController.ts` | users, addresses, login requests, sessions | request and complete login, validate, revoke, revoke all, replace, update the user | a store without transactions; the Stripe webhook writes the same user record |
| Policies, `aux-records/PolicyController.ts`, `PolicyPermissions.ts` | policy document of each marker, roles of users and insts with their expiration | decide a request; grant and revoke permissions and roles | policy store, read and written without conditions |
| Records, `aux-records/*RecordsController.ts`; subscriptions | records, files | store calls, upload of files, calls to Stripe | HTTP server |
| Rate limiter, `aux-records/RateLimitController.ts` and `RedisRateLimitStore` | hits per address | `increment` | in front of the packets |
| Time sync, `timesync/` | samples, offset estimate | query loop | client |
| Partitions, `aux-common/partitions/` | Yjs document, bots | apply and produce updates | client, runtime |
| Scripting runtime, user interface, tools | | | not part of the protocols |

### 1.2 What is hard about it

* Nothing serialises the server. Each handler is a sequence of awaited Redis
  calls, and the handlers of all devices, even two packets of one connection,
  interleave between any two of them.
* A broadcast can overtake the initial snapshot; a resend can meet its first
  copy still being stored; an acknowledgement can be lost with its connection.
* Packets are dropped by the rate limiter, messages by a messenger that swallows
  errors, and an invocation can end between two awaits.
* The updates store merges a full branch with a read and a replace in two calls.
* On the client, sockets, timers and logins overlap, and a replaced socket
  still reports its own close.
* The stateful server is one process, but every handler awaits the stores, and
  the repo it holds may be committed, reset, unloaded or loaded again meanwhile.
* Atoms arrive in any order and more than once, may be removed at any time, and
  must leave the same tree everywhere.
* Sessions, users, policies and roles are read, changed and written back as
  whole records, without transactions.
* A request acts under the role of the first permission found; what is found
  first depends on everything granted before.

What makes each part correct: no stored edit is missed by a connected device and
no edit is given up by its author (server and client); an accepted update stays
and the size limit means what it says (updates store); the client reconnects
unless told not to, and is connected when it says so (connection); the devices
shown on a branch are the devices on it (presence); an acknowledged atom survives
and reaches every watcher (stateful server); the weave is the depth-first
traversal of its tree and loses no atom (causal tree); a session is granted for
one thing only, and what is revoked stays so (authentication); what is allowed is
covered by one role, and the owner is never locked out (policies).

## 2. Modules

| Module | Models | Uses |
|---|---|---|
| `InstSync` | the protocol of one branch: devices, connections, Lambda invocations, stores, messages, faults | refines `SharedInst` |
| `SharedInst` | abstract: edits are published for good; documents take in published edits; an edit stops being unsaved only when published or rejected | |
| `InstSync_proofs` | theorems about `InstSync`, the refinement among them | extends `InstSync` |
| `RedisUpdatesStore` | the Lua scripts of the store under concurrent invocations | refines `UpdatesStore` |
| `RedisUpdatesStore_proofs` | theorems about `RedisUpdatesStore`, the refinement among them | extends `RedisUpdatesStore` |
| `UpdatesStore` | abstract: accept, refuse, clear; the steps by which `InstSync` uses the store | |
| `ConnectionClient` | socket, reconnect timer, login, offline switch | its outcome is `Connect` and `Close` of `InstSync` |
| `ConnectionClient_proofs` | theorems about `ConnectionClient` | extends `ConnectionClient` |
| `BranchDevices` | who is on a branch, as one observer is told | same handlers as `InstSync`, seen from the device watchers |
| `BranchDevices_proofs` | theorems about `BranchDevices` | extends `BranchDevices` |
| `CausalRepoServer` | one branch of the stateful server: connections, handlers, repos, stores, crashes | |
| `CausalRepoServer_proofs` | theorems about `CausalRepoServer` | extends `CausalRepoServer` |
| `Weave` | the data structure: insert, remove, reorder buffer, conflicts | |
| `CausalTree` | one site: its weave and clocks, atoms from elsewhere in any order, atoms of its own | extends `Weave` |
| `CausalTree_proofs` | theorems about `Weave` and `CausalTree` | extends `CausalTree` |
| `AuthController` | calls on the login requests and sessions of one account | |
| `AuthController_proofs` | theorems about `AuthController` | extends `AuthController` |
| `Authorization` | the decision about a request, as operators over what is stored | |
| `PolicyController` | concurrent calls that change policies and roles, and the reference that the decision is checked against | extends `Authorization` |
| `PolicyController_proofs` | theorems about `PolicyController` and the decision | extends `PolicyController` |
| `MCInstSync`, `MCRedisUpdatesStore`, `MCCausalRepoServer`, `MCPolicyController` | symmetry; the length of an encoded update; the policies and callers of the instance | extend the modules they instantiate |
| `MCCausalTree` | the depth-first listing that the weave is compared with, and the properties stated with it | extends `CausalTree` |

Operators named `...Dropped`, `...Always`, `...First` and so on, each marked
*Mutant of* in a comment, are deliberately wrong versions of the definition
after them. They are used by no specification: substituting one has to break a
property, which shows that the property depends on that code.

### 2.1 InstSync

An action is one await with what the handler does up to the next one.

| Code | Model |
|---|---|
| Redis `/connections`, `/namespace_connections/<ns>`, `/connections/<id>` | `connections`, `nsConns`, `connNs` |
| updates store of the branch | `stored` (a set: updates are CRDT deltas, applied in any order and repeatedly, `UpdatesStore.ts:4-5`) |
| `watchBranch` | `GetConnection`, `SaveNamespaceConnection`, `GetUpdates`, `SendInitial` |
| `addUpdates` of the server | `Store`, or `MaxSizeReached` and then `ReadToMerge`, `ReplaceUpdates`, `MergeFails`; `GetConnectionsByNamespace`, `Broadcast` (one post per step), `SendUpdatesReceived` |
| `unwatchBranch`, `disconnect` | `GetNamespaceConnection`, `DeleteNamespaceConnection`; `GetConnections`, `ClearConnection`; then `CountConnections`, `ClearUpdates` on a temporary branch |
| `postToConnection`, `expireConnection`, swallowed errors | `Deliver`, `Expire` (with `KeyExpires` ten seconds later), `PostFails` |
| `watchBranchUpdates` of the client: subscribe or reconnect, scan, acknowledgement, finalize | `Connect`, `ReceiveUpdates` and `ReceiveInitial`, `ReceiveAck`, `Unwatch` |
| `addUpdates` of the client | `AddUpdates` |
| rate limit, a dying invocation | `RateLimited`, `CrashWatch`, `CrashAdd`, `CrashLeave` |

Abstractions. A call of `RedisConnectionStore` is one step, although it is up to
four Redis commands. A Lambda invocation never runs twice. `AddUpdates` happens
while the branch is watched, as the partition does it. `Connect` stands for the
steps of `ConnectionClient` and for the login invocation. The actions named after
a call of the connection store are that call and what its caller makes of it.
What is on its way to a connection that closes is lost. The notifications of device watchers, sent by
the same handlers, are in `BranchDevices`. `broken` and `refused` are history
variables: which connections lost a packet or a message, and which updates the
client was told do not fit. So are `stale`, the merges that read the branch
before it was cleared, and `revived`, the cleared updates that such a merge put
back. A device that unwatched does not watch again.

The posts of a broadcast run at once and the first failure ends the wait for them
(`Promise.all`, `ApiGatewayMessenger.ts:106`; `sendMessage` swallows it): the
handler, at `swallowed`, goes on to acknowledge while its other `targets` are
still out, and they may end after it.

### 2.2 RedisUpdatesStore

A Lua script is one step; between the scripts of an invocation others run. A
list element is the set of updates merged into it. Sizes are numbers given by
the constant operator `Size`; `MCSize` gives a header and one unit per update, so
that merging saves space, as it does with encoded Yjs updates. Timestamps are
reduced to what the script compares: present (1) or missing (-1). `stale` is
history: the invocations that were at work when the branch was cleared. In
`UpdatesStore` only these may, when accepted, leave any accepted updates behind
(`AcceptStale`): a merge whose read was before a clear brings the cleared updates
back, and its index may trim what nobody merged.

### 2.3 ConnectionClient

All of it is one JavaScript thread, so an action is one event callback run to
its end, including everything the RxJS operators deliver synchronously. `queue`
is what `concatMap` holds back. `Proceed` is what `concatMap` does when the inner
observable ends: it goes on with the held-back events up to the next login. A
login sent on a connecting socket throws inside the projection, which errors
`connectionState` for good. `CausalRepoClient.forcedOffline` is the switch, and
the history variable `settled` says that it was used only when no socket was
closing and no reconnect pending.

### 2.4 BranchDevices

Devices join and leave one branch; one observer watches it. A device has one
session id over all of its connections, and the observer knows devices by it.
`JoinNotify` is the `Promise.all` at the end of `watchBranch`. Only the last
connection of the observer may stay open, so that a run ends with it connected.
An invocation counts as under way until the last of its posts has ended. `Leaving`
are the devices that may leave.

The faults are those of `InstSync`: packets dropped by the rate limiter
(`RateLimitedDevice`, `RateLimitedWatch`), invocations that die (`CrashJoin`,
`CrashLeave`, `CrashWatch`), posts that fail and are swallowed (`Notify`). With
any of them a device can be missed. The history variable `lost` names the
connections of devices whose `watchBranch` was dropped or died, or of which a
notification did not reach the observer. `NoMissedDevice` is about the first
connection of both, and excepts devices in `lost` and an observer whose own watch
was dropped or died.

### 2.5 CausalRepoServer

An action is the stretch of a handler from one await of a store to the next.

| Code | Model |
|---|---|
| database: head of the branch, commits; stage store | `exists`, `head`, `commits`; `stage` |
| `CausalRepo` objects; `_repos`, `_repoPromises`, `_branches` | `heap`; `loaded`, `promise`, `entry` |
| `DeviceManagerImpl` channels, connections | `channel`, `conn`; `view` is what a device was sent |
| `concatMap` over the events of a connection, and its disconnection beside it | two slots of `handler` for each device |
| `_getOrLoadRepo`, `_loadRepo`, `CausalRepo.checkout` | `WaitForRepo`, `Checkout`, `SaveCheckedOut`, `GetStage`, `RepoLoaded`, `LoadFailed` |
| WATCH_BRANCH, GET_BRANCH, UNWATCH_BRANCH, disconnect | `WatchBranch` and `SendAtoms`, `GetBranch`, `Unwatch`, `Disconnect` |
| ADD_ATOMS | `AddAtoms` or `RemoveAtoms` (received), `ApplyAdd` or `ApplyRemove`, `StageAtoms`, `AtomsReceived` |
| `commit()`, `_commitToRepo`, `clearStage` | `TakeCommit`, `StoreData`, `SaveHead`, `CheckoutHead`, `ClearAdded`, `ClearRemoved` |
| CHECKOUT, RESTORE, `reset()` | `CheckoutEvent`, `RestoreEvent`, `StoreRestored`, `ResetHead`, `ResetCurrent`, `SendReset` |
| `_tryUnloadBranch`, `_unloadBranch` | `TryUnload`, `UnloadBranch`, `UnloadCommitted` |

Abstractions. One persistent branch and atoms that the weave accepts, one per
event. Passwords, temporary branches, the updates protocol, listings of commits,
device watchers and remote events are left out, and so are errors of the stores
other than a crash of the process. `getStage` is one step. A device reconnects
after the handlers of its old connection have ended. Continuations of a settled
promise run before the next event (`Settled`, `Continue`), as the microtask queue
has it. A handler that throws ends the `concatMap` of its connection, which is
`deaf` from then on.

`contended` is history: the atoms that were changed while the branch was being
saved or loaded, or while another change of the same atom or a reset was under
way; the atoms that a RESTORE finds in the stage, since unlike CHECKOUT it does not
clear it; and all atoms when a load overlaps a save, or a reset another save. The
code keeps none of these apart (section 3.1). The two main properties say that
everything else is safe.

The last two cases were found by proving the properties: without them they hold
on small instances and are false on larger ones. A stage is left behind, for
instance, by a crash between the save of the head and `clearStage`. The next load
finds nothing in it that the head does not have, so a RESTORE makes no commit
first, which would clear the stage, and resets the branch to an older commit; the
load after that applies the stage to it.

### 2.6 Weave and CausalTree

`Weave` has one operator per method of `Weave2.ts`: a weave is a record of the
roots, the two directions of the linked lists, the maps by id and hash, the
reorder buffer and the number of certificates. A node is an atom with the number
of its copy, since a repeated atom makes a node of its own. An id is a site, a
timestamp and a priority; hashes are numbers, compared as the code compares them.

`CausalTree` delivers the atoms of other sites, one per step, in any order and
more than once (`InsertAtom`), removes atoms (`RemoveHash`), and makes atoms here
(`AddAtom`): its own (`AddHere`, with or without `removeSiblingsBefore`, as
`AuxCausalTree2.ts` uses it), certificates (`AddCertificate`) and atoms of the
remote site (`AddRemote`).
What the other sites made is chosen in `Init`: every tree, every order of
timestamps, every choice of delete atoms and certificates, and possibly two atoms
with one id. The version vector, the reducer from atoms to bots and the reset of
a partition are left out. Certificates have cardinality one, the only one used.

`iterateFrom` is bounded by the number of pointers, which is where a list that
ends has ended; a list that does not end shows as one whose last node still has a
next one (`ListsAreLinked`).

`repeated` is history: an atom arrived whose ID was in the reorder buffer, or one
was put there whose ID is in the weave. From then on the code guarantees little
(section 3.1), and the properties of the lists, of the places of the atoms and of
the clock are about the histories before it. Atoms that are delivered again
before or after they wait, and conflicting IDs that meet in the weave, are not
excepted.

The reference, in `MCCausalTree`, is the depth-first listing of the tree
(`Preorder`). Removing a
delete atom also removes siblings newer than it: a causal group ends with the
first atom that is not newer, and a delete atom stands before its siblings
whatever their age. `RemovesSubtrees` is about the other atoms.

### 2.7 AuthController

An action is one operation of the store (`DynamoDBAuthStore`) with what the call
does until the next one; `MaxActive` calls run at once, and a call may fail
between any two operations (`Fail`). All calls are for one address; an account, a
request and a session are named after the call that creates them.

The gets of the store do not ask for a consistent read
(`DynamoDBAuthStore.ts:338`, `:427`), so they may return an earlier version of the
record, or none if it was just created. `oldUsers`, `oldRequests` and `oldSessions`
are the versions that may still be returned; every write adds the one it replaces
(`PutUser`, `PutRequest`, `PutSession`), and `Replicate` is a record whose replicas
have caught up. The entry of the address and the record of its user, which one
transaction creates, lag together. A call is *void* if the answers given before it
began have made its key void and the replicas of that record have caught up with
them; an expiry, which no version changes, counts at once.

| Code | Model |
|---|---|
| `requestLogin` | `FindUserByAddress`, `SaveNewUser` (a transaction), `FindAgain`, `SaveLoginRequest`, `SetCurrentLoginRequest` |
| `completeLogin` | `FindLoginRequest`, `IncrementAttempts`, `CheckCurrent`, `MarkLoginRequestComplete`, `SaveSession` |
| `validateSessionKey` | `FindKey`, `FindKeyUser`, in front of the calls below |
| `revokeSession`, `revokeAllSessions`, `replaceSession` | `FindTarget`, `SaveTarget`; `RevokeAllSessions`; `FindOwn`, `SaveOwn`, `SaveNewSession` |
| `updateUserInfo`, `handleStripeWebhook` | `FindUser`, `SaveUser` |

The ban of an account, changes of its address and the read-only calls are left
out. Another IP address, an address that is not allowed and a code that cannot be
sent are refusals that may always happen.

### 2.8 Authorization and PolicyController

`Authorization` is the decision: one operator per `_authorize...Request` up to
the kind of resource (data, files and events differ in their patterns only), with
`FindPermission` for the role of the first match, which decides. A scope is the
set of targets that the patterns of a permission match. `PolicyController` has
the calls that change what is stored: `ListPermissions`, `Decide`, `Read`,
`Write` are their awaits. The roles of the user and of the insts, read one after
the other in the code, are read in the step that decides. The store is
`MongoDBPolicyStore`. Calls are made without a record key; requests to
resources with and without.

The loops of the code run over the markers of a resource and carry the role that
was found along. They are written without the loop: `FirstRole` is the role that
the first marker with a permission settles, `Having` the markers with a
permission for that role. A marker that was passed over before the role was
settled is not in `Having`: it has no permission for any role that the subject
may act under.

The decision invariants look at every request in every state where no call is
under way (`Quiet`). A decision depends on the stored documents and on the roles
that have not expired, and all their values are reached in such states; the
theorems of section 4 do not need this restriction. They are compared
with `Justified`, which says which single role would cover the request, without
any order of search.

## 3. What is checked

Every passing run finishes its state space. Bounds are in the `.cfg` files.

| Run | Checks | Bounds, and why they suffice |
|---|---|---|
| `InstSyncReconnect` | `TypeOK`, `NoLostUpdate`, `EditKept`, `ImplementsSharedInst`, `Converges` | two devices, the editor with two connections, two invocations at once, fair. Old and new connection of the author, each with its own copy of the update in flight, against the watch of the other device |
| `InstSyncFaults` | `NoLostUpdate`, `EditKept`, `ImplementsSharedInst` | an editor and two devices whose connection may be lost (symmetric), one connection each, one update, two invocations at once; invocations die, packets and messages are dropped, a full branch is merged or refuses, posts of one broadcast end after the handler did |
| `InstSyncTemporary` | `NoLostUpdate`, `EditKept` | a temporary branch, two editors who may unwatch, one of whom may be lost: the branch is cleared while the other watches or adds, and while a full branch is between being read and replaced |
| `UpdatesStore` | `TypeOK`, `AccountedSizeFits`, `ImplementsUpdatesStore` | six writers on a branch for about four, and two clears: several invocations are between read and replace at the same time. The branch starts empty or with an element without a timestamp, which takes the untrimmed way |
| `Connection` | `TypeOK`, `ConnectedMeansLoggedIn`, `NeverGivesUp`, `ReconnectsWhenSettled` | three losses and four uses of the switch, at any time: sockets replaced twice in a row, and a loss on each of them |
| `BranchDevices` | `TypeOK`, `NoMissedDevice` | a device that stays, one that leaves, one connection each; an observer with two; dropped packets, failing posts, dying invocations |
| `AuthSessions` | `TypeOK`, `OneAccount`, `GrantedForSomething`, `VoidIsRefused`, `RevokedStaysRevoked` | four calls, two at a time, two points in time, every version that a get may return: a login takes two calls, which leaves two that race with each other or with its session, or two logins at once; requests expire within the run |
| `RepoServer` | `TypeOK`, `AnsweredIsDurable`, `SeenByWatchers` | two devices (symmetric) with an atom each, five connections and events beside disconnects, two commits, a crash, two repo objects: a branch that is unloaded, loaded again and saved by two handlers at once |
| `CausalTree` | `TypeOK`, `ListsAreLinked`, `TraversalUnlessRepeated`, `NothingStranded`, `AcceptedHere`, `OneCertificate`, `RemovesSubtrees` | three atoms from elsewhere, one made here, one repetition, one removal, a buffer of two: a chain that arrives backwards fills the buffer, and the atoms have siblings, descendants or a twin |
| `Policies` | `TypeOK`, `AllowedIsJustified`, `OwnerKeepsControl`, `ListedIsReadable`, `WritesOnlyItsOwn` | two calls at once by the owner, a user or a user with an inst, two markers, two addresses, one role, documents of up to two permissions (`MCInitialDocs`); a call begins with at most one permission stored besides the defaults (`MaxStored`), the decisions are checked on all documents |

Two invocations at once are enough for the races of `InstSync`, which are
between two of a watch, a leave and an add (a merge keeps what it read while a
leave clears the branch); the theorems of section 4 hold for any
number. Deadlock is not checked: a bounded system stops when its bounds are used
up, and an idle one has nothing to do.

Fairness. `InstSync` (`FairSpec`): the client reconnects and handles its
messages, a packet on an open socket is served, and an invocation that started
runs on; `Converges` assumes in addition that a connection lasts that loses
nothing. There is no fairness for faults, closes, edits or leaving. The
reconnect is what `NeverGivesUp` and `ReconnectsWhenSettled` establish for the
client.
`ConnectionClient`: sockets open and close, timers fire and a login is answered;
the last is an assumption about the server, which does not answer a login that
is rate limited.

### 3.1 Disagreements

Where the code does not do what a comment or a test of the repository says. Two
of these are runs that end with a counterexample:

| Run | Property | What happens |
|---|---|---|
| `RepoServerLost` | `AckedAtomKept` | `_tryUnloadBranch` counts the devices and unloads the branch some awaits later (`CausalRepoServer.ts:1055`). A device that joins meanwhile gets the repo that is about to go; the atom it adds is acknowledged, and thrown away with the repo and its stage ("should add the given atoms to the given branch", `CausalRepoServer.spec.ts:1656`) |
| `PolicyRoleShortened` | `GrantNeverShortens` | "Remove all the same roles that expire before the new one." (`PolicyController.ts:787`): the filter removes those that expire after it, so a grant can take a role away early |

The modules state more such properties, which have no run of their own. Put the
property into a configuration of its module with these constants to see the
steps.

| Property | Constants | What happens |
|---|---|---|
| `InstSync.ClearedOnlyWhenAllLeft` | `InstSyncTemporary.cfg`, no faults | `disconnect` (`ApiaryCausalRepoServer.ts:110`) counts the connections of a temporary branch and clears it in another await; a device joins in between and its branch is cleared under it ("should delete temporary updates when all devices have left the branch", `ApiaryCausalRepoServer.spec.ts:186`) |
| `InstSync.NoStoredUpdateIsLost` | `InstSyncTemporary.cfg` | a temporary branch is full: `addUpdates` reads it to merge (`ApiaryCausalRepoServer.ts:384`), the last device leaves and the branch is cleared, another device joins and gets an empty snapshot; then the replace (`:391`) puts the old updates back, and only the new one is broadcast (`:437`), so the device never gets the others ("should delete temporary updates when all devices have left the branch", `ApiaryCausalRepoServer.spec.ts:186`). `NoLostUpdate` excepts them (`revived`) |
| `RedisUpdatesStore.SizeAnswered` | `UpdatesStore.cfg` | `clearUpdates` (`RedisUpdatesStore.ts:168`) leaves the accounted size, so `branchSizeInBytes`, "The current size of the branch." (`UpdatesStore.ts:52`), counts updates that are gone, and a nearly empty branch is full |
| `RedisUpdatesStore.MergeSucceedsWhenItFits` | `UpdatesStore.cfg` | the script (`RedisUpdatesStore.ts:218`) compares the stored merge time, a string, with a number, an error in Lua: every merge after the first throws, and the update is refused although it would fit ("should merge updates when the max size was exceeded if configured", `ApiaryCausalRepoServer.spec.ts:2176`) |
| `ConnectionClient.Reconnects` | `Connection.cfg` | offline and online again before the old socket has closed: its late `onclose` ends the new login (`ReconnectableSocket.ts:103`), and nobody logs in again on the open socket ("will automatically try to reconnect if the connection is lost", line 41) |
| `BranchDevices.PresenceAccurate` | `BranchDevices.cfg`, `Faults = {}`, `Leaving = {}` | `_connectedDevices` survives a disconnect (`CausalRepoClient.ts:612`), so the devices reported as gone are filtered out when they are listed again. With `Leaving` as in the file also: `disconnect` reads the registrations before `watchBranch` makes one, and the join is announced but not the leave |
| `AuthController.RevokeAllHolds` | `AuthSessions.cfg` | `updateUserInfo` or the Stripe webhook reads the user; `revokeAllSessions` is answered; the whole record is saved (`AuthController.ts:1160`) with the old `allSessionRevokeTimeMs`, and the revoked sessions work again ("should fail if the session was granted before all session were revoked", `AuthController.spec.ts:1488`) |
| `MCCausalTree.WeaveIsTraversal` | `N = 3`, a buffer of 3, one repetition, nothing else | a chain a, b, c: b and c wait in the buffer, c arrives again and is put under b a second time, then a arrives: c is in the weave twice, though a weave is "the depth-first preorder traversal of a causal tree" (`Weave2.ts:206`) |

Repeated delivery can do worse than that. An atom d is made under r, x and then c
under d, and b under c; d, x, c and b wait in a buffer of six for r, in the list
d, c, b, x, and c arrives once more. Its second copy is put between b and x; then b,
which waits for c, is put behind the copy with all that follows it in its list,
the copy included: b and the copy point to each other. When r arrives,
`_addMissingChildren` goes around them for ever (`Weave2.ts:468`). This is why
`ListsAreLinked` has the exception too.

Further behaviour worth knowing. `LTRIM key lastUpdateIndex -1` keeps the last of
the merged elements and the script subtracts its size all the same, so after a
merge the list is larger than its accounted size (`AccountedSizeFits` is about
the latter). `ImplementsUpdatesStore` holds in spite of this and of the failing
second merge: keeping an element too many is what makes an interleaved second
replace harmless, and the second merge never gets to trim. Repairing either
without the other deserves a new run. A reconnect that is pending when the user
goes offline still opens a socket: `NeverGivesUp` says nothing about a client
that is forced offline. In `CausalRepo`, `checkout` writes back the head it read,
a deletion in the stage wins over every later addition of the atom, and a load
that fails leaves its rejected promise behind; these are behind the exceptions of
`contended`. Two calls of `completeLogin` at once may both get a session;
`VoidIsRefused` is about calls that begin after an answer. Even a call that begins
after it may honour a session that was revoked, or a request that was completed,
if its get (`DynamoDBAuthStore.ts:338`, `:427`) returns the record as it was
before; `VoidIsRefused` says that it may not once the replicas have caught up. Two grants or revokes
that overlap on one document undo one of them; `WritesOnlyItsOwn` is about the
others. The clock of the remote site follows local inserts only, so an edit made
through it can be refused.

## 4. What is proved

`InstSync_proofs` proves, with TLAPS, for every set of devices, every bound,
temporary or persistent branch and every combination of faults, from
`ConstantsAssumption` alone (the constants have their types):

* `TypeCorrect`: `Spec => []TypeOK`.
* `EditsAreKept`: `Spec => []EditKept`. `EditKept` says nothing about an update
  on its way, so it is not inductive. `EditInv` follows the update: what is in a
  message other than a refusal, in a buffer, in a snapshot or with an invocation
  past `Store` is *safe* (`Safe`): stored on a persistent branch, still filed by
  its author on a temporary one, which may be cleared. An acknowledgement
  therefore only takes safe updates off the list (`OnTheWayInv`, `HandlerInv`),
  a persistent branch is never cleared (`ClearInv`), and what is safe stays safe
  (`SafeStays`).
* `NoUpdateIsLost`: `Spec => []NoLostUpdate`. The property speaks of a client
  that has had its initial event; the invariant starts earlier, when
  `watchBranch` has saved the connection. From then on the connection is *owed*
  every update (`Owed`), and every stored update is *covered* for it
  (`Covered`): in the document or the buffer, in a message or a snapshot, still
  to come in a snapshot, with an invocation that has yet to send it (one that has
  acknowledged already may still have posts out), or, if
  invocations can die, with an author who will resend it. Connections that lost a
  packet or a message are excepted, and on a temporary branch the updates that a
  merge put back after a clear (`revived`; section 3.1). `OwedInv` is that
  statement. It needs that an owed connection stays registered
  (`RegisteredInv`), so that whoever reads the namespace after storing finds it;
  that messages and scan states belong to the current connection (`InboxInv`,
  `ScanInv`); that nobody removes a live connection that watches (`LeaveInv`);
  that an invocation, which skips its own connection, only skips a device that
  has its update already (`OwnInv`, `FreshInv`); and that an update marked off
  has reached every owed connection, or is on one of the posts still out
  (`TargetsInv`, `SentInv`, `AckInv`, `MarkedInv`).

* `InstImplementsSharedInst`: on a branch that is not temporary,
  `Spec => ImplementsSharedInst`. Every step of the detailed system is one of
  `SharedInst` or changes nothing there: what a message, a snapshot or a buffer
  brings is published (`EditInv`), and an edit stops being unsaved only when its
  answer arrives on the connection it was sent on. `AnswersInv` says that there is one
  such answer for a connection and an update, that it comes from an invocation
  that has ended, and that it finds the update still filed.
  A temporary branch takes published edits back when it is cleared,
  which is why the theorem leaves it out.

`AuthController_proofs` proves, from `AuthAssumption` alone (the bounds, the
lifetimes and the number of attempts are positive), for any number of calls, any
number of them under way and failures between any two store operations:

* `TypeCorrect`: `Spec => []TypeOK`.
* `OneAccountHolds`: `Spec => []OneAccount`.
* `GrantedForSomethingHolds`: `Spec => []GrantedForSomething`.
* `VoidIsRefusedHolds`: `Spec => []VoidIsRefused`.
* `RevokedStaysRevokedHolds`: `Spec => RevokedStaysRevoked`.

All five rest on one inductive invariant, `IInv`. The properties speak of what is
stored and of how calls ended; `IInv` adds what a call knows while it is under
way (`CallInv`): which entries exist, that the copies of sessions it will write
back (`Copy`) are of the session they replace, revoked when they have to be, that
the request is completed, or the old session revoked, before the new session is
saved (`Granted`), and that a call whose key was void finds it dead in every version of the record
that it may read (`VoidInv`, with `AttemptsInv`: every wrong code that was answered
was counted, and `OldInv`: an earlier version agrees with the record in what never
changes).
The argument is the same for each action: the tables only grow (`Grows`: no entry
disappears, what is completed or revoked stays so, attempts are never taken back,
and what may be read was readable before or is the version just written), so that what the other calls know stays true (`OthersKept`), and the action keeps what its own call
knows. `users` is not among the tables that grow: whole user records are written
back, which is why `RevokeAllHolds` fails (section 3.1).

`ConnectionClient_proofs` proves, for any number of losses and uses of the switch:

* `TypeCorrect`: `Spec => []TypeOK`, which includes that what `concatMap` holds
  back stays a list of events.
* `NeverGivesUpHolds`: `Spec => []NeverGivesUp`, by `ClosingIsAsked`: `_closing`
  is never set on a socket that opens or is open, and a socket that is closing
  was asked to by the user, so that a close that nobody asked for starts the timer.
* `ConnectedMeansLoggedInHolds`: `Spec => []ConnectedMeansLoggedIn`, by
  `NothingHeldBack`: as long as the switch was used only when nothing was pending,
  there is one socket at a time, nothing is held back, and a login or a connected
  state is on a socket that is open or closing.

`BranchDevices_proofs` proves, for any devices, any number of connections and every
combination of faults:

* `TypeCorrect`: `Spec => [](TypeOK /\ OnlineWatch)`.
* `NoMissedDeviceHolds`: `Spec => []NoMissedDevice`. The news of a device that
  joined and stayed is followed from its `watchBranch` to the observer
  (`ShownInv`): shown, in a message, with an invocation that has still to tell, or
  in the list that `watchBranchDevices` has still to read; or it was lost, and the
  connection is in `lost`, or the observer's watch failed. It needs that a live
  connection stays registered (`ConnectionsInv`), that a device is reported as
  gone only after its connection was removed (`GoneInv`), and that the observer
  is registered before the list is read (`WatchInv`). The proof attempt showed
  how far the property goes: a device that left and came back is known by the
  same session id, and the late news of its leaving takes it off the list again,
  so `NoMissedDevice` is about devices on their first connection.

`RedisUpdatesStore_proofs` proves, for any number of invocations, any limit and
any sizes of updates:

* `TypeCorrect`: `Spec => []TypeOK`.
* `AccountedSizeFitsHolds`: if the element stored before sizes were counted fits
  the limit (`Size(Legacy) <= MaxSize`; with the limit lowered under an existing
  branch it need not), `Spec => []AccountedSizeFits`.
* `StoreImplementsUpdatesStore`: `Spec => ImplementsUpdatesStore`. `OnlyAccepted`
  says that the list and what invocations read of it hold accepted updates only,
  `ReadIsPrefix` that until the first merge that trims, what an invocation read is
  still the beginning of the list, unless it was cleared since. Trimming by that
  index then takes away nothing that was not merged.

`CausalRepoServer_proofs` proves, for any devices, any numbers of atoms, commits,
events and crashes, and any finite set of repos, from `RepoServerAssumption`
(the types of the bounds; `none`, which stands for no repo, is not one):

* `TypeCorrect`: `Spec => []TypeOK`.
* `Durable`: `Spec => []AnsweredIsDurable`.
* `Seen`: `Spec => []SeenByWatchers`.

The inductive invariant has two parts. `Shape` says what the handlers, repos and
commits are: which event a handler can be about where it stands (`OpInv`), that
the repo it uses is loaded (`RepoInv`), that a load under way is the promised one
(`HeapInv`), and that a commit is used after it is stored and made by one handler
(`CommitInv`, `UniqueInv`). `AtomInv` is about one atom that is not contended.
Its change is followed from the repo to the stage, to the broadcast and to the
answer: the repo in use is ahead of what a restart would load by what is not
staged, and ahead of the views by what is not broadcast (`AppliedInv`,
`AgreeInv`); a save stores the atom as the repo has it, so that the head and the
stage together stay right whichever of its four writes was the last (`SaveInv`);
a load and a reset run while nobody else writes (`LoadInv`, `ResetInv`); there is
one repo in use (`One`) and one event about the atom (`Single`). What was
answered is then in what a restart would load, in the repo and in every view
(`KeptInv`). A step can break this only for an atom that it makes contended, and
an atom stays contended, so the proof takes one atom at a time.

`PolicyController_proofs` proves, for any users, insts, markers, roles, policies
and any number of concurrent calls:

* `TypeCorrect`: `Spec => []TypeOK`; in particular no permission is ever twice in
  a policy.
* `WritesOnlyItsOwnHolds`: `Spec => WritesOnlyItsOwn`. The inductive invariant
  adds what a call has read: permissions among which the one to be granted is
  not (`ReadIsTyped`), and, until another call overtakes it, what is stored
  (`ReadIsCurrent`).
* `AllowedIsJustifiedHolds`, `OwnerKeepsControlHolds`, `ListedIsReadableHolds`:
  the decision in every reachable state. `FirstRoleIsHeld` says that the search
  settles on a role that the subject may act under, and on none only if no marker
  grants any; from then on a marker is counted exactly if it grants the action to
  that role (`HavingIsGranted`). For the owner the admin role is found first
  (`AdminIsFirst`), because the default permissions, which come first, are for
  admins and the owner passes every filter.

The assumptions, beside the types of the constants: the owner is a user, no user
has the empty id (which stands for nobody), `none` is not the name of a role, the
markers are finitely many, the policies there are at first list no permission
twice, and a request may come from at least one inst (`MaxAllowedInstances`,
in the code a constant of two).

`CausalTree_proofs` proves, for any number of atoms made by other sites, any tree
of them, any buffer and any numbers of repetitions, local atoms and removals:

* `TreeIsTyped`: `Spec => []TypeOK`.
* `OneCertificateCounted`: `Spec => []OneCertificate`.
* `ListsAreLinkedAlways`: `Spec => []ListsAreLinked`.
* `NothingStrandedAlways`: `Spec => []NothingStranded`.
* `AcceptedHereAlways`: `Spec => []AcceptedHere`.

The first two follow from `TreeInv`, which holds whatever is repeated: every atom
has a hash and the clocks are past the atoms of their sites, and the weave is
`Typed`: its maps are keyed by what they hold, pointers lead from nodes that were
made to nodes that were made, and the roots that are certificates were counted.

The others need the shape of the lists. `LinkedInv`, which holds until `repeated`,
says that the pointers are those of some set `G` of chains (`Rep`): the chains
share no node and cover the maps and the buffer; a chain that begins with a root
is in the maps from end to end; any other waits, oldest node first, the causes of
the other nodes wait too and in the same chain, and no cause is in the maps.
`ListsAreLinked` is then immediate, and an atom in the buffer waits for something
that is not there. For each operation it is shown which chains it takes from `G`
and which it gives back: `insert` splices a node or a waiting chain in after a
place of a chain (`_insertNodeUnder`), the release of a chain moves it from the
buffer to the maps as a whole, and a removal cuts a stretch out of one chain
(`_removeSpan`). No listing of the tree is computed for this, so that the
recursive reference is not needed. `AcceptedHere` follows from the same invariant
with the clock: the atoms that are reported as added are those that the maps
gained, so that the clock has seen each of them, and an atom made under a node of
the weave finds its cause, is later than it, and has an ID that nobody has.

Induction over numbers and lists is done by least counterexample: `LeastNat`
says that a set of naturals has a least element, `UpTo` and `Iteration` put it
into the two forms that the proofs about lists use. The proof modules that need
them each begin with them.

All these invariants were checked with TLC on the runs' instances before they
were proved. Only model-checked: liveness (`Converges`, `ReconnectsWhenSettled`),
which is beyond the proof system; and two properties of the causal tree,
`TraversalUnlessRepeated` and `RemovesSubtrees`, whose reference, the depth-first
listing, is a recursive operator.

## 5. Plan

Done: the synchronisation core, its store, its connection and presence; the
stateful server with its repo; the causal tree; sessions; policies. Proved: every
safety property of the core, its store, its connection and presence, of the
stateful server, of the sessions and of the policies, every one of the causal tree
but the two that compare it with a recursive listing, and both refinements. Next,
in this order:

1. `RedisConnectionStore` command by command: registrations left behind by a
   clear between two `hset`s, unwatch and watch out of order, and what
   `expireConnection` is documented to keep.
2. `getUpdates`/`getBranchUpdates`, and the rest of the server's device handlers.
3. The atoms protocol of the serverless server (`addAtoms`, `setup_server`) and
   remote events (`sendEvent`, `webhook`).
4. `MemoryUpdatesStore` against `UpdatesStore`; the updates protocol and
   temporary branches of `CausalRepoServer`.
5. The life of a file record between its announcement and its upload.

## 6. Not modelled

The scripting runtime, rendering and the user interface have no protocol of their
own. Yjs is an external CRDT; the model relies on updates being applicable in any
order and repeatedly. Subscriptions are a layer over a payment provider, except
for the user record they share with `AuthController`. Data and event records are
single calls of a store. Time synchronisation is numerical estimation. The
counters of the rate limiter are abstracted: any packet may be dropped.
Rate-limit notices, device counts and time queries change no state that the
properties are about. `DynamoDBPolicyStore` is not modelled: its
`updateUserPolicy` never sends its request and its role updates compare roles by
name only, so that there is little to check beyond that.

## 7. Running

    tlc -config InstSyncReconnect.cfg MCInstSync     # and so on, see PROJECT.json
    tlapm InstSync_proofs.tla                        # and each other *_proofs

The longest run takes about three minutes on two cores, the proofs of a module
up to ten.
