-------------------------- MODULE CausalRepoServer --------------------------
(***************************************************************************)
(* The stateful inst server of the atoms protocol: CausalRepoServer with   *)
(* CausalRepo over a database (head and commits) and a stage store         *)
(* (RedisStageStore), for one persistent branch.                           *)
(*                                                                         *)
(* The server is one process.  A handler runs without interruption from    *)
(* one await of a store to the next, and an action is such a stretch.  The *)
(* events of a connection are handled one after the other (concatMap); the *)
(* handler of its disconnection runs beside them.  A crash ends them all   *)
(* and leaves what the stores hold.  Messages reach an open connection in  *)
(* order, so a view changes with the send.                                 *)
(***************************************************************************)
EXTENDS Naturals, FiniteSets

CONSTANTS
    Devices,
    MaxAtoms,      \* bound: the atoms of each device
    MaxCommits,    \* bound: the commits
    MaxEvents,     \* bound: the connections and events that devices start
    MaxCrashes,    \* bound: the crashes of the server
    Repos          \* bound: the CausalRepo objects that are in use at a time

ASSUME RepoServerAssumption ==
    /\ {MaxAtoms, MaxCommits, MaxEvents, MaxCrashes} \subseteq Nat
    /\ IsFiniteSet(Repos) /\ "none" \notin Repos

Atoms == Devices \X (1 .. MaxAtoms)
Author(a) == a[1]
Commits == 1 .. MaxCommits
NoCommit == 0
NoRepo == "none"
Missing == {<<"missing", 0>>}      \* in place of a set of atoms

(* A device's events are handled in one slot, its disconnection in the other. *)
Slots == Devices \X {"events", "disconnect"}

VARIABLES
    exists,     \* the database has the branch ...
    head,       \* ... at this commit,
    commits,    \* and the atoms of each commit it stores
    stage,      \* the stage store
    heap,       \* the CausalRepo objects
    loaded,     \* _repos
    promise,    \* _repoPromises
    entry,      \* _branches has the branch
    channel,    \* the devices that joined the branch's channel
    conn,       \* the connections
    view,       \* the atoms each device was sent, once it watches the branch
    handler,    \* the handler that runs in each slot
    events, crashes,
    (* history *)
    acked,      \* the atoms whose addition was acknowledged,
    gone,       \* those that a device removed,
    goneAcked,  \* those whose removal was acknowledged,
    contended   \* and those that were changed during something else: see Contend

stores == <<exists, head, commits, stage>>
memory == <<heap, loaded, promise, entry>>
clients == <<channel, conn, view>>
history == <<acked, gone, goneAcked, contended>>
bounds == <<events, crashes>>
vars == <<stores, memory, clients, handler, bounds, history>>

Ops == {"watch", "get", "add", "remove", "commit", "checkout", "restore", "unload"}
Committing == {"storeData", "saveHead", "setCurrent", "clearAdded", "clearRemoved"}
Resetting == {"restore", "resetHead", "resetCurrent", "sendReset"}
Labels == {"idle", "repo", "waiting", "resume", "stage", "answer", "unload", "unloaded"}
            \cup Committing \cup Resetting

(* target: the commit to check out or to restore.  commit, atoms: the commit   *)
(* that is made, or the atom that the event is about and whether it is new.   *)
Handler == [op : Ops \cup {"none"}, pc : Labels, repo : Repos \cup {NoRepo},
            atoms : SUBSET Atoms, new : BOOLEAN,
            target : Commits \cup {NoCommit}, commit : Commits \cup {NoCommit}]
Idle == [op |-> "none", pc |-> "idle", repo |-> NoRepo, atoms |-> {}, new |-> FALSE,
         target |-> NoCommit, commit |-> NoCommit]

(* A CausalRepo: its current commit, its working set and its stage.  Until it *)
(* is ready, pc is the next step of _loadRepo.                               *)
Repo == [pc : {"free", "checkout", "saveHead", "getStage", "ready", "failed"},
         create : BOOLEAN, current : Commits \cup {NoCommit},
         atoms : SUBSET Atoms, add : SUBSET Atoms, del : SUBSET Atoms]
NewRepo(pc, create) ==
    [pc |-> pc, create |-> create, current |-> NoCommit, atoms |-> {}, add |-> {}, del |-> {}]

Init ==
    /\ exists = FALSE /\ head = NoCommit
    /\ commits = [c \in Commits |-> Missing]
    /\ stage = [add |-> {}, del |-> {}]
    /\ heap = [r \in Repos |-> NewRepo("free", FALSE)]
    /\ loaded = NoRepo /\ promise = NoRepo /\ entry = FALSE
    /\ channel = {}
    /\ conn = [d \in Devices |-> "open"]
    /\ view = [d \in Devices |-> Missing]
    /\ handler = [s \in Slots |-> Idle]
    /\ events = 0 /\ crashes = 0
    /\ acked = {} /\ gone = {} /\ goneAcked = {} /\ contended = {}

-----------------------------------------------------------------------------
Events(d) == <<d, "events">>
AtomsOf(c) == IF c = NoCommit THEN {} ELSE commits[c]
Stored == {c \in Commits : commits[c] # Missing}
HasChanges(r) == heap[r].add # {} \/ heap[r].del # {}
At(s, op, label) == handler[s].op = op /\ handler[s].pc = label
Goto(s, label) == handler' = [handler EXCEPT ![s].pc = label]
End(s) == handler' = [handler EXCEPT ![s] = Idle]

(* sendToDevices: the members of the channel, but one, hear of a change. *)
Send(except, add, remove) ==
    view' = [d \in Devices |->
        IF d \in channel \ except /\ view[d] # Missing
        THEN (view[d] \cup add) \ remove ELSE view[d]]

(* The atoms whose change was sent and is not yet answered, in other slots. *)
Pending(s) ==
    UNION {handler[t].atoms : t \in {u \in Slots \ {s} : handler[u].op \in {"add", "remove"}}}

(* A commit, a reset or an unload is under way; a load is. *)
Saving == \E s \in Slots : handler[s].pc \in Committing \cup Resetting \cup {"unloaded"}
Loading == \E r \in Repos : heap[r].pc \in {"checkout", "saveHead", "getStage"}

(* From the new head of a reset to its RESET; and every save of the branch.  *)
InReset(s) ==
    \/ handler[s].pc \in {"resetCurrent", "sendReset"}
    \/ At(s, "checkout", "clearAdded") \/ At(s, "checkout", "clearRemoved")
Writing(s) == handler[s].pc \in Committing \cup {"resetCurrent", "sendReset"}

(* The history of what the code does not keep apart: a change that is applied  *)
(* while the branch is saved or loaded, or while another change of the atom,   *)
(* or a reset, is under way; the atoms that a RESTORE finds in the stage,      *)
(* which it does not clear; and every atom when a repo is loaded while another *)
(* one is saved, or when a reset overlaps another save.                      *)
Contend(atoms) == contended' = contended \cup atoms

-----------------------------------------------------------------------------
(* Connections, and the events that devices send. *)

Count == events < MaxEvents /\ events' = events + 1

Connect(d) ==
    /\ conn[d] = "closed"
    /\ handler[<<d, "events">>] = Idle /\ handler[<<d, "disconnect">>] = Idle
    /\ conn' = [conn EXCEPT ![d] = "open"]
    /\ Count
    /\ UNCHANGED <<stores, memory, channel, view, handler, crashes, history>>

(* An event arrives; "repo": its handler is about to call _getOrLoadRepo. *)
Receive(d, op, atoms, target) ==
    /\ conn[d] = "open"
    /\ handler[Events(d)] = Idle
    /\ Count
    /\ handler' = [handler EXCEPT ![Events(d)] =
           [Idle EXCEPT !.op = op, !.pc = "repo", !.atoms = atoms, !.target = target]]

(* The device joins the channel, and the branch gets its entry. *)
WatchBranch(d) ==
    /\ d \notin channel
    /\ Receive(d, "watch", {}, NoCommit)
    /\ channel' = channel \cup {d}
    /\ entry' = TRUE
    /\ UNCHANGED <<stores, heap, loaded, promise, conn, view, crashes, history>>

(* A device sends its atoms again until they are acknowledged. *)
AddAtoms(d) ==
    /\ view[d] # Missing
    /\ \E a \in Atoms \ (acked \cup gone) :
        /\ Author(a) = d
        /\ Receive(d, "add", {a}, NoCommit)
        /\ view' = [view EXCEPT ![d] = @ \cup {a}]
    /\ UNCHANGED <<stores, memory, channel, conn, crashes, history>>

RemoveAtoms(d) ==
    /\ view[d] # Missing
    /\ \E a \in view[d] :
        /\ Receive(d, "remove", {a}, NoCommit)
        /\ view' = [view EXCEPT ![d] = @ \ {a}]
        /\ gone' = gone \cup {a}
        /\ Contend(Pending(Events(d)) \cap {a})
    /\ UNCHANGED <<stores, memory, channel, conn, crashes, acked, goneAcked>>

OtherEvent(d) ==
    /\ \/ Receive(d, "get", {}, NoCommit) \/ Receive(d, "commit", {}, NoCommit)
       \/ \E c \in Stored : \E op \in {"checkout", "restore"} : Receive(d, op, {}, c)
    /\ UNCHANGED <<stores, memory, clients, crashes, history>>

-----------------------------------------------------------------------------
(* _getOrLoadRepo: without a loaded repo the handler waits for the one that is *)
(* being loaded, or starts to load it.                                       *)
WaitForRepo(s) ==
    /\ handler[s].pc = "repo" /\ loaded = NoRepo
    /\ \E r \in Repos :
        /\ handler' = [handler EXCEPT ![s].pc = "waiting", ![s].repo = r]
        /\ IF promise = NoRepo
           THEN /\ \A t \in Slots : handler[t].repo # r
                /\ promise' = r
                /\ Contend(IF Saving THEN Atoms ELSE Pending(s))
                /\ heap' = [heap EXCEPT ![r] =
                       NewRepo("checkout", handler[s].op \notin {"add", "remove", "commit"})]
           ELSE r = promise /\ UNCHANGED <<promise, heap, contended>>
    /\ UNCHANGED <<stores, loaded, entry, clients, bounds, acked, gone, goneAcked>>

(* _loadRepo: the branch is read, or created, or not found; ... *)
Checkout(r) ==
    /\ heap[r].pc = "checkout"
    /\ heap' = [heap EXCEPT
           ![r].pc = IF exists \/ heap[r].create THEN "saveHead" ELSE "failed",
           ![r].current = head]
    /\ UNCHANGED <<stores, loaded, promise, entry, clients, handler, bounds, history>>

(* ... saved again as it was read, and its commit loaded; ... *)
SaveCheckedOut(r) ==
    /\ heap[r].pc = "saveHead"
    /\ exists' = TRUE
    /\ head' = heap[r].current
    /\ heap' = [heap EXCEPT ![r].pc = "getStage", ![r].atoms = AtomsOf(heap[r].current)]
    /\ UNCHANGED <<commits, stage, loaded, promise, entry, clients, handler, bounds, history>>

(* Mutant of GetStage: only the additions are put on top of it. *)
GetStageAdditions(r) ==
    /\ heap[r].pc = "getStage"
    /\ heap' = [heap EXCEPT ![r].pc = "ready", ![r].atoms = @ \cup stage.add,
                            ![r].add = stage.add \ heap[r].atoms]
    /\ UNCHANGED <<stores, loaded, promise, entry, clients, handler, bounds, history>>

(* ... and the stage is put on top of it, the removals last. *)
GetStage(r) ==
    /\ heap[r].pc = "getStage"
    /\ LET atoms == heap[r].atoms
           all == atoms \cup stage.add IN
       heap' = [heap EXCEPT ![r].pc = "ready", ![r].atoms = all \ stage.del,
                            ![r].add = (stage.add \ atoms) \ stage.del,
                            ![r].del = stage.del \cap all]
    /\ UNCHANGED <<stores, loaded, promise, entry, clients, handler, bounds, history>>

LoadRepo(r) == Checkout(r) \/ SaveCheckedOut(r) \/ GetStage(r)

(* The repo that a handler waited for is the loaded one from now on. *)
RepoLoaded(s) ==
    /\ handler[s].pc = "waiting" /\ heap[handler[s].repo].pc = "ready"
    /\ loaded' = handler[s].repo
    /\ Goto(s, "resume")
    /\ UNCHANGED <<stores, heap, promise, entry, clients, bounds, history>>

HasRepo(s, op, r) ==
    /\ handler[s].op = op
    /\ \/ handler[s].pc = "repo" /\ loaded = r
       \/ handler[s].pc = "resume" /\ handler[s].repo = r

(* A handler throws: concatMap ends, and no later event of the connection is  *)
(* handled.  Only ADD_ATOMS catches its errors.                              *)
Throw(s) ==
    /\ End(s)
    /\ conn' = IF conn[s[1]] = "open" /\ s = Events(s[1]) /\ handler[s].op \notin {"add", "remove"}
               THEN [conn EXCEPT ![s[1]] = "deaf"] ELSE conn

LoadFailed(s) ==
    /\ handler[s].pc \in {"waiting", "unload"} /\ handler[s].repo # NoRepo
    /\ heap[handler[s].repo].pc = "failed"
    /\ Throw(s)
    /\ UNCHANGED <<stores, memory, channel, view, bounds, history>>

-----------------------------------------------------------------------------
(* WATCH_BRANCH: the snapshot is sent in the stretch that takes it.          *)
(* _sendConnectedToBranch throws when the branch has no entry.               *)
SendAtoms(d) ==
    LET s == Events(d) IN
    /\ \E r \in Repos :
        /\ HasRepo(s, "watch", r)
        /\ IF entry
           THEN /\ End(s)
                /\ view' = [view EXCEPT ![d] = IF d \in channel THEN heap[r].atoms ELSE @]
                /\ UNCHANGED conn
           ELSE Throw(s) /\ UNCHANGED view
    /\ UNCHANGED <<stores, memory, channel, bounds, history>>

(* _tryUnloadBranch, up to its await of the promise. *)
TryUnload(s, members) ==
    handler' = [handler EXCEPT ![s] =
        IF members = {} THEN [Idle EXCEPT !.op = "unload", !.pc = "unload", !.repo = promise]
        ELSE Idle]

(* GET_BRANCH: the atoms are sent, and the branch may be unloaded. *)
GetBranch(d) ==
    /\ \E r \in Repos : HasRepo(Events(d), "get", r)
    /\ TryUnload(Events(d), channel)
    /\ UNCHANGED <<stores, memory, clients, bounds, history>>

-----------------------------------------------------------------------------
(* ADD_ATOMS, with an added or a removed atom. *)
ApplyAdd(s) ==
    /\ \E r \in Repos : \E a \in handler[s].atoms :
        /\ HasRepo(s, "add", r)
        /\ handler' = [handler EXCEPT ![s].pc = "stage", ![s].repo = r,
                                      ![s].new = a \notin heap[r].atoms]
        /\ heap' = IF a \in heap[r].atoms THEN heap
                   ELSE [heap EXCEPT ![r].atoms = @ \cup {a}, ![r].add = @ \cup {a},
                                     ![r].del = @ \ {a}]
        /\ Contend(IF Saving \/ Loading \/ a \in Pending(s) \cup gone THEN {a} ELSE {})
    /\ UNCHANGED <<stores, loaded, promise, entry, clients, bounds, acked, gone, goneAcked>>

ApplyRemove(s) ==
    /\ \E r \in Repos : \E a \in handler[s].atoms :
        /\ HasRepo(s, "remove", r)
        /\ handler' = [handler EXCEPT ![s].pc = "stage", ![s].repo = r,
                                      ![s].new = a \in heap[r].atoms]
        /\ heap' = IF a \notin heap[r].atoms THEN heap
                   ELSE [heap EXCEPT ![r].atoms = @ \ {a}, ![r].add = @ \ {a},
                                     ![r].del = @ \cup {a}]
        /\ Contend(IF Saving \/ Loading \/ a \in Pending(s) THEN {a} ELSE {})
    /\ UNCHANGED <<stores, loaded, promise, entry, clients, bounds, acked, gone, goneAcked>>

(* _stage.addAtoms() or _stage.removeAtoms() *)
StageAtoms(s) ==
    LET changed == IF handler[s].new THEN handler[s].atoms ELSE {} IN
    /\ handler[s].pc = "stage"
    /\ stage' = IF handler[s].op = "add" THEN [stage EXCEPT !.add = @ \cup changed]
                ELSE [stage EXCEPT !.del = @ \cup changed]
    /\ Goto(s, "answer")
    /\ UNCHANGED <<exists, head, commits, memory, clients, bounds, history>>

(* After storeData() the others are told, and the device gets its answer. *)
AtomsReceived(s) ==
    LET atoms == handler[s].atoms
        changed == IF handler[s].new THEN atoms ELSE {}
        heard == conn[s[1]] # "closed"
    IN
    /\ handler[s].pc = "answer"
    /\ IF handler[s].op = "add"
       THEN /\ Send({s[1]}, changed, {})
            /\ acked' = IF heard THEN acked \cup atoms ELSE acked
            /\ UNCHANGED goneAcked
       ELSE /\ Send({s[1]}, {}, changed)
            /\ goneAcked' = IF heard THEN goneAcked \cup atoms ELSE goneAcked
            /\ UNCHANGED acked
    /\ End(s)
    /\ UNCHANGED <<stores, memory, channel, conn, bounds, gone, contended>>

-----------------------------------------------------------------------------
(* CausalRepo.commit(), for COMMIT, RESTORE and _unloadBranch: the working set *)
(* is taken, ...                                                             *)
NextCommit(c) ==
    LET used == Stored \cup {handler[t].commit : t \in Slots} IN
    c \notin used /\ \A b \in Commits : b < c => b \in used

(* Mutant of TakeCommit: nothing is stored before the head is saved. *)
TakeCommitUnstored(s, r, op) ==
    /\ \E c \in Commits :
        /\ NextCommit(c)
        /\ handler' = [handler EXCEPT ![s].op = op, ![s].pc = "saveHead", ![s].repo = r,
                                      ![s].commit = c, ![s].atoms = {}]
    /\ Contend(IF Loading \/ \E t \in Slots : InReset(t) THEN Atoms ELSE {})

TakeCommit(s, r, op) ==
    /\ \E c \in Commits :
        /\ NextCommit(c)
        /\ handler' = [handler EXCEPT ![s].op = op, ![s].pc = "storeData", ![s].repo = r,
                                      ![s].commit = c, ![s].atoms = heap[r].atoms]
    /\ Contend(IF Loading \/ \E t \in Slots : InReset(t) THEN Atoms ELSE {})

(* ... stored, ... *)
StoreData(s) ==
    /\ handler[s].pc = "storeData"
    /\ commits' = [commits EXCEPT ![handler[s].commit] = handler[s].atoms]
    /\ handler' = [handler EXCEPT ![s].pc = "saveHead", ![s].atoms = {}]
    /\ UNCHANGED <<exists, head, stage, memory, clients, bounds, history>>

(* ... made the head, ... *)
SaveHead(s) ==
    /\ handler[s].pc = "saveHead"
    /\ head' = handler[s].commit
    /\ Goto(s, "setCurrent")
    /\ UNCHANGED <<exists, commits, stage, memory, clients, bounds, history>>

(* ... and loaded back over whatever the working set has become meanwhile. *)
SetCurrentCommit(r, c) ==
    heap' = [heap EXCEPT ![r].current = c, ![r].atoms = AtomsOf(c), ![r].add = {}, ![r].del = {}]

CheckoutHead(s) ==
    /\ handler[s].pc = "setCurrent"
    /\ SetCurrentCommit(handler[s].repo, handler[s].commit)
    /\ Goto(s, "clearAdded")
    /\ UNCHANGED <<stores, loaded, promise, entry, clients, bounds, history>>

(* clearStage() deletes two keys. *)
ClearAdded(s) ==
    /\ handler[s].pc = "clearAdded"
    /\ stage' = [stage EXCEPT !.add = {}]
    /\ Goto(s, "clearRemoved")
    /\ UNCHANGED <<exists, head, commits, memory, clients, bounds, history>>

AfterClear == [commit |-> "idle", restore |-> "restore", checkout |-> "sendReset",
               unload |-> "unloaded"]

ClearRemoved(s) ==
    LET next == AfterClear[handler[s].op] IN
    /\ handler[s].pc = "clearRemoved"
    /\ stage' = [stage EXCEPT !.del = {}]
    /\ IF next = "idle" THEN End(s) ELSE Goto(s, next)
    /\ UNCHANGED <<exists, head, commits, memory, clients, bounds, history>>

(* Mutant of CommitSteps: the removals are cleared before the additions. *)
CommitStepsRemovedFirst(s) ==
    \/ StoreData(s) \/ SaveHead(s) \/ CheckoutHead(s)
    \/ /\ handler[s].pc = "clearAdded"
       /\ stage' = [stage EXCEPT !.del = {}]
       /\ Goto(s, "clearRemoved")
       /\ UNCHANGED <<exists, head, commits, memory, clients, bounds, history>>
    \/ /\ handler[s].pc = "clearRemoved"
       /\ stage' = [stage EXCEPT !.add = {}]
       /\ LET next == AfterClear[handler[s].op] IN
          IF next = "idle" THEN End(s) ELSE Goto(s, next)
       /\ UNCHANGED <<exists, head, commits, memory, clients, bounds, history>>

CommitSteps(s) ==
    \/ StoreData(s) \/ SaveHead(s) \/ CheckoutHead(s) \/ ClearAdded(s) \/ ClearRemoved(s)

(* COMMIT *)
Commit(d) ==
    LET s == Events(d) IN
    /\ \E r \in Repos :
        /\ HasRepo(s, "commit", r)
        /\ IF HasChanges(r) THEN TakeCommit(s, r, "commit") ELSE End(s) /\ UNCHANGED contended
    /\ UNCHANGED <<stores, memory, clients, bounds, acked, gone, goneAcked>>

-----------------------------------------------------------------------------
(* CHECKOUT: reset(), then clearStage(), then RESET to everybody. *)
CheckoutEvent(d) ==
    LET s == Events(d) IN
    /\ \E r \in Repos :
        /\ HasRepo(s, "checkout", r)
        /\ handler' = [handler EXCEPT ![s].pc = "resetHead", ![s].repo = r,
                                      ![s].commit = handler[s].target]
    /\ UNCHANGED <<stores, memory, clients, bounds, history>>

(* RESTORE: what is not committed is committed first. *)
RestoreEvent(d) ==
    LET s == Events(d) IN
    /\ \E r \in Repos :
        /\ HasRepo(s, "restore", r)
        /\ IF HasChanges(r) THEN TakeCommit(s, r, "restore")
           ELSE /\ handler' = [handler EXCEPT ![s].pc = "restore", ![s].repo = r]
                /\ UNCHANGED contended
    /\ UNCHANGED <<stores, memory, clients, bounds, acked, gone, goneAcked>>

(* The restoring commit has the index of the old one. *)
StoreRestored(s) ==
    /\ handler[s].pc = "restore"
    /\ \E c \in Commits :
        /\ NextCommit(c)
        /\ commits' = [commits EXCEPT ![c] = commits[handler[s].target]]
        /\ handler' = [handler EXCEPT ![s].pc = "resetHead", ![s].commit = c]
    /\ UNCHANGED <<exists, head, stage, memory, clients, bounds, history>>

(* reset(): the head is saved, ... *)
ResetHead(s) ==
    LET kept == AtomsOf(handler[s].commit)
        left == IF handler[s].op = "restore" THEN stage.add \cup stage.del ELSE {}
    IN
    /\ handler[s].pc = "resetHead"
    /\ head' = handler[s].commit
    /\ Goto(s, "resetCurrent")
    /\ acked' = acked \cap kept
    /\ goneAcked' = goneAcked \ kept
    /\ Contend(IF Loading \/ \E t \in Slots \ {s} : Writing(t) THEN Atoms
               ELSE Pending(s) \cup left)
    /\ UNCHANGED <<exists, commits, stage, memory, clients, bounds, gone>>

(* ... and its commit loaded. *)
ResetCurrent(s) ==
    /\ handler[s].pc = "resetCurrent"
    /\ SetCurrentCommit(handler[s].repo, handler[s].commit)
    /\ Goto(s, IF handler[s].op = "checkout" THEN "clearAdded" ELSE "sendReset")
    /\ UNCHANGED <<stores, loaded, promise, entry, clients, bounds, history>>

SendReset(s) ==
    /\ handler[s].pc = "sendReset"
    /\ LET atoms == AtomsOf(heap[handler[s].repo].current) IN Send({}, atoms, Atoms \ atoms)
    /\ End(s)
    /\ Contend(Pending(s))
    /\ UNCHANGED <<stores, memory, channel, conn, bounds, acked, gone, goneAcked>>

ResetSteps(s) == StoreRestored(s) \/ ResetHead(s) \/ ResetCurrent(s) \/ SendReset(s)

-----------------------------------------------------------------------------
(* UNWATCH_BRANCH and the end of the connection. *)
Unwatch(d) ==
    /\ conn[d] = "open" /\ handler[Events(d)] = Idle /\ d \in channel
    /\ channel' = channel \ {d}
    /\ view' = [view EXCEPT ![d] = Missing]
    /\ TryUnload(Events(d), channel')
    /\ UNCHANGED <<stores, memory, conn, bounds, history>>

Disconnect(d) ==
    /\ conn[d] # "closed"
    /\ conn' = [conn EXCEPT ![d] = "closed"]
    /\ channel' = channel \ {d}
    /\ view' = [view EXCEPT ![d] = Missing]
    /\ IF d \in channel THEN TryUnload(<<d, "disconnect">>, channel') ELSE UNCHANGED handler
    /\ UNCHANGED <<stores, memory, bounds, history>>

(* _unloadBranch, once the promise is there: changes are committed first. *)
Unloaded(s) ==
    /\ loaded' = NoRepo
    /\ entry' = FALSE
    /\ End(s)

UnloadBranch(s) ==
    LET r == handler[s].repo IN
    /\ handler[s].pc = "unload"
    /\ r # NoRepo => heap[r].pc = "ready"
    /\ promise' = NoRepo
    /\ IF r # NoRepo /\ HasChanges(r)
       THEN TakeCommit(s, r, "unload") /\ UNCHANGED <<loaded, entry>>
       ELSE Unloaded(s) /\ UNCHANGED contended
    /\ UNCHANGED <<stores, heap, clients, bounds, acked, gone, goneAcked>>

UnloadCommitted(s) ==
    /\ handler[s].pc = "unloaded"
    /\ Unloaded(s)
    /\ UNCHANGED <<stores, heap, promise, clients, bounds, history>>

-----------------------------------------------------------------------------
(* The server dies and is started again. *)
Crash ==
    /\ crashes < MaxCrashes
    /\ crashes' = crashes + 1
    /\ UNCHANGED events
    /\ heap' = [r \in Repos |-> NewRepo("free", FALSE)]
    /\ loaded' = NoRepo /\ promise' = NoRepo /\ entry' = FALSE
    /\ channel' = {}
    /\ conn' = [d \in Devices |-> "closed"]
    /\ view' = [d \in Devices |-> Missing]
    /\ handler' = [s \in Slots |-> Idle]
    /\ UNCHANGED <<stores, history>>

(* Continuations of promises that are settled run before any new event. *)
Settled(s) ==
    \/ handler[s].pc = "resume"
    \/ /\ handler[s].pc \in {"waiting", "unload"}
       /\ handler[s].repo # NoRepo => heap[handler[s].repo].pc \in {"ready", "failed"}

Continue(s) ==
    /\ Settled(s)
    /\ \/ RepoLoaded(s) \/ LoadFailed(s) \/ UnloadBranch(s)
       \/ ApplyAdd(s) \/ ApplyRemove(s)
       \/ \E d \in Devices :
            /\ s = Events(d)
            /\ \/ SendAtoms(d) \/ GetBranch(d) \/ Commit(d) \/ CheckoutEvent(d)
               \/ RestoreEvent(d)

Step(s) ==
    \/ WaitForRepo(s) \/ ApplyAdd(s) \/ ApplyRemove(s) \/ StageAtoms(s) \/ AtomsReceived(s)
    \/ CommitSteps(s) \/ ResetSteps(s) \/ UnloadCommitted(s)

Event(d) ==
    \/ Connect(d) \/ WatchBranch(d) \/ AddAtoms(d) \/ RemoveAtoms(d) \/ OtherEvent(d)
    \/ SendAtoms(d) \/ GetBranch(d) \/ Commit(d) \/ CheckoutEvent(d) \/ RestoreEvent(d)
    \/ Unwatch(d) \/ Disconnect(d)

Next ==
    \/ \E s \in Slots : Continue(s)
    \/ /\ \A s \in Slots : ~Settled(s)
       /\ \/ \E d \in Devices : Event(d)
          \/ \E s \in Slots : Step(s)
          \/ \E r \in Repos : LoadRepo(r)
          \/ Crash

Spec == Init /\ [][Next]_vars

-----------------------------------------------------------------------------
AtomSets == (SUBSET Atoms) \cup {Missing}

TypeOK ==
    /\ exists \in BOOLEAN /\ head \in {NoCommit} \cup Stored
    /\ commits \in [Commits -> AtomSets]
    /\ stage \in [add : SUBSET Atoms, del : SUBSET Atoms]
    /\ heap \in [Repos -> Repo]
    /\ {loaded, promise} \subseteq Repos \cup {NoRepo} /\ entry \in BOOLEAN
    /\ channel \subseteq Devices
    /\ conn \in [Devices -> {"closed", "open", "deaf"}]
    /\ view \in [Devices -> AtomSets]
    /\ handler \in [Slots -> Handler]
    /\ events \in 0 .. MaxEvents /\ crashes \in 0 .. MaxCrashes
    /\ {acked, gone, goneAcked, contended} \subseteq SUBSET Atoms

(* What a restarted server would load. *)
Recoverable == (AtomsOf(head) \cup stage.add) \ stage.del

(* An acknowledged change survives a crash at any moment, in the middle of     *)
(* another device's commit, checkout, restore, load or unload too, unless it   *)
(* was applied while one of these was under way.                             *)
AnsweredIsDurable ==
    /\ acked \ (gone \cup contended) \subseteq Recoverable
    /\ (goneAcked \ contended) \cap Recoverable = {}

(* A device that watches the branch has every acknowledged change, from its    *)
(* snapshot or from a broadcast, whenever it joined; with the same exception.  *)
SeenByWatchers ==
    \A d \in Devices : view[d] # Missing =>
        /\ acked \ (gone \cup contended) \subseteq view[d]
        /\ (goneAcked \ contended) \cap view[d] = {}

(* "should add the given atoms to the given branch": an acknowledged atom that *)
(* nobody removed is in the branch, in memory if it is loaded, or else in what *)
(* would be loaded.                                                          *)
AckedAtomKept ==
    acked \ gone \subseteq Recoverable \cup UNION {heap[r].atoms : r \in Repos}
=============================================================================
