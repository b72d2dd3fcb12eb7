----------------------- MODULE CausalRepoServer_proofs -----------------------
(*****************************************************************************)
(* The safety properties of CausalRepoServer for any set of devices, atoms,  *)
(* commits and repos, from RepoServerAssumption.                             *)
(*                                                                           *)
(* Two invariants, each preserved by every action:                           *)
(*   Shape     which event, repo and commit a handler may have where it      *)
(*             stands, in what state the promised and the loaded repo are,   *)
(*             which commits are stored. It implies TypeOK.                  *)
(*   AtomInv   for one atom that is not contended, how the memory of the     *)
(*             server, its stores and the views of the devices agree on it   *)
(*             while handlers change, save, reset, load and unload it.       *)
(* No atom depends on another, and an atom that is contended stays so: the   *)
(* second invariant is proved of one atom at a time, assuming that the step  *)
(* does not make it contended. An action X has a lemma XShape and a lemma    *)
(* XAtom.                                                                    *)
(*****************************************************************************)
EXTENDS CausalRepoServer, TLAPS

(* The states in which a handler uses the repo that it holds. *)
Using == {"waiting", "resume", "unload", "unloaded"} \cup Committing \cup Resetting

(* Which event a handler may be about where it stands, ... *)
OpOk(s, h) ==
    /\ h.pc = "idle" => h = Idle
    /\ h.pc \in {"repo", "waiting", "resume"}
         => h.op \in {"watch", "get", "add", "remove", "commit", "checkout", "restore"}
    /\ h.pc \in {"stage", "answer"} => h.op \in {"add", "remove"}
    /\ h.pc \in {"storeData", "saveHead", "setCurrent"} => h.op \in {"commit", "restore", "unload"}
    /\ h.pc \in {"clearAdded", "clearRemoved"}
         => h.op \in {"commit", "restore", "unload", "checkout"}
    /\ h.pc = "restore" => h.op = "restore"
    /\ h.pc \in {"resetHead", "resetCurrent", "sendReset"} => h.op \in {"checkout", "restore"}
    /\ h.pc \in {"unload", "unloaded"} => h.op = "unload"
    /\ s[2] = "disconnect" => h.op \in {"none", "unload"}

(* ... the atom it changes, ... *)
ChangeOk(s, h, removed) ==
    /\ h.op \in {"add", "remove"} => \E a \in Atoms : h.atoms = {a}
    /\ h.op = "add" => \A a \in h.atoms : Author(a) = s[1]
    /\ h.op = "remove" => h.atoms \subseteq removed

(* ... and the repo it has. *)
RepoOk(h, repos, p) ==
    /\ h.pc \in (Using \ {"unload"}) \cup {"stage", "answer"} => h.repo \in Repos
    /\ h.pc \in (Using \ {"unload", "waiting"}) \cup {"stage", "answer"}
         => repos[h.repo].pc = "ready"
    /\ h.pc \in {"waiting", "unload"} /\ h.repo # NoRepo => repos[h.repo].pc # "free"
    /\ h.pc = "unload" => p \in {h.repo, NoRepo}

OpInv == \A s \in Slots : OpOk(s, handler[s])
ChangeInv == \A s \in Slots : ChangeOk(s, handler[s], gone)
RepoInv == \A s \in Slots : RepoOk(handler[s], heap, promise)

(* A load that is under way or failed is the one that is promised; only a   *)
(* branch that does not exist fails to load.                               *)
HeapInv ==
    /\ loaded # NoRepo => heap[loaded].pc = "ready"
    /\ promise # NoRepo => heap[promise].pc # "free"
    /\ \A r \in Repos :
        /\ heap[r].pc \in {"checkout", "saveHead", "getStage", "failed"} => promise = r
        /\ heap[r].pc \in {"getStage", "ready"} => exists
        /\ heap[r].pc = "failed" => ~exists

(* A commit is used once it is stored, and no two handlers make the same.   *)
CommitOk(h, stored) ==
    /\ h.pc # "storeData" => h.commit \in stored \cup {NoCommit}
    /\ h.pc = "storeData" => h.commit \in Commits \ stored
    /\ h.op \in {"checkout", "restore"} => h.target \in stored

CommitInv ==
    /\ \A s \in Slots : CommitOk(handler[s], Stored)
    /\ \A r \in Repos : heap[r].current \in Stored \cup {NoCommit}

UniqueInv ==
    \A s, t \in Slots :
        s # t /\ handler[s].pc = "storeData" => handler[t].commit # handler[s].commit

ClientInv ==
    /\ \A d \in Devices : view[d] # Missing => d \in channel /\ exists
    /\ stage.del \subseteq gone /\ goneAcked \subseteq gone

Shape == TypeOK /\ OpInv /\ ChangeInv /\ RepoInv /\ HeapInv /\ CommitInv /\ UniqueInv
         /\ ClientInv

-----------------------------------------------------------------------------
(* The repos that may still be used. *)
Used ==
    ({loaded, promise} \cup {handler[s].repo : s \in {t \in Slots : handler[t].pc \in Using}})
        \ {NoRepo}

(* A handler that changes the atom, from its event to its answer; that has   *)
(* applied the change; whose change is not staged yet; not broadcast yet.    *)
Concerns(s, a) == handler[s].op \in {"add", "remove"} /\ a \in handler[s].atoms
Applied(s, a) == Concerns(s, a) /\ handler[s].pc \in {"stage", "answer"}
Fresh(s, a) == Concerns(s, a) /\ handler[s].pc = "stage" /\ handler[s].new
Unsent(s, a) == Applied(s, a) /\ handler[s].new
InWindow == \E s \in Slots : InReset(s)


(* No two repos are in use: what is loaded, promised or held is one object. *)
One == \A q, r \in Used : q = r

(* At most one event is about the atom, it is not answered, and its device   *)
(* already shows what it asked for.                                          *)
Single(a) ==
    /\ \A s, t \in Slots : Concerns(s, a) /\ Concerns(t, a) => s = t
    /\ \A s \in Slots : Concerns(s, a) =>
         /\ handler[s].op = "add" => a \notin acked \cup gone
         /\ handler[s].op = "remove" => a \notin goneAcked
         /\ view[s[1]] # Missing => (handler[s].op = "add" <=> a \in view[s[1]])

(* A load runs while nobody writes, so what it read is still what is stored. *)
LoadInv(a) ==
    /\ Loading => \A s \in Slots : ~Writing(s) /\ ~Applied(s, a)
    /\ \A r \in Repos :
        /\ heap[r].pc = "saveHead" => heap[r].current = head
        /\ heap[r].pc = "getStage" => (a \in heap[r].atoms <=> a \in AtomsOf(head))

(* S has the atom when its addition was answered, and has not when its       *)
(* removal was: true of what a restart would load, of the repo in use and of *)
(* every view.                                                               *)
Kept(a, S) == (a \in acked \ gone => a \in S) /\ (a \in goneAcked => a \notin S)
KeptInv(a) ==
    /\ Kept(a, Recoverable)
    /\ \A r \in Used : heap[r].pc = "ready" => Kept(a, heap[r].atoms)
    /\ \A d \in Devices : view[d] # Missing => Kept(a, view[d])

(* An event that applied its change finds it in the repo, and in the store   *)
(* too once it is staged.                                                    *)
AppliedInv(a) ==
    \A s \in Slots : Applied(s, a) =>
        /\ \A r \in Used : heap[r].pc = "ready" => (handler[s].op = "add" <=> a \in heap[r].atoms)
        /\ ~Fresh(s, a) => (handler[s].op = "add" <=> a \in Recoverable)

(* Outside a reset the repo, the store and the views have the same: the      *)
(* repo is ahead of the store by what is not staged, and of the views by     *)
(* what is not broadcast.                                                    *)
AgreeInv(a) ==
    ~InWindow =>
        /\ (\A s \in Slots : ~Fresh(s, a)) =>
             \A r \in Used : heap[r].pc = "ready" => (a \in heap[r].atoms <=> a \in Recoverable)
        /\ \A d \in Devices :
             view[d] # Missing /\ (\A s \in Slots : ~Unsent(s, a)) /\ ~Concerns(Events(d), a)
               => (a \in view[d] <=> a \in Recoverable)

(* A handler that saves the branch has the atom as its repo has it, and so   *)
(* has what it stored.                                                     *)
SaveOk(s, a) ==
    handler[s].op # "checkout" =>
        /\ handler[s].pc = "storeData"
             => (a \in handler[s].atoms <=> a \in heap[handler[s].repo].atoms)
        /\ handler[s].pc \in {"saveHead", "setCurrent", "clearAdded", "clearRemoved"}
             => (a \in AtomsOf(handler[s].commit) <=> a \in heap[handler[s].repo].atoms)
        /\ handler[s].pc \in {"setCurrent", "clearAdded", "clearRemoved"}
             => (a \in AtomsOf(head) <=> a \in heap[handler[s].repo].atoms)
        /\ handler[s].pc = "clearRemoved" /\ a \in stage.add => a \in heap[handler[s].repo].atoms
SaveInv(a) == \A s \in Slots : SaveOk(s, a)

(* A reset runs alone, and what it kept is the branch. *)
ResetOk(s, a) ==
    InReset(s) =>
        /\ \A t \in Slots : (t # s => ~Writing(t)) /\ ~Applied(t, a)
        /\ ~Loading
        /\ head = handler[s].commit
        /\ Kept(a, AtomsOf(head))
        /\ handler[s].pc # "resetCurrent" =>
             /\ heap[handler[s].repo].current = head
             /\ a \in heap[handler[s].repo].atoms <=> a \in AtomsOf(head)
        /\ handler[s].op = "restore" \/ handler[s].pc \in {"clearRemoved", "sendReset"}
             => a \notin stage.add
        /\ handler[s].op = "restore" \/ handler[s].pc = "sendReset" => a \notin stage.del
ResetInv(a) == \A s \in Slots : ResetOk(s, a)

AtomInv(a) ==
    /\ One /\ Single(a) /\ LoadInv(a) /\ KeptInv(a) /\ AppliedInv(a) /\ AgreeInv(a) /\ SaveInv(a)
    /\ ResetInv(a)

-----------------------------------------------------------------------------
LEMMA SlotFacts ==
    /\ \A d \in Devices : /\ Events(d) \in Slots /\ Events(d)[1] = d
                          /\ Events(d)[2] = "events"
                          /\ <<d, "disconnect">> \in Slots /\ <<d, "disconnect">> # Events(d)
                          /\ <<d, "disconnect">>[1] = d /\ <<d, "disconnect">>[2] = "disconnect"
    /\ \A s \in Slots : s[1] \in Devices /\ (s = Events(s[1]) \/ s[2] = "disconnect")
  BY DEF Slots, Events

LEMMA MissingIsNone == Missing \notin SUBSET Atoms /\ {} # Missing
  BY RepoServerAssumption DEF Missing, Atoms

LEMMA IdleType == Idle \in Handler /\ Idle.op = "none" /\ Idle.pc = "idle" /\ Idle.repo = NoRepo
                  /\ Idle.atoms = {} /\ Idle.new = FALSE /\ Idle.target = NoCommit
                  /\ Idle.commit = NoCommit
  BY DEF Idle, Handler, Labels, NoCommit

Others(s) == \A t \in Slots : t # s => handler'[t] = handler[t]

(* What becomes of the handlers in a step of one slot. *)
LEMMA GotoEffect ==
    ASSUME handler \in [Slots -> Handler], NEW s \in Slots, NEW l \in Labels, Goto(s, l)
    PROVE  /\ handler' \in [Slots -> Handler] /\ Others(s)
           /\ handler'[s].pc = l /\ handler'[s].op = handler[s].op
           /\ handler'[s].repo = handler[s].repo /\ handler'[s].atoms = handler[s].atoms
           /\ handler'[s].new = handler[s].new /\ handler'[s].target = handler[s].target
           /\ handler'[s].commit = handler[s].commit
  BY DEF Goto, Others, Handler

LEMMA EndEffect ==
    ASSUME handler \in [Slots -> Handler], NEW s \in Slots, End(s)
    PROVE  handler' \in [Slots -> Handler] /\ Others(s) /\ handler'[s] = Idle
  BY IdleType DEF End, Others

Received(d, op, atoms, target) ==
    /\ handler' \in [Slots -> Handler] /\ Others(Events(d)) /\ handler[Events(d)] = Idle
    /\ conn[d] = "open" /\ Count
    /\ handler'[Events(d)].pc = "repo" /\ handler'[Events(d)].op = op
    /\ handler'[Events(d)].repo = NoRepo /\ handler'[Events(d)].atoms = atoms
    /\ handler'[Events(d)].new = FALSE /\ handler'[Events(d)].target = target
    /\ handler'[Events(d)].commit = NoCommit

LEMMA ReceiveEffect ==
    ASSUME handler \in [Slots -> Handler], NEW d \in Devices, NEW op \in Ops,
           NEW atoms \in SUBSET Atoms, NEW target \in Commits \cup {NoCommit},
           Receive(d, op, atoms, target)
    PROVE  Received(d, op, atoms, target)
<1> DEFINE h == [Idle EXCEPT !.op = op, !.pc = "repo", !.atoms = atoms, !.target = target]
<1>1. h \in Handler /\ h.pc = "repo" /\ h.op = op /\ h.repo = NoRepo /\ h.atoms = atoms
      /\ h.new = FALSE /\ h.target = target /\ h.commit = NoCommit
  BY DEF Idle, Handler, Labels, NoCommit
<1>2. handler' = [handler EXCEPT ![Events(d)] = h]
  BY DEF Receive
<1> HIDE DEF h
<1>3. Events(d) \in Slots
  BY SlotFacts
<1>4. handler'[Events(d)] = h /\ handler' \in [Slots -> Handler] /\ Others(Events(d))
  BY <1>1, <1>2, <1>3 DEF Others
<1> QED
  BY <1>1, <1>4 DEF Receive, Received

LEMMA TryUnloadEffect ==
    ASSUME handler \in [Slots -> Handler], promise \in Repos \cup {NoRepo},
           NEW s \in Slots, NEW members, TryUnload(s, members)
    PROVE  /\ handler' \in [Slots -> Handler] /\ Others(s)
           /\ \/ handler'[s] = Idle
              \/ /\ handler'[s].pc = "unload" /\ handler'[s].op = "unload"
                 /\ handler'[s].repo = promise /\ handler'[s].atoms = {}
                 /\ handler'[s].new = FALSE /\ handler'[s].target = NoCommit
                 /\ handler'[s].commit = NoCommit
<1> DEFINE h == [Idle EXCEPT !.op = "unload", !.pc = "unload", !.repo = promise]
<1>1. h \in Handler /\ h.pc = "unload" /\ h.op = "unload" /\ h.repo = promise /\ h.atoms = {}
      /\ h.new = FALSE /\ h.target = NoCommit /\ h.commit = NoCommit
  BY DEF Idle, Handler, Labels, NoCommit, Ops
<1>2. handler' = [handler EXCEPT ![s] = IF members = {} THEN h ELSE Idle]
  BY DEF TryUnload
<1> HIDE DEF h
<1> QED
  BY <1>1, <1>2, IdleType DEF Others

Taken(s, r, op) ==
    /\ handler' \in [Slots -> Handler] /\ Others(s)
    /\ handler'[s].op = op /\ handler'[s].pc = "storeData" /\ handler'[s].repo = r
    /\ handler'[s].atoms = heap[r].atoms /\ handler'[s].target = handler[s].target
    /\ handler'[s].commit \in Commits /\ NextCommit(handler'[s].commit)

LEMMA TakeCommitEffect ==
    ASSUME handler \in [Slots -> Handler], heap \in [Repos -> Repo], NEW s \in Slots,
           NEW r \in Repos, NEW op \in Ops, TakeCommit(s, r, op)
    PROVE  Taken(s, r, op)
<1>1. PICK c \in Commits :
        /\ NextCommit(c)
        /\ handler' = [handler EXCEPT ![s].op = op, ![s].pc = "storeData", ![s].repo = r,
                                      ![s].commit = c, ![s].atoms = heap[r].atoms]
  BY DEF TakeCommit
<1>2. heap[r].atoms \in SUBSET Atoms
  BY DEF Repo
<1>3. PICK h : h = [handler[s] EXCEPT !.op = op, !.pc = "storeData", !.repo = r, !.commit = c,
                                      !.atoms = heap[r].atoms]
  OBVIOUS
<1>4. /\ h \in Handler /\ h.op = op /\ h.pc = "storeData" /\ h.repo = r
      /\ h.atoms = heap[r].atoms /\ h.target = handler[s].target /\ h.commit = c
  <2>1. handler[s] \in Handler
    OBVIOUS
  <2> QED
    BY <1>2, <1>3, <2>1 DEF Handler, Labels, Committing
<1>5. handler' = [handler EXCEPT ![s] = h]
  BY <1>1, <1>3, Zenon
<1>6. handler' \in [Slots -> Handler] /\ Others(s) /\ handler'[s] = h
  BY <1>4, <1>5 DEF Others
<1>7. NextCommit(c)
  BY <1>1
<1> QED
  BY <1>4, <1>6, <1>7 DEF Taken

(* _getOrLoadRepo: the handler waits for a repo. *)
LEMMA WaitEffect ==
    ASSUME handler \in [Slots -> Handler], NEW s \in Slots, NEW r \in Repos,
           handler' = [handler EXCEPT ![s].pc = "waiting", ![s].repo = r]
    PROVE  /\ handler' \in [Slots -> Handler] /\ Others(s)
           /\ handler'[s].op = handler[s].op /\ handler'[s].pc = "waiting"
           /\ handler'[s].repo = r /\ handler'[s].atoms = handler[s].atoms
           /\ handler'[s].new = handler[s].new /\ handler'[s].target = handler[s].target
           /\ handler'[s].commit = handler[s].commit
<1>1. PICK h : h = [handler[s] EXCEPT !.pc = "waiting", !.repo = r]
  OBVIOUS
<1>2. /\ h \in Handler
      /\ h.op = handler[s].op /\ h.pc = "waiting"
      /\ h.repo = r /\ h.atoms = handler[s].atoms
      /\ h.new = handler[s].new /\ h.target = handler[s].target
      /\ h.commit = handler[s].commit
  <2>1. handler[s] \in Handler
    OBVIOUS
  <2> QED
    BY <1>1, <2>1 DEF Handler, Labels, Committing, Resetting
<1>3. handler' = [handler EXCEPT ![s] = h]
  BY <1>1, Zenon
<1>4. h \in Handler
  BY <1>2
<1>5. handler' \in [Slots -> Handler] /\ Others(s) /\ handler'[s] = h
  BY ONLY handler \in [Slots -> Handler], s \in Slots, <1>3, <1>4 DEF Others
<1> QED
  BY <1>2, <1>5

AppliedTo(s, r, b) ==
    /\ handler' \in [Slots -> Handler] /\ Others(s)
    /\ handler'[s].op = handler[s].op /\ handler'[s].pc = "stage"
    /\ handler'[s].repo = r /\ handler'[s].atoms = handler[s].atoms
    /\ handler'[s].new = b /\ handler'[s].target = handler[s].target
    /\ handler'[s].commit = handler[s].commit

(* ADD_ATOMS: the change was applied to a repo. *)
LEMMA ApplyEffect ==
    ASSUME handler \in [Slots -> Handler], NEW s \in Slots, NEW r \in Repos, NEW b \in BOOLEAN,
           handler' = [handler EXCEPT ![s].pc = "stage", ![s].repo = r, ![s].new = b]
    PROVE  AppliedTo(s, r, b)
<1>1. PICK h : h = [handler[s] EXCEPT !.pc = "stage", !.repo = r, !.new = b]
  OBVIOUS
<1>2. /\ h \in Handler
      /\ h.op = handler[s].op /\ h.pc = "stage"
      /\ h.repo = r /\ h.atoms = handler[s].atoms
      /\ h.new = b /\ h.target = handler[s].target
      /\ h.commit = handler[s].commit
  <2>1. handler[s] \in Handler
    OBVIOUS
  <2> QED
    BY <1>1, <2>1 DEF Handler, Labels, Committing, Resetting
<1>3. handler' = [handler EXCEPT ![s] = h]
  BY <1>1, Zenon
<1>4. h \in Handler
  BY <1>2
<1>5. handler' \in [Slots -> Handler] /\ Others(s) /\ handler'[s] = h
  BY ONLY handler \in [Slots -> Handler], s \in Slots, <1>3, <1>4 DEF Others
<1> QED
  BY <1>2, <1>5 DEF AppliedTo

(* storeData(). *)
LEMMA StoreEffect ==
    ASSUME handler \in [Slots -> Handler], NEW s \in Slots,
           handler' = [handler EXCEPT ![s].pc = "saveHead", ![s].atoms = {}]
    PROVE  /\ handler' \in [Slots -> Handler] /\ Others(s)
           /\ handler'[s].op = handler[s].op /\ handler'[s].pc = "saveHead"
           /\ handler'[s].repo = handler[s].repo /\ handler'[s].atoms = {}
           /\ handler'[s].new = handler[s].new /\ handler'[s].target = handler[s].target
           /\ handler'[s].commit = handler[s].commit
<1>1. PICK h : h = [handler[s] EXCEPT !.pc = "saveHead", !.atoms = {}]
  OBVIOUS
<1>2. /\ h \in Handler
      /\ h.op = handler[s].op /\ h.pc = "saveHead"
      /\ h.repo = handler[s].repo /\ h.atoms = {}
      /\ h.new = handler[s].new /\ h.target = handler[s].target
      /\ h.commit = handler[s].commit
  <2>1. handler[s] \in Handler
    OBVIOUS
  <2> QED
    BY <1>1, <2>1 DEF Handler, Labels, Committing, Resetting
<1>3. handler' = [handler EXCEPT ![s] = h]
  BY <1>1, Zenon
<1>4. h \in Handler
  BY <1>2
<1>5. handler' \in [Slots -> Handler] /\ Others(s) /\ handler'[s] = h
  BY ONLY handler \in [Slots -> Handler], s \in Slots, <1>3, <1>4 DEF Others
<1> QED
  BY <1>2, <1>5

ResetBegun(s, r, c) ==
    /\ handler' \in [Slots -> Handler] /\ Others(s)
    /\ handler'[s].op = handler[s].op /\ handler'[s].pc = "resetHead"
    /\ handler'[s].repo = r /\ handler'[s].atoms = handler[s].atoms
    /\ handler'[s].new = handler[s].new /\ handler'[s].target = handler[s].target
    /\ handler'[s].commit = c

(* CHECKOUT: the reset begins. *)
LEMMA ResetEffect ==
    ASSUME handler \in [Slots -> Handler], NEW s \in Slots, NEW r \in Repos,
           NEW c \in Commits \cup {NoCommit},
           handler' = [handler EXCEPT ![s].pc = "resetHead", ![s].repo = r, ![s].commit = c]
    PROVE  ResetBegun(s, r, c)
<1>1. PICK h : h = [handler[s] EXCEPT !.pc = "resetHead", !.repo = r, !.commit = c]
  OBVIOUS
<1>2. /\ h \in Handler
      /\ h.op = handler[s].op /\ h.pc = "resetHead"
      /\ h.repo = r /\ h.atoms = handler[s].atoms
      /\ h.new = handler[s].new /\ h.target = handler[s].target
      /\ h.commit = c
  <2>1. handler[s] \in Handler
    OBVIOUS
  <2> QED
    BY <1>1, <2>1 DEF Handler, Labels, Committing, Resetting
<1>3. handler' = [handler EXCEPT ![s] = h]
  BY <1>1, Zenon
<1>4. h \in Handler
  BY <1>2
<1>5. handler' \in [Slots -> Handler] /\ Others(s) /\ handler'[s] = h
  BY ONLY handler \in [Slots -> Handler], s \in Slots, <1>3, <1>4 DEF Others
<1> QED
  BY <1>2, <1>5 DEF ResetBegun

(* RESTORE: nothing has to be committed first. *)
LEMMA RestoreEffect ==
    ASSUME handler \in [Slots -> Handler], NEW s \in Slots, NEW r \in Repos,
           handler' = [handler EXCEPT ![s].pc = "restore", ![s].repo = r]
    PROVE  /\ handler' \in [Slots -> Handler] /\ Others(s)
           /\ handler'[s].op = handler[s].op /\ handler'[s].pc = "restore"
           /\ handler'[s].repo = r /\ handler'[s].atoms = handler[s].atoms
           /\ handler'[s].new = handler[s].new /\ handler'[s].target = handler[s].target
           /\ handler'[s].commit = handler[s].commit
<1>1. PICK h : h = [handler[s] EXCEPT !.pc = "restore", !.repo = r]
  OBVIOUS
<1>2. /\ h \in Handler
      /\ h.op = handler[s].op /\ h.pc = "restore"
      /\ h.repo = r /\ h.atoms = handler[s].atoms
      /\ h.new = handler[s].new /\ h.target = handler[s].target
      /\ h.commit = handler[s].commit
  <2>1. handler[s] \in Handler
    OBVIOUS
  <2> QED
    BY <1>1, <2>1 DEF Handler, Labels, Committing, Resetting
<1>3. handler' = [handler EXCEPT ![s] = h]
  BY <1>1, Zenon
<1>4. h \in Handler
  BY <1>2
<1>5. handler' \in [Slots -> Handler] /\ Others(s) /\ handler'[s] = h
  BY ONLY handler \in [Slots -> Handler], s \in Slots, <1>3, <1>4 DEF Others
<1> QED
  BY <1>2, <1>5

(* RESTORE: the restoring commit is stored. *)
LEMMA RestoredEffect ==
    ASSUME handler \in [Slots -> Handler], NEW s \in Slots, NEW c \in Commits \cup {NoCommit},
           handler' = [handler EXCEPT ![s].pc = "resetHead", ![s].commit = c]
    PROVE  /\ handler' \in [Slots -> Handler] /\ Others(s)
           /\ handler'[s].op = handler[s].op /\ handler'[s].pc = "resetHead"
           /\ handler'[s].repo = handler[s].repo /\ handler'[s].atoms = handler[s].atoms
           /\ handler'[s].new = handler[s].new /\ handler'[s].target = handler[s].target
           /\ handler'[s].commit = c
<1>1. PICK h : h = [handler[s] EXCEPT !.pc = "resetHead", !.commit = c]
  OBVIOUS
<1>2. /\ h \in Handler
      /\ h.op = handler[s].op /\ h.pc = "resetHead"
      /\ h.repo = handler[s].repo /\ h.atoms = handler[s].atoms
      /\ h.new = handler[s].new /\ h.target = handler[s].target
      /\ h.commit = c
  <2>1. handler[s] \in Handler
    OBVIOUS
  <2> QED
    BY <1>1, <2>1 DEF Handler, Labels, Committing, Resetting
<1>3. handler' = [handler EXCEPT ![s] = h]
  BY <1>1, Zenon
<1>4. h \in Handler
  BY <1>2
<1>5. handler' \in [Slots -> Handler] /\ Others(s) /\ handler'[s] = h
  BY ONLY handler \in [Slots -> Handler], s \in Slots, <1>3, <1>4 DEF Others
<1> QED
  BY <1>2, <1>5

OtherRepos(r) == \A q \in Repos : q # r => heap'[q] = heap[q]

(* _loadRepo: the branch is read. *)
LEMMA CheckoutEffect ==
    ASSUME heap \in [Repos -> Repo], NEW r \in Repos,
           NEW l \in {"saveHead", "failed"}, NEW c \in Commits \cup {NoCommit},
           heap' = [heap EXCEPT ![r].pc = l, ![r].current = c]
    PROVE  /\ heap' \in [Repos -> Repo] /\ OtherRepos(r)
           /\ heap'[r].pc = l /\ heap'[r].create = heap[r].create
           /\ heap'[r].current = c /\ heap'[r].atoms = heap[r].atoms
           /\ heap'[r].add = heap[r].add /\ heap'[r].del = heap[r].del
<1>1. PICK h : h = [heap[r] EXCEPT !.pc = l, !.current = c]
  OBVIOUS
<1>2. /\ h \in Repo
      /\ h.pc = l /\ h.create = heap[r].create
      /\ h.current = c /\ h.atoms = heap[r].atoms
      /\ h.add = heap[r].add /\ h.del = heap[r].del
  <2>1. heap[r] \in Repo
    OBVIOUS
  <2> QED
    BY <1>1, <2>1 DEF Repo
<1>3. heap' = [heap EXCEPT ![r] = h]
  BY <1>1, Zenon
<1>4. h \in Repo
  BY <1>2
<1>5. heap' \in [Repos -> Repo] /\ OtherRepos(r) /\ heap'[r] = h
  BY ONLY heap \in [Repos -> Repo], r \in Repos, <1>3, <1>4 DEF OtherRepos
<1> QED
  BY <1>2, <1>5

(* _loadRepo: its commit is loaded. *)
LEMMA SaveCheckedOutEffect ==
    ASSUME heap \in [Repos -> Repo], NEW r \in Repos, NEW x \in SUBSET Atoms,
           heap' = [heap EXCEPT ![r].pc = "getStage", ![r].atoms = x]
    PROVE  /\ heap' \in [Repos -> Repo] /\ OtherRepos(r)
           /\ heap'[r].pc = "getStage" /\ heap'[r].create = heap[r].create
           /\ heap'[r].current = heap[r].current /\ heap'[r].atoms = x
           /\ heap'[r].add = heap[r].add /\ heap'[r].del = heap[r].del
<1>1. PICK h : h = [heap[r] EXCEPT !.pc = "getStage", !.atoms = x]
  OBVIOUS
<1>2. /\ h \in Repo
      /\ h.pc = "getStage" /\ h.create = heap[r].create
      /\ h.current = heap[r].current /\ h.atoms = x
      /\ h.add = heap[r].add /\ h.del = heap[r].del
  <2>1. heap[r] \in Repo
    OBVIOUS
  <2> QED
    BY <1>1, <2>1 DEF Repo
<1>3. heap' = [heap EXCEPT ![r] = h]
  BY <1>1, Zenon
<1>4. h \in Repo
  BY <1>2
<1>5. heap' \in [Repos -> Repo] /\ OtherRepos(r) /\ heap'[r] = h
  BY ONLY heap \in [Repos -> Repo], r \in Repos, <1>3, <1>4 DEF OtherRepos
<1> QED
  BY <1>2, <1>5

Staged(r, x, y, z) ==
    /\ heap' \in [Repos -> Repo] /\ OtherRepos(r)
    /\ heap'[r].pc = "ready" /\ heap'[r].create = heap[r].create
    /\ heap'[r].current = heap[r].current /\ heap'[r].atoms = x
    /\ heap'[r].add = y /\ heap'[r].del = z

(* _loadRepo: the stage is put on top. *)
LEMMA GetStageEffect ==
    ASSUME heap \in [Repos -> Repo], NEW r \in Repos,
           NEW x \in SUBSET Atoms, NEW y \in SUBSET Atoms, NEW z \in SUBSET Atoms,
           heap' = [heap EXCEPT ![r].pc = "ready", ![r].atoms = x, ![r].add = y, ![r].del = z]
    PROVE  Staged(r, x, y, z)
<1>1. PICK h : h = [heap[r] EXCEPT !.pc = "ready", !.atoms = x, !.add = y, !.del = z]
  OBVIOUS
<1>2. /\ h \in Repo
      /\ h.pc = "ready" /\ h.create = heap[r].create
      /\ h.current = heap[r].current /\ h.atoms = x
      /\ h.add = y /\ h.del = z
  <2>1. heap[r] \in Repo
    OBVIOUS
  <2> QED
    BY <1>1, <2>1 DEF Repo
<1>3. heap' = [heap EXCEPT ![r] = h]
  BY <1>1, Zenon
<1>4. h \in Repo
  BY <1>2
<1>5. heap' \in [Repos -> Repo] /\ OtherRepos(r) /\ heap'[r] = h
  BY ONLY heap \in [Repos -> Repo], r \in Repos, <1>3, <1>4 DEF OtherRepos
<1> QED
  BY <1>2, <1>5 DEF Staged

CurrentSet(r, c, x) ==
    /\ heap' \in [Repos -> Repo] /\ OtherRepos(r)
    /\ heap'[r].pc = heap[r].pc /\ heap'[r].create = heap[r].create
    /\ heap'[r].current = c /\ heap'[r].atoms = x
    /\ heap'[r].add = {} /\ heap'[r].del = {}

(* A commit is loaded over the working set. *)
LEMMA SetCurrentEffect ==
    ASSUME heap \in [Repos -> Repo], NEW r \in Repos,
           NEW c \in Commits \cup {NoCommit}, NEW x \in SUBSET Atoms,
           heap' = [heap EXCEPT ![r].current = c, ![r].atoms = x, ![r].add = {}, ![r].del = {}]
    PROVE  CurrentSet(r, c, x)
<1>1. PICK h : h = [heap[r] EXCEPT !.current = c, !.atoms = x, !.add = {}, !.del = {}]
  OBVIOUS
<1>2. /\ h \in Repo
      /\ h.pc = heap[r].pc /\ h.create = heap[r].create
      /\ h.current = c /\ h.atoms = x
      /\ h.add = {} /\ h.del = {}
  <2>1. heap[r] \in Repo
    OBVIOUS
  <2> QED
    BY <1>1, <2>1 DEF Repo
<1>3. heap' = [heap EXCEPT ![r] = h]
  BY <1>1, Zenon
<1>4. h \in Repo
  BY <1>2
<1>5. heap' \in [Repos -> Repo] /\ OtherRepos(r) /\ heap'[r] = h
  BY ONLY heap \in [Repos -> Repo], r \in Repos, <1>3, <1>4 DEF OtherRepos
<1> QED
  BY <1>2, <1>5 DEF CurrentSet

(* An atom is added. *)
LEMMA AddEffect ==
    ASSUME heap \in [Repos -> Repo], NEW r \in Repos, NEW a \in Atoms,
           heap' = [heap EXCEPT ![r].atoms = @ \cup {a}, ![r].add = @ \cup {a}, ![r].del = @ \ {a}]
    PROVE  /\ heap' \in [Repos -> Repo] /\ OtherRepos(r)
           /\ heap'[r].pc = heap[r].pc /\ heap'[r].create = heap[r].create
           /\ heap'[r].current = heap[r].current /\ heap'[r].atoms = heap[r].atoms \cup {a}
           /\ heap'[r].add = heap[r].add \cup {a} /\ heap'[r].del = heap[r].del \ {a}
<1>1. PICK h : h = [heap[r] EXCEPT !.atoms = heap[r].atoms \cup {a},
                                    !.add = heap[r].add \cup {a}, !.del = heap[r].del \ {a}]
  OBVIOUS
<1>2. /\ h \in Repo
      /\ h.pc = heap[r].pc /\ h.create = heap[r].create
      /\ h.current = heap[r].current /\ h.atoms = heap[r].atoms \cup {a}
      /\ h.add = heap[r].add \cup {a} /\ h.del = heap[r].del \ {a}
  <2>1. heap[r] \in Repo
    OBVIOUS
  <2> QED
    BY <1>1, <2>1 DEF Repo
<1>3. heap' = [heap EXCEPT ![r] = h]
  BY <1>1, Zenon
<1>4. h \in Repo
  BY <1>2
<1>5. heap' \in [Repos -> Repo] /\ OtherRepos(r) /\ heap'[r] = h
  BY ONLY heap \in [Repos -> Repo], r \in Repos, <1>3, <1>4 DEF OtherRepos
<1> QED
  BY <1>2, <1>5

(* An atom is removed. *)
LEMMA RemoveEffect ==
    ASSUME heap \in [Repos -> Repo], NEW r \in Repos, NEW a \in Atoms,
           heap' = [heap EXCEPT ![r].atoms = @ \ {a}, ![r].add = @ \ {a}, ![r].del = @ \cup {a}]
    PROVE  /\ heap' \in [Repos -> Repo] /\ OtherRepos(r)
           /\ heap'[r].pc = heap[r].pc /\ heap'[r].create = heap[r].create
           /\ heap'[r].current = heap[r].current /\ heap'[r].atoms = heap[r].atoms \ {a}
           /\ heap'[r].add = heap[r].add \ {a} /\ heap'[r].del = heap[r].del \cup {a}
<1>1. PICK h : h = [heap[r] EXCEPT !.atoms = heap[r].atoms \ {a},
                                    !.add = heap[r].add \ {a}, !.del = heap[r].del \cup {a}]
  OBVIOUS
<1>2. /\ h \in Repo
      /\ h.pc = heap[r].pc /\ h.create = heap[r].create
      /\ h.current = heap[r].current /\ h.atoms = heap[r].atoms \ {a}
      /\ h.add = heap[r].add \ {a} /\ h.del = heap[r].del \cup {a}
  <2>1. heap[r] \in Repo
    OBVIOUS
  <2> QED
    BY <1>1, <2>1 DEF Repo
<1>3. heap' = [heap EXCEPT ![r] = h]
  BY <1>1, Zenon
<1>4. h \in Repo
  BY <1>2
<1>5. heap' \in [Repos -> Repo] /\ OtherRepos(r) /\ heap'[r] = h
  BY ONLY heap \in [Repos -> Repo], r \in Repos, <1>3, <1>4 DEF OtherRepos
<1> QED
  BY <1>2, <1>5

LEMMA OpTypes == /\ "watch" \in Ops /\ "get" \in Ops /\ "add" \in Ops /\ "remove" \in Ops
                 /\ "commit" \in Ops /\ "checkout" \in Ops /\ "restore" \in Ops
                 /\ "unload" \in Ops
  BY DEF Ops

LEMMA LabelTypes == /\ "resume" \in Labels /\ "answer" \in Labels /\ "unloaded" \in Labels
                    /\ "setCurrent" \in Labels /\ "clearAdded" \in Labels
                    /\ "clearRemoved" \in Labels /\ "restore" \in Labels
                    /\ "resetCurrent" \in Labels /\ "sendReset" \in Labels
  BY DEF Labels, Committing, Resetting

LEMMA CommitTypes == NoCommit \notin Commits /\ {} \in SUBSET Atoms
  BY RepoServerAssumption DEF NoCommit, Commits

LEMMA AtomsOfType ==
    ASSUME TypeOK, NEW c \in Stored \cup {NoCommit}
    PROVE  AtomsOf(c) \in SUBSET Atoms /\ c \in Commits \cup {NoCommit}
  BY CommitTypes DEF TypeOK, AtomsOf, Stored, AtomSets

-----------------------------------------------------------------------------
(* The actions that a step may be. *)
LEMMA NextCases ==
    ASSUME Next
    PROVE  \/ \E d \in Devices :
                \/ Connect(d) \/ WatchBranch(d) \/ AddAtoms(d) \/ RemoveAtoms(d) \/ OtherEvent(d)
                \/ SendAtoms(d) \/ GetBranch(d) \/ Commit(d) \/ CheckoutEvent(d)
                \/ RestoreEvent(d) \/ Unwatch(d) \/ Disconnect(d)
           \/ \E s \in Slots :
                \/ RepoLoaded(s) \/ LoadFailed(s) \/ UnloadBranch(s) \/ ApplyAdd(s)
                \/ ApplyRemove(s) \/ StageAtoms(s) \/ AtomsReceived(s) \/ StoreData(s)
                \/ SaveHead(s) \/ CheckoutHead(s) \/ ClearAdded(s) \/ ClearRemoved(s)
                \/ StoreRestored(s) \/ ResetHead(s) \/ ResetCurrent(s) \/ SendReset(s)
                \/ UnloadCommitted(s)
                \/ WaitForRepo(s) /\ \A t \in Slots : ~Settled(t)
           \/ \E r \in Repos : Checkout(r) \/ SaveCheckedOut(r) \/ GetStage(r)
           \/ Crash
<1>1. ASSUME NEW s \in Slots, Continue(s)
      PROVE  \/ RepoLoaded(s) \/ LoadFailed(s) \/ UnloadBranch(s) \/ ApplyAdd(s) \/ ApplyRemove(s)
             \/ \E d \in Devices : SendAtoms(d) \/ GetBranch(d) \/ Commit(d)
                                   \/ CheckoutEvent(d) \/ RestoreEvent(d)
  BY <1>1, Zenon DEF Continue
<1>2. ASSUME NEW s \in Slots, Step(s)
      PROVE  \/ WaitForRepo(s) \/ ApplyAdd(s) \/ ApplyRemove(s) \/ StageAtoms(s)
             \/ AtomsReceived(s) \/ StoreData(s) \/ SaveHead(s) \/ CheckoutHead(s)
             \/ ClearAdded(s) \/ ClearRemoved(s) \/ StoreRestored(s) \/ ResetHead(s)
             \/ ResetCurrent(s) \/ SendReset(s) \/ UnloadCommitted(s)
  BY <1>2, Zenon DEF Step, CommitSteps, ResetSteps
<1>3. CASE \E s \in Slots : Continue(s)
  BY <1>1, <1>3, Zenon
<1>4. CASE /\ \A s \in Slots : ~Settled(s)
           /\ \/ \E d \in Devices : Event(d)
              \/ \E s \in Slots : Step(s)
              \/ \E r \in Repos : LoadRepo(r)
              \/ Crash
  <2>1. CASE \E d \in Devices : Event(d)
    BY <2>1, Zenon DEF Event
  <2>2. CASE \E s \in Slots : Step(s)
    BY <1>2, <1>4, <2>2, Zenon
  <2>3. CASE \E r \in Repos : LoadRepo(r)
    BY <2>3, Zenon DEF LoadRepo
  <2>4. CASE Crash
    BY <2>4, Zenon
  <2> QED
    BY <1>4, <2>1, <2>2, <2>3, <2>4, Zenon
<1> QED
  BY <1>3, <1>4 DEF Next

LEMMA HasRepoFacts ==
    ASSUME Shape, NEW s \in Slots, NEW op, NEW r \in Repos, HasRepo(s, op, r)
    PROVE  /\ handler[s].op = op /\ handler[s].pc \in {"repo", "resume"}
           /\ heap[r].pc = "ready" /\ exists
           /\ handler[s].pc = "repo" => loaded = r
           /\ handler[s].pc = "resume" => handler[s].repo = r
<1>1. r # NoRepo
  BY RepoServerAssumption DEF NoRepo
<1>2. handler[s].pc = "resume" => heap[handler[s].repo].pc = "ready"
  BY DEF Shape, RepoInv, RepoOk, Using
<1>3. loaded = r => heap[r].pc = "ready"
  BY <1>1 DEF Shape, HeapInv
<1>4. heap[r].pc = "ready" /\ handler[s].op = op /\ handler[s].pc \in {"repo", "resume"}
  BY <1>2, <1>3 DEF HasRepo
<1> QED
  BY <1>4 DEF Shape, HeapInv, HasRepo

LEMMA ThrowEffect ==
    ASSUME TypeOK, NEW s \in Slots, Throw(s)
    PROVE  /\ handler' \in [Slots -> Handler] /\ Others(s) /\ handler'[s] = Idle
           /\ conn' \in [Devices -> {"closed", "open", "deaf"}]
<1>1. handler \in [Slots -> Handler] /\ conn \in [Devices -> {"closed", "open", "deaf"}]
  BY DEF TypeOK
<1>2. s[1] \in Devices
  BY SlotFacts
<1>3. conn' = conn \/ conn' = [conn EXCEPT ![s[1]] = "deaf"]
  BY DEF Throw
<1>4. conn' \in [Devices -> {"closed", "open", "deaf"}]
  BY <1>1, <1>2, <1>3
<1>5. End(s)
  BY DEF Throw
<1> QED
  BY <1>1, <1>4, <1>5, EndEffect

-----------------------------------------------------------------------------
(* What Shape says of one handler. *)
HandlerOk(s) ==
    /\ OpOk(s, handler[s]) /\ ChangeOk(s, handler[s], gone)
    /\ RepoOk(handler[s], heap, promise) /\ CommitOk(handler[s], Stored)

(* A commit that is about to be stored is nobody else's. *)
OwnCommit(s) ==
    handler'[s].pc = "storeData" => \A t \in Slots : handler[t].commit # handler'[s].commit

(* A step of one handler that keeps its own part keeps that of the others. *)
LEMMA HandlerShape ==
    ASSUME Shape, NEW s \in Slots, Others(s), TypeOK', HandlerOk(s)', OwnCommit(s),
           HeapInv', ClientInv',
           gone \subseteq gone', Stored \subseteq Stored', promise' \in {promise, NoRepo},
           \A t \in Slots : t # s /\ handler[t].pc = "storeData" => handler[t].commit \notin Stored',
           \A r \in Repos : /\ heap'[r].pc = heap[r].pc
                            /\ heap'[r].current \in Stored' \cup {NoCommit}
    PROVE  Shape'
<1>1. OpInv'
  BY DEF Shape, OpInv, HandlerOk, Others
<1>2. ChangeInv'
  <2>1. ASSUME NEW t \in Slots, t # s PROVE ChangeOk(t, handler[t], gone')
    BY DEF Shape, ChangeInv, ChangeOk
  <2> QED
    BY <2>1 DEF ChangeInv, HandlerOk, Others
<1>3. RepoInv'
  <2>1. ASSUME NEW t \in Slots, t # s PROVE RepoOk(handler[t], heap', promise')
    <3>1. RepoOk(handler[t], heap, promise) /\ handler[t].repo \in Repos \cup {NoRepo}
      BY DEF Shape, RepoInv, TypeOK, Handler
    <3>2. handler[t].repo \in Repos => heap'[handler[t].repo].pc = heap[handler[t].repo].pc
      BY <3>1
    <3> QED
      BY <3>1, <3>2 DEF RepoOk
  <2> QED
    BY <2>1 DEF RepoInv, HandlerOk, Others
<1>4. CommitInv'
  <2>1. ASSUME NEW t \in Slots, t # s PROVE CommitOk(handler[t], Stored')
    <3>1. CommitOk(handler[t], Stored)
      BY DEF Shape, CommitInv
    <3> QED
      BY <2>1, <3>1 DEF CommitOk
  <2> QED
    BY <2>1 DEF CommitInv, HandlerOk, Others
<1>5. UniqueInv'
  <2>1. handler'[s].pc # "storeData" => handler'[s].commit \in Stored' \cup {NoCommit}
    BY DEF HandlerOk, CommitOk
  <2>2. \A t \in Slots : handler[t].pc = "storeData" => handler[t].commit # NoCommit
    BY CommitTypes DEF Shape, CommitInv, CommitOk
  <2>3. \A t \in Slots : t # s /\ handler[t].pc = "storeData" => handler[t].commit # handler'[s].commit
    BY <2>1, <2>2 DEF OwnCommit
  <2> QED
    BY <2>3 DEF Shape, UniqueInv, Others, OwnCommit
<1> QED
  BY <1>1, <1>2, <1>3, <1>4, <1>5 DEF Shape

(* And one that changes neither the repos nor what is stored. *)
LEMMA MoveShape ==
    ASSUME Shape, NEW s \in Slots, Others(s), TypeOK', HandlerOk(s)', OwnCommit(s), ClientInv',
           gone \subseteq gone', UNCHANGED <<exists, commits, heap, loaded, promise>>
    PROVE  Shape'
<1>1. Stored' = Stored
  BY DEF Stored
<1>2. HeapInv'
  BY DEF Shape, HeapInv
<1>3. \A t \in Slots : t # s /\ handler[t].pc = "storeData" => handler[t].commit \notin Stored'
  BY <1>1 DEF Shape, CommitInv, CommitOk
<1>4. \A r \in Repos : heap'[r].pc = heap[r].pc /\ heap'[r].current \in Stored' \cup {NoCommit}
  BY <1>1 DEF Shape, CommitInv
<1> QED
  BY <1>1, <1>2, <1>3, <1>4, HandlerShape

LEMMA IdleOk ==
    ASSUME NEW s \in Slots, handler'[s] = Idle
    PROVE  HandlerOk(s)' /\ OwnCommit(s)
  BY IdleType DEF HandlerOk, OwnCommit, OpOk, ChangeOk, RepoOk, CommitOk, Using, Committing,
                  Resetting

LEMMA UnloadOk ==
    ASSUME Shape, NEW s \in Slots, UNCHANGED <<heap, promise>>,
           handler'[s].pc = "unload", handler'[s].op = "unload", handler'[s].repo = promise,
           handler'[s].commit = NoCommit
    PROVE  HandlerOk(s)' /\ OwnCommit(s)
  BY DEF Shape, HeapInv, HandlerOk, OwnCommit, OpOk, ChangeOk, RepoOk, CommitOk, Using, Committing,
         Resetting

LEMMA ReceivedOk ==
    ASSUME Shape, NEW d \in Devices, NEW atoms, NEW target,
           NEW op \in {"watch", "get", "add", "remove", "commit", "checkout", "restore"},
           Received(d, op, atoms, target),
           op \in {"add", "remove"} => \E a \in Atoms : atoms = {a},
           op = "add" => \A a \in atoms : Author(a) = d,
           op = "remove" => atoms \subseteq gone',
           op \in {"checkout", "restore"} => target \in Stored'
    PROVE  HandlerOk(Events(d))' /\ OwnCommit(Events(d))
<1>1. Events(d)[1] = d /\ Events(d)[2] = "events"
  BY SlotFacts
<1>2. OpOk(Events(d), handler'[Events(d)]) /\ ChangeOk(Events(d), handler'[Events(d)], gone')
  BY <1>1 DEF Received, OpOk, ChangeOk
<1>3. RepoOk(handler'[Events(d)], heap', promise') /\ CommitOk(handler'[Events(d)], Stored')
  BY DEF Received, RepoOk, CommitOk, Using, Committing, Resetting
<1> QED
  BY <1>2, <1>3 DEF HandlerOk, OwnCommit, Received

LEMMA TakenOk ==
    ASSUME Shape, NEW s \in Slots, NEW r \in Repos, NEW op \in {"commit", "restore", "unload"},
           Taken(s, r, op), heap[r].pc = "ready", UNCHANGED <<heap, commits>>,
           op = "restore" => handler[s].op = "restore",
           s[2] = "disconnect" => op = "unload"
    PROVE  HandlerOk(s)' /\ OwnCommit(s)
<1>1. Stored' = Stored
  BY DEF Stored
<1>2. /\ handler'[s].commit \in Commits \ Stored
      /\ \A t \in Slots : handler[t].commit # handler'[s].commit
  BY DEF Taken, NextCommit
<1>3. OpOk(s, handler'[s]) /\ ChangeOk(s, handler'[s], gone')
  BY DEF Taken, OpOk, ChangeOk
<1>4. RepoOk(handler'[s], heap', promise')
  BY DEF Taken, RepoOk, Using, Committing, Resetting
<1>5. CommitOk(handler'[s], Stored')
  BY <1>1, <1>2 DEF Shape, CommitInv, CommitOk, Taken
<1> QED
  BY <1>2, <1>3, <1>4, <1>5 DEF HandlerOk, OwnCommit

-----------------------------------------------------------------------------
LEMMA ConnectShape ==
    ASSUME Shape, NEW d \in Devices, Connect(d)
    PROVE  Shape'
<1> USE DEF Shape
<1>1. /\ conn' = [conn EXCEPT ![d] = "open"] /\ Count
      /\ UNCHANGED <<exists, head, commits, stage, heap, loaded, promise, entry, channel, view,
                     handler, crashes, acked, gone, goneAcked, contended>>
  BY DEF Connect, stores, memory, history
<1>2. TypeOK'
  BY <1>1, RepoServerAssumption DEF TypeOK, Stored, Count
<1>3. OpInv' /\ ChangeInv' /\ RepoInv' /\ HeapInv' /\ UniqueInv' /\ ClientInv'
  BY <1>1 DEF OpInv, ChangeInv, RepoInv, HeapInv, UniqueInv, ClientInv
<1>4. CommitInv'
  BY <1>1 DEF CommitInv, Stored
<1> QED
  BY <1>2, <1>3, <1>4

LEMMA WatchBranchShape ==
    ASSUME Shape, NEW d \in Devices, WatchBranch(d)
    PROVE  Shape'
<1>1. Events(d) \in Slots /\ Received(d, "watch", {}, NoCommit)
  BY SlotFacts, ReceiveEffect, OpTypes, CommitTypes DEF Shape, TypeOK, WatchBranch
<1>2. /\ channel' = channel \cup {d} /\ entry' = TRUE
      /\ UNCHANGED <<exists, head, commits, stage, heap, loaded, promise, conn, view, crashes,
                     acked, gone, goneAcked, contended>>
  BY DEF WatchBranch, stores, history
<1>3. TypeOK'
  BY <1>1, <1>2, RepoServerAssumption DEF Shape, TypeOK, Stored, Received, Count
<1>4. ClientInv'
  BY <1>2 DEF Shape, ClientInv
<1> QED
  BY <1>1, <1>2, <1>3, <1>4, ReceivedOk, MoveShape DEF Received

LEMMA AddAtomsShape ==
    ASSUME Shape, NEW d \in Devices, AddAtoms(d)
    PROVE  Shape'
<1>1. PICK a \in Atoms :
        /\ Author(a) = d /\ Receive(d, "add", {a}, NoCommit)
        /\ view' = [view EXCEPT ![d] = @ \cup {a}]
  BY DEF AddAtoms
<1>2. Events(d) \in Slots /\ Received(d, "add", {a}, NoCommit)
  BY <1>1, SlotFacts, ReceiveEffect, OpTypes, CommitTypes DEF Shape, TypeOK
<1>3. /\ view' \in [Devices -> AtomSets]
      /\ \A e \in Devices : view'[e] # Missing => view[e] # Missing
  BY <1>1 DEF AddAtoms, Shape, TypeOK, AtomSets
<1>4. UNCHANGED <<exists, head, commits, stage, heap, loaded, promise, entry, channel, conn,
                  crashes, acked, gone, goneAcked, contended>>
  BY DEF AddAtoms, stores, memory, history
<1>5. TypeOK'
  BY <1>2, <1>3, <1>4, RepoServerAssumption DEF Shape, TypeOK, Stored, Received, Count
<1>6. ClientInv'
  BY <1>3, <1>4 DEF Shape, ClientInv
<1>7. HandlerOk(Events(d))' /\ OwnCommit(Events(d))
  BY <1>1, <1>2, ReceivedOk
<1> QED
  BY <1>2, <1>4, <1>5, <1>6, <1>7, MoveShape DEF Received

LEMMA RemoveAtomsShape ==
    ASSUME Shape, NEW d \in Devices, RemoveAtoms(d)
    PROVE  Shape'
<1>1. PICK a \in view[d] :
        /\ Receive(d, "remove", {a}, NoCommit)
        /\ view' = [view EXCEPT ![d] = @ \ {a}] /\ gone' = gone \cup {a}
        /\ Contend(Pending(Events(d)) \cap {a})
  BY DEF RemoveAtoms
<1>2. /\ a \in Atoms /\ {a} \in SUBSET Atoms /\ view' \in [Devices -> AtomSets]
      /\ \A e \in Devices : view'[e] # Missing => view[e] # Missing
  BY <1>1 DEF RemoveAtoms, Shape, TypeOK, AtomSets
<1>3. Events(d) \in Slots /\ Received(d, "remove", {a}, NoCommit)
  BY <1>1, <1>2, SlotFacts, ReceiveEffect, OpTypes, CommitTypes DEF Shape, TypeOK
<1>4. UNCHANGED <<exists, head, commits, stage, heap, loaded, promise, entry, channel, conn,
                  crashes, acked, goneAcked>>
  BY DEF RemoveAtoms, stores, memory
<1>5. contended' \in SUBSET Atoms /\ gone' \in SUBSET Atoms
  BY <1>1, <1>2 DEF Shape, TypeOK, Contend
<1>6. TypeOK'
  BY <1>2, <1>3, <1>4, <1>5, RepoServerAssumption DEF Shape, TypeOK, Stored, Received, Count
<1>7. ClientInv'
  BY <1>1, <1>2, <1>4 DEF Shape, ClientInv
<1>8. HandlerOk(Events(d))' /\ OwnCommit(Events(d))
  BY <1>1, <1>2, <1>3, ReceivedOk
<1> QED
  BY <1>1, <1>3, <1>4, <1>6, <1>7, <1>8, MoveShape DEF Received

LEMMA OtherEventShape ==
    ASSUME Shape, NEW d \in Devices, OtherEvent(d)
    PROVE  Shape'
<1>1. PICK op \in {"get", "commit", "checkout", "restore"}, c \in Stored \cup {NoCommit} :
        /\ op \in {"checkout", "restore"} => c \in Stored
        /\ Receive(d, op, {}, c)
  BY DEF OtherEvent
<1>2. op \in Ops /\ c \in Commits \cup {NoCommit}
  BY <1>1, AtomsOfType, OpTypes DEF Shape
<1>3. Events(d) \in Slots /\ Received(d, op, {}, c)
  BY <1>1, <1>2, SlotFacts, ReceiveEffect, CommitTypes DEF Shape, TypeOK
<1>4. UNCHANGED <<exists, head, commits, stage, heap, loaded, promise, entry, channel, conn, view,
                  crashes, acked, gone, goneAcked, contended>>
  BY DEF OtherEvent, stores, memory, clients, history
<1>5. TypeOK'
  BY <1>3, <1>4, RepoServerAssumption DEF Shape, TypeOK, Stored, Received, Count
<1>6. ClientInv'
  BY <1>4 DEF Shape, ClientInv
<1>7. HandlerOk(Events(d))' /\ OwnCommit(Events(d))
  <2>1. Stored' = Stored
    BY <1>4 DEF Stored
  <2> QED
    BY <1>1, <1>3, <2>1, ReceivedOk
<1> QED
  BY <1>3, <1>4, <1>5, <1>6, <1>7, MoveShape DEF Received

-----------------------------------------------------------------------------
LEMMA WaitForPromiseShape ==
    ASSUME Shape, NEW s \in Slots, WaitForRepo(s), promise # NoRepo
    PROVE  Shape'
<1>1. /\ handler' = [handler EXCEPT ![s].pc = "waiting", ![s].repo = promise]
      /\ promise \in Repos /\ handler[s].pc = "repo" /\ heap[promise].pc # "free"
  BY DEF WaitForRepo, Shape, HeapInv
<1>2. /\ handler' \in [Slots -> Handler] /\ Others(s)
      /\ handler'[s].op = handler[s].op /\ handler'[s].pc = "waiting"
      /\ handler'[s].repo = promise /\ handler'[s].atoms = handler[s].atoms
      /\ handler'[s].target = handler[s].target /\ handler'[s].commit = handler[s].commit
  BY <1>1, WaitEffect DEF Shape, TypeOK
<1>3. UNCHANGED <<exists, head, commits, stage, heap, loaded, promise, entry, channel, conn, view,
                  events, crashes, acked, gone, goneAcked, contended>>
  BY DEF WaitForRepo, stores, clients, bounds
<1>4. TypeOK' /\ ClientInv'
  BY <1>2, <1>3 DEF Shape, TypeOK, ClientInv, Stored
<1>5. HandlerOk(s)' /\ OwnCommit(s)
  <2>1. OpOk(s, handler'[s]) /\ ChangeOk(s, handler'[s], gone)
    BY <1>1, <1>2 DEF Shape, OpInv, ChangeInv, OpOk, ChangeOk
  <2>2. RepoOk(handler'[s], heap, promise)
    BY <1>1, <1>2 DEF RepoOk, Using, Committing, Resetting
  <2>3. CommitOk(handler'[s], Stored) /\ Stored' = Stored
    BY <1>1, <1>2, <1>3 DEF Shape, CommitInv, CommitOk, Stored
  <2> QED
    BY <1>2, <1>3, <2>1, <2>2, <2>3 DEF HandlerOk, OwnCommit
<1> QED
  BY <1>2, <1>3, <1>4, <1>5, MoveShape

LEMMA RepoLoadedShape ==
    ASSUME Shape, NEW s \in Slots, RepoLoaded(s)
    PROVE  Shape'
<1>1. /\ handler' \in [Slots -> Handler] /\ Others(s)
      /\ handler'[s].pc = "resume" /\ handler'[s].op = handler[s].op
      /\ handler'[s].repo = handler[s].repo /\ handler'[s].atoms = handler[s].atoms
      /\ handler'[s].target = handler[s].target /\ handler'[s].commit = handler[s].commit
  BY GotoEffect, LabelTypes DEF RepoLoaded, Shape, TypeOK
<1>2. /\ handler[s].pc = "waiting" /\ handler[s].repo \in Repos
      /\ heap[handler[s].repo].pc = "ready" /\ loaded' = handler[s].repo
  BY DEF RepoLoaded, Shape, RepoInv, RepoOk, Using
<1>3. UNCHANGED <<exists, head, commits, stage, heap, promise, entry, channel, conn, view, events,
                  crashes, acked, gone, goneAcked, contended>>
  BY DEF RepoLoaded, stores, clients, bounds, history
<1>4. Stored' = Stored
  BY <1>3 DEF Stored
<1>5. TypeOK' /\ ClientInv' /\ HeapInv'
  BY <1>1, <1>2, <1>3, <1>4 DEF Shape, TypeOK, ClientInv, HeapInv
<1>6. HandlerOk(s)' /\ OwnCommit(s)
  <2>1. OpOk(s, handler'[s]) /\ ChangeOk(s, handler'[s], gone)
    BY <1>1, <1>2 DEF Shape, OpInv, ChangeInv, OpOk, ChangeOk
  <2>2. RepoOk(handler'[s], heap, promise)
    BY <1>1, <1>2 DEF RepoOk, Using, Committing, Resetting
  <2>3. CommitOk(handler'[s], Stored)
    BY <1>1, <1>2 DEF Shape, CommitInv, CommitOk
  <2> QED
    BY <1>1, <1>3, <1>4, <2>1, <2>2, <2>3 DEF HandlerOk, OwnCommit
<1>7. /\ \A t \in Slots : t # s /\ handler[t].pc = "storeData" => handler[t].commit \notin Stored
      /\ \A r \in Repos : heap[r].current \in Stored \cup {NoCommit}
  BY DEF Shape, CommitInv, CommitOk
<1> QED
  BY <1>1, <1>3, <1>4, <1>5, <1>6, <1>7, HandlerShape

LEMMA LoadFailedShape ==
    ASSUME Shape, NEW s \in Slots, LoadFailed(s)
    PROVE  Shape'
<1>1. /\ handler' \in [Slots -> Handler] /\ Others(s) /\ handler'[s] = Idle
      /\ conn' \in [Devices -> {"closed", "open", "deaf"}]
  BY ThrowEffect DEF LoadFailed, Shape
<1>2. UNCHANGED <<exists, head, commits, stage, heap, loaded, promise, entry, channel, view, events,
                  crashes, acked, gone, goneAcked, contended>>
  BY DEF LoadFailed, stores, memory, bounds, history
<1>3. TypeOK' /\ ClientInv'
  BY <1>1, <1>2 DEF Shape, TypeOK, ClientInv, Stored
<1> QED
  BY <1>1, <1>2, <1>3, IdleOk, MoveShape

LEMMA SendAtomsShape ==
    ASSUME Shape, NEW d \in Devices, SendAtoms(d)
    PROVE  Shape'
<1>1. PICK s \in Slots, r \in Repos :
        /\ s = Events(d) /\ HasRepo(s, "watch", r)
        /\ \/ /\ End(s) /\ UNCHANGED conn
              /\ view' = [view EXCEPT ![d] = IF d \in channel THEN heap[r].atoms ELSE @]
           \/ Throw(s) /\ UNCHANGED view
  BY SlotFacts DEF SendAtoms
<1>2. /\ handler' \in [Slots -> Handler] /\ Others(s) /\ handler'[s] = Idle
      /\ conn' \in [Devices -> {"closed", "open", "deaf"}]
  BY <1>1, EndEffect, ThrowEffect DEF Shape, TypeOK
<1>3. exists /\ heap[r].atoms \in SUBSET Atoms
  BY <1>1, HasRepoFacts DEF Shape, TypeOK, Repo
<1>4. UNCHANGED <<exists, head, commits, stage, heap, loaded, promise, entry, channel, events,
                  crashes, acked, gone, goneAcked, contended>>
  BY DEF SendAtoms, stores, memory, bounds, history
<1>5. /\ view' \in [Devices -> AtomSets]
      /\ \A e \in Devices : view'[e] # Missing => view[e] # Missing \/ e \in channel
  BY <1>1, <1>3 DEF Shape, TypeOK, AtomSets
<1>6. TypeOK'
  BY <1>2, <1>4, <1>5 DEF Shape, TypeOK, Stored
<1>7. ClientInv'
  BY <1>3, <1>4, <1>5 DEF Shape, ClientInv
<1> QED
  BY <1>2, <1>4, <1>6, <1>7, IdleOk, MoveShape

LEMMA GetBranchShape ==
    ASSUME Shape, NEW d \in Devices, GetBranch(d)
    PROVE  Shape'
<1>1. PICK s \in Slots : s = Events(d) /\ TryUnload(s, channel)
  BY SlotFacts DEF GetBranch
<1>2. UNCHANGED <<exists, head, commits, stage, heap, loaded, promise, entry, channel, conn, view,
                  events, crashes, acked, gone, goneAcked, contended>>
  BY DEF GetBranch, stores, memory, clients, bounds, history
<1>3. /\ handler' \in [Slots -> Handler] /\ Others(s)
      /\ \/ handler'[s] = Idle
         \/ /\ handler'[s].pc = "unload" /\ handler'[s].op = "unload"
            /\ handler'[s].repo = promise /\ handler'[s].commit = NoCommit
  BY <1>1, TryUnloadEffect DEF Shape, TypeOK
<1>4. TypeOK' /\ ClientInv'
  BY <1>2, <1>3 DEF Shape, TypeOK, ClientInv, Stored
<1>5. HandlerOk(s)' /\ OwnCommit(s)
  BY <1>2, <1>3, IdleOk, UnloadOk
<1> QED
  BY <1>2, <1>3, <1>4, <1>5, MoveShape

-----------------------------------------------------------------------------
(* The next step of a handler that has its repo. *)
LEMMA GotoOk ==
    ASSUME Shape, NEW s \in Slots, OpOk(s, handler'[s]),
           handler[s].pc \in ((Using \ {"waiting", "unload", "storeData"}) \cup {"stage"}),
           handler'[s].pc \notin {"waiting", "unload", "storeData"},
           handler'[s].op = handler[s].op, handler'[s].repo = handler[s].repo,
           handler'[s].atoms = handler[s].atoms, handler'[s].target = handler[s].target,
           handler'[s].commit = handler[s].commit,
           \A r \in Repos : heap'[r].pc = heap[r].pc, UNCHANGED <<commits, gone>>
    PROVE  HandlerOk(s)' /\ OwnCommit(s)
<1>1. handler[s].repo \in Repos /\ heap[handler[s].repo].pc = "ready"
  BY DEF Shape, RepoInv, RepoOk, Using, Committing, Resetting
<1>2. ChangeOk(s, handler'[s], gone')
  BY DEF Shape, ChangeInv, ChangeOk
<1>3. RepoOk(handler'[s], heap', promise')
  BY <1>1 DEF RepoOk
<1>4. CommitOk(handler'[s], Stored')
  <2>1. Stored' = Stored /\ handler[s].pc # "storeData"
    BY DEF Stored, Using, Committing, Resetting
  <2> QED
    BY <2>1 DEF Shape, CommitInv, CommitOk
<1> QED
  BY <1>2, <1>3, <1>4 DEF HandlerOk, OwnCommit

LEMMA StageAtomsShape ==
    ASSUME Shape, NEW s \in Slots, StageAtoms(s)
    PROVE  Shape'
<1>1. /\ handler' \in [Slots -> Handler] /\ Others(s)
      /\ handler'[s].pc = "answer" /\ handler'[s].op = handler[s].op
      /\ handler'[s].repo = handler[s].repo /\ handler'[s].atoms = handler[s].atoms
      /\ handler'[s].target = handler[s].target /\ handler'[s].commit = handler[s].commit
  BY GotoEffect, LabelTypes DEF StageAtoms, Shape, TypeOK
<1>2. handler[s].pc = "stage" /\ handler[s].op \in {"add", "remove"}
  BY DEF StageAtoms, Shape, OpInv, OpOk
<1>3. PICK changed : changed = IF handler[s].new THEN handler[s].atoms ELSE {}
  OBVIOUS
<1>4. changed \in SUBSET Atoms /\ (handler[s].op = "remove" => changed \subseteq gone)
  BY <1>3 DEF Shape, TypeOK, Handler, ChangeInv, ChangeOk
<1>5. stage' = IF handler[s].op = "add" THEN [stage EXCEPT !.add = @ \cup changed]
               ELSE [stage EXCEPT !.del = @ \cup changed]
  BY <1>3 DEF StageAtoms
<1>6. stage' \in [add : SUBSET Atoms, del : SUBSET Atoms] /\ stage'.del \subseteq gone
  BY <1>2, <1>4, <1>5 DEF Shape, TypeOK, ClientInv
<1>7. UNCHANGED <<exists, head, commits, heap, loaded, promise, entry, channel, conn, view, events,
                  crashes, acked, gone, goneAcked, contended>>
  BY DEF StageAtoms, memory, clients, bounds, history
<1>8. TypeOK' /\ ClientInv'
  BY <1>1, <1>6, <1>7 DEF Shape, TypeOK, ClientInv, Stored
<1>9. OpOk(s, handler'[s])
  BY <1>1, <1>2 DEF Shape, OpInv, OpOk
<1>10. HandlerOk(s)' /\ OwnCommit(s)
  BY <1>1, <1>2, <1>7, <1>9, GotoOk
<1> QED
  BY <1>1, <1>7, <1>8, <1>10, MoveShape

LEMMA AtomsReceivedShape ==
    ASSUME Shape, NEW s \in Slots, AtomsReceived(s)
    PROVE  Shape'
<1>1. handler' \in [Slots -> Handler] /\ Others(s) /\ handler'[s] = Idle
  BY EndEffect DEF AtomsReceived, Shape, TypeOK
<1>2. handler[s].pc = "answer" /\ handler[s].op \in {"add", "remove"}
  BY DEF AtomsReceived, Shape, OpInv, OpOk
<1>3. /\ handler[s].atoms \in SUBSET Atoms
      /\ handler[s].op = "remove" => handler[s].atoms \subseteq gone
  BY DEF Shape, TypeOK, Handler, ChangeInv, ChangeOk
<1>4. PICK x \in SUBSET Atoms, y \in SUBSET Atoms : Send({s[1]}, x, y)
  BY <1>2, <1>3, CommitTypes DEF AtomsReceived
<1>5. /\ view' \in [Devices -> AtomSets]
      /\ \A e \in Devices : view'[e] # Missing => view[e] # Missing
  BY <1>4 DEF Send, Shape, TypeOK, AtomSets
<1>6. /\ acked' \in SUBSET Atoms /\ goneAcked' \in SUBSET Atoms
      /\ \/ goneAcked' = goneAcked
         \/ goneAcked' = goneAcked \cup handler[s].atoms /\ handler[s].op = "remove"
  BY <1>2, <1>3 DEF AtomsReceived, Shape, TypeOK
<1>7. UNCHANGED <<exists, head, commits, stage, heap, loaded, promise, entry, channel, conn, events,
                  crashes, gone, contended>>
  BY DEF AtomsReceived, stores, memory, bounds
<1>8. TypeOK'
  BY <1>1, <1>5, <1>6, <1>7 DEF Shape, TypeOK, Stored
<1>9. ClientInv'
  BY <1>3, <1>5, <1>6, <1>7 DEF Shape, ClientInv
<1> QED
  BY <1>1, <1>7, <1>8, <1>9, IdleOk, MoveShape

(* ADD_ATOMS changes the working set of a repo, but not its commit. *)
LEMMA ApplyShape ==
    ASSUME Shape, NEW s \in Slots, NEW r \in Repos, NEW op \in {"add", "remove"}, HasRepo(s, op, r),
           NEW b, AppliedTo(s, r, b), heap' \in [Repos -> Repo],
           \A q \in Repos : heap'[q].pc = heap[q].pc /\ heap'[q].current = heap[q].current,
           contended' \in SUBSET Atoms,
           UNCHANGED <<exists, head, commits, stage, loaded, promise, entry, channel, conn, view,
                       events, crashes, acked, gone, goneAcked>>
    PROVE  Shape'
<1>1. handler[s].op = op /\ handler[s].pc \in {"repo", "resume"} /\ heap[r].pc = "ready"
  BY HasRepoFacts
<1>2. TypeOK' /\ ClientInv'
  BY DEF AppliedTo, Shape, TypeOK, ClientInv, Stored
<1>3. Stored' = Stored
  BY DEF Stored
<1>4. HandlerOk(s)' /\ OwnCommit(s)
  <2>1. OpOk(s, handler'[s]) /\ ChangeOk(s, handler'[s], gone)
    BY <1>1 DEF AppliedTo, Shape, OpInv, ChangeInv, OpOk, ChangeOk
  <2>2. RepoOk(handler'[s], heap', promise)
    BY <1>1 DEF AppliedTo, RepoOk, Using, Committing, Resetting
  <2>3. CommitOk(handler'[s], Stored)
    BY <1>1 DEF AppliedTo, Shape, CommitInv, CommitOk
  <2> QED
    BY <1>3, <2>1, <2>2, <2>3 DEF HandlerOk, OwnCommit, AppliedTo
<1>5. HeapInv'
  <2>1. loaded \in Repos \cup {NoRepo} /\ promise \in Repos \cup {NoRepo}
    BY DEF Shape, TypeOK
  <2> QED
    BY <2>1 DEF Shape, HeapInv
<1>6. /\ \A t \in Slots : t # s /\ handler[t].pc = "storeData" => handler[t].commit \notin Stored
      /\ \A q \in Repos : heap[q].current \in Stored \cup {NoCommit}
  BY DEF Shape, CommitInv, CommitOk
<1> QED
  BY <1>2, <1>3, <1>4, <1>5, <1>6, HandlerShape DEF AppliedTo

LEMMA ApplyAddShape ==
    ASSUME Shape, NEW s \in Slots, ApplyAdd(s)
    PROVE  Shape'
<1>1. PICK r \in Repos, a \in handler[s].atoms :
        /\ HasRepo(s, "add", r)
        /\ handler' = [handler EXCEPT ![s].pc = "stage", ![s].repo = r,
                                      ![s].new = a \notin heap[r].atoms]
        /\ heap' = heap \/ heap' = [heap EXCEPT ![r].atoms = @ \cup {a}, ![r].add = @ \cup {a},
                                                ![r].del = @ \ {a}]
        /\ contended' \subseteq contended \cup {a}
  BY DEF ApplyAdd, Contend
<1>2. \E b : AppliedTo(s, r, b)
  <2>1. PICK b : b = (a \notin heap[r].atoms)
    OBVIOUS
  <2>2. b \in BOOLEAN
    BY <2>1
  <2>3. handler' = [handler EXCEPT ![s].pc = "stage", ![s].repo = r, ![s].new = b]
    BY <1>1, <2>1, Zenon
  <2> QED
    BY <2>2, <2>3, ApplyEffect DEF Shape, TypeOK
<1>3. a \in Atoms /\ contended' \in SUBSET Atoms
  BY <1>1 DEF Shape, TypeOK, Handler
<1>4. /\ heap' \in [Repos -> Repo]
      /\ \A q \in Repos : heap'[q].pc = heap[q].pc /\ heap'[q].current = heap[q].current
  BY <1>1, <1>3, AddEffect DEF Shape, TypeOK, OtherRepos
<1>5. UNCHANGED <<exists, head, commits, stage, loaded, promise, entry, channel, conn, view, events,
                  crashes, acked, gone, goneAcked>>
  BY DEF ApplyAdd, stores, clients, bounds
<1> QED
  BY <1>1, <1>2, <1>3, <1>4, <1>5, ApplyShape

LEMMA ApplyRemoveShape ==
    ASSUME Shape, NEW s \in Slots, ApplyRemove(s)
    PROVE  Shape'
<1>1. PICK r \in Repos, a \in handler[s].atoms :
        /\ HasRepo(s, "remove", r)
        /\ handler' = [handler EXCEPT ![s].pc = "stage", ![s].repo = r,
                                      ![s].new = a \in heap[r].atoms]
        /\ heap' = heap \/ heap' = [heap EXCEPT ![r].atoms = @ \ {a}, ![r].add = @ \ {a},
                                                ![r].del = @ \cup {a}]
        /\ contended' \subseteq contended \cup {a}
  BY DEF ApplyRemove, Contend
<1>2. \E b : AppliedTo(s, r, b)
  <2>1. PICK b : b = (a \in heap[r].atoms)
    OBVIOUS
  <2>2. b \in BOOLEAN
    BY <2>1
  <2>3. handler' = [handler EXCEPT ![s].pc = "stage", ![s].repo = r, ![s].new = b]
    BY <1>1, <2>1, Zenon
  <2> QED
    BY <2>2, <2>3, ApplyEffect DEF Shape, TypeOK
<1>3. a \in Atoms /\ contended' \in SUBSET Atoms
  BY <1>1 DEF Shape, TypeOK, Handler
<1>4. /\ heap' \in [Repos -> Repo]
      /\ \A q \in Repos : heap'[q].pc = heap[q].pc /\ heap'[q].current = heap[q].current
  BY <1>1, <1>3, RemoveEffect DEF Shape, TypeOK, OtherRepos
<1>5. UNCHANGED <<exists, head, commits, stage, loaded, promise, entry, channel, conn, view, events,
                  crashes, acked, gone, goneAcked>>
  BY DEF ApplyRemove, stores, clients, bounds
<1> QED
  BY <1>1, <1>2, <1>3, <1>4, <1>5, ApplyShape

-----------------------------------------------------------------------------
(* commit() takes the working set. *)
LEMMA TakeShape ==
    ASSUME Shape, NEW s \in Slots, NEW r \in Repos, NEW op \in {"commit", "restore", "unload"},
           TakeCommit(s, r, op), heap[r].pc = "ready",
           op = "restore" => handler[s].op = "restore", s[2] = "disconnect" => op = "unload",
           promise' \in {promise, NoRepo}, HeapInv',
           UNCHANGED <<exists, head, commits, stage, heap, loaded, entry, channel, conn, view,
                       events, crashes, acked, gone, goneAcked>>
    PROVE  Shape'
<1>1. Taken(s, r, op)
  BY TakeCommitEffect, OpTypes DEF Shape, TypeOK
<1>2. contended' \in SUBSET Atoms
  BY DEF TakeCommit, Contend, Shape, TypeOK
<1>3. Stored' = Stored
  BY DEF Stored
<1>4. TypeOK' /\ ClientInv'
  BY <1>1, <1>2, <1>3 DEF Taken, Shape, TypeOK, ClientInv
<1>5. HandlerOk(s)' /\ OwnCommit(s)
  BY <1>1, TakenOk
<1>6. /\ \A t \in Slots : t # s /\ handler[t].pc = "storeData" => handler[t].commit \notin Stored
      /\ \A q \in Repos : heap[q].current \in Stored \cup {NoCommit}
  BY DEF Shape, CommitInv, CommitOk
<1> QED
  BY <1>1, <1>3, <1>4, <1>5, <1>6, HandlerShape DEF Taken

LEMMA CommitShape ==
    ASSUME Shape, NEW d \in Devices, Commit(d)
    PROVE  Shape'
<1>1. PICK s \in Slots, r \in Repos :
        /\ s = Events(d) /\ s[2] = "events" /\ HasRepo(s, "commit", r)
        /\ \/ TakeCommit(s, r, "commit")
           \/ End(s) /\ UNCHANGED contended
  BY SlotFacts DEF Commit
<1>2. UNCHANGED <<exists, head, commits, stage, heap, loaded, promise, entry, channel, conn, view,
                  events, crashes, acked, gone, goneAcked>>
  BY DEF Commit, stores, memory, clients, bounds
<1>3. CASE TakeCommit(s, r, "commit")
  <2>1. HeapInv' /\ heap[r].pc = "ready"
    BY <1>1, <1>2, HasRepoFacts DEF Shape, HeapInv
  <2> QED
    BY <1>1, <1>2, <1>3, <2>1, TakeShape
<1>4. CASE End(s) /\ UNCHANGED contended
  <2>1. handler' \in [Slots -> Handler] /\ Others(s) /\ handler'[s] = Idle
    BY <1>4, EndEffect DEF Shape, TypeOK
  <2>2. TypeOK' /\ ClientInv'
    BY <1>2, <1>4, <2>1 DEF Shape, TypeOK, ClientInv, Stored
  <2> QED
    BY <1>2, <2>1, <2>2, IdleOk, MoveShape
<1> QED
  BY <1>1, <1>3, <1>4

LEMMA RestoreEventShape ==
    ASSUME Shape, NEW d \in Devices, RestoreEvent(d)
    PROVE  Shape'
<1>1. PICK s \in Slots, r \in Repos :
        /\ s = Events(d) /\ s[2] = "events" /\ HasRepo(s, "restore", r)
        /\ \/ TakeCommit(s, r, "restore")
           \/ /\ handler' = [handler EXCEPT ![s].pc = "restore", ![s].repo = r]
              /\ UNCHANGED contended
  BY SlotFacts DEF RestoreEvent
<1>2. UNCHANGED <<exists, head, commits, stage, heap, loaded, promise, entry, channel, conn, view,
                  events, crashes, acked, gone, goneAcked>>
  BY DEF RestoreEvent, stores, memory, clients, bounds
<1>3. /\ heap[r].pc = "ready" /\ s[2] = "events"
      /\ handler[s].op = "restore" /\ handler[s].pc \in {"repo", "resume"}
  BY <1>1, HasRepoFacts
<1>4. CASE TakeCommit(s, r, "restore")
  <2>1. HeapInv'
    BY <1>2 DEF Shape, HeapInv
  <2> QED
    BY <1>2, <1>3, <1>4, <2>1, TakeShape
<1>5. CASE /\ handler' = [handler EXCEPT ![s].pc = "restore", ![s].repo = r]
           /\ UNCHANGED contended
  <2>1. /\ handler' \in [Slots -> Handler] /\ Others(s)
        /\ handler'[s].op = handler[s].op /\ handler'[s].pc = "restore"
        /\ handler'[s].repo = r /\ handler'[s].atoms = handler[s].atoms
        /\ handler'[s].target = handler[s].target /\ handler'[s].commit = handler[s].commit
    BY <1>5, RestoreEffect DEF Shape, TypeOK
  <2>2. TypeOK' /\ ClientInv'
    BY <1>2, <1>5, <2>1 DEF Shape, TypeOK, ClientInv, Stored
  <2>3. OpOk(s, handler'[s]) /\ ChangeOk(s, handler'[s], gone)
    BY <1>3, <2>1 DEF OpOk, ChangeOk
  <2>4. RepoOk(handler'[s], heap, promise)
    BY <1>3, <2>1 DEF RepoOk
  <2>5. CommitOk(handler'[s], Stored) /\ Stored' = Stored
    BY <1>2, <1>3, <2>1 DEF Shape, CommitInv, CommitOk, Stored
  <2>6. HandlerOk(s)' /\ OwnCommit(s)
    BY <1>2, <2>1, <2>3, <2>4, <2>5 DEF HandlerOk, OwnCommit
  <2> QED
    BY <1>2, <2>1, <2>2, <2>6, MoveShape
<1> QED
  BY <1>1, <1>4, <1>5

LEMMA CheckoutEventShape ==
    ASSUME Shape, NEW d \in Devices, CheckoutEvent(d)
    PROVE  Shape'
<1>1. PICK s \in Slots, r \in Repos :
        /\ s = Events(d) /\ s[2] = "events" /\ HasRepo(s, "checkout", r)
        /\ handler' = [handler EXCEPT ![s].pc = "resetHead", ![s].repo = r,
                                      ![s].commit = handler[s].target]
  BY SlotFacts DEF CheckoutEvent
<1>2. UNCHANGED <<exists, head, commits, stage, heap, loaded, promise, entry, channel, conn, view,
                  events, crashes, acked, gone, goneAcked, contended>>
  BY DEF CheckoutEvent, stores, memory, clients, bounds, history
<1>3. /\ heap[r].pc = "ready" /\ s[2] = "events"
      /\ handler[s].op = "checkout" /\ handler[s].pc \in {"repo", "resume"}
  BY <1>1, HasRepoFacts
<1>4. handler[s].target \in Stored /\ handler[s].target \in Commits \cup {NoCommit}
  BY <1>3 DEF Shape, CommitInv, CommitOk, TypeOK, Handler
<1>5. ResetBegun(s, r, handler[s].target)
  BY <1>1, <1>4, ResetEffect DEF Shape, TypeOK
<1>6. TypeOK' /\ ClientInv'
  BY <1>2, <1>5 DEF ResetBegun, Shape, TypeOK, ClientInv, Stored
<1>7. HandlerOk(s)' /\ OwnCommit(s)
  <2>1. OpOk(s, handler'[s]) /\ ChangeOk(s, handler'[s], gone)
    BY <1>3, <1>5 DEF ResetBegun, OpOk, ChangeOk
  <2>2. RepoOk(handler'[s], heap, promise)
    BY <1>3, <1>5 DEF ResetBegun, RepoOk
  <2>3. CommitOk(handler'[s], Stored) /\ Stored' = Stored
    BY <1>2, <1>3, <1>4, <1>5 DEF ResetBegun, CommitOk, Stored
  <2> QED
    BY <1>2, <1>5, <2>1, <2>2, <2>3 DEF HandlerOk, OwnCommit, ResetBegun
<1> QED
  BY <1>2, <1>5, <1>6, <1>7, MoveShape DEF ResetBegun

(* A repo that is unloaded was loaded: no load is under way. *)
LEMMA UnloadHeap ==
    ASSUME Shape, NEW s \in Slots, UnloadBranch(s), loaded' \in {loaded, NoRepo}
    PROVE  HeapInv'
<1>1. /\ promise \in {handler[s].repo, NoRepo}
      /\ handler[s].repo # NoRepo => heap[handler[s].repo].pc = "ready"
  BY DEF UnloadBranch, Shape, RepoInv, RepoOk
<1>2. \A q \in Repos : heap[q].pc \notin {"checkout", "saveHead", "getStage", "failed"}
  BY <1>1, RepoServerAssumption DEF Shape, HeapInv, NoRepo
<1>3. promise' = NoRepo /\ UNCHANGED <<heap, exists>>
  BY DEF UnloadBranch, stores
<1> QED
  BY <1>2, <1>3 DEF Shape, HeapInv

LEMMA UnloadedShape ==
    ASSUME Shape, NEW s \in Slots, Unloaded(s), promise' \in {promise, NoRepo}, HeapInv',
           UNCHANGED <<exists, head, commits, stage, heap, channel, conn, view, events, crashes,
                       acked, gone, goneAcked, contended>>
    PROVE  Shape'
<1>1. /\ handler' \in [Slots -> Handler] /\ Others(s) /\ handler'[s] = Idle
      /\ loaded' = NoRepo /\ entry' = FALSE
  BY EndEffect DEF Unloaded, Shape, TypeOK
<1>2. Stored' = Stored
  BY DEF Stored
<1>3. TypeOK' /\ ClientInv'
  BY <1>1, <1>2 DEF Shape, TypeOK, ClientInv
<1>4. /\ \A t \in Slots : t # s /\ handler[t].pc = "storeData" => handler[t].commit \notin Stored
      /\ \A q \in Repos : heap[q].current \in Stored \cup {NoCommit}
  BY DEF Shape, CommitInv, CommitOk
<1> QED
  BY <1>1, <1>2, <1>3, <1>4, IdleOk, HandlerShape

LEMMA UnloadBranchShape ==
    ASSUME Shape, NEW s \in Slots, UnloadBranch(s)
    PROVE  Shape'
<1>1. handler[s].repo \in Repos \cup {NoRepo}
  BY DEF Shape, TypeOK, Handler
<1>2. \/ /\ handler[s].repo \in Repos /\ heap[handler[s].repo].pc = "ready"
         /\ TakeCommit(s, handler[s].repo, "unload") /\ UNCHANGED <<loaded, entry>>
      \/ Unloaded(s) /\ UNCHANGED contended
  BY <1>1 DEF UnloadBranch
<1>3. /\ promise' = NoRepo
      /\ UNCHANGED <<exists, head, commits, stage, heap, channel, conn, view, events, crashes,
                     acked, gone, goneAcked>>
  BY DEF UnloadBranch, stores, clients, bounds
<1>4. HeapInv'
  BY <1>2, UnloadHeap DEF Unloaded
<1> QED
  BY <1>2, <1>3, <1>4, TakeShape, UnloadedShape

LEMMA UnloadCommittedShape ==
    ASSUME Shape, NEW s \in Slots, UnloadCommitted(s)
    PROVE  Shape'
<1>1. /\ Unloaded(s)
      /\ UNCHANGED <<exists, head, commits, stage, heap, promise, channel, conn, view, events,
                     crashes, acked, gone, goneAcked, contended>>
  BY DEF UnloadCommitted, stores, clients, bounds, history
<1>2. HeapInv'
  BY <1>1 DEF Unloaded, Shape, HeapInv
<1> QED
  BY <1>1, <1>2, UnloadedShape

-----------------------------------------------------------------------------
(* A handler stores the commit c, which no other handler has. *)
LEMMA StoreShape ==
    ASSUME Shape, NEW s \in Slots, NEW c \in Commits, c \notin Stored, Others(s),
           \A t \in Slots : t # s => handler[t].commit # c,
           handler' \in [Slots -> Handler], NEW atoms \in SUBSET Atoms,
           commits' = [commits EXCEPT ![c] = atoms],
           handler[s].pc \in {"storeData", "restore"},
           handler'[s].pc \in {"saveHead", "resetHead"}, OpOk(s, handler'[s]),
           handler'[s].commit = c, handler'[s].op = handler[s].op,
           handler'[s].repo = handler[s].repo, handler'[s].target = handler[s].target,
           UNCHANGED <<exists, head, stage, heap, loaded, promise, entry, channel, conn, view,
                       events, crashes, acked, gone, goneAcked, contended>>
    PROVE  Shape'
<1>1. Stored' = Stored \cup {c} /\ commits' \in [Commits -> AtomSets]
  BY MissingIsNone DEF Shape, TypeOK, Stored, AtomSets
<1>2. TypeOK'
  BY <1>1 DEF Shape, TypeOK
<1>3. ClientInv' /\ HeapInv'
  BY DEF Shape, ClientInv, HeapInv
<1>4. handler[s].op \in {"commit", "restore", "unload"}
  BY DEF Shape, OpInv, OpOk
<1>5. ChangeOk(s, handler'[s], gone)
  BY <1>4 DEF ChangeOk
<1>6. RepoOk(handler'[s], heap, promise)
  BY DEF Shape, RepoInv, RepoOk, Using, Committing, Resetting
<1>7. CommitOk(handler'[s], Stored')
  BY <1>1 DEF Shape, CommitInv, CommitOk
<1>8. HandlerOk(s)' /\ OwnCommit(s)
  BY <1>5, <1>6, <1>7 DEF HandlerOk, OwnCommit
<1>9. /\ \A t \in Slots : t # s /\ handler[t].pc = "storeData" => handler[t].commit \notin Stored'
      /\ \A q \in Repos : heap[q].current \in Stored' \cup {NoCommit}
  BY <1>1 DEF Shape, CommitInv, CommitOk
<1> QED
  BY <1>1, <1>2, <1>3, <1>8, <1>9, HandlerShape

LEMMA StoreDataShape ==
    ASSUME Shape, NEW s \in Slots, StoreData(s)
    PROVE  Shape'
<1>1. /\ handler' \in [Slots -> Handler] /\ Others(s)
      /\ handler'[s].op = handler[s].op /\ handler'[s].pc = "saveHead"
      /\ handler'[s].repo = handler[s].repo /\ handler'[s].target = handler[s].target
      /\ handler'[s].commit = handler[s].commit
  BY StoreEffect DEF StoreData, Shape, TypeOK
<1>2. PICK c : c = handler[s].commit
  OBVIOUS
<1>3. /\ handler[s].pc = "storeData" /\ c \in Commits /\ c \notin Stored
      /\ handler[s].atoms \in SUBSET Atoms /\ \A t \in Slots : t # s => handler[t].commit # c
  BY <1>2 DEF StoreData, Shape, CommitInv, CommitOk, UniqueInv, TypeOK, Handler
<1>4. OpOk(s, handler'[s])
  BY <1>1, <1>3 DEF Shape, OpInv, OpOk
<1>5. commits' = [commits EXCEPT ![c] = handler[s].atoms]
  BY <1>2 DEF StoreData
<1>6. UNCHANGED <<exists, head, stage, heap, loaded, promise, entry, channel, conn, view, events,
                  crashes, acked, gone, goneAcked, contended>>
  BY DEF StoreData, memory, clients, bounds, history
<1> QED
  BY <1>1, <1>2, <1>3, <1>4, <1>5, <1>6, StoreShape

LEMMA StoreRestoredShape ==
    ASSUME Shape, NEW s \in Slots, StoreRestored(s)
    PROVE  Shape'
<1>1. PICK c \in Commits :
        /\ NextCommit(c)
        /\ commits' = [commits EXCEPT ![c] = commits[handler[s].target]]
        /\ handler' = [handler EXCEPT ![s].pc = "resetHead", ![s].commit = c]
  BY DEF StoreRestored
<1>2. /\ handler' \in [Slots -> Handler] /\ Others(s)
      /\ handler'[s].op = handler[s].op /\ handler'[s].pc = "resetHead"
      /\ handler'[s].repo = handler[s].repo /\ handler'[s].target = handler[s].target
      /\ handler'[s].commit = c
  BY <1>1, RestoredEffect DEF Shape, TypeOK
<1>3. c \notin Stored /\ \A t \in Slots : handler[t].commit # c
  BY <1>1 DEF NextCommit
<1>4. handler[s].pc = "restore" /\ handler[s].op = "restore" /\ handler[s].target \in Stored
  BY DEF StoreRestored, Shape, OpInv, OpOk, CommitInv, CommitOk
<1>5. commits[handler[s].target] \in SUBSET Atoms
  BY <1>4 DEF Shape, Stored, TypeOK, AtomSets
<1>6. OpOk(s, handler'[s])
  BY <1>2, <1>4 DEF Shape, OpInv, OpOk
<1>7. UNCHANGED <<exists, head, stage, heap, loaded, promise, entry, channel, conn, view, events,
                  crashes, acked, gone, goneAcked, contended>>
  BY DEF StoreRestored, memory, clients, bounds, history
<1> QED
  BY <1>1, <1>2, <1>3, <1>4, <1>5, <1>6, <1>7, StoreShape

LEMMA SaveHeadShape ==
    ASSUME Shape, NEW s \in Slots, SaveHead(s)
    PROVE  Shape'
<1>1. /\ handler' \in [Slots -> Handler] /\ Others(s)
      /\ handler'[s].pc = "setCurrent" /\ handler'[s].op = handler[s].op
      /\ handler'[s].repo = handler[s].repo /\ handler'[s].atoms = handler[s].atoms
      /\ handler'[s].target = handler[s].target /\ handler'[s].commit = handler[s].commit
  BY GotoEffect, LabelTypes DEF SaveHead, Shape, TypeOK
<1>2. handler[s].pc = "saveHead" /\ OpOk(s, handler'[s])
  BY <1>1 DEF SaveHead, Shape, OpInv, OpOk
<1>3. head' = handler[s].commit /\ handler[s].commit \in Stored \cup {NoCommit}
  BY <1>2 DEF SaveHead, Shape, CommitInv, CommitOk
<1>4. UNCHANGED <<exists, commits, stage, heap, loaded, promise, entry, channel, conn, view, events,
                  crashes, acked, gone, goneAcked, contended>>
  BY DEF SaveHead, memory, clients, bounds, history
<1>5. Stored' = Stored
  BY <1>4 DEF Stored
<1>6. TypeOK' /\ ClientInv'
  BY <1>1, <1>3, <1>4, <1>5 DEF Shape, TypeOK, ClientInv
<1>7. HandlerOk(s)' /\ OwnCommit(s)
  BY <1>1, <1>2, <1>4, GotoOk DEF Using, Committing
<1> QED
  BY <1>1, <1>4, <1>6, <1>7, MoveShape

LEMMA ResetHeadShape ==
    ASSUME Shape, NEW s \in Slots, ResetHead(s)
    PROVE  Shape'
<1>1. /\ handler' \in [Slots -> Handler] /\ Others(s)
      /\ handler'[s].pc = "resetCurrent" /\ handler'[s].op = handler[s].op
      /\ handler'[s].repo = handler[s].repo /\ handler'[s].atoms = handler[s].atoms
      /\ handler'[s].target = handler[s].target /\ handler'[s].commit = handler[s].commit
  BY GotoEffect, LabelTypes DEF ResetHead, Shape, TypeOK
<1>2. handler[s].pc = "resetHead" /\ OpOk(s, handler'[s])
  BY <1>1 DEF ResetHead, Shape, OpInv, OpOk
<1>3. head' = handler[s].commit /\ handler[s].commit \in Stored \cup {NoCommit}
  BY <1>2 DEF ResetHead, Shape, CommitInv, CommitOk
<1>4. /\ acked' \in SUBSET Atoms /\ goneAcked' \subseteq goneAcked
      /\ UNCHANGED <<exists, commits, stage, heap, loaded, promise, entry, channel, conn, view,
                     events, crashes, gone>>
  BY DEF ResetHead, memory, clients, bounds, Shape, TypeOK
<1>5. Pending(s) \subseteq Atoms /\ stage.add \subseteq Atoms /\ stage.del \subseteq Atoms
  BY DEF Pending, Handler, Shape, TypeOK
<1>6. contended' \in SUBSET Atoms
  BY <1>5 DEF ResetHead, Contend, Shape, TypeOK
<1>7. Stored' = Stored
  BY <1>4 DEF Stored
<1>8. TypeOK' /\ ClientInv'
  BY <1>1, <1>3, <1>4, <1>6, <1>7 DEF Shape, TypeOK, ClientInv
<1>9. HandlerOk(s)' /\ OwnCommit(s)
  BY <1>1, <1>2, <1>4, GotoOk DEF Using, Resetting
<1> QED
  BY <1>1, <1>4, <1>8, <1>9, MoveShape

(* _setCurrentCommit: the commit of a handler is loaded into its repo. *)
LEMMA SetCurrentShape ==
    ASSUME Shape, NEW s \in Slots, Others(s), handler' \in [Slots -> Handler],
           SetCurrentCommit(handler[s].repo, handler[s].commit),
           handler[s].pc \in {"setCurrent", "resetCurrent"}, OpOk(s, handler'[s]),
           handler'[s].pc \in {"clearAdded", "sendReset"}, handler'[s].op = handler[s].op,
           handler'[s].repo = handler[s].repo, handler'[s].atoms = handler[s].atoms,
           handler'[s].target = handler[s].target, handler'[s].commit = handler[s].commit,
           UNCHANGED <<exists, head, commits, stage, loaded, promise, entry, channel, conn, view,
                       events, crashes, acked, gone, goneAcked, contended>>
    PROVE  Shape'
<1>1. PICK r, c, x : r = handler[s].repo /\ c = handler[s].commit /\ x = AtomsOf(handler[s].commit)
  OBVIOUS
<1>2. r \in Repos /\ c \in Stored \cup {NoCommit}
  BY <1>1 DEF Shape, RepoInv, RepoOk, CommitInv, CommitOk, Using, Committing, Resetting
<1>3. c \in Commits \cup {NoCommit} /\ x \in SUBSET Atoms
  BY <1>1, <1>2, AtomsOfType DEF Shape
<1>4. heap' = [heap EXCEPT ![r].current = c, ![r].atoms = x, ![r].add = {}, ![r].del = {}]
  BY <1>1 DEF SetCurrentCommit
<1>5. CurrentSet(r, c, x)
  BY <1>2, <1>3, <1>4, SetCurrentEffect DEF Shape, TypeOK
<1>6. /\ heap' \in [Repos -> Repo]
      /\ \A q \in Repos : heap'[q].pc = heap[q].pc /\ heap'[q].current \in {heap[q].current, c}
  BY <1>5 DEF CurrentSet, OtherRepos
<1>7. Stored' = Stored
  BY DEF Stored
<1>8. TypeOK' /\ ClientInv'
  BY <1>6, <1>7 DEF Shape, TypeOK, ClientInv
<1>9. HeapInv'
  <2>1. loaded \in Repos \cup {NoRepo} /\ promise \in Repos \cup {NoRepo}
    BY DEF Shape, TypeOK
  <2> QED
    BY <1>6, <2>1 DEF Shape, HeapInv
<1>10. HandlerOk(s)' /\ OwnCommit(s)
  BY <1>6, GotoOk DEF Using, Committing, Resetting
<1>11. /\ \A t \in Slots : t # s /\ handler[t].pc = "storeData" => handler[t].commit \notin Stored
       /\ \A q \in Repos : heap'[q].current \in Stored \cup {NoCommit}
  BY <1>2, <1>6 DEF Shape, CommitInv, CommitOk
<1> QED
  BY <1>6, <1>7, <1>8, <1>9, <1>10, <1>11, HandlerShape

LEMMA CheckoutHeadShape ==
    ASSUME Shape, NEW s \in Slots, CheckoutHead(s)
    PROVE  Shape'
<1>1. /\ handler' \in [Slots -> Handler] /\ Others(s)
      /\ handler'[s].pc = "clearAdded" /\ handler'[s].op = handler[s].op
      /\ handler'[s].repo = handler[s].repo /\ handler'[s].atoms = handler[s].atoms
      /\ handler'[s].target = handler[s].target /\ handler'[s].commit = handler[s].commit
  BY GotoEffect, LabelTypes DEF CheckoutHead, Shape, TypeOK
<1>2. handler[s].pc = "setCurrent" /\ OpOk(s, handler'[s])
  BY <1>1 DEF CheckoutHead, Shape, OpInv, OpOk
<1>3. /\ SetCurrentCommit(handler[s].repo, handler[s].commit)
      /\ UNCHANGED <<exists, head, commits, stage, loaded, promise, entry, channel, conn, view,
                     events, crashes, acked, gone, goneAcked, contended>>
  BY DEF CheckoutHead, stores, clients, bounds, history
<1> QED
  BY <1>1, <1>2, <1>3, SetCurrentShape

LEMMA ResetCurrentShape ==
    ASSUME Shape, NEW s \in Slots, ResetCurrent(s)
    PROVE  Shape'
<1>1. PICK l \in {"clearAdded", "sendReset"} :
        l = IF handler[s].op = "checkout" THEN "clearAdded" ELSE "sendReset"
  OBVIOUS
<1>2. /\ handler' \in [Slots -> Handler] /\ Others(s)
      /\ handler'[s].pc = l /\ handler'[s].op = handler[s].op
      /\ handler'[s].repo = handler[s].repo /\ handler'[s].atoms = handler[s].atoms
      /\ handler'[s].target = handler[s].target /\ handler'[s].commit = handler[s].commit
  BY <1>1, GotoEffect, LabelTypes DEF ResetCurrent, Shape, TypeOK
<1>3. handler[s].pc = "resetCurrent" /\ OpOk(s, handler'[s])
  BY <1>1, <1>2 DEF ResetCurrent, Shape, OpInv, OpOk
<1>4. /\ SetCurrentCommit(handler[s].repo, handler[s].commit)
      /\ UNCHANGED <<exists, head, commits, stage, loaded, promise, entry, channel, conn, view,
                     events, crashes, acked, gone, goneAcked, contended>>
  BY DEF ResetCurrent, stores, clients, bounds, history
<1> QED
  BY <1>2, <1>3, <1>4, SetCurrentShape

LEMMA ClearAddedShape ==
    ASSUME Shape, NEW s \in Slots, ClearAdded(s)
    PROVE  Shape'
<1>1. /\ handler' \in [Slots -> Handler] /\ Others(s)
      /\ handler'[s].pc = "clearRemoved" /\ handler'[s].op = handler[s].op
      /\ handler'[s].repo = handler[s].repo /\ handler'[s].atoms = handler[s].atoms
      /\ handler'[s].target = handler[s].target /\ handler'[s].commit = handler[s].commit
  BY GotoEffect, LabelTypes DEF ClearAdded, Shape, TypeOK
<1>2. handler[s].pc = "clearAdded" /\ OpOk(s, handler'[s])
  BY <1>1 DEF ClearAdded, Shape, OpInv, OpOk
<1>3. /\ stage' \in [add : SUBSET Atoms, del : SUBSET Atoms] /\ stage'.del = stage.del
      /\ UNCHANGED <<exists, head, commits, heap, loaded, promise, entry, channel, conn, view,
                     events, crashes, acked, gone, goneAcked, contended>>
  BY DEF ClearAdded, memory, clients, bounds, history, Shape, TypeOK
<1>4. TypeOK' /\ ClientInv'
  BY <1>1, <1>3 DEF Shape, TypeOK, ClientInv, Stored
<1>5. HandlerOk(s)' /\ OwnCommit(s)
  BY <1>1, <1>2, <1>3, GotoOk DEF Using, Committing
<1> QED
  BY <1>1, <1>3, <1>4, <1>5, MoveShape

LEMMA ClearRemovedShape ==
    ASSUME Shape, NEW s \in Slots, ClearRemoved(s)
    PROVE  Shape'
<1>1. /\ handler[s].pc = "clearRemoved"
      /\ handler[s].op \in {"commit", "restore", "unload", "checkout"}
  BY DEF ClearRemoved, Shape, OpInv, OpOk
<1>2. /\ stage' \in [add : SUBSET Atoms, del : SUBSET Atoms] /\ stage'.del = {}
      /\ UNCHANGED <<exists, head, commits, heap, loaded, promise, entry, channel, conn, view,
                     events, crashes, acked, gone, goneAcked, contended>>
  BY DEF ClearRemoved, memory, clients, bounds, history, Shape, TypeOK
<1>3. ASSUME handler' \in [Slots -> Handler]
      PROVE  TypeOK' /\ ClientInv'
  BY <1>2, <1>3 DEF Shape, TypeOK, ClientInv, Stored
<1>4. CASE handler[s].op = "commit"
  <2>1. handler' \in [Slots -> Handler] /\ Others(s) /\ handler'[s] = Idle
    BY <1>4, EndEffect DEF ClearRemoved, AfterClear, Shape, TypeOK
  <2> QED
    BY <1>2, <1>3, <2>1, IdleOk, MoveShape
<1>5. CASE handler[s].op # "commit"
  <2>1. PICK l \in {"restore", "sendReset", "unloaded"} :
          /\ Goto(s, l)
          /\ l = "restore" <=> handler[s].op = "restore"
          /\ l = "sendReset" <=> handler[s].op = "checkout"
    BY <1>1, <1>5 DEF ClearRemoved, AfterClear
  <2>2. /\ handler' \in [Slots -> Handler] /\ Others(s)
        /\ handler'[s].pc = l /\ handler'[s].op = handler[s].op
        /\ handler'[s].repo = handler[s].repo /\ handler'[s].atoms = handler[s].atoms
        /\ handler'[s].target = handler[s].target /\ handler'[s].commit = handler[s].commit
    BY <2>1, GotoEffect, LabelTypes DEF Shape, TypeOK
  <2>3. OpOk(s, handler'[s])
    BY <1>1, <1>5, <2>1, <2>2 DEF Shape, OpInv, OpOk
  <2>4. HandlerOk(s)' /\ OwnCommit(s)
    BY <1>1, <1>2, <2>2, <2>3, GotoOk DEF Using, Committing
  <2> QED
    BY <1>2, <1>3, <2>2, <2>4, MoveShape
<1> QED
  BY <1>4, <1>5

LEMMA SendResetShape ==
    ASSUME Shape, NEW s \in Slots, SendReset(s)
    PROVE  Shape'
<1>1. handler' \in [Slots -> Handler] /\ Others(s) /\ handler'[s] = Idle
  BY EndEffect DEF SendReset, Shape, TypeOK
<1>2. handler[s].repo \in Repos
  BY DEF SendReset, Shape, RepoInv, RepoOk, Using, Resetting
<1>3. PICK x : x = AtomsOf(heap[handler[s].repo].current)
  OBVIOUS
<1>4. x \in SUBSET Atoms
  BY <1>2, <1>3, AtomsOfType DEF Shape, CommitInv
<1>5. /\ view' \in [Devices -> AtomSets]
      /\ \A e \in Devices : view'[e] # Missing => view[e] # Missing
  <2>1. Send({}, x, Atoms \ x)
    BY <1>3 DEF SendReset
  <2> QED
    BY <1>4, <2>1 DEF Send, Shape, TypeOK, AtomSets
<1>6. /\ contended' \in SUBSET Atoms
      /\ UNCHANGED <<exists, head, commits, stage, heap, loaded, promise, entry, channel, conn,
                     events, crashes, acked, gone, goneAcked>>
  BY DEF SendReset, Contend, Pending, Handler, stores, memory, bounds, Shape, TypeOK
<1>7. TypeOK'
  BY <1>1, <1>5, <1>6 DEF Shape, TypeOK, Stored
<1>8. ClientInv'
  BY <1>5, <1>6 DEF Shape, ClientInv
<1> QED
  BY <1>1, <1>6, <1>7, <1>8, IdleOk, MoveShape

-----------------------------------------------------------------------------
(* A device leaves, and the branch may be unloaded. *)
LEMMA LeaveShape ==
    ASSUME Shape, NEW d \in Devices, NEW s \in Slots,
           TryUnload(s, channel') \/ UNCHANGED handler,
           channel' = channel \ {d}, view' = [view EXCEPT ![d] = Missing],
           conn' \in [Devices -> {"closed", "open", "deaf"}],
           UNCHANGED <<exists, head, commits, stage, heap, loaded, promise, entry, events, crashes,
                       acked, gone, goneAcked, contended>>
    PROVE  Shape'
<1>1. /\ view' \in [Devices -> AtomSets]
      /\ \A e \in Devices : view'[e] # Missing => view[e] # Missing /\ e # d
  BY DEF Shape, TypeOK, AtomSets
<1>2. /\ handler' \in [Slots -> Handler] /\ Others(s)
      /\ \/ handler' = handler
         \/ handler'[s] = Idle
         \/ /\ handler'[s].pc = "unload" /\ handler'[s].op = "unload"
            /\ handler'[s].repo = promise /\ handler'[s].commit = NoCommit
  <2>1. CASE TryUnload(s, channel')
    BY <2>1, TryUnloadEffect DEF Shape, TypeOK
  <2>2. CASE UNCHANGED handler
    BY <2>2 DEF Shape, TypeOK, Others
  <2> QED
    BY <2>1, <2>2
<1>3. TypeOK'
  BY <1>1, <1>2 DEF Shape, TypeOK, Stored
<1>4. ClientInv'
  BY <1>1 DEF Shape, ClientInv
<1>5. (HandlerOk(s)' /\ OwnCommit(s)) \/ handler' = handler
  BY <1>2, IdleOk, UnloadOk
<1>6. CASE handler' = handler
  <2>1. Stored' = Stored
    BY DEF Stored
  <2>2. OpInv' /\ ChangeInv' /\ RepoInv' /\ HeapInv' /\ UniqueInv'
    BY <1>6 DEF Shape, OpInv, ChangeInv, RepoInv, HeapInv, UniqueInv
  <2>3. CommitInv'
    BY <1>6, <2>1 DEF Shape, CommitInv
  <2> QED
    BY <1>3, <1>4, <2>2, <2>3 DEF Shape
<1> QED
  BY <1>2, <1>3, <1>4, <1>5, <1>6, MoveShape

LEMMA UnwatchShape ==
    ASSUME Shape, NEW d \in Devices, Unwatch(d)
    PROVE  Shape'
<1>1. Events(d) \in Slots
  BY SlotFacts
<1> QED
  BY <1>1, LeaveShape DEF Unwatch, stores, memory, bounds, history, Shape, TypeOK

LEMMA DisconnectShape ==
    ASSUME Shape, NEW d \in Devices, Disconnect(d)
    PROVE  Shape'
<1>1. <<d, "disconnect">> \in Slots
  BY SlotFacts
<1>2. conn' \in [Devices -> {"closed", "open", "deaf"}]
  BY DEF Disconnect, Shape, TypeOK
<1> QED
  BY <1>1, <1>2, LeaveShape DEF Disconnect, stores, memory, bounds, history

(* A repo that nobody uses starts to load. *)
LEMMA WaitForNewRepoShape ==
    ASSUME Shape, NEW s \in Slots, WaitForRepo(s), \A t \in Slots : ~Settled(t),
           promise = NoRepo
    PROVE  Shape'
<1> USE DEF Shape
<1>1. handler \in [Slots -> Handler]
  BY DEF TypeOK
<1>2. heap \in [Repos -> Repo]
  BY DEF TypeOK
<1>3. PICK r \in Repos :
        /\ handler' = [handler EXCEPT ![s].pc = "waiting", ![s].repo = r]
        /\ \A t \in Slots : handler[t].repo # r
        /\ promise' = r
        /\ Contend(IF Saving THEN Atoms ELSE Pending(s))
        /\ heap' = [heap EXCEPT ![r] =
               NewRepo("checkout", handler[s].op \notin {"add", "remove", "commit"})]
  BY DEF WaitForRepo
<1>4. /\ handler' \in [Slots -> Handler] /\ Others(s)
      /\ handler'[s].op = handler[s].op /\ handler'[s].pc = "waiting"
      /\ handler'[s].repo = r /\ handler'[s].atoms = handler[s].atoms
      /\ handler'[s].new = handler[s].new /\ handler'[s].target = handler[s].target
      /\ handler'[s].commit = handler[s].commit
  BY <1>1, <1>3, WaitEffect
<1>5. /\ heap' \in [Repos -> Repo] /\ OtherRepos(r) /\ heap'[r].pc = "checkout"
      /\ heap'[r].current = NoCommit
  BY <1>2, <1>3 DEF NewRepo, Repo, OtherRepos
<1>6. /\ promise' = r /\ loaded = NoRepo /\ handler[s].pc = "repo" /\ r # NoRepo
      /\ \A t \in Slots : handler[t].repo # r
  BY <1>3, RepoServerAssumption DEF WaitForRepo, NoRepo
<1>7. contended' \in SUBSET Atoms
  BY <1>1, <1>3 DEF TypeOK, Contend, Pending, Handler
<1>8. \A q \in Repos : heap[q].pc \notin {"checkout", "saveHead", "getStage", "failed"}
  BY RepoServerAssumption DEF HeapInv, NoRepo
<1>9. \A t \in Slots : handler[t].pc # "unload"
  <2> SUFFICES ASSUME NEW t \in Slots, handler[t].pc = "unload" PROVE FALSE
    OBVIOUS
  <2>1. handler[t].repo # NoRepo /\ heap[handler[t].repo].pc \notin {"ready", "failed"}
    BY DEF Settled
  <2>2. handler[t].repo \in Repos
    BY <1>1, <2>1 DEF Handler
  <2>3. heap[handler[t].repo].pc # "free"
    BY <2>1 DEF RepoInv, RepoOk
  <2>4. heap[handler[t].repo].pc \in {"free", "checkout", "saveHead", "getStage", "ready", "failed"}
    BY <1>2, <2>2 DEF Repo
  <2> QED
    BY <1>8, <2>1, <2>2, <2>3, <2>4
<1>10. UNCHANGED <<exists, head, commits, stage, loaded, entry, channel, conn, view, events,
                   crashes, acked, gone, goneAcked>>
  BY DEF WaitForRepo, stores, memory, clients, bounds, history
<1>11. TypeOK'
  BY <1>4, <1>5, <1>6, <1>7, <1>10 DEF TypeOK, Stored
<1>12. OpInv'
  <2>1. OpOk(s, handler'[s])
    BY <1>4, <1>6 DEF OpInv, OpOk
  <2> QED
    BY <1>4, <2>1 DEF OpInv, Others
<1>13. ChangeInv'
  <2>1. ChangeOk(s, handler'[s], gone)
    BY <1>4 DEF ChangeInv, ChangeOk
  <2> QED
    BY <1>4, <1>10, <2>1 DEF ChangeInv, Others
<1>14. RepoInv'
  <2>1. RepoOk(handler'[s], heap', r)
    BY <1>4, <1>5 DEF RepoOk, Using, Committing, Resetting
  <2>2. ASSUME NEW t \in Slots, t # s PROVE RepoOk(handler[t], heap', r)
    <3>1. RepoOk(handler[t], heap, promise) /\ handler[t].pc # "unload" /\ handler[t].repo # r
      BY <1>6, <1>9 DEF RepoInv
    <3>2. handler[t].repo \in Repos \cup {NoRepo}
      BY <1>1 DEF Handler
    <3>3. handler[t].repo \in Repos => heap'[handler[t].repo] = heap[handler[t].repo]
      BY <1>5, <3>1 DEF OtherRepos
    <3> QED
      BY <3>1, <3>2, <3>3 DEF RepoOk
  <2> QED
    BY <1>4, <1>6, <2>1, <2>2 DEF RepoInv, Others
<1>15. HeapInv'
  BY <1>5, <1>6, <1>8, <1>10 DEF HeapInv, OtherRepos
<1>16. CommitInv'
  <2>1. CommitOk(handler'[s], Stored)
    BY <1>4, <1>6 DEF CommitInv, CommitOk
  <2>2. Stored' = Stored
    BY <1>10 DEF Stored
  <2> QED
    BY <1>4, <1>5, <2>1, <2>2 DEF CommitInv, Others, OtherRepos
<1>17. UniqueInv'
  BY <1>4, <1>6 DEF UniqueInv, Others
<1>18. ClientInv'
  BY <1>10 DEF ClientInv
<1> QED
  BY <1>11, <1>12, <1>13, <1>14, <1>15, <1>16, <1>17, <1>18

-----------------------------------------------------------------------------
(* The steps of a load change the repo that loads and, in saving it, the head. *)
LEMMA LoadShape ==
    ASSUME Shape, NEW r \in Repos, TypeOK', HeapInv', OtherRepos(r),
           heap[r].pc \in {"checkout", "saveHead", "getStage"},
           heap'[r].pc \in {"saveHead", "getStage", "ready", "failed"},
           heap'[r].current \in Stored \cup {NoCommit},
           exists => exists',
           UNCHANGED <<commits, stage, handler, promise, channel, view, gone, goneAcked>>
    PROVE  Shape'
<1>1. Stored' = Stored
  BY DEF Stored
<1>2. OpInv' /\ ChangeInv' /\ UniqueInv' /\ ClientInv'
  BY DEF Shape, OpInv, ChangeInv, UniqueInv, ClientInv
<1>3. RepoInv'
  <2>1. ASSUME NEW t \in Slots PROVE RepoOk(handler[t], heap', promise)
    <3>1. RepoOk(handler[t], heap, promise) /\ handler[t].repo \in Repos \cup {NoRepo}
      BY DEF Shape, RepoInv, TypeOK, Handler
    <3>2. handler[t].repo \in Repos /\ handler[t].repo # r
            => heap'[handler[t].repo] = heap[handler[t].repo]
      BY DEF OtherRepos
    <3> QED
      BY <3>1, <3>2 DEF RepoOk
  <2> QED
    BY <2>1 DEF RepoInv
<1>4. CommitInv'
  BY <1>1 DEF Shape, CommitInv, OtherRepos
<1> QED
  BY <1>2, <1>3, <1>4 DEF Shape

LEMMA CheckoutShape ==
    ASSUME Shape, NEW r \in Repos, Checkout(r)
    PROVE  Shape'
<1>1. PICK l \in {"saveHead", "failed"} :
        /\ l = IF exists \/ heap[r].create THEN "saveHead" ELSE "failed"
        /\ heap' = [heap EXCEPT ![r].pc = l, ![r].current = head]
  BY DEF Checkout
<1>2. head \in Stored \cup {NoCommit} /\ head \in Commits \cup {NoCommit}
  BY AtomsOfType DEF Shape, TypeOK
<1>3. /\ heap' \in [Repos -> Repo] /\ OtherRepos(r) /\ heap'[r].pc = l
      /\ heap'[r].current = head /\ heap[r].pc = "checkout"
  BY <1>1, <1>2, CheckoutEffect DEF Checkout, Shape, TypeOK
<1>4. UNCHANGED <<exists, head, commits, stage, handler, loaded, promise, entry, channel, conn,
                  view, events, crashes, acked, gone, goneAcked, contended>>
  BY DEF Checkout, stores, memory, clients, bounds, history
<1>5. TypeOK'
  BY <1>3, <1>4 DEF Shape, TypeOK, Stored
<1>6. HeapInv'
  <2>1. loaded \in Repos \cup {NoRepo} /\ promise \in Repos \cup {NoRepo}
    BY DEF Shape, TypeOK
  <2>2. l = "failed" => ~exists
    BY <1>1
  <2> QED
    BY <1>3, <1>4, <2>1, <2>2 DEF Shape, HeapInv, OtherRepos
<1> QED
  BY <1>2, <1>3, <1>4, <1>5, <1>6, LoadShape

LEMMA SaveCheckedOutShape ==
    ASSUME Shape, NEW r \in Repos, SaveCheckedOut(r)
    PROVE  Shape'
<1>1. PICK x : x = AtomsOf(heap[r].current)
  OBVIOUS
<1>2. heap[r].current \in Stored \cup {NoCommit} /\ x \in SUBSET Atoms
  BY <1>1, AtomsOfType DEF Shape, CommitInv
<1>3. /\ heap' \in [Repos -> Repo] /\ OtherRepos(r) /\ heap'[r].pc = "getStage"
      /\ heap'[r].current = heap[r].current /\ heap[r].pc = "saveHead"
  <2>1. heap' = [heap EXCEPT ![r].pc = "getStage", ![r].atoms = x]
    BY <1>1 DEF SaveCheckedOut
  <2> QED
    BY <1>2, <2>1, SaveCheckedOutEffect DEF SaveCheckedOut, Shape, TypeOK
<1>4. /\ exists' = TRUE /\ head' = heap[r].current
      /\ UNCHANGED <<commits, stage, handler, loaded, promise, entry, channel, conn, view, events,
                     crashes, acked, gone, goneAcked, contended>>
  BY DEF SaveCheckedOut, stores, memory, clients, bounds, history
<1>5. TypeOK'
  BY <1>2, <1>3, <1>4 DEF Shape, TypeOK, Stored
<1>6. HeapInv'
  <2>1. loaded \in Repos \cup {NoRepo} /\ promise \in Repos \cup {NoRepo}
    BY DEF Shape, TypeOK
  <2>2. \A q \in Repos : heap[q].pc # "failed"
    BY <1>3 DEF Shape, HeapInv
  <2> QED
    BY <1>3, <1>4, <2>1, <2>2 DEF Shape, HeapInv, OtherRepos
<1> QED
  BY <1>2, <1>3, <1>4, <1>5, <1>6, LoadShape

LEMMA GetStageShape ==
    ASSUME Shape, NEW r \in Repos, GetStage(r)
    PROVE  Shape'
<1>1. PICK x, y, z :
        /\ x = (heap[r].atoms \cup stage.add) \ stage.del
        /\ y = (stage.add \ heap[r].atoms) \ stage.del
        /\ z = stage.del \cap (heap[r].atoms \cup stage.add)
  OBVIOUS
<1>2. heap[r].atoms \in SUBSET Atoms /\ stage.add \in SUBSET Atoms /\ stage.del \in SUBSET Atoms
  BY DEF Shape, TypeOK, Repo
<1>3. x \in SUBSET Atoms /\ y \in SUBSET Atoms /\ z \in SUBSET Atoms
  BY <1>1, <1>2
<1>4. heap' = [heap EXCEPT ![r].pc = "ready", ![r].atoms = x, ![r].add = y, ![r].del = z]
  BY <1>1 DEF GetStage
<1>5. Staged(r, x, y, z) /\ heap[r].pc = "getStage"
  BY <1>3, <1>4, GetStageEffect DEF GetStage, Shape, TypeOK
<1>6. /\ heap' \in [Repos -> Repo] /\ OtherRepos(r) /\ heap'[r].pc = "ready"
      /\ heap'[r].current = heap[r].current
  BY <1>5 DEF Staged
<1>7. UNCHANGED <<exists, head, commits, stage, handler, loaded, promise, entry, channel, conn,
                  view, events, crashes, acked, gone, goneAcked, contended>>
  BY DEF GetStage, stores, memory, clients, bounds, history
<1>8. TypeOK'
  BY <1>6, <1>7 DEF Shape, TypeOK, Stored
<1>9. HeapInv'
  <2>1. loaded \in Repos \cup {NoRepo} /\ promise \in Repos \cup {NoRepo}
    BY DEF Shape, TypeOK
  <2> QED
    BY <1>5, <1>6, <1>7, <2>1 DEF Shape, HeapInv, OtherRepos
<1>10. heap[r].current \in Stored \cup {NoCommit}
  BY DEF Shape, CommitInv
<1> QED
  BY <1>5, <1>6, <1>7, <1>8, <1>9, <1>10, LoadShape

LEMMA CrashShape ==
    ASSUME Shape, Crash
    PROVE  Shape'
<1> USE DEF Shape
<1>1. handler' = [s \in Slots |-> Idle] /\ heap' = [r \in Repos |-> NewRepo("free", FALSE)]
  BY DEF Crash
<1>2. /\ loaded' = NoRepo /\ promise' = NoRepo /\ entry' = FALSE /\ channel' = {}
      /\ conn' = [d \in Devices |-> "closed"] /\ view' = [d \in Devices |-> Missing]
  BY DEF Crash
<1>3. crashes' \in 0 .. MaxCrashes
  BY RepoServerAssumption DEF Crash, TypeOK
<1>4. /\ NewRepo("free", FALSE) \in Repo /\ NewRepo("free", FALSE).pc = "free"
      /\ NewRepo("free", FALSE).current = NoCommit
  BY DEF NewRepo, Repo
<1>5. /\ \A r \in Repos : heap'[r].pc = "free" /\ heap'[r].current = NoCommit
      /\ \A s \in Slots : handler'[s] = Idle
  BY <1>1, <1>4
<1>6. UNCHANGED <<exists, head, commits, stage, events, acked, gone, goneAcked, contended>>
  BY DEF Crash, stores, memory, clients, bounds, history
<1>7. TypeOK'
  BY <1>1, <1>2, <1>3, <1>4, <1>6, IdleType DEF TypeOK, Stored, AtomSets
<1>8. OpInv'
  BY <1>5, IdleType DEF OpInv, OpOk
<1>9. ChangeInv'
  BY <1>5, IdleType DEF ChangeInv, ChangeOk
<1>10. RepoInv'
  BY <1>5, IdleType DEF RepoInv, RepoOk, Using, Committing, Resetting
<1>11. HeapInv'
  BY <1>2, <1>5 DEF HeapInv
<1>12. CommitInv'
  BY <1>5, IdleType DEF CommitInv, CommitOk
<1>13. UniqueInv'
  BY <1>5, IdleType DEF UniqueInv
<1>14. ClientInv'
  BY <1>2, <1>6 DEF ClientInv
<1> QED
  BY <1>7, <1>8, <1>9, <1>10, <1>11, <1>12, <1>13, <1>14

LEMMA InitShape == Init => Shape
<1> SUFFICES ASSUME Init PROVE Shape
  OBVIOUS
<1>1. /\ NewRepo("free", FALSE) \in Repo /\ NewRepo("free", FALSE).pc = "free"
      /\ NewRepo("free", FALSE).current = NoCommit
  BY DEF NewRepo, Repo
<1>2. /\ \A r \in Repos : heap[r].pc = "free" /\ heap[r].current = NoCommit
      /\ \A s \in Slots : handler[s] = Idle
      /\ heap \in [Repos -> Repo] /\ handler \in [Slots -> Handler]
  BY <1>1, IdleType DEF Init
<1>3. TypeOK
  <2>1. events \in 0 .. MaxEvents /\ crashes \in 0 .. MaxCrashes
    BY RepoServerAssumption DEF Init
  <2>2. commits \in [Commits -> AtomSets] /\ view \in [Devices -> AtomSets]
    BY DEF Init, AtomSets
  <2>3. /\ stage \in [add : SUBSET Atoms, del : SUBSET Atoms]
        /\ conn \in [Devices -> {"closed", "open", "deaf"}]
    BY DEF Init
  <2> QED
    BY <1>2, <2>1, <2>2, <2>3 DEF Init, TypeOK
<1>4. OpInv /\ ChangeInv /\ RepoInv
  BY <1>2, IdleType DEF OpInv, OpOk, ChangeInv, ChangeOk, RepoInv, RepoOk, Using, Committing,
                        Resetting
<1>5. HeapInv
  BY <1>2 DEF Init, HeapInv
<1>6. CommitInv /\ UniqueInv
  BY <1>2, IdleType DEF CommitInv, CommitOk, UniqueInv
<1>7. ClientInv
  BY DEF Init, ClientInv
<1> QED
  BY <1>3, <1>4, <1>5, <1>6, <1>7 DEF Shape

LEMMA WaitForRepoShape ==
    ASSUME Shape, NEW s \in Slots, WaitForRepo(s), \A t \in Slots : ~Settled(t)
    PROVE  Shape'
  BY WaitForNewRepoShape, WaitForPromiseShape

LEMMA StutterShape == Shape /\ UNCHANGED vars => Shape'
<1> SUFFICES ASSUME Shape, UNCHANGED vars PROVE Shape'
  OBVIOUS
<1> USE DEF vars, stores, memory, clients, bounds, history, Shape
<1>1. TypeOK'
  BY DEF TypeOK, Stored
<1>2. OpInv' /\ ChangeInv' /\ RepoInv' /\ HeapInv' /\ UniqueInv' /\ ClientInv'
  BY DEF OpInv, ChangeInv, RepoInv, HeapInv, UniqueInv, ClientInv
<1>3. CommitInv'
  BY DEF CommitInv, Stored
<1> QED
  BY <1>1, <1>2, <1>3

LEMMA NextShape == Shape /\ [Next]_vars => Shape'
<1> SUFFICES ASSUME Shape, Next PROVE Shape'
  BY StutterShape
<1>1. ASSUME NEW d \in Devices,
             \/ Connect(d) \/ WatchBranch(d) \/ AddAtoms(d) \/ RemoveAtoms(d) \/ OtherEvent(d)
             \/ SendAtoms(d) \/ GetBranch(d) \/ Commit(d) \/ CheckoutEvent(d)
             \/ RestoreEvent(d) \/ Unwatch(d) \/ Disconnect(d)
      PROVE  Shape'
  BY <1>1, ConnectShape, WatchBranchShape, AddAtomsShape, RemoveAtomsShape, OtherEventShape,
     SendAtomsShape, GetBranchShape, CommitShape, CheckoutEventShape, RestoreEventShape,
     UnwatchShape, DisconnectShape
<1>2. ASSUME NEW s \in Slots,
             \/ RepoLoaded(s) \/ LoadFailed(s) \/ UnloadBranch(s) \/ ApplyAdd(s)
             \/ ApplyRemove(s) \/ StageAtoms(s) \/ AtomsReceived(s) \/ StoreData(s)
             \/ SaveHead(s) \/ CheckoutHead(s) \/ ClearAdded(s) \/ ClearRemoved(s)
             \/ StoreRestored(s) \/ ResetHead(s) \/ ResetCurrent(s) \/ SendReset(s)
             \/ UnloadCommitted(s)
             \/ WaitForRepo(s) /\ \A t \in Slots : ~Settled(t)
      PROVE  Shape'
  BY <1>2, RepoLoadedShape, LoadFailedShape, UnloadBranchShape, ApplyAddShape, ApplyRemoveShape,
     StageAtomsShape, AtomsReceivedShape, StoreDataShape, SaveHeadShape, CheckoutHeadShape,
     ClearAddedShape, ClearRemovedShape, StoreRestoredShape, ResetHeadShape, ResetCurrentShape,
     SendResetShape, UnloadCommittedShape, WaitForRepoShape
<1>3. ASSUME NEW r \in Repos, Checkout(r) \/ SaveCheckedOut(r) \/ GetStage(r)
      PROVE  Shape'
  BY <1>3, CheckoutShape, SaveCheckedOutShape, GetStageShape
<1> QED
  BY <1>1, <1>2, <1>3, CrashShape, NextCases

(* However the events of the devices interleave with the loads, commits, checkouts, restores and
   unloads they start, and wherever the server crashes, its state is well formed: the head in the
   store is a commit that is stored, the branch's repo and promise are repos of the heap, every
   change made to a repo, to the stage and to a device's view is of atoms. *)
THEOREM TypeCorrect == Spec => []TypeOK
<1>1. Init => Shape
  BY InitShape
<1>2. Shape /\ [Next]_vars => Shape'
  BY NextShape
<1>3. Shape => TypeOK
  BY DEF Shape
<1> QED
  BY <1>1, <1>2, <1>3, PTL DEF Spec

-----------------------------------------------------------------------------
LEMMA WritingRepo ==
    ASSUME Shape, NEW s \in Slots, Writing(s)
    PROVE  handler[s].repo \in Used /\ handler[s].repo \in Repos /\ heap[handler[s].repo].pc = "ready"
<1>1. handler[s].pc \in Using \ {"unload", "waiting"}
  BY DEF Writing, Using, Committing, Resetting
<1>2. handler[s].repo \in Repos /\ heap[handler[s].repo].pc = "ready"
  BY <1>1 DEF Shape, RepoInv, RepoOk
<1> QED
  BY <1>1, <1>2, RepoServerAssumption DEF Used, NoRepo

LEMMA UsedRepos == ASSUME Shape PROVE Used \subseteq Repos
  BY DEF Shape, TypeOK, Used, Handler

LEMMA ResetIsWriting == ASSUME NEW s, InReset(s) PROVE Writing(s)
  BY DEF InReset, Writing, At, Committing

LEMMA StoredFacts ==
    ASSUME Shape
    PROVE  /\ head \in Stored \cup {NoCommit}
           /\ \A s \in Slots : handler[s].pc # "storeData" => handler[s].commit \in Stored \cup {NoCommit}
  BY DEF Shape, TypeOK, CommitInv, CommitOk

(* While a change of the atom is under way nothing is promised about it. *)
LEMMA ConcernedIsFree ==
    ASSUME Shape, NEW a, Single(a), NEW s \in Slots, Concerns(s, a), NEW S
    PROVE  Kept(a, S)
<1>1. handler[s].op \in {"add", "remove"} /\ a \in handler[s].atoms
  BY DEF Concerns
<1>2. CASE handler[s].op = "add"
  <2>1. a \notin acked /\ a \notin gone
    BY <1>2 DEF Single
  <2> QED
    BY <2>1 DEF Kept, Shape, ClientInv
<1>3. CASE handler[s].op = "remove"
  <2>1. a \notin goneAcked
    BY <1>3 DEF Single
  <2>2. a \in gone
    BY <1>1, <1>3 DEF Shape, ChangeInv, ChangeOk
  <2> QED
    BY <2>1, <2>2 DEF Kept
<1> QED
  BY <1>1, <1>2, <1>3

(* A step of one slot that leaves alone what there is of the atom, ... *)
SameData(a) ==
    /\ head' = head
    /\ \A c \in Stored \cup {NoCommit} : a \in AtomsOf(c)' <=> a \in AtomsOf(c)
    /\ \A r \in Repos : /\ heap'[r].pc = heap[r].pc /\ heap'[r].current = heap[r].current
                        /\ a \in heap'[r].atoms <=> a \in heap[r].atoms
    /\ a \in stage'.add <=> a \in stage.add
    /\ a \in stage'.del <=> a \in stage.del
    /\ a \in acked' <=> a \in acked
    /\ a \in gone' <=> a \in gone
    /\ a \in goneAcked' <=> a \in goneAcked
    /\ \A d \in Devices : view'[d] # Missing => /\ view[d] # Missing
                                                /\ a \in view'[d] <=> a \in view[d]

(* ... and what is under way with it. *)
SameChanges(s, a) ==
    /\ Concerns(s, a)' => Concerns(s, a) /\ handler'[s].op = handler[s].op
    /\ Concerns(s, a) => Concerns(s, a)' \/ \A d \in Devices : view'[d] = Missing
    /\ Applied(s, a)' <=> Applied(s, a)
    /\ Fresh(s, a)' <=> Fresh(s, a)
    /\ Unsent(s, a)' <=> Unsent(s, a)

LEMMA FrameAtom ==
    ASSUME Shape, NEW a, AtomInv(a), NEW s \in Slots, Others(s), SameData(a), SameChanges(s, a),
           ~InReset(s), ~InReset(s)', SaveOk(s, a)', Used' \subseteq Used,
           Writing(s)' => Writing(s) \/ (~Loading /\ ~InWindow)
    PROVE  AtomInv(a)'
<1> USE DEF AtomInv
<1>1. /\ \A t \in Slots : t # s => handler'[t] = handler[t]
      /\ \A t \in Slots : Concerns(t, a)' => Concerns(t, a) /\ handler'[t].op = handler[t].op
      /\ \A t \in Slots : Concerns(t, a) => Concerns(t, a)' \/ \A d \in Devices : view'[d] = Missing
      /\ \A t \in Slots : Applied(t, a)' <=> Applied(t, a)
      /\ \A t \in Slots : Fresh(t, a)' <=> Fresh(t, a)
      /\ \A t \in Slots : Unsent(t, a)' <=> Unsent(t, a)
  <2>1. ASSUME NEW t \in Slots, t # s
        PROVE  /\ Concerns(t, a)' <=> Concerns(t, a)
               /\ Applied(t, a)' <=> Applied(t, a)
               /\ Fresh(t, a)' <=> Fresh(t, a)
               /\ Unsent(t, a)' <=> Unsent(t, a)
    BY <2>1 DEF Concerns, Applied, Fresh, Unsent, Others
  <2> QED
    BY <2>1 DEF Others, SameChanges
<1>2. /\ \A t \in Slots : InReset(t)' <=> InReset(t)
      /\ \A t \in Slots : Writing(t)' => Writing(t) \/ (~Loading /\ ~InWindow)
  <2>1. ASSUME NEW t \in Slots, t # s
        PROVE  (InReset(t)' <=> InReset(t)) /\ (Writing(t)' <=> Writing(t))
    BY <1>1, <2>1 DEF InReset, Writing, At
  <2> QED
    BY <2>1
<1>3. (InWindow' <=> InWindow) /\ (Loading' <=> Loading)
  BY <1>2 DEF InWindow, Loading, SameData
<1>4. a \in AtomsOf(head)' <=> a \in AtomsOf(head)
  BY StoredFacts DEF SameData, AtomsOf
<1>5. a \in Recoverable' <=> a \in Recoverable
  BY <1>4 DEF Recoverable, SameData
<1>6. \A r \in Used' : r \in Used /\ r \in Repos
  BY UsedRepos
<1>7. One'
  BY <1>6 DEF One
<1>8. Single(a)'
  BY <1>1, SlotFacts DEF Single, SameData
<1>9. LoadInv(a)'
  BY <1>1, <1>2, <1>3, <1>4 DEF LoadInv, SameData
<1>10. KeptInv(a)'
  BY <1>5, <1>6 DEF KeptInv, Kept, SameData
<1>11. AppliedInv(a)'
  <2>1. \A t \in Slots : Applied(t, a)' => handler'[t].op = handler[t].op
    BY <1>1 DEF Applied
  <2> QED
    BY <1>1, <1>5, <1>6, <2>1 DEF AppliedInv, SameData
<1>12. AgreeInv(a)'
  <2>1. \A d \in Devices : Events(d) \in Slots
    BY SlotFacts
  <2> QED
    BY <1>1, <1>3, <1>5, <1>6, <2>1 DEF AgreeInv, SameData
<1>13. SaveInv(a)'
  <2>1. ASSUME NEW t \in Slots, t # s PROVE SaveOk(t, a)'
    <3>1. handler'[t] = handler[t] /\ SaveOk(t, a)
      BY <1>1, <2>1 DEF SaveInv
    <3>2. handler[t].pc \in Committing => handler[t].repo \in Repos
      BY WritingRepo DEF Writing
    <3>3. handler[t].pc \in Committing =>
            (a \in heap'[handler[t].repo].atoms <=> a \in heap[handler[t].repo].atoms)
      BY <3>2 DEF SameData
    <3>4. handler[t].pc # "storeData" =>
            (a \in AtomsOf(handler[t].commit)' <=> a \in AtomsOf(handler[t].commit))
      BY <3>1, StoredFacts DEF SameData, AtomsOf
    <3> QED
      BY <1>4, <3>1, <3>3, <3>4 DEF SaveOk, SameData, Committing
  <2> QED
    BY <2>1 DEF SaveInv
<1>14. ResetInv(a)'
  <2> SUFFICES ASSUME NEW t \in Slots, InReset(t)' PROVE ResetOk(t, a)'
    BY DEF ResetInv, ResetOk
  <2>1. InReset(t) /\ t # s /\ handler'[t] = handler[t] /\ ResetOk(t, a) /\ InWindow
    BY <1>1, <1>2 DEF ResetInv, InWindow
  <2>2. \A u \in Slots : (u # t => ~Writing(u)') /\ ~Applied(u, a)'
    BY <1>1, <1>2, <2>1 DEF ResetOk
  <2>3. handler[t].repo \in Repos
    BY <2>1, ResetIsWriting, WritingRepo
  <2>4. Kept(a, AtomsOf(head))'
    BY <1>4, <2>1 DEF ResetOk, Kept, SameData
  <2> QED
    BY <1>3, <1>4, <2>1, <2>2, <2>3, <2>4 DEF ResetOk, SameData
<1> QED
  BY <1>7, <1>8, <1>9, <1>10, <1>11, <1>12, <1>13, <1>14

(* A step of a commit: it may move the atom between the head and the stage,   *)
(* and it leaves what there is of it in memory.                             *)
SameMemory(a) ==
    /\ \A r \in Repos : heap'[r].pc = heap[r].pc /\ (a \in heap'[r].atoms <=> a \in heap[r].atoms)
    /\ acked' = acked /\ gone' = gone /\ goneAcked' = goneAcked /\ view' = view

LEMMA CommitAtom ==
    ASSUME Shape, NEW a, AtomInv(a), NEW s \in Slots, Others(s), SameMemory(a),
           handler[s].op \in {"commit", "restore", "unload"}, handler[s].pc \in Committing,
           ~Concerns(s, a)', ~InReset(s)',
           \A t \in Slots : SaveOk(t, a)', Used' \subseteq Used,
           (\A t \in Slots : ~Fresh(t, a)) => (a \in Recoverable' <=> a \in Recoverable)
    PROVE  AtomInv(a)'
<1> USE DEF AtomInv
<1>1. Writing(s) /\ ~InReset(s) /\ ~Concerns(s, a)
  BY DEF Writing, InReset, At, Concerns, Committing
<1>2. ~Loading /\ ~InWindow
  BY <1>1 DEF LoadInv, InWindow, ResetInv, ResetOk
<1>3. /\ \A t \in Slots : t # s => handler'[t] = handler[t]
      /\ \A t \in Slots : Concerns(t, a)' <=> Concerns(t, a)
      /\ \A t \in Slots : Concerns(t, a) => handler'[t] = handler[t]
      /\ \A t \in Slots : Applied(t, a)' <=> Applied(t, a)
      /\ \A t \in Slots : Fresh(t, a)' <=> Fresh(t, a)
      /\ \A t \in Slots : Unsent(t, a)' <=> Unsent(t, a)
      /\ \A t \in Slots : ~InReset(t)'
  <2>1. ASSUME NEW t \in Slots, t # s
        PROVE  /\ handler'[t] = handler[t]
               /\ Concerns(t, a)' <=> Concerns(t, a)
               /\ Applied(t, a)' <=> Applied(t, a)
               /\ Fresh(t, a)' <=> Fresh(t, a)
               /\ Unsent(t, a)' <=> Unsent(t, a)
               /\ ~InReset(t)'
    <3>1. handler'[t] = handler[t] /\ ~InReset(t)
      BY <1>2, <2>1 DEF Others, InWindow
    <3> QED
      BY <3>1 DEF Concerns, Applied, Fresh, Unsent, InReset, At
  <2>2. /\ ~Applied(s, a) /\ ~Fresh(s, a) /\ ~Unsent(s, a)
        /\ ~Applied(s, a)' /\ ~Fresh(s, a)' /\ ~Unsent(s, a)'
    BY <1>1 DEF Applied, Fresh, Unsent
  <2> QED
    BY <1>1, <2>1, <2>2
<1>4. ~Loading' /\ ~InWindow'
  BY <1>2, <1>3 DEF Loading, InWindow, SameMemory
<1>5. \A r \in Used' : r \in Used /\ r \in Repos
  BY UsedRepos
<1>6. Kept(a, Recoverable)'
  <2>1. CASE \A t \in Slots : ~Fresh(t, a)
    BY <2>1 DEF KeptInv, Kept, SameMemory
  <2>2. CASE \E t \in Slots : Fresh(t, a)
    <3>1. PICK t \in Slots : Concerns(t, a)
      BY <2>2 DEF Fresh
    <3>2. Kept(a, Recoverable')
      BY <3>1, ConcernedIsFree
    <3> QED
      BY <3>2 DEF Kept, SameMemory
  <2> QED
    BY <2>1, <2>2
<1>7. One'
  BY <1>5 DEF One
<1>8. Single(a)'
  BY <1>3, SlotFacts DEF Single, SameMemory
<1>9. LoadInv(a)'
  BY <1>4 DEF LoadInv, Loading
<1>10. KeptInv(a)'
  BY <1>5, <1>6 DEF KeptInv, Kept, SameMemory
<1>11. AppliedInv(a)'
  <2> SUFFICES ASSUME NEW t \in Slots, Applied(t, a)'
               PROVE  /\ \A r \in Used' : heap'[r].pc = "ready" => (handler'[t].op = "add" <=> a \in heap'[r].atoms)
                      /\ ~Fresh(t, a)' => (handler'[t].op = "add" <=> a \in Recoverable')
    BY DEF AppliedInv
  <2>1. Applied(t, a) /\ Concerns(t, a) /\ handler'[t] = handler[t]
    BY <1>3 DEF Applied
  <2>2. ~Fresh(t, a) => \A u \in Slots : ~Fresh(u, a)
    BY <2>1 DEF Single, Fresh
  <2> QED
    BY <1>3, <1>5, <2>1, <2>2 DEF AppliedInv, SameMemory
<1>12. AgreeInv(a)'
  <2>1. (\A t \in Slots : ~Unsent(t, a)) => \A t \in Slots : ~Fresh(t, a)
    BY DEF Fresh, Unsent, Applied
  <2>2. \A d \in Devices : Events(d) \in Slots
    BY SlotFacts
  <2> QED
    BY <1>2, <1>3, <1>5, <2>1, <2>2 DEF AgreeInv, SameMemory
<1>13. SaveInv(a)'
  BY DEF SaveInv
<1>14. ResetInv(a)'
  BY <1>3 DEF ResetInv, ResetOk
<1> QED
  BY <1>7, <1>8, <1>9, <1>10, <1>11, <1>12, <1>13, <1>14

LEMMA UsedShrinks ==
    ASSUME NEW s \in Slots, Others(s), loaded' \in Used \cup {NoRepo},
           promise' \in {promise, NoRepo},
           handler'[s].pc \in Using => handler'[s].repo \in Used \cup {NoRepo}
    PROVE  Used' \subseteq Used
<1> SUFFICES ASSUME NEW r, r \in Used' PROVE r \in Used
  OBVIOUS
<1>1. /\ r # NoRepo
      /\ \/ r = loaded' \/ r = promise'
         \/ \E t \in Slots : handler'[t].pc \in Using /\ r = handler'[t].repo
  BY DEF Used
<1>2. CASE r = loaded' \/ r = promise'
  BY <1>1, <1>2 DEF Used
<1>3. CASE \E t \in Slots : handler'[t].pc \in Using /\ r = handler'[t].repo
  <2>1. PICK t \in Slots : handler'[t].pc \in Using /\ r = handler'[t].repo
    BY <1>3
  <2>2. CASE t = s
    BY <1>1, <2>1, <2>2
  <2>3. CASE t # s
    BY <1>1, <2>1, <2>3 DEF Others, Used
  <2> QED
    BY <2>2, <2>3
<1> QED
  BY <1>1, <1>2, <1>3

LEMMA SameDataHolds ==
    ASSUME NEW a, UNCHANGED <<head, commits, stage, heap, acked, gone, goneAcked>>,
           \A d \in Devices : view'[d] # Missing => view'[d] = view[d]
    PROVE  SameData(a)
  BY DEF SameData, AtomsOf

Busy == {"stage", "answer"} \cup Committing \cup {"resetCurrent", "sendReset"}

(* A step that only moves a handler. *)
LEMMA MoveAtom ==
    ASSUME Shape, NEW a, AtomInv(a), NEW s \in Slots, Others(s),
           UNCHANGED <<head, commits, stage, heap, acked, gone, goneAcked>>,
           \A d \in Devices : view'[d] # Missing => view'[d] = view[d],
           handler[s].pc \notin Busy, handler'[s].pc \notin Busy,
           \/ handler'[s].op = handler[s].op /\ handler'[s].atoms = handler[s].atoms
           \/ handler[s].op \notin {"add", "remove"} /\ handler'[s].op \notin {"add", "remove"}
           \/ handler'[s].op \notin {"add", "remove"} /\ \A d \in Devices : view'[d] = Missing,
           Used' \subseteq Used
    PROVE  AtomInv(a)'
<1>1. SameData(a)
  BY SameDataHolds
<1>2. SameChanges(s, a)
  <2>1. /\ ~Applied(s, a) /\ ~Fresh(s, a) /\ ~Unsent(s, a)
        /\ ~Applied(s, a)' /\ ~Fresh(s, a)' /\ ~Unsent(s, a)'
    BY DEF Applied, Fresh, Unsent, Busy
  <2> QED
    BY <2>1 DEF SameChanges, Concerns
<1>3. ~InReset(s) /\ ~InReset(s)' /\ ~Writing(s)'
  BY DEF InReset, Writing, At, Busy, Committing
<1>4. SaveOk(s, a)'
  BY DEF SaveOk, Busy, Committing
<1> QED
  BY <1>1, <1>2, <1>3, <1>4, FrameAtom

(* The working set is taken to be committed. *)
LEMMA TakenAtom ==
    ASSUME Shape, NEW a \in Atoms, AtomInv(a), NEW s \in Slots,
           NEW r \in Repos, NEW op \in {"commit", "restore", "unload"},
           Taken(s, r, op), TakeCommit(s, r, op), a \notin contended',
           UNCHANGED <<head, commits, stage, heap, acked, gone, goneAcked, view>>,
           handler[s].pc \notin Busy, handler[s].op \notin {"add", "remove"}, r \in Used,
           loaded' = loaded, promise' \in {promise, NoRepo}
    PROVE  AtomInv(a)'
<1>1. SameData(a)
  BY SameDataHolds
<1>2. ~Loading /\ ~InWindow
  BY DEF TakeCommit, Contend, InWindow
<1>3. /\ Others(s) /\ handler'[s].op = op /\ handler'[s].pc = "storeData" /\ handler'[s].repo = r
      /\ handler'[s].atoms = heap[r].atoms
  BY DEF Taken
<1>4. SameChanges(s, a)
  <2>1. /\ ~Concerns(s, a) /\ ~Applied(s, a) /\ ~Fresh(s, a) /\ ~Unsent(s, a)
        /\ ~Concerns(s, a)' /\ ~Applied(s, a)' /\ ~Fresh(s, a)' /\ ~Unsent(s, a)'
    BY <1>3 DEF Applied, Fresh, Unsent, Busy, Concerns
  <2> QED
    BY <2>1 DEF SameChanges
<1>5. ~InReset(s) /\ ~InReset(s)'
  BY <1>3 DEF InReset, At, Busy, Committing
<1>6. SaveOk(s, a)'
  BY <1>3 DEF SaveOk
<1>7. Used' \subseteq Used
  <2>1. loaded' \in Used \cup {NoRepo}
    BY DEF Used
  <2> QED
    BY <1>3, <2>1, UsedShrinks
<1> QED
  BY <1>1, <1>2, <1>3, <1>4, <1>5, <1>6, <1>7, FrameAtom

LEMMA SameHandlersAtom ==
    ASSUME NEW a, AtomInv(a),
           UNCHANGED <<head, commits, stage, heap, loaded, promise, handler, view, acked, gone, goneAcked>>
    PROVE  AtomInv(a)'
<1> USE DEF AtomInv, Used, Concerns, Applied, Fresh, Unsent, Writing, Loading, AtomsOf, Recoverable,
            InReset, At, InWindow, Kept
<1>1. One' /\ Single(a)' /\ LoadInv(a)'
  BY DEF One, Single, LoadInv
<1>2. KeptInv(a)' /\ AppliedInv(a)' /\ AgreeInv(a)'
  BY DEF KeptInv, AppliedInv, AgreeInv
<1>3. SaveInv(a)' /\ ResetInv(a)'
  BY DEF SaveInv, SaveOk, ResetInv, ResetOk
<1> QED
  BY <1>1, <1>2, <1>3

LEMMA HasRepoUsed ==
    ASSUME NEW s \in Slots, NEW op, NEW r \in Repos, HasRepo(s, op, r)
    PROVE  r \in Used /\ handler[s].pc \notin Busy /\ handler[s].op = op
<1>1. r # NoRepo
  BY RepoServerAssumption DEF NoRepo
<1>2. handler[s].pc \in {"repo", "resume"} /\ handler[s].op = op
  BY DEF HasRepo
<1>3. r \in Used
  BY <1>1 DEF HasRepo, Used, Using
<1> QED
  BY <1>2, <1>3 DEF Busy, Committing

LEMMA StayUsed == loaded \in Used \cup {NoRepo} /\ promise \in Used \cup {NoRepo}
  BY DEF Used

LEMMA IdleIsNotBusy == Idle.pc \notin Busy /\ Idle.pc \notin Using /\ Idle.op \notin {"add", "remove"}
  BY IdleType DEF Busy, Committing, Using, Resetting

LEMMA ConnectAtom ==
    ASSUME NEW a, AtomInv(a), NEW d \in Devices, Connect(d)
    PROVE  AtomInv(a)'
  BY SameHandlersAtom DEF Connect, stores, memory, history

(* An event that changes no atom. *)
LEMMA ReceivedAtom ==
    ASSUME Shape, NEW a, AtomInv(a), NEW d \in Devices, NEW op \in Ops \ {"add", "remove"},
           NEW target \in Commits \cup {NoCommit}, Receive(d, op, {}, target),
           UNCHANGED <<head, commits, stage, heap, loaded, promise, view, acked, gone, goneAcked>>
    PROVE  AtomInv(a)'
<1>1. handler \in [Slots -> Handler]
  BY DEF Shape, TypeOK
<1>2. Received(d, op, {}, target)
  BY <1>1, ReceiveEffect, CommitTypes
<1>3. PICK s \in Slots : s = Events(d)
  BY SlotFacts
<1>4. /\ Others(s) /\ handler[s] = Idle /\ handler'[s].pc = "repo" /\ handler'[s].op = op
  BY <1>2, <1>3 DEF Received
<1>5. handler[s].pc \notin Busy /\ handler'[s].pc \notin Busy /\ handler'[s].pc \notin Using
  BY <1>4, IdleIsNotBusy DEF Busy, Committing, Using, Resetting
<1>6. handler[s].op \notin {"add", "remove"} /\ handler'[s].op \notin {"add", "remove"}
  BY <1>4, IdleIsNotBusy
<1>7. Used' \subseteq Used
  BY <1>4, <1>5, StayUsed, UsedShrinks
<1> QED
  BY <1>4, <1>5, <1>6, <1>7, MoveAtom

LEMMA WatchBranchAtom ==
    ASSUME Shape, NEW a, AtomInv(a), NEW d \in Devices, WatchBranch(d)
    PROVE  AtomInv(a)'
<1>1. Receive(d, "watch", {}, NoCommit) /\ "watch" \in Ops \ {"add", "remove"}
  BY OpTypes DEF WatchBranch
<1>2. UNCHANGED <<head, commits, stage, heap, loaded, promise, view, acked, gone, goneAcked>>
  BY DEF WatchBranch, stores, history
<1> QED
  BY <1>1, <1>2, ReceivedAtom, CommitTypes

LEMMA OtherEventAtom ==
    ASSUME Shape, NEW a, AtomInv(a), NEW d \in Devices, OtherEvent(d)
    PROVE  AtomInv(a)'
<1>1. PICK op \in {"get", "commit", "checkout", "restore"}, c \in Stored \cup {NoCommit} :
        Receive(d, op, {}, c)
  BY DEF OtherEvent
<1>2. op \in Ops \ {"add", "remove"} /\ c \in Commits \cup {NoCommit}
  BY AtomsOfType, OpTypes DEF Shape
<1>3. UNCHANGED <<head, commits, stage, heap, loaded, promise, view, acked, gone, goneAcked>>
  BY DEF OtherEvent, stores, memory, clients, history
<1> QED
  BY <1>1, <1>2, <1>3, ReceivedAtom

LEMMA WaitForPromiseAtom ==
    ASSUME Shape, NEW a, AtomInv(a), NEW s \in Slots, WaitForRepo(s), promise # NoRepo
    PROVE  AtomInv(a)'
<1>1. handler \in [Slots -> Handler]
  BY DEF Shape, TypeOK
<1>2. /\ handler' = [handler EXCEPT ![s].pc = "waiting", ![s].repo = promise] /\ promise \in Repos
      /\ handler[s].pc = "repo"
  BY DEF WaitForRepo
<1>3. /\ Others(s) /\ handler'[s].op = handler[s].op /\ handler'[s].pc = "waiting"
      /\ handler'[s].repo = promise /\ handler'[s].atoms = handler[s].atoms
  BY <1>1, <1>2, WaitEffect
<1>4. UNCHANGED <<head, commits, stage, heap, loaded, promise, view, acked, gone, goneAcked>>
  BY DEF WaitForRepo, stores, clients
<1>5. Used' \subseteq Used
  BY <1>3, <1>4, StayUsed, UsedShrinks
<1>6. handler[s].pc \notin Busy /\ handler'[s].pc \notin Busy
  BY <1>2, <1>3 DEF Busy, Committing
<1> QED
  BY <1>3, <1>4, <1>5, <1>6, MoveAtom

LEMMA RepoLoadedAtom ==
    ASSUME Shape, NEW a, AtomInv(a), NEW s \in Slots, RepoLoaded(s)
    PROVE  AtomInv(a)'
<1>1. handler \in [Slots -> Handler]
  BY DEF Shape, TypeOK
<1>2. /\ Others(s) /\ handler'[s].op = handler[s].op /\ handler'[s].pc = "resume"
      /\ handler'[s].repo = handler[s].repo /\ handler'[s].atoms = handler[s].atoms
  BY <1>1, GotoEffect, LabelTypes DEF RepoLoaded
<1>3. handler[s].pc = "waiting" /\ loaded' = handler[s].repo
  BY DEF RepoLoaded
<1>4. UNCHANGED <<head, commits, stage, heap, promise, view, acked, gone, goneAcked>>
  BY DEF RepoLoaded, stores, clients, history
<1>5. handler[s].repo \in Used \cup {NoRepo}
  BY <1>3 DEF Used, Using
<1>6. Used' \subseteq Used
  BY <1>2, <1>3, <1>4, <1>5, UsedShrinks
<1>7. handler[s].pc \notin Busy /\ handler'[s].pc \notin Busy
  BY <1>2, <1>3 DEF Busy, Committing
<1> QED
  BY <1>2, <1>4, <1>6, <1>7, MoveAtom

(* A load fails only while there is no branch, and then nobody watches it. *)
LEMMA LoadFailedAtom ==
    ASSUME Shape, NEW a, AtomInv(a), NEW s \in Slots, LoadFailed(s)
    PROVE  AtomInv(a)'
<1>1. Others(s) /\ handler'[s] = Idle
  BY ThrowEffect DEF LoadFailed, Shape
<1>2. /\ handler[s].pc \in {"waiting", "unload"} /\ handler[s].repo # NoRepo
      /\ heap[handler[s].repo].pc = "failed"
  BY DEF LoadFailed
<1>3. UNCHANGED <<head, commits, stage, heap, loaded, promise, view, acked, gone, goneAcked>>
  BY DEF LoadFailed, stores, memory, history
<1>4. \A d \in Devices : view'[d] = Missing
  <2>1. handler[s].repo \in Repos
    BY <1>2 DEF Shape, TypeOK, Handler
  <2> QED
    BY <1>2, <1>3, <2>1 DEF Shape, HeapInv, ClientInv
<1>5. handler[s].pc \notin Busy /\ handler'[s].pc \notin Busy /\ handler'[s].pc \notin Using
      /\ handler'[s].op \notin {"add", "remove"}
  BY <1>1, <1>2, IdleIsNotBusy DEF Busy, Committing
<1>6. Used' \subseteq Used
  BY <1>1, <1>3, <1>5, StayUsed, UsedShrinks
<1> QED
  BY <1>1, <1>3, <1>4, <1>5, <1>6, MoveAtom

(* A handler that is about no atom ends, or unloads the branch. *)
LEMMA LeaveAtom ==
    ASSUME Shape, NEW a, AtomInv(a), NEW s \in Slots, handler[s].pc \notin Busy,
           handler[s].op \notin {"add", "remove"},
           End(s) \/ \E members : TryUnload(s, members),
           loaded' \in {loaded, NoRepo}, promise' \in {promise, NoRepo},
           UNCHANGED <<head, commits, stage, heap, acked, gone, goneAcked>>,
           \A d \in Devices : view'[d] # Missing => view'[d] = view[d]
    PROVE  AtomInv(a)'
<1>1. handler \in [Slots -> Handler] /\ promise \in Repos \cup {NoRepo}
  BY DEF Shape, TypeOK
<1>2. /\ Others(s)
      /\ \/ handler'[s] = Idle
         \/ handler'[s].pc = "unload" /\ handler'[s].op = "unload" /\ handler'[s].repo = promise
  <2>1. CASE End(s)
    BY <1>1, <2>1, EndEffect
  <2>2. CASE \E members : TryUnload(s, members)
    BY <1>1, <2>2, TryUnloadEffect
  <2> QED
    BY <2>1, <2>2
<1>3. handler'[s].pc \notin Busy /\ handler'[s].op \notin {"add", "remove"}
  BY <1>2, IdleIsNotBusy DEF Busy, Committing
<1>4. handler'[s].pc \in Using => handler'[s].repo \in Used \cup {NoRepo}
  BY <1>2, IdleIsNotBusy, StayUsed
<1>5. Used' \subseteq Used
  BY <1>2, <1>4, StayUsed, UsedShrinks
<1> QED
  BY <1>2, <1>3, <1>5, MoveAtom

LEMMA GetBranchAtom ==
    ASSUME Shape, NEW a, AtomInv(a), NEW d \in Devices, GetBranch(d)
    PROVE  AtomInv(a)'
<1>1. PICK s \in Slots : s = Events(d)
  BY SlotFacts
<1>2. handler[s].pc \notin Busy /\ handler[s].op \notin {"add", "remove"}
  BY <1>1, HasRepoUsed DEF GetBranch
<1>3. TryUnload(s, channel)
  BY <1>1 DEF GetBranch
<1>4. UNCHANGED <<head, commits, stage, heap, loaded, promise, view, acked, gone, goneAcked>>
  BY DEF GetBranch, stores, memory, clients, history
<1> QED
  BY <1>2, <1>3, <1>4, LeaveAtom

LEMMA CommitEventAtom ==
    ASSUME Shape, NEW a \in Atoms, AtomInv(a), NEW d \in Devices, Commit(d), a \notin contended'
    PROVE  AtomInv(a)'
<1>1. PICK s \in Slots : s = Events(d)
  BY SlotFacts
<1>2. PICK r \in Repos :
        /\ HasRepo(s, "commit", r)
        /\ TakeCommit(s, r, "commit") \/ End(s)
  BY <1>1 DEF Commit
<1>3. r \in Used /\ handler[s].pc \notin Busy /\ handler[s].op \notin {"add", "remove"}
  BY <1>2, HasRepoUsed
<1>4. UNCHANGED <<head, commits, stage, heap, loaded, promise, view, acked, gone, goneAcked>>
  BY DEF Commit, stores, memory, clients
<1>5. CASE TakeCommit(s, r, "commit")
  <2>1. Taken(s, r, "commit")
    BY <1>5, TakeCommitEffect, OpTypes DEF Shape, TypeOK
  <2> QED
    BY <1>3, <1>4, <1>5, <2>1, TakenAtom
<1>6. CASE End(s)
  BY <1>3, <1>4, <1>6, LeaveAtom
<1> QED
  BY <1>2, <1>5, <1>6

LEMMA RestoreEventAtom ==
    ASSUME Shape, NEW a \in Atoms, AtomInv(a),
           NEW d \in Devices, RestoreEvent(d), a \notin contended'
    PROVE  AtomInv(a)'
<1>1. PICK s \in Slots : s = Events(d)
  BY SlotFacts
<1>2. PICK r \in Repos :
        /\ HasRepo(s, "restore", r)
        /\ \/ TakeCommit(s, r, "restore")
           \/ handler' = [handler EXCEPT ![s].pc = "restore", ![s].repo = r]
  BY <1>1 DEF RestoreEvent
<1>3. r \in Used /\ handler[s].pc \notin Busy /\ handler[s].op \notin {"add", "remove"}
  BY <1>2, HasRepoUsed
<1>4. UNCHANGED <<head, commits, stage, heap, loaded, promise, view, acked, gone, goneAcked>>
  BY DEF RestoreEvent, stores, memory, clients
<1>5. CASE TakeCommit(s, r, "restore")
  <2>1. Taken(s, r, "restore")
    BY <1>5, TakeCommitEffect, OpTypes DEF Shape, TypeOK
  <2> QED
    BY <1>3, <1>4, <1>5, <2>1, TakenAtom
<1>6. CASE handler' = [handler EXCEPT ![s].pc = "restore", ![s].repo = r]
  <2>1. /\ Others(s) /\ handler'[s].pc = "restore" /\ handler'[s].op = handler[s].op
        /\ handler'[s].repo = r /\ handler'[s].atoms = handler[s].atoms
    BY <1>6, RestoreEffect DEF Shape, TypeOK
  <2>2. handler'[s].pc \notin Busy
    BY <2>1 DEF Busy, Committing
  <2>3. Used' \subseteq Used
    BY <1>3, <1>4, <2>1, StayUsed, UsedShrinks
  <2> QED
    BY <1>3, <1>4, <2>1, <2>2, <2>3, MoveAtom
<1> QED
  BY <1>2, <1>5, <1>6

LEMMA CheckoutEventAtom ==
    ASSUME Shape, NEW a, AtomInv(a), NEW d \in Devices, CheckoutEvent(d)
    PROVE  AtomInv(a)'
<1>1. PICK s \in Slots : s = Events(d)
  BY SlotFacts
<1>2. PICK r \in Repos :
        /\ HasRepo(s, "checkout", r)
        /\ handler' = [handler EXCEPT ![s].pc = "resetHead", ![s].repo = r,
                                      ![s].commit = handler[s].target]
  BY <1>1 DEF CheckoutEvent
<1>3. r \in Used /\ handler[s].pc \notin Busy /\ handler[s].op = "checkout"
  BY <1>2, HasRepoUsed
<1>4. UNCHANGED <<head, commits, stage, heap, loaded, promise, view, acked, gone, goneAcked>>
  BY DEF CheckoutEvent, stores, memory, clients, history
<1>5. handler \in [Slots -> Handler] /\ handler[s].target \in Commits \cup {NoCommit}
  BY DEF Shape, TypeOK, Handler
<1>6. ResetBegun(s, r, handler[s].target)
  BY <1>2, <1>5, ResetEffect
<1>7. /\ Others(s) /\ handler'[s].pc = "resetHead" /\ handler'[s].op = handler[s].op
      /\ handler'[s].repo = r /\ handler'[s].atoms = handler[s].atoms
  BY <1>6 DEF ResetBegun
<1>8. handler'[s].pc \notin Busy
  BY <1>7 DEF Busy, Committing
<1>9. Used' \subseteq Used
  BY <1>3, <1>4, <1>7, StayUsed, UsedShrinks
<1> QED
  BY <1>3, <1>4, <1>7, <1>8, <1>9, MoveAtom

LEMMA UnloadBranchAtom ==
    ASSUME Shape, NEW a \in Atoms, AtomInv(a), NEW s \in Slots, UnloadBranch(s), a \notin contended'
    PROVE  AtomInv(a)'
<1>1. handler[s].pc = "unload" /\ handler[s].op = "unload" /\ promise' = NoRepo
  BY DEF UnloadBranch, Shape, OpInv, OpOk
<1>2. handler[s].pc \notin Busy /\ handler[s].op \notin {"add", "remove"}
  BY <1>1 DEF Busy, Committing
<1>3. UNCHANGED <<head, commits, stage, heap, view, acked, gone, goneAcked>>
  BY DEF UnloadBranch, stores, clients
<1>4. PICK r \in Repos \cup {NoRepo} : r = handler[s].repo
  BY DEF Shape, TypeOK, Handler
<1>5. \/ r # NoRepo /\ TakeCommit(s, r, "unload") /\ UNCHANGED loaded
      \/ Unloaded(s)
  BY <1>4 DEF UnloadBranch
<1>6. CASE r # NoRepo /\ TakeCommit(s, r, "unload") /\ UNCHANGED loaded
  <2>1. r \in Repos
    BY <1>6
  <2>2. Taken(s, r, "unload")
    BY <1>6, <2>1, TakeCommitEffect, OpTypes DEF Shape, TypeOK
  <2>3. r \in Used
    BY <1>1, <1>4, <1>6 DEF Used, Using
  <2> QED
    BY <1>1, <1>2, <1>3, <1>6, <2>1, <2>2, <2>3, TakenAtom
<1>7. CASE Unloaded(s)
  BY <1>1, <1>2, <1>3, <1>7, LeaveAtom DEF Unloaded
<1> QED
  BY <1>5, <1>6, <1>7

LEMMA UnloadCommittedAtom ==
    ASSUME Shape, NEW a, AtomInv(a), NEW s \in Slots, UnloadCommitted(s)
    PROVE  AtomInv(a)'
<1>1. handler[s].pc = "unloaded" /\ handler[s].op = "unload" /\ loaded' = NoRepo /\ End(s)
  BY DEF UnloadCommitted, Unloaded, Shape, OpInv, OpOk
<1>2. handler[s].pc \notin Busy /\ handler[s].op \notin {"add", "remove"}
  BY <1>1 DEF Busy, Committing
<1>3. UNCHANGED <<head, commits, stage, heap, promise, view, acked, gone, goneAcked>>
  BY DEF UnloadCommitted, stores, clients, history
<1> QED
  BY <1>1, <1>2, <1>3, LeaveAtom

LEMMA UnwatchAtom ==
    ASSUME Shape, NEW a, AtomInv(a), NEW d \in Devices, Unwatch(d)
    PROVE  AtomInv(a)'
<1>1. PICK s \in Slots : s = Events(d)
  BY SlotFacts
<1>2. handler[s] = Idle /\ TryUnload(s, channel')
  BY <1>1 DEF Unwatch
<1>3. \A e \in Devices : view'[e] # Missing => view'[e] = view[e]
  BY DEF Unwatch, Shape, TypeOK
<1>4. UNCHANGED <<head, commits, stage, heap, loaded, promise, acked, gone, goneAcked>>
  BY DEF Unwatch, stores, memory, history
<1> QED
  BY <1>2, <1>3, <1>4, IdleIsNotBusy, LeaveAtom

LEMMA DisconnectAtom ==
    ASSUME Shape, NEW a, AtomInv(a), NEW d \in Devices, Disconnect(d)
    PROVE  AtomInv(a)'
<1>1. PICK s \in Slots : s = <<d, "disconnect">> /\ s[2] = "disconnect"
  BY SlotFacts
<1>2. view \in [Devices -> AtomSets] /\ view' = [view EXCEPT ![d] = Missing]
  BY DEF Disconnect, Shape, TypeOK
<1>3. UNCHANGED <<head, commits, stage, heap, loaded, promise, acked, gone, goneAcked>>
  BY DEF Disconnect, stores, memory, history
<1>4. CASE d \notin channel
  <2>1. view[d] = Missing
    BY <1>4 DEF Shape, ClientInv
  <2>2. view' = view /\ handler' = handler
    BY <1>2, <1>4, <2>1 DEF Disconnect
  <2> QED
    BY <1>3, <2>2, SameHandlersAtom
<1>5. CASE d \in channel
  <2>1. TryUnload(s, channel')
    BY <1>1, <1>5 DEF Disconnect
  <2>2. /\ Others(s)
        /\ \/ handler'[s] = Idle
           \/ handler'[s].pc = "unload" /\ handler'[s].op = "unload" /\ handler'[s].repo = promise
    BY <2>1, TryUnloadEffect DEF Shape, TypeOK
  <2>3. SameData(a)
    BY <1>2, <1>3, SameDataHolds
  <2>4. handler[s].op \in {"none", "unload"}
    BY <1>1 DEF Shape, OpInv, OpOk
  <2>5. handler'[s].pc \notin Busy /\ handler'[s].op \notin {"add", "remove"}
    BY <2>2, IdleIsNotBusy DEF Busy, Committing
  <2>6. SameChanges(s, a)
    <3>1. /\ ~Concerns(s, a) /\ ~Applied(s, a) /\ ~Fresh(s, a) /\ ~Unsent(s, a)
          /\ ~Concerns(s, a)' /\ ~Applied(s, a)' /\ ~Fresh(s, a)' /\ ~Unsent(s, a)'
      BY <2>4, <2>5 DEF Applied, Fresh, Unsent, Concerns
    <3> QED
      BY <3>1 DEF SameChanges
  <2>7. ~InReset(s)
    BY <2>4 DEF InReset, At, Shape, OpInv, OpOk
  <2>8. ~InReset(s)' /\ ~Writing(s)' /\ SaveOk(s, a)'
    BY <2>5 DEF InReset, Writing, At, Busy, Committing, SaveOk
  <2>9. handler'[s].pc \in Using => handler'[s].repo \in Used \cup {NoRepo}
    BY <2>2, IdleIsNotBusy, StayUsed
  <2>10. Used' \subseteq Used
    BY <1>3, <2>2, <2>9, StayUsed, UsedShrinks
  <2> QED
    BY <2>2, <2>3, <2>6, <2>7, <2>8, <2>10, FrameAtom
<1> QED
  BY <1>4, <1>5

LEMMA StoreRestoredAtom ==
    ASSUME Shape, NEW a, AtomInv(a), NEW s \in Slots, StoreRestored(s)
    PROVE  AtomInv(a)'
<1>1. PICK c \in Commits :
        /\ NextCommit(c)
        /\ commits' = [commits EXCEPT ![c] = commits[handler[s].target]]
        /\ handler' = [handler EXCEPT ![s].pc = "resetHead", ![s].commit = c]
  BY DEF StoreRestored
<1>2. /\ Others(s) /\ handler'[s].op = handler[s].op /\ handler'[s].pc = "resetHead"
      /\ handler'[s].repo = handler[s].repo /\ handler'[s].atoms = handler[s].atoms
  BY <1>1, RestoredEffect DEF Shape, TypeOK
<1>3. handler[s].pc = "restore" /\ handler[s].op = "restore"
  BY DEF StoreRestored, Shape, OpInv, OpOk
<1>4. UNCHANGED <<head, stage, heap, loaded, promise, view, acked, gone, goneAcked>>
  BY DEF StoreRestored, memory, clients, history
<1>5. c \notin Stored /\ commits \in [Commits -> AtomSets]
  BY <1>1 DEF NextCommit, Shape, TypeOK
<1>6. \A b \in Stored \cup {NoCommit} : AtomsOf(b)' = AtomsOf(b)
  BY <1>1, <1>5 DEF AtomsOf, Stored
<1>7. SameData(a)
  BY <1>4, <1>6 DEF SameData
<1>8. SameChanges(s, a)
  BY <1>2, <1>3 DEF SameChanges, Concerns, Applied, Fresh, Unsent
<1>9. ~InReset(s) /\ ~InReset(s)' /\ ~Writing(s)' /\ SaveOk(s, a)'
  BY <1>2, <1>3 DEF InReset, Writing, At, Committing, SaveOk
<1>10. handler[s].repo \in Used \cup {NoRepo}
  BY <1>3 DEF Used, Using, Resetting
<1>11. Used' \subseteq Used
  BY <1>2, <1>4, <1>10, StayUsed, UsedShrinks
<1> QED
  BY <1>2, <1>7, <1>8, <1>9, <1>11, FrameAtom

LEMMA StoreDataAtom ==
    ASSUME Shape, NEW a, AtomInv(a), NEW s \in Slots, StoreData(s)
    PROVE  AtomInv(a)'
<1>1. /\ Others(s) /\ handler'[s].op = handler[s].op /\ handler'[s].pc = "saveHead"
      /\ handler'[s].repo = handler[s].repo /\ handler'[s].atoms = {}
      /\ handler'[s].commit = handler[s].commit
  BY StoreEffect DEF StoreData, Shape, TypeOK
<1>2. handler[s].pc = "storeData" /\ handler[s].op \in {"commit", "restore", "unload"}
  BY DEF StoreData, Shape, OpInv, OpOk
<1>3. PICK c : c = handler[s].commit
  OBVIOUS
<1>4. /\ c \in Commits \ Stored /\ c # NoCommit /\ commits \in [Commits -> AtomSets]
      /\ commits' = [commits EXCEPT ![c] = handler[s].atoms]
  BY <1>2, <1>3, CommitTypes DEF StoreData, Shape, CommitInv, CommitOk, TypeOK
<1>5. UNCHANGED <<head, stage, heap, loaded, promise, view, acked, gone, goneAcked>>
  BY DEF StoreData, memory, clients, history
<1>6. /\ \A b \in Stored \cup {NoCommit} : AtomsOf(b)' = AtomsOf(b)
      /\ AtomsOf(c)' = handler[s].atoms
  BY <1>4 DEF AtomsOf, Stored
<1>7. SameData(a)
  BY <1>5, <1>6 DEF SameData
<1>8. SameChanges(s, a)
  BY <1>1, <1>2 DEF SameChanges, Concerns, Applied, Fresh, Unsent
<1>9. ~InReset(s) /\ ~InReset(s)' /\ Writing(s)
  BY <1>1, <1>2 DEF InReset, Writing, At, Committing
<1>10. SaveOk(s, a)'
  <2>1. a \in handler[s].atoms <=> a \in heap[handler[s].repo].atoms
    BY <1>2 DEF AtomInv, SaveInv, SaveOk
  <2>2. a \in AtomsOf(handler[s].commit)' <=> a \in heap'[handler'[s].repo].atoms
    BY <1>1, <1>3, <1>5, <1>6, <2>1 DEF AtomsOf
  <2> QED
    BY <1>1, <2>2 DEF SaveOk
<1>11. handler[s].repo \in Used \cup {NoRepo}
  BY <1>2 DEF Used, Using, Committing
<1>12. Used' \subseteq Used
  BY <1>1, <1>5, <1>11, StayUsed, UsedShrinks
<1> QED
  BY <1>1, <1>7, <1>8, <1>9, <1>10, <1>12, FrameAtom

LEMMA SaveHeadAtom ==
    ASSUME Shape, NEW a, AtomInv(a), NEW s \in Slots, SaveHead(s)
    PROVE  AtomInv(a)'
<1>1. /\ Others(s) /\ handler'[s].op = handler[s].op /\ handler'[s].pc = "setCurrent"
      /\ handler'[s].repo = handler[s].repo /\ handler'[s].commit = handler[s].commit
  BY GotoEffect, LabelTypes DEF SaveHead, Shape, TypeOK
<1>2. handler[s].pc = "saveHead" /\ handler[s].op \in {"commit", "restore", "unload"}
  BY DEF SaveHead, Shape, OpInv, OpOk
<1>3. head' = handler[s].commit
  BY DEF SaveHead
<1>4. UNCHANGED <<commits, stage, heap, loaded, promise, view, acked, gone, goneAcked>>
  BY DEF SaveHead, memory, clients, history
<1>5. PICK r \in Repos : r = handler[s].repo /\ r \in Used /\ heap[r].pc = "ready"
  BY <1>2, WritingRepo DEF Writing, Committing
<1>6. \A c : AtomsOf(c)' = AtomsOf(c)
  BY <1>4 DEF AtomsOf
<1>7. a \in AtomsOf(head)' <=> a \in heap[r].atoms
  BY <1>2, <1>3, <1>5, <1>4 DEF AtomInv, SaveInv, SaveOk, AtomsOf
<1>8. SameMemory(a) /\ ~Concerns(s, a)' /\ ~InReset(s)'
  BY <1>1, <1>2, <1>4 DEF SameMemory, Concerns, InReset, At
<1>9. \A t \in Slots : SaveOk(t, a)'
  <2>1. SaveOk(s, a)'
    BY <1>1, <1>2, <1>3, <1>4, <1>5, <1>7 DEF SaveOk, AtomsOf
  <2>2. ASSUME NEW t \in Slots, t # s PROVE SaveOk(t, a)'
    <3>1. handler'[t] = handler[t] /\ SaveOk(t, a)
      BY <1>1, <2>2 DEF Others, AtomInv, SaveInv
    <3>2. handler[t].pc \in Committing => handler[t].repo = r
      BY <1>5, WritingRepo DEF Writing, AtomInv, One
    <3>3. AtomsOf(handler[t].commit)' = AtomsOf(handler[t].commit)
      BY <1>4, <3>1 DEF AtomsOf
    <3> QED
      BY <1>4, <1>7, <3>1, <3>2, <3>3 DEF SaveOk, Committing
  <2> QED
    BY <2>1, <2>2
<1>10. (\A t \in Slots : ~Fresh(t, a)) => (a \in Recoverable' <=> a \in Recoverable)
  <2>1. ~InWindow
    BY <1>2 DEF AtomInv, InWindow, ResetInv, ResetOk, InReset, At, Writing, Committing
  <2>2. (\A t \in Slots : ~Fresh(t, a)) => (a \in heap[r].atoms <=> a \in Recoverable)
    BY <1>5, <2>1 DEF AtomInv, AgreeInv
  <2> QED
    BY <1>4, <1>7, <2>2 DEF Recoverable
<1>11. handler[s].repo \in Used \cup {NoRepo}
  BY <1>5
<1>12. Used' \subseteq Used
  BY <1>1, <1>4, <1>11, StayUsed, UsedShrinks
<1>13. handler[s].pc \in Committing
  BY <1>2 DEF Committing
<1> QED
  BY <1>1, <1>2, <1>8, <1>9, <1>10, <1>12, <1>13, CommitAtom

LEMMA CheckoutHeadAtom ==
    ASSUME Shape, NEW a, AtomInv(a), NEW s \in Slots, CheckoutHead(s)
    PROVE  AtomInv(a)'
<1>1. /\ Others(s) /\ handler'[s].op = handler[s].op /\ handler'[s].pc = "clearAdded"
      /\ handler'[s].repo = handler[s].repo /\ handler'[s].commit = handler[s].commit
  BY GotoEffect, LabelTypes DEF CheckoutHead, Shape, TypeOK
<1>2. handler[s].pc = "setCurrent" /\ handler[s].op \in {"commit", "restore", "unload"}
  BY DEF CheckoutHead, Shape, OpInv, OpOk
<1>3. UNCHANGED <<head, commits, stage, loaded, promise, view, acked, gone, goneAcked>>
  BY DEF CheckoutHead, stores, clients, history
<1>4. PICK r \in Repos : r = handler[s].repo
  BY <1>2, WritingRepo DEF Writing, Committing
<1>5. PICK c, x : c = handler[s].commit /\ x = AtomsOf(handler[s].commit)
  OBVIOUS
<1>6. c \in Commits \cup {NoCommit} /\ x \in SUBSET Atoms /\ heap \in [Repos -> Repo]
  BY <1>2, <1>5, AtomsOfType DEF Shape, CommitInv, CommitOk, TypeOK
<1>7. OtherRepos(r) /\ heap'[r].pc = heap[r].pc /\ heap'[r].atoms = x
  <2>1. heap' = [heap EXCEPT ![r].current = c, ![r].atoms = x, ![r].add = {}, ![r].del = {}]
    BY <1>4, <1>5 DEF CheckoutHead, SetCurrentCommit
  <2>2. CurrentSet(r, c, x)
    BY <1>6, <2>1, SetCurrentEffect
  <2> QED
    BY <2>2 DEF CurrentSet
<1>8. a \in x <=> a \in heap[r].atoms
  BY <1>2, <1>4, <1>5 DEF AtomInv, SaveInv, SaveOk
<1>9. SameMemory(a) /\ ~Concerns(s, a)' /\ ~InReset(s)'
  BY <1>1, <1>2, <1>3, <1>7, <1>8 DEF SameMemory, OtherRepos, Concerns, InReset, At
<1>10. \A t \in Slots : SaveOk(t, a)'
  <2>1. ASSUME NEW t \in Slots, handler[t].pc \in Committing
        PROVE  a \in heap'[handler[t].repo].atoms <=> a \in heap[handler[t].repo].atoms
    BY <1>9, <2>1, WritingRepo DEF Writing, SameMemory
  <2>2. \A t \in Slots : handler'[t].repo = handler[t].repo /\ handler'[t].commit = handler[t].commit
                         /\ handler'[t].op = handler[t].op
    BY <1>1 DEF Others
  <2>3. ASSUME NEW t \in Slots, t # s PROVE SaveOk(t, a)'
    <3>1. handler'[t] = handler[t] /\ SaveOk(t, a)
      BY <1>1, <2>3 DEF Others, AtomInv, SaveInv
    <3> QED
      BY <1>3, <2>1, <3>1 DEF SaveOk, AtomsOf, Committing
  <2>4. SaveOk(s, a)'
    <3>1. SaveOk(s, a)
      BY DEF AtomInv, SaveInv
    <3> QED
      BY <1>1, <1>2, <1>3, <2>1, <3>1 DEF SaveOk, AtomsOf, Committing
  <2> QED
    BY <2>3, <2>4
<1>11. a \in Recoverable' <=> a \in Recoverable
  BY <1>3 DEF Recoverable, AtomsOf
<1>12. handler[s].pc \in Committing
  BY <1>2 DEF Committing
<1>13. handler[s].repo \in Used \cup {NoRepo}
  BY <1>12, WritingRepo DEF Writing
<1>14. Used' \subseteq Used
  BY <1>1, <1>3, <1>13, StayUsed, UsedShrinks
<1> QED
  BY <1>1, <1>2, <1>9, <1>10, <1>11, <1>12, <1>14, CommitAtom

(* clearStage() in a commit: the head has everything that the stage had. *)
LEMMA ClearAtom ==
    ASSUME Shape, NEW a, AtomInv(a), NEW s \in Slots, Others(s),
           handler[s].pc \in {"clearAdded", "clearRemoved"},
           handler[s].op \in {"commit", "restore", "unload"},
           UNCHANGED <<head, commits, heap, loaded, promise, view, acked, gone, goneAcked>>,
           \/ /\ handler[s].pc = "clearAdded" /\ handler'[s].pc = "clearRemoved"
              /\ handler'[s].op = handler[s].op /\ handler'[s].repo = handler[s].repo
              /\ handler'[s].commit = handler[s].commit
              /\ stage'.add = {} /\ stage'.del = stage.del
           \/ /\ handler[s].pc = "clearRemoved" /\ stage'.add = stage.add /\ stage'.del = {}
              /\ \/ handler'[s] = Idle
                 \/ /\ handler'[s].op = handler[s].op /\ handler'[s].repo = handler[s].repo
                    /\ handler'[s].pc \in {"restore", "unloaded"}
    PROVE  AtomInv(a)'
<1>1. PICK r \in Repos : r = handler[s].repo /\ r \in Used /\ heap[r].pc = "ready"
  BY WritingRepo DEF Writing, Committing
<1>2. /\ a \in AtomsOf(head) <=> a \in heap[r].atoms
      /\ handler[s].pc = "clearRemoved" /\ a \in stage.add => a \in heap[r].atoms
  BY <1>1 DEF AtomInv, SaveInv, SaveOk
<1>3. SameMemory(a) /\ AtomsOf(head)' = AtomsOf(head)
  BY DEF SameMemory, AtomsOf
<1>4. ~Concerns(s, a)' /\ ~InReset(s)'
  BY IdleType DEF Concerns, InReset, At
<1>5. \A t \in Slots : SaveOk(t, a)'
  <2>1. ASSUME NEW t \in Slots, t # s PROVE SaveOk(t, a)'
    <3>1. handler'[t] = handler[t] /\ SaveOk(t, a)
      BY <2>1 DEF Others, AtomInv, SaveInv
    <3>2. a \in stage'.add => a \in stage.add
      OBVIOUS
    <3> QED
      BY <3>1, <3>2 DEF SaveOk, AtomsOf
  <2>2. SaveOk(s, a)'
    <3>1. SaveOk(s, a)
      BY DEF AtomInv, SaveInv
    <3>2. CASE handler[s].pc = "clearAdded"
      BY <3>1, <3>2 DEF SaveOk, AtomsOf
    <3>3. CASE handler[s].pc = "clearRemoved"
      BY <3>3, IdleType DEF SaveOk
    <3> QED
      BY <3>2, <3>3
  <2> QED
    BY <2>1, <2>2
<1>6. (\A t \in Slots : ~Fresh(t, a)) => (a \in Recoverable' <=> a \in Recoverable)
  <2>1. ~InWindow
    BY DEF AtomInv, InWindow, ResetInv, ResetOk, InReset, At, Writing, Committing
  <2>2. (\A t \in Slots : ~Fresh(t, a)) => (a \in heap[r].atoms <=> a \in Recoverable)
    BY <1>1, <2>1 DEF AtomInv, AgreeInv
  <2> QED
    BY <1>2, <1>3, <2>2 DEF Recoverable
<1>7. handler'[s].pc \in Using => handler'[s].repo \in Used \cup {NoRepo}
  BY <1>1, IdleIsNotBusy
<1>8. Used' \subseteq Used
  BY <1>7, StayUsed, UsedShrinks
<1>9. handler[s].pc \in Committing
  BY DEF Committing
<1> QED
  BY <1>3, <1>4, <1>5, <1>6, <1>8, <1>9, CommitAtom

LEMMA ClearAddedCommitAtom ==
    ASSUME Shape, NEW a, AtomInv(a), NEW s \in Slots, ClearAdded(s), handler[s].op # "checkout"
    PROVE  AtomInv(a)'
<1>1. /\ Others(s) /\ handler'[s].op = handler[s].op /\ handler'[s].pc = "clearRemoved"
      /\ handler'[s].repo = handler[s].repo /\ handler'[s].commit = handler[s].commit
  BY GotoEffect, LabelTypes DEF ClearAdded, Shape, TypeOK
<1>2. handler[s].pc = "clearAdded" /\ handler[s].op \in {"commit", "restore", "unload"}
  BY DEF ClearAdded, Shape, OpInv, OpOk
<1>3. stage'.add = {} /\ stage'.del = stage.del
  BY DEF ClearAdded, Shape, TypeOK
<1>4. UNCHANGED <<head, commits, heap, loaded, promise, view, acked, gone, goneAcked>>
  BY DEF ClearAdded, memory, clients, history
<1> QED
  BY <1>1, <1>2, <1>3, <1>4, ClearAtom

LEMMA ClearRemovedCommitAtom ==
    ASSUME Shape, NEW a, AtomInv(a), NEW s \in Slots, ClearRemoved(s), handler[s].op # "checkout"
    PROVE  AtomInv(a)'
<1>1. handler[s].pc = "clearRemoved" /\ handler[s].op \in {"commit", "restore", "unload"}
  BY DEF ClearRemoved, Shape, OpInv, OpOk
<1>2. stage'.add = stage.add /\ stage'.del = {}
  BY DEF ClearRemoved, Shape, TypeOK
<1>3. UNCHANGED <<head, commits, heap, loaded, promise, view, acked, gone, goneAcked>>
  BY DEF ClearRemoved, memory, clients, history
<1>4. End(s) \/ Goto(s, "restore") \/ Goto(s, "unloaded")
  BY <1>1 DEF ClearRemoved, AfterClear
<1>5. handler \in [Slots -> Handler]
  BY DEF Shape, TypeOK
<1>6. /\ Others(s)
      /\ \/ handler'[s] = Idle
         \/ /\ handler'[s].op = handler[s].op /\ handler'[s].repo = handler[s].repo
            /\ handler'[s].pc \in {"restore", "unloaded"}
  <2>1. CASE End(s)
    BY <1>5, <2>1, EndEffect
  <2>2. CASE Goto(s, "restore")
    BY <1>5, <2>2, GotoEffect, LabelTypes
  <2>3. CASE Goto(s, "unloaded")
    BY <1>5, <2>3, GotoEffect, LabelTypes
  <2> QED
    BY <1>4, <2>1, <2>2, <2>3
<1> QED
  BY <1>1, <1>2, <1>3, <1>6, ClearAtom

(* A step of a reset, from the new head until the RESET is sent. *)
LEMMA ResetAtom ==
    ASSUME Shape, NEW a, AtomInv(a), NEW s \in Slots, Others(s),
           handler[s].op \in {"checkout", "restore"}, handler'[s].op = handler[s].op,
           InReset(s)', ResetOk(s, a)', Kept(a, Recoverable)',
           \A r \in Used : heap'[r].pc = "ready" => Kept(a, heap[r].atoms)',
           a \in acked' => a \in acked, a \in goneAcked' => a \in goneAcked,
           UNCHANGED <<gone, view>>, Used' \subseteq Used
    PROVE  AtomInv(a)'
<1> USE DEF AtomInv
<1>1. ~Loading' /\ \A t \in Slots : (t # s => ~Writing(t)') /\ ~Applied(t, a)'
  BY DEF ResetOk
<1>2. \A t \in Slots : Concerns(t, a)' => Concerns(t, a) /\ handler'[t].op = handler[t].op
  BY DEF Others, Concerns
<1>3. One'
  BY DEF One
<1>4. Single(a)'
  BY <1>2 DEF Single
<1>5. LoadInv(a)'
  BY <1>1 DEF LoadInv, Loading
<1>6. KeptInv(a)'
  BY DEF KeptInv, Kept
<1>7. AppliedInv(a)'
  BY <1>1 DEF AppliedInv
<1>8. AgreeInv(a)'
  BY DEF AgreeInv, InWindow
<1>9. SaveInv(a)'
  <2>1. SaveOk(s, a)'
    BY DEF SaveOk, InReset, At
  <2>2. ASSUME NEW t \in Slots, t # s PROVE SaveOk(t, a)'
    BY <1>1, <2>2 DEF SaveOk, Writing, Committing
  <2> QED
    BY <2>1, <2>2 DEF SaveInv
<1>10. ResetInv(a)'
  <2>1. ASSUME NEW t \in Slots, t # s PROVE ~InReset(t)'
    BY <1>1, <2>1 DEF InReset, Writing, At, Committing
  <2> QED
    BY <2>1 DEF ResetInv, ResetOk
<1> QED
  BY <1>3, <1>4, <1>5, <1>6, <1>7, <1>8, <1>9, <1>10

(* What stays the same for the other handlers of a reset. *)
LEMMA ResetAlone ==
    ASSUME NEW s \in Slots, NEW a, Others(s), \A r \in Repos : heap'[r].pc = heap[r].pc, ~Loading,
           handler'[s].op \notin {"add", "remove"},
           \A t \in Slots : (t # s => ~Writing(t)) /\ ~Applied(t, a)
    PROVE  ~Loading' /\ \A t \in Slots : (t # s => ~Writing(t)') /\ ~Applied(t, a)'
<1>1. ~Loading'
  BY DEF Loading
<1>2. ASSUME NEW t \in Slots, t # s PROVE ~Writing(t)' /\ ~Applied(t, a)'
  BY <1>2 DEF Others, Writing, Applied, Concerns
<1>3. ~Applied(s, a)'
  BY DEF Applied, Concerns
<1> QED
  BY <1>1, <1>2, <1>3

LEMMA ResetHeadAtom ==
    ASSUME Shape, NEW a \in Atoms, AtomInv(a), NEW s \in Slots, ResetHead(s), a \notin contended'
    PROVE  AtomInv(a)'
<1>1. /\ Others(s) /\ handler'[s].op = handler[s].op /\ handler'[s].pc = "resetCurrent"
      /\ handler'[s].repo = handler[s].repo /\ handler'[s].commit = handler[s].commit
  BY GotoEffect, LabelTypes DEF ResetHead, Shape, TypeOK
<1>2. handler[s].pc = "resetHead" /\ handler[s].op \in {"checkout", "restore"}
  BY DEF ResetHead, Shape, OpInv, OpOk
<1>3. /\ head' = handler[s].commit /\ acked' = acked \cap AtomsOf(handler[s].commit)
      /\ goneAcked' = goneAcked \ AtomsOf(handler[s].commit)
  BY DEF ResetHead
<1>4. UNCHANGED <<commits, stage, heap, loaded, promise, view, gone>>
  BY DEF ResetHead, memory, clients
<1>5. /\ ~Loading /\ \A t \in Slots \ {s} : ~Writing(t)
      /\ a \notin Pending(s) /\ (handler[s].op = "restore" => a \notin stage.add /\ a \notin stage.del)
  BY DEF ResetHead, Contend
<1>6. \A t \in Slots : ~Applied(t, a)
  BY <1>2, <1>5 DEF Pending, Applied, Concerns
<1>7. ~Loading' /\ \A t \in Slots : (t # s => ~Writing(t)') /\ ~Applied(t, a)'
  BY <1>1, <1>2, <1>4, <1>5, <1>6, ResetAlone
<1>8. AtomsOf(head)' = AtomsOf(handler[s].commit)
  BY <1>3, <1>4 DEF AtomsOf
<1>9. Kept(a, AtomsOf(head))'
  BY <1>3, <1>4, <1>8 DEF Kept
<1>10. Kept(a, Recoverable)'
  <2>1. a \in stage.del => a \in gone
    BY DEF Shape, ClientInv
  <2>2. a \in goneAcked => a \notin Recoverable
    BY DEF AtomInv, KeptInv, Kept
  <2> QED
    BY <1>3, <1>4, <1>8, <2>1, <2>2 DEF Kept, Recoverable
<1>11. InReset(s)' /\ ResetOk(s, a)'
  BY <1>1, <1>2, <1>3, <1>4, <1>5, <1>7, <1>9 DEF InReset, ResetOk
<1>12. \A r \in Used : heap'[r].pc = "ready" => Kept(a, heap[r].atoms)'
  BY <1>3, <1>4 DEF AtomInv, KeptInv, Kept
<1>13. handler[s].repo \in Used \cup {NoRepo}
  BY <1>2 DEF Used, Using, Resetting
<1>14. Used' \subseteq Used
  BY <1>1, <1>4, <1>13, StayUsed, UsedShrinks
<1> QED
  BY <1>1, <1>2, <1>3, <1>4, <1>10, <1>11, <1>12, <1>14, ResetAtom

LEMMA ResetCurrentAtom ==
    ASSUME Shape, NEW a, AtomInv(a), NEW s \in Slots, ResetCurrent(s)
    PROVE  AtomInv(a)'
<1>1. /\ Others(s) /\ handler'[s].op = handler[s].op
      /\ handler'[s].pc = IF handler[s].op = "checkout" THEN "clearAdded" ELSE "sendReset"
      /\ handler'[s].repo = handler[s].repo /\ handler'[s].commit = handler[s].commit
  <2>1. (IF handler[s].op = "checkout" THEN "clearAdded" ELSE "sendReset") \in Labels
    BY LabelTypes
  <2> QED
    BY <2>1, GotoEffect DEF ResetCurrent, Shape, TypeOK
<1>2. handler[s].pc = "resetCurrent" /\ handler[s].op \in {"checkout", "restore"}
  BY DEF ResetCurrent, Shape, OpInv, OpOk
<1>3. UNCHANGED <<head, commits, stage, loaded, promise, view, acked, gone, goneAcked>>
  BY DEF ResetCurrent, stores, clients, history
<1>4. InReset(s) /\ ResetOk(s, a)
  BY <1>2 DEF InReset, AtomInv, ResetInv
<1>5. PICK r \in Repos : r = handler[s].repo /\ r \in Used
  BY <1>4, ResetIsWriting, WritingRepo
<1>6. PICK c, x : c = handler[s].commit /\ x = AtomsOf(handler[s].commit)
  OBVIOUS
<1>7. c \in Commits \cup {NoCommit} /\ x \in SUBSET Atoms /\ heap \in [Repos -> Repo]
  BY <1>2, <1>6, AtomsOfType DEF Shape, CommitInv, CommitOk, TypeOK
<1>8. OtherRepos(r) /\ heap'[r].pc = heap[r].pc /\ heap'[r].atoms = x /\ heap'[r].current = c
  <2>1. heap' = [heap EXCEPT ![r].current = c, ![r].atoms = x, ![r].add = {}, ![r].del = {}]
    BY <1>5, <1>6 DEF ResetCurrent, SetCurrentCommit
  <2>2. CurrentSet(r, c, x)
    BY <1>7, <2>1, SetCurrentEffect
  <2> QED
    BY <2>2 DEF CurrentSet
<1>9. \A q \in Repos : heap'[q].pc = heap[q].pc
  BY <1>8 DEF OtherRepos
<1>10. ~Loading' /\ \A t \in Slots : (t # s => ~Writing(t)') /\ ~Applied(t, a)'
  BY <1>1, <1>2, <1>4, <1>9, ResetAlone DEF ResetOk
<1>11. head = c /\ AtomsOf(head)' = x /\ Kept(a, x) /\ Kept(a, AtomsOf(head))'
  BY <1>3, <1>4, <1>6 DEF ResetOk, AtomsOf, Kept
<1>12. InReset(s)' /\ ResetOk(s, a)'
  <2>1. InReset(s)'
    BY <1>1, <1>2 DEF InReset, At
  <2>2. heap'[handler'[s].repo].current = head' /\ heap'[handler'[s].repo].atoms = AtomsOf(head)'
    BY <1>1, <1>3, <1>5, <1>8, <1>11
  <2> QED
    BY <1>1, <1>2, <1>3, <1>4, <1>6, <1>10, <1>11, <2>1, <2>2 DEF ResetOk
<1>13. Kept(a, Recoverable)'
  BY <1>3 DEF AtomInv, KeptInv, Kept, Recoverable, AtomsOf
<1>14. \A q \in Used : heap'[q].pc = "ready" => Kept(a, heap[q].atoms)'
  <2> SUFFICES ASSUME NEW q \in Used, heap'[q].pc = "ready" PROVE Kept(a, heap[q].atoms)'
    OBVIOUS
  <2>1. CASE q = r
    BY <1>3, <1>8, <1>11, <2>1 DEF Kept
  <2>2. CASE q # r
    BY <1>3, <1>8, <2>2, UsedRepos DEF OtherRepos, AtomInv, KeptInv, Kept
  <2> QED
    BY <2>1, <2>2
<1>15. Used' \subseteq Used
  BY <1>1, <1>3, <1>5, StayUsed, UsedShrinks
<1> QED
  BY <1>1, <1>2, <1>3, <1>12, <1>13, <1>14, <1>15, ResetAtom

LEMMA ClearAddedCheckoutAtom ==
    ASSUME Shape, NEW a, AtomInv(a), NEW s \in Slots, ClearAdded(s), handler[s].op = "checkout"
    PROVE  AtomInv(a)'
<1>1. /\ Others(s) /\ handler'[s].op = handler[s].op /\ handler'[s].pc = "clearRemoved"
      /\ handler'[s].repo = handler[s].repo /\ handler'[s].commit = handler[s].commit
  BY GotoEffect, LabelTypes DEF ClearAdded, Shape, TypeOK
<1>2. handler[s].pc = "clearAdded" /\ InReset(s) /\ ResetOk(s, a)
  BY DEF ClearAdded, InReset, At, AtomInv, ResetInv
<1>3. stage'.add = {} /\ stage'.del = stage.del
  BY DEF ClearAdded, Shape, TypeOK
<1>4. UNCHANGED <<head, commits, heap, loaded, promise, view, acked, gone, goneAcked>>
  BY DEF ClearAdded, memory, clients, history
<1>5. ~Loading' /\ \A t \in Slots : (t # s => ~Writing(t)') /\ ~Applied(t, a)'
  BY <1>1, <1>2, <1>4, ResetAlone DEF ResetOk
<1>6. AtomsOf(head)' = AtomsOf(head) /\ Kept(a, AtomsOf(head)) /\ Kept(a, AtomsOf(head))'
  BY <1>2, <1>4 DEF ResetOk, AtomsOf, Kept
<1>7. InReset(s)' /\ ResetOk(s, a)'
  BY <1>1, <1>2, <1>3, <1>4, <1>5, <1>6 DEF InReset, At, ResetOk
<1>8. Kept(a, Recoverable)'
  <2>1. a \in stage.del => a \in gone
    BY DEF Shape, ClientInv
  <2> QED
    BY <1>3, <1>4, <1>6, <2>1 DEF Kept, Recoverable
<1>9. \A r \in Used : heap'[r].pc = "ready" => Kept(a, heap[r].atoms)'
  BY <1>4 DEF AtomInv, KeptInv, Kept
<1>10. handler[s].repo \in Used \cup {NoRepo}
  BY <1>2 DEF Used, Using, Committing
<1>11. Used' \subseteq Used
  BY <1>1, <1>4, <1>10, StayUsed, UsedShrinks
<1> QED
  BY <1>1, <1>4, <1>7, <1>8, <1>9, <1>11, ResetAtom

LEMMA ClearRemovedCheckoutAtom ==
    ASSUME Shape, NEW a, AtomInv(a), NEW s \in Slots, ClearRemoved(s), handler[s].op = "checkout"
    PROVE  AtomInv(a)'
<1>1. /\ Others(s) /\ handler'[s].op = handler[s].op /\ handler'[s].pc = "sendReset"
      /\ handler'[s].repo = handler[s].repo /\ handler'[s].commit = handler[s].commit
  <2>1. Goto(s, "sendReset")
    BY DEF ClearRemoved, AfterClear
  <2> QED
    BY <2>1, GotoEffect, LabelTypes DEF Shape, TypeOK
<1>2. handler[s].pc = "clearRemoved" /\ InReset(s) /\ ResetOk(s, a)
  BY DEF ClearRemoved, InReset, At, AtomInv, ResetInv
<1>3. stage'.add = stage.add /\ stage'.del = {}
  BY DEF ClearRemoved, Shape, TypeOK
<1>4. UNCHANGED <<head, commits, heap, loaded, promise, view, acked, gone, goneAcked>>
  BY DEF ClearRemoved, memory, clients, history
<1>5. ~Loading' /\ \A t \in Slots : (t # s => ~Writing(t)') /\ ~Applied(t, a)'
  BY <1>1, <1>2, <1>4, ResetAlone DEF ResetOk
<1>6. AtomsOf(head)' = AtomsOf(head) /\ Kept(a, AtomsOf(head)) /\ Kept(a, AtomsOf(head))'
  BY <1>2, <1>4 DEF ResetOk, AtomsOf, Kept
<1>7. a \notin stage.add
  BY <1>2 DEF ResetOk
<1>8. InReset(s)' /\ ResetOk(s, a)'
  BY <1>1, <1>2, <1>3, <1>4, <1>5, <1>6, <1>7 DEF InReset, At, ResetOk
<1>9. Kept(a, Recoverable)'
  BY <1>3, <1>4, <1>6, <1>7 DEF Kept, Recoverable
<1>10. \A r \in Used : heap'[r].pc = "ready" => Kept(a, heap[r].atoms)'
  BY <1>4 DEF AtomInv, KeptInv, Kept
<1>11. handler[s].repo \in Used \cup {NoRepo}
  BY <1>2 DEF Used, Using, Committing
<1>12. Used' \subseteq Used
  BY <1>1, <1>4, <1>11, StayUsed, UsedShrinks
<1> QED
  BY <1>1, <1>4, <1>8, <1>9, <1>10, <1>12, ResetAtom

(* RESET: what was loaded is what everybody has from now on. *)
LEMMA SendResetAtom ==
    ASSUME Shape, NEW a \in Atoms, AtomInv(a), NEW s \in Slots, SendReset(s), a \notin contended'
    PROVE  AtomInv(a)'
<1> USE DEF AtomInv
<1>1. Others(s) /\ handler'[s] = Idle
  BY EndEffect DEF SendReset, Shape, TypeOK
<1>2. /\ handler[s].pc = "sendReset" /\ handler[s].op \in {"checkout", "restore"} /\ InReset(s)
      /\ ResetOk(s, a)
  BY DEF SendReset, Shape, OpInv, OpOk, InReset, ResetInv
<1>3. UNCHANGED <<head, commits, stage, heap, loaded, promise, channel, acked, gone, goneAcked>>
  BY DEF SendReset, stores, memory
<1>4. /\ ~Loading /\ a \notin stage.add /\ a \notin stage.del /\ Kept(a, AtomsOf(head))
      /\ heap[handler[s].repo].current = head
      /\ a \in heap[handler[s].repo].atoms <=> a \in AtomsOf(head)
      /\ \A t \in Slots : (t # s => ~Writing(t)) /\ ~Applied(t, a)
  BY <1>2 DEF ResetOk
<1>5. \A t \in Slots : ~Concerns(t, a)'
  <2>1. a \notin Pending(s)
    BY DEF SendReset, Contend
  <2> QED
    BY <1>1, <2>1, IdleType DEF Pending, Concerns, Others
<1>6. \A t \in Slots : ~Writing(t)' /\ ~InReset(t)' /\ ~Applied(t, a)' /\ ~Fresh(t, a)' /\ ~Unsent(t, a)'
  <2>1. ASSUME NEW t \in Slots PROVE ~Writing(t)' /\ ~InReset(t)'
    <3>1. CASE t = s
      BY <1>1, <3>1, IdleType DEF Writing, InReset, At, Committing
    <3>2. CASE t # s
      BY <1>1, <1>4, <3>2 DEF Others, Writing, InReset, At, Committing
    <3> QED
      BY <3>1, <3>2
  <2> QED
    BY <1>5, <2>1 DEF Applied, Fresh, Unsent
<1>7. \A d \in Devices : view'[d] # Missing => view[d] # Missing /\ (a \in view'[d] <=> a \in AtomsOf(head))
  <2>1. view' = [d \in Devices |-> IF d \in channel /\ view[d] # Missing
                                   THEN (view[d] \cup AtomsOf(head)) \ (Atoms \ AtomsOf(head)) ELSE view[d]]
    BY <1>4 DEF SendReset, Send
  <2>2. \A d \in Devices : view[d] # Missing => d \in channel
    BY DEF Shape, ClientInv
  <2> QED
    BY <2>1, <2>2
<1>8. AtomsOf(head)' = AtomsOf(head) /\ (a \in Recoverable' <=> a \in AtomsOf(head))
  BY <1>3, <1>4 DEF Recoverable, AtomsOf
<1>9. ~Loading'
  BY <1>3, <1>4 DEF Loading
<1>10. Used' \subseteq Used
  BY <1>1, <1>3, StayUsed, UsedShrinks, IdleIsNotBusy
<1>11. \A r \in Used' : r \in Used /\ r = handler[s].repo
  BY <1>2, <1>10, ResetIsWriting, WritingRepo DEF One
<1>12. One'
  BY <1>10 DEF One
<1>13. Single(a)'
  BY <1>5 DEF Single
<1>14. LoadInv(a)'
  BY <1>9 DEF LoadInv, Loading
<1>15. KeptInv(a)'
  BY <1>3, <1>4, <1>7, <1>8, <1>11 DEF KeptInv, Kept
<1>16. AppliedInv(a)'
  BY <1>6 DEF AppliedInv
<1>17. AgreeInv(a)'
  BY <1>3, <1>4, <1>7, <1>8, <1>11 DEF AgreeInv
<1>18. SaveInv(a)'
  BY <1>6 DEF SaveInv, SaveOk, Writing, Committing
<1>19. ResetInv(a)'
  BY <1>6 DEF ResetInv, ResetOk
<1> QED
  BY <1>12, <1>13, <1>14, <1>15, <1>16, <1>17, <1>18, <1>19

LEMMA CrashAtom ==
    ASSUME Shape, NEW a, AtomInv(a), Crash
    PROVE  AtomInv(a)'
<1> USE DEF AtomInv
<1>1. \A s \in Slots : handler'[s] = Idle
  BY DEF Crash
<1>2. loaded' = NoRepo /\ promise' = NoRepo /\ \A d \in Devices : view'[d] = Missing
  BY DEF Crash
<1>3. UNCHANGED <<head, commits, stage, acked, gone, goneAcked>>
  BY DEF Crash, stores, history
<1>4. \A r \in Repos : heap'[r].pc = "free"
  BY DEF Crash, NewRepo
<1>5. Used' = {}
  BY <1>1, <1>2, IdleIsNotBusy DEF Used
<1>6. \A s \in Slots : ~Concerns(s, a)' /\ ~Writing(s)' /\ ~InReset(s)' /\ ~Applied(s, a)'
  BY <1>1, IdleType DEF Concerns, Writing, InReset, At, Applied, Committing
<1>7. One' /\ Single(a)'
  BY <1>5, <1>6 DEF One, Single
<1>8. LoadInv(a)'
  BY <1>4 DEF LoadInv, Loading
<1>9. KeptInv(a)'
  BY <1>2, <1>3, <1>5 DEF KeptInv, Kept, Recoverable, AtomsOf
<1>10. AppliedInv(a)' /\ AgreeInv(a)'
  BY <1>2, <1>5, <1>6 DEF AppliedInv, AgreeInv
<1>11. SaveInv(a)' /\ ResetInv(a)'
  BY <1>6 DEF SaveInv, SaveOk, Writing, Committing, ResetInv, ResetOk
<1> QED
  BY <1>7, <1>8, <1>9, <1>10, <1>11

(* A new load starts: nothing else uses the branch, and nothing of the atom   *)
(* is under way.                                                           *)
LEMMA WaitForNewRepoAtom ==
    ASSUME Shape, NEW a \in Atoms, AtomInv(a), NEW s \in Slots, WaitForRepo(s),
           \A t \in Slots : ~Settled(t), promise = NoRepo, a \notin contended'
    PROVE  AtomInv(a)'
<1> USE DEF AtomInv
<1>1. PICK r \in Repos :
        /\ handler' = [handler EXCEPT ![s].pc = "waiting", ![s].repo = r]
        /\ promise' = r
        /\ Contend(IF Saving THEN Atoms ELSE Pending(s))
        /\ heap' = [heap EXCEPT ![r] =
               NewRepo("checkout", handler[s].op \notin {"add", "remove", "commit"})]
  BY DEF WaitForRepo
<1>2. /\ Others(s) /\ handler'[s].op = handler[s].op /\ handler'[s].pc = "waiting"
      /\ handler'[s].repo = r /\ handler'[s].atoms = handler[s].atoms
  BY <1>1, WaitEffect DEF Shape, TypeOK
<1>3. OtherRepos(r) /\ heap'[r].pc = "checkout"
  BY <1>1 DEF Shape, TypeOK, NewRepo, OtherRepos
<1>4. handler[s].pc = "repo" /\ loaded = NoRepo
  BY DEF WaitForRepo
<1>5. UNCHANGED <<head, commits, stage, loaded, view, acked, gone, goneAcked>>
  BY DEF WaitForRepo, stores, clients
<1>6. ~Saving /\ a \notin Pending(s)
  BY <1>1 DEF Contend
<1>7. \A q \in Repos : heap[q].pc \notin {"checkout", "saveHead", "getStage", "failed"}
  BY RepoServerAssumption DEF Shape, HeapInv, NoRepo
<1>8. ASSUME NEW t \in Slots, handler[t].pc \in Using PROVE FALSE
  <2>1. handler[t].pc \in {"waiting", "unload"} /\ handler[t].repo # NoRepo
        /\ heap[handler[t].repo].pc \notin {"ready", "failed"}
    BY <1>6, <1>8 DEF Using, Settled, Saving
  <2>2. handler[t].repo \in Repos /\ heap[handler[t].repo].pc # "free"
    BY <2>1 DEF Shape, TypeOK, Handler, RepoInv, RepoOk
  <2>3. heap[handler[t].repo].pc \in {"free", "checkout", "saveHead", "getStage", "ready", "failed"}
    BY <2>2 DEF Shape, TypeOK, Repo
  <2> QED
    BY <1>7, <2>1, <2>2, <2>3
<1>9. Used' \subseteq {r}
  <2>1. \A t \in Slots : handler'[t].pc \in Using => handler'[t].repo = r
    BY <1>2, <1>8 DEF Others
  <2> QED
    BY <1>1, <1>4, <1>5, <2>1 DEF Used
<1>10. \A t \in Slots : Concerns(t, a)' => t = s /\ Concerns(t, a) /\ handler'[t].op = handler[t].op
  BY <1>2, <1>6 DEF Concerns, Others, Pending
<1>11. \A t \in Slots : ~Writing(t)' /\ ~InReset(t)' /\ ~Applied(t, a)'
  <2>1. ASSUME NEW t \in Slots PROVE handler'[t].pc \notin Committing \cup Resetting
    BY <1>2, <1>6 DEF Others, Saving, Committing, Resetting
  <2>2. \A t \in Slots : ~Applied(t, a)'
    BY <1>2, <1>10 DEF Applied
  <2> QED
    BY <2>1, <2>2 DEF Writing, InReset, At, Committing, Resetting
<1>12. \A q \in Repos : heap'[q].pc \notin {"saveHead", "getStage"}
  BY <1>3, <1>7 DEF OtherRepos
<1>13. One' /\ Single(a)'
  BY <1>5, <1>9, <1>10 DEF One, Single
<1>14. LoadInv(a)'
  BY <1>11, <1>12 DEF LoadInv
<1>15. KeptInv(a)'
  BY <1>3, <1>5, <1>9 DEF KeptInv, Kept, Recoverable, AtomsOf
<1>16. AppliedInv(a)'
  BY <1>11 DEF AppliedInv
<1>17. AgreeInv(a)'
  <2>1. ~InWindow /\ \A t \in Slots : ~Unsent(t, a)
    <3>1. \A t \in Slots : ~InReset(t)
      BY <1>6 DEF Saving, InReset, At, Committing, Resetting
    <3>2. \A t \in Slots : ~Unsent(t, a)
      BY <1>4, <1>6 DEF Unsent, Applied, Concerns, Pending
    <3> QED
      BY <3>1, <3>2 DEF InWindow
  <2>2. \A t \in Slots : Concerns(t, a) => Concerns(t, a)'
    BY <1>2 DEF Concerns, Others
  <2>3. a \in Recoverable' <=> a \in Recoverable
    BY <1>5 DEF Recoverable, AtomsOf
  <2> QED
    BY <1>3, <1>5, <1>9, <2>1, <2>2, <2>3, SlotFacts DEF AgreeInv
<1>18. SaveInv(a)' /\ ResetInv(a)'
  BY <1>11 DEF SaveInv, SaveOk, Writing, Committing, ResetInv, ResetOk
<1> QED
  BY <1>13, <1>14, <1>15, <1>16, <1>17, <1>18

(* A step of a load: the repo that is loaded becomes what would be recovered. *)
LEMMA LoadAtom ==
    ASSUME Shape, NEW a, AtomInv(a), NEW r \in Repos,
           heap[r].pc \in {"checkout", "saveHead", "getStage"}, OtherRepos(r),
           heap'[r].pc \in {"saveHead", "failed", "getStage", "ready"},
           heap'[r].pc = "saveHead" => heap'[r].current = head,
           heap'[r].pc = "getStage" => (a \in heap'[r].atoms <=> a \in AtomsOf(head)),
           heap'[r].pc = "ready" => (a \in heap'[r].atoms <=> a \in Recoverable),
           UNCHANGED <<head, commits, stage, loaded, promise, view, handler, acked, gone, goneAcked>>
    PROVE  AtomInv(a)'
<1> USE DEF AtomInv
<1>1. Loading /\ Used' = Used
  BY DEF Loading, Used
<1>2. \A s \in Slots : ~Writing(s) /\ ~Applied(s, a)
  BY <1>1 DEF LoadInv
<1>3. \A s \in Slots : ~Writing(s)' /\ ~Applied(s, a)' /\ ~InReset(s)' /\ ~InReset(s)
  BY <1>2 DEF Writing, Applied, Concerns, InReset, At, Committing
<1>4. AtomsOf(head)' = AtomsOf(head) /\ Recoverable' = Recoverable
  BY DEF AtomsOf, Recoverable
<1>5. One' /\ Single(a)'
  BY <1>1 DEF One, Single, Concerns
<1>6. LoadInv(a)'
  BY <1>3, <1>4 DEF LoadInv, OtherRepos
<1>7. KeptInv(a)'
  BY <1>1, <1>4, UsedRepos DEF KeptInv, Kept, OtherRepos
<1>8. AppliedInv(a)'
  BY <1>3 DEF AppliedInv
<1>9. AgreeInv(a)'
  <2>1. ~InWindow /\ \A t \in Slots : ~Fresh(t, a) /\ ~Unsent(t, a)
    BY <1>2, <1>3 DEF InWindow, Fresh, Unsent, Applied
  <2>2. \A t \in Slots : Concerns(t, a)' <=> Concerns(t, a)
    BY DEF Concerns
  <2>3. \A q \in Used : heap'[q].pc = "ready" => (a \in heap'[q].atoms <=> a \in Recoverable)
    BY <2>1, UsedRepos DEF AgreeInv, OtherRepos
  <2> QED
    BY <1>1, <1>4, <2>1, <2>2, <2>3, SlotFacts DEF AgreeInv
<1>10. SaveInv(a)' /\ ResetInv(a)'
  BY <1>3 DEF SaveInv, SaveOk, Writing, Committing, ResetInv, ResetOk
<1> QED
  BY <1>5, <1>6, <1>7, <1>8, <1>9, <1>10

LEMMA CheckoutAtom ==
    ASSUME Shape, NEW a, AtomInv(a), NEW r \in Repos, Checkout(r)
    PROVE  AtomInv(a)'
<1>1. PICK l \in {"saveHead", "failed"} : heap' = [heap EXCEPT ![r].pc = l, ![r].current = head]
  BY DEF Checkout
<1>2. head \in Commits \cup {NoCommit}
  BY AtomsOfType DEF Shape, TypeOK
<1>3. OtherRepos(r) /\ heap'[r].pc = l /\ heap'[r].current = head
  BY <1>1, <1>2, CheckoutEffect DEF Shape, TypeOK
<1>4. UNCHANGED <<head, commits, stage, loaded, promise, view, handler, acked, gone, goneAcked>>
  BY DEF Checkout, stores, clients, history
<1>5. heap[r].pc = "checkout"
  BY DEF Checkout
<1> QED
  BY <1>3, <1>4, <1>5, LoadAtom

LEMMA SaveCheckedOutAtom ==
    ASSUME Shape, NEW a, AtomInv(a), NEW r \in Repos, SaveCheckedOut(r)
    PROVE  AtomInv(a)'
<1>1. AtomsOf(heap[r].current) \in SUBSET Atoms
  BY AtomsOfType DEF Shape, CommitInv
<1>2. heap[r].pc = "saveHead" /\ heap[r].current = head
  BY DEF SaveCheckedOut, AtomInv, LoadInv
<1>3. OtherRepos(r) /\ heap'[r].pc = "getStage" /\ heap'[r].atoms = AtomsOf(heap[r].current)
  <2>1. PICK x \in SUBSET Atoms : x = AtomsOf(heap[r].current)
    BY <1>1
  <2>2. heap' = [heap EXCEPT ![r].pc = "getStage", ![r].atoms = x] /\ heap \in [Repos -> Repo]
    BY <2>1 DEF SaveCheckedOut, Shape, TypeOK
  <2>3. OtherRepos(r) /\ heap'[r].pc = "getStage" /\ heap'[r].atoms = x
    BY <2>2, SaveCheckedOutEffect
  <2> QED
    BY <2>1, <2>3
<1>4. UNCHANGED <<head, commits, stage, loaded, promise, view, handler, acked, gone, goneAcked>>
  BY <1>2 DEF SaveCheckedOut, clients, history
<1> QED
  BY <1>2, <1>3, <1>4, LoadAtom

LEMMA GetStageAtom ==
    ASSUME Shape, NEW a, AtomInv(a), NEW r \in Repos, GetStage(r)
    PROVE  AtomInv(a)'
<1>1. PICK x, y, z :
        /\ x = (heap[r].atoms \cup stage.add) \ stage.del
        /\ y = (stage.add \ heap[r].atoms) \ stage.del
        /\ z = stage.del \cap (heap[r].atoms \cup stage.add)
  OBVIOUS
<1>2. x \in SUBSET Atoms /\ y \in SUBSET Atoms /\ z \in SUBSET Atoms /\ heap \in [Repos -> Repo]
  BY <1>1 DEF Shape, TypeOK, Repo
<1>3. heap' = [heap EXCEPT ![r].pc = "ready", ![r].atoms = x, ![r].add = y, ![r].del = z]
  BY <1>1 DEF GetStage
<1>4. Staged(r, x, y, z)
  BY <1>2, <1>3, GetStageEffect
<1>5. OtherRepos(r) /\ heap'[r].pc = "ready" /\ heap'[r].atoms = x
  BY <1>4 DEF Staged
<1>6. heap[r].pc = "getStage" /\ (a \in heap[r].atoms <=> a \in AtomsOf(head))
  BY DEF GetStage, AtomInv, LoadInv
<1>7. a \in x <=> a \in Recoverable
  BY <1>1, <1>6 DEF Recoverable
<1>8. UNCHANGED <<head, commits, stage, loaded, promise, view, handler, acked, gone, goneAcked>>
  BY DEF GetStage, stores, clients, history
<1> QED
  BY <1>5, <1>6, <1>7, <1>8, LoadAtom

LEMMA SendAtomsAtom ==
    ASSUME Shape, NEW a, AtomInv(a), NEW d \in Devices, SendAtoms(d)
    PROVE  AtomInv(a)'
<1>1. PICK s \in Slots : s = Events(d)
  BY SlotFacts
<1>2. PICK r \in Repos :
        /\ HasRepo(s, "watch", r)
        /\ \/ /\ End(s)
              /\ view' = [view EXCEPT ![d] = IF d \in channel THEN heap[r].atoms ELSE @]
           \/ Throw(s) /\ UNCHANGED view
  BY <1>1 DEF SendAtoms
<1>3. r \in Used /\ handler[s].pc \notin Busy /\ handler[s].op = "watch" /\ heap[r].pc = "ready"
  BY <1>2, HasRepoUsed, HasRepoFacts
<1>4. UNCHANGED <<head, commits, stage, heap, loaded, promise, acked, gone, goneAcked>>
  BY DEF SendAtoms, stores, memory, history
<1>5. End(s)
  BY <1>2 DEF Throw
<1>6. Others(s) /\ handler'[s] = Idle
  BY <1>5, EndEffect DEF Shape, TypeOK
<1>7. CASE \A e \in Devices : view'[e] # Missing => view'[e] = view[e]
  BY <1>3, <1>4, <1>5, <1>7, LeaveAtom
<1>8. CASE view'[d] = heap[r].atoms /\ \A e \in Devices : e # d => view'[e] = view[e]
  <2> USE DEF AtomInv
  <2>1. /\ \A t \in Slots : Concerns(t, a)' <=> Concerns(t, a)
        /\ \A t \in Slots : Concerns(t, a) => t # s /\ handler'[t] = handler[t] /\ t[1] # d
    <3>1. ~Concerns(s, a) /\ ~Concerns(s, a)'
      BY <1>3, <1>6, IdleType DEF Concerns
    <3>2. \A t \in Slots : t # s => handler'[t] = handler[t] /\ (Concerns(t, a)' <=> Concerns(t, a))
      BY <1>6 DEF Others, Concerns
    <3>3. \A t \in Slots : Concerns(t, a) => t = Events(t[1])
      BY SlotFacts DEF Concerns, Shape, OpInv, OpOk
    <3> QED
      BY <1>1, <3>1, <3>2, <3>3
  <2>2. /\ \A t \in Slots : Applied(t, a)' <=> Applied(t, a)
        /\ \A t \in Slots : Fresh(t, a)' <=> Fresh(t, a)
        /\ \A t \in Slots : Unsent(t, a)' <=> Unsent(t, a)
    BY <2>1 DEF Applied, Fresh, Unsent
  <2>3. \A t \in Slots : (InReset(t)' <=> InReset(t)) /\ (Writing(t)' <=> Writing(t))
    <3>1. ~InReset(s) /\ ~InReset(s)' /\ ~Writing(s) /\ ~Writing(s)'
      BY <1>3, <1>6, IdleIsNotBusy DEF InReset, Writing, At, Busy, Committing
    <3>2. ASSUME NEW t \in Slots, t # s
          PROVE  (InReset(t)' <=> InReset(t)) /\ (Writing(t)' <=> Writing(t))
      BY <1>6, <3>2 DEF Others, InReset, Writing, At
    <3> QED
      BY <3>1, <3>2
  <2>4. (InWindow' <=> InWindow) /\ (Loading' <=> Loading)
    BY <1>4, <2>3 DEF InWindow, Loading
  <2>5. AtomsOf(head)' = AtomsOf(head) /\ Recoverable' = Recoverable
    BY <1>4 DEF AtomsOf, Recoverable
  <2>6. Used' \subseteq Used
    BY <1>4, <1>6, StayUsed, UsedShrinks, IdleIsNotBusy
  <2>7. One' /\ Single(a)'
    BY <1>4, <1>8, <2>1, <2>6, SlotFacts DEF One, Single
  <2>8. LoadInv(a)'
    BY <1>4, <2>2, <2>3, <2>4, <2>5 DEF LoadInv
  <2>9. KeptInv(a)'
    BY <1>3, <1>4, <1>8, <2>5, <2>6 DEF KeptInv, Kept
  <2>10. AppliedInv(a)'
    <3>1. \A t \in Slots : Applied(t, a) => handler'[t] = handler[t]
      BY <2>1 DEF Applied
    <3> QED
      BY <1>4, <2>2, <2>5, <2>6, <3>1 DEF AppliedInv
  <2>11. AgreeInv(a)'
    <3>1. (\A t \in Slots : ~Unsent(t, a)) => \A t \in Slots : ~Fresh(t, a)
      BY DEF Fresh, Unsent, Applied
    <3>2. \A e \in Devices : Events(e) \in Slots
      BY SlotFacts
    <3> QED
      BY <1>3, <1>4, <1>8, <2>1, <2>2, <2>4, <2>5, <2>6, <3>1, <3>2 DEF AgreeInv
  <2>12. SaveInv(a)'
    <3>1. SaveOk(s, a)'
      BY <1>6, IdleType DEF SaveOk
    <3>2. ASSUME NEW t \in Slots, t # s PROVE SaveOk(t, a)'
      BY <1>4, <1>6, <3>2 DEF Others, SaveInv, SaveOk, AtomsOf
    <3> QED
      BY <3>1, <3>2 DEF SaveInv
  <2>13. ResetInv(a)'
    <3> SUFFICES ASSUME NEW t \in Slots, InReset(t)' PROVE ResetOk(t, a)'
      BY DEF ResetInv, ResetOk
    <3>1. InReset(t) /\ ResetOk(t, a)
      BY <2>3 DEF ResetInv
    <3>2. t # s /\ handler'[t] = handler[t]
      BY <1>6, <3>1, IdleType DEF Others, InReset, At
    <3>3. Kept(a, AtomsOf(head))'
      BY <1>4, <2>5, <3>1 DEF ResetOk, Kept
    <3> QED
      BY <1>4, <2>2, <2>3, <2>4, <2>5, <3>1, <3>2, <3>3 DEF ResetOk
  <2> QED
    BY <2>7, <2>8, <2>9, <2>10, <2>11, <2>12, <2>13
<1>9. \/ \A e \in Devices : view'[e] # Missing => view'[e] = view[e]
      \/ view'[d] = heap[r].atoms /\ \A e \in Devices : e # d => view'[e] = view[e]
  BY <1>2 DEF Shape, TypeOK
<1> QED
  BY <1>7, <1>8, <1>9

(* The event of a device that adds or removes the atom arrives. *)
LEMMA EventAtom ==
    ASSUME Shape, NEW a, AtomInv(a), NEW d \in Devices, NEW s \in Slots, s = Events(d), Others(s),
           handler[s] = Idle, handler'[s].pc = "repo", Concerns(s, a)',
           \A t \in Slots : ~Concerns(t, a),
           UNCHANGED <<head, commits, stage, heap, loaded, promise, acked, goneAcked>>,
           a \notin goneAcked,
           handler'[s].op = "add" => a \notin acked /\ a \notin gone' /\ a \in view'[d],
           handler'[s].op = "remove" => a \in gone' /\ a \notin view'[d],
           view'[d] # Missing, \A e \in Devices : e # d => view'[e] = view[e]
    PROVE  AtomInv(a)'
<1> USE DEF AtomInv
<1>1. \A t \in Slots : t # s => ~Concerns(t, a)'
  BY DEF Others, Concerns
<1>2. handler'[s].op \in {"add", "remove"}
  BY DEF Concerns
<1>3. \A t \in Slots : /\ ~Applied(t, a) /\ ~Fresh(t, a) /\ ~Unsent(t, a)
                       /\ ~Applied(t, a)' /\ ~Fresh(t, a)' /\ ~Unsent(t, a)'
  BY <1>1 DEF Applied, Fresh, Unsent
<1>4. \A t \in Slots : (InReset(t)' <=> InReset(t)) /\ (Writing(t)' <=> Writing(t))
  <2>1. ~InReset(s) /\ ~InReset(s)' /\ ~Writing(s) /\ ~Writing(s)'
    BY IdleIsNotBusy DEF InReset, Writing, At, Busy, Committing
  <2>2. ASSUME NEW t \in Slots, t # s PROVE (InReset(t)' <=> InReset(t)) /\ (Writing(t)' <=> Writing(t))
    BY <2>2 DEF Others, InReset, Writing, At
  <2> QED
    BY <2>1, <2>2
<1>5. (InWindow' <=> InWindow) /\ (Loading' <=> Loading)
  BY <1>4 DEF InWindow, Loading
<1>6. AtomsOf(head)' = AtomsOf(head) /\ Recoverable' = Recoverable
  BY DEF AtomsOf, Recoverable
<1>7. Used' \subseteq Used
  <2>1. handler'[s].pc \notin Using
    BY DEF Using, Committing, Resetting
  <2> QED
    BY <2>1, StayUsed, UsedShrinks
<1>8. a \notin goneAcked' /\ (a \in acked' => a \in gone')
  BY <1>2
<1>9. One'
  BY <1>7 DEF One
<1>10. Single(a)'
  <2>1. s[1] = d
    BY SlotFacts
  <2> QED
    BY <1>1, <1>2, <2>1 DEF Single
<1>11. LoadInv(a)'
  BY <1>3, <1>4, <1>5, <1>6 DEF LoadInv
<1>12. KeptInv(a)'
  BY <1>8 DEF KeptInv, Kept
<1>13. AppliedInv(a)'
  BY <1>3 DEF AppliedInv
<1>14. AgreeInv(a)'
  <2>1. \A e \in Devices : Events(e) \in Slots
    BY SlotFacts
  <2> QED
    BY <1>1, <1>3, <1>5, <1>6, <1>7, <2>1 DEF AgreeInv
<1>15. SaveInv(a)'
  <2>1. SaveOk(s, a)'
    BY DEF SaveOk
  <2>2. ASSUME NEW t \in Slots, t # s PROVE SaveOk(t, a)'
    BY <2>2 DEF Others, SaveInv, SaveOk, AtomsOf
  <2> QED
    BY <2>1, <2>2 DEF SaveInv
<1>16. ResetInv(a)'
  <2> SUFFICES ASSUME NEW t \in Slots, InReset(t)' PROVE ResetOk(t, a)'
    BY DEF ResetInv, ResetOk
  <2>1. InReset(t) /\ ResetOk(t, a) /\ t # s /\ handler'[t] = handler[t]
    BY <1>4 DEF ResetInv, Others, InReset, At
  <2>2. Kept(a, AtomsOf(head))'
    BY <1>8 DEF Kept
  <2> QED
    BY <1>3, <1>4, <1>5, <1>6, <2>1, <2>2 DEF ResetOk
<1> QED
  BY <1>9, <1>10, <1>11, <1>12, <1>13, <1>14, <1>15, <1>16

(* The event of another atom. *)
LEMMA OtherAtom ==
    ASSUME Shape, NEW a, AtomInv(a), NEW s \in Slots, Others(s), SameData(a), Used' \subseteq Used,
           ~Concerns(s, a), ~Concerns(s, a)', ~Writing(s), ~Writing(s)'
    PROVE  AtomInv(a)'
<1>1. SameChanges(s, a)
  BY DEF SameChanges, Applied, Fresh, Unsent
<1>2. ~InReset(s) /\ ~InReset(s)' /\ SaveOk(s, a)'
  BY DEF InReset, Writing, At, SaveOk, Committing
<1> QED
  BY <1>1, <1>2, FrameAtom

LEMMA AddAtomsAtom ==
    ASSUME Shape, NEW a, AtomInv(a), NEW d \in Devices, AddAtoms(d)
    PROVE  AtomInv(a)'
<1>1. PICK b \in Atoms \ (acked \cup gone) :
        /\ Author(b) = d /\ Receive(d, "add", {b}, NoCommit)
        /\ view' = [view EXCEPT ![d] = @ \cup {b}]
  BY DEF AddAtoms
<1>2. Received(d, "add", {b}, NoCommit)
  BY <1>1, ReceiveEffect, OpTypes, CommitTypes DEF Shape, TypeOK
<1>3. PICK s \in Slots : s = Events(d)
  BY SlotFacts
<1>4. /\ Others(s) /\ handler[s] = Idle /\ handler'[s].pc = "repo" /\ handler'[s].op = "add"
      /\ handler'[s].atoms = {b}
  BY <1>2, <1>3 DEF Received
<1>5. /\ view[d] # Missing /\ view'[d] = view[d] \cup {b} /\ view'[d] # Missing
      /\ \A e \in Devices : e # d => view'[e] = view[e]
  BY <1>1, MissingIsNone DEF AddAtoms, Shape, TypeOK, AtomSets
<1>6. UNCHANGED <<head, commits, stage, heap, loaded, promise, acked, gone, goneAcked>>
  BY DEF AddAtoms, stores, memory, history
<1>7. CASE b = a
  <2>1. a \notin acked /\ a \notin gone /\ a \notin goneAcked
    BY <1>1, <1>7 DEF Shape, ClientInv
  <2>2. ASSUME NEW t \in Slots, Concerns(t, a) PROVE FALSE
    <3>1. handler[t].op = "add"
      BY <2>1, <2>2 DEF Concerns, Shape, ChangeInv, ChangeOk
    <3>2. t[1] = d /\ t[2] # "disconnect"
      BY <1>1, <1>7, <2>2, <3>1 DEF Concerns, Shape, ChangeInv, ChangeOk, OpInv, OpOk
    <3>3. t = s
      BY <1>3, <3>2, SlotFacts
    <3> QED
      BY <1>4, <3>1, <3>3, IdleType
  <2>3. Concerns(s, a)'
    BY <1>4, <1>7 DEF Concerns
  <2> QED
    BY <1>3, <1>4, <1>5, <1>6, <1>7, <2>1, <2>2, <2>3, EventAtom
<1>8. CASE b # a
  <2>1. SameData(a)
    BY <1>5, <1>6, <1>8 DEF SameData, AtomsOf
  <2>2. ~Concerns(s, a) /\ ~Concerns(s, a)' /\ ~Writing(s) /\ ~Writing(s)'
    BY <1>4, <1>8, IdleType DEF Concerns, Writing, Committing
  <2>3. Used' \subseteq Used
    <3>1. handler'[s].pc \notin Using
      BY <1>4 DEF Using, Committing, Resetting
    <3> QED
      BY <1>4, <1>6, <3>1, StayUsed, UsedShrinks
  <2> QED
    BY <1>4, <2>1, <2>2, <2>3, OtherAtom
<1> QED
  BY <1>7, <1>8

LEMMA RemoveAtomsAtom ==
    ASSUME Shape, NEW a, AtomInv(a), NEW d \in Devices, RemoveAtoms(d), a \notin contended'
    PROVE  AtomInv(a)'
<1>1. PICK b \in view[d] :
        /\ Receive(d, "remove", {b}, NoCommit)
        /\ view' = [view EXCEPT ![d] = @ \ {b}] /\ gone' = gone \cup {b}
        /\ Contend(Pending(Events(d)) \cap {b})
  BY DEF RemoveAtoms
<1>2. view[d] # Missing /\ view[d] \in SUBSET Atoms /\ {b} \in SUBSET Atoms
  BY <1>1 DEF RemoveAtoms, Shape, TypeOK, AtomSets
<1>3. Received(d, "remove", {b}, NoCommit)
  BY <1>1, <1>2, ReceiveEffect, OpTypes, CommitTypes DEF Shape, TypeOK
<1>4. PICK s \in Slots : s = Events(d)
  BY SlotFacts
<1>5. /\ Others(s) /\ handler[s] = Idle /\ handler'[s].pc = "repo" /\ handler'[s].op = "remove"
      /\ handler'[s].atoms = {b}
  BY <1>3, <1>4 DEF Received
<1>6. /\ view'[d] = view[d] \ {b} /\ view'[d] # Missing
      /\ \A e \in Devices : e # d => view'[e] = view[e]
  BY <1>1, <1>2, MissingIsNone DEF Shape, TypeOK
<1>7. UNCHANGED <<head, commits, stage, heap, loaded, promise, acked, goneAcked>>
  BY DEF RemoveAtoms, stores, memory
<1>8. CASE b = a
  <2>1. a \notin goneAcked
    BY <1>1, <1>2, <1>8 DEF AtomInv, KeptInv, Kept
  <2>2. a \notin Pending(s)
    BY <1>1, <1>4, <1>8 DEF Contend
  <2>3. \A t \in Slots : ~Concerns(t, a)
    BY <1>5, <2>2, IdleType DEF Pending, Concerns
  <2>4. Concerns(s, a)' /\ a \in gone' /\ a \notin view'[d]
    BY <1>1, <1>5, <1>6, <1>8 DEF Concerns
  <2> QED
    BY <1>4, <1>5, <1>6, <1>7, <2>1, <2>3, <2>4, EventAtom
<1>9. CASE b # a
  <2>1. SameData(a)
    BY <1>1, <1>2, <1>6, <1>7, <1>9 DEF SameData, AtomsOf
  <2>2. ~Concerns(s, a) /\ ~Concerns(s, a)' /\ ~Writing(s) /\ ~Writing(s)'
    BY <1>5, <1>9, IdleType DEF Concerns, Writing, Committing
  <2>3. Used' \subseteq Used
    <3>1. handler'[s].pc \notin Using
      BY <1>5 DEF Using, Committing, Resetting
    <3> QED
      BY <1>5, <1>7, <3>1, StayUsed, UsedShrinks
  <2> QED
    BY <1>5, <2>1, <2>2, <2>3, OtherAtom
<1> QED
  BY <1>8, <1>9

(* The change of the atom is applied to the repo. *)
LEMMA ApplyAtom ==
    ASSUME Shape, NEW a, AtomInv(a), NEW s \in Slots, NEW r \in Repos, r \in Used, Others(s),
           heap[r].pc = "ready",
           Concerns(s, a), Concerns(s, a)', handler'[s].op = handler[s].op,
           handler[s].pc \in {"repo", "resume"}, handler'[s].pc = "stage",
           ~Saving, ~Loading, a \notin Pending(s),
           OtherRepos(r), heap'[r].pc = heap[r].pc,
           a \in heap'[r].atoms <=> handler[s].op = "add",
           ~handler'[s].new => (a \in heap[r].atoms <=> handler[s].op = "add"),
           UNCHANGED <<head, commits, stage, loaded, promise, view, acked, gone, goneAcked>>
    PROVE  AtomInv(a)'
<1> USE DEF AtomInv
<1>1. \A t \in Slots : t # s => ~Concerns(t, a) /\ ~Concerns(t, a)'
  BY DEF Pending, Concerns, Others
<1>2. \A t \in Slots : ~Writing(t)' /\ ~InReset(t)' /\ ~InReset(t)
  <2>1. ASSUME NEW t \in Slots
        PROVE  /\ handler[t].pc \notin Committing \cup Resetting
               /\ handler'[t].pc \notin Committing \cup Resetting
    BY DEF Others, Saving, Committing, Resetting
  <2> QED
    BY <2>1 DEF Writing, InReset, At, Committing, Resetting
<1>3. ~InWindow /\ \A t \in Slots : ~Fresh(t, a) /\ ~Unsent(t, a)
  BY <1>1, <1>2 DEF InWindow, Fresh, Unsent, Applied
<1>4. ~Loading' /\ AtomsOf(head)' = AtomsOf(head) /\ Recoverable' = Recoverable
  BY DEF Loading, OtherRepos, AtomsOf, Recoverable
<1>5. Used' \subseteq Used
  <2>1. handler'[s].pc \notin Using
    BY DEF Using, Committing, Resetting
  <2> QED
    BY <2>1, StayUsed, UsedShrinks
<1>6. \A q \in Used' : q = r
  BY <1>5 DEF One
<1>7. ~handler'[s].new => (handler[s].op = "add" <=> a \in Recoverable)
  BY <1>3 DEF AgreeInv
<1>8. One' /\ Single(a)'
  BY <1>1, <1>5 DEF One, Single
<1>9. LoadInv(a)'
  BY <1>4 DEF LoadInv, Loading
<1>10. KeptInv(a)'
  <2>1. \A S : Kept(a, S)
    BY ConcernedIsFree
  <2> QED
    BY <2>1 DEF KeptInv, Kept
<1>11. AppliedInv(a)'
  <2>1. \A t \in Slots : Applied(t, a)' => t = s
    BY <1>1 DEF Applied
  <2>2. ~Fresh(s, a)' => ~handler'[s].new
    BY DEF Fresh
  <2> QED
    BY <1>4, <1>6, <1>7, <2>1, <2>2 DEF AppliedInv
<1>12. AgreeInv(a)'
  <2>1. ~Fresh(s, a)' => ~handler'[s].new
    BY DEF Fresh
  <2>2. ~Unsent(s, a)' => ~handler'[s].new
    BY DEF Unsent, Applied
  <2>3. \A e \in Devices : Events(e) \in Slots
    BY SlotFacts
  <2>4. \A t \in Slots : Concerns(t, a)' <=> Concerns(t, a)
    BY <1>1
  <2> QED
    BY <1>3, <1>4, <1>6, <1>7, <2>1, <2>2, <2>3, <2>4 DEF AgreeInv
<1>13. SaveInv(a)' /\ ResetInv(a)'
  BY <1>2 DEF SaveInv, SaveOk, Writing, Committing, ResetInv, ResetOk
<1> QED
  BY <1>8, <1>9, <1>10, <1>11, <1>12, <1>13

LEMMA ApplyAddAtom ==
    ASSUME Shape, NEW a \in Atoms, AtomInv(a), NEW s \in Slots, ApplyAdd(s), a \notin contended'
    PROVE  AtomInv(a)'
<1>1. PICK r \in Repos, b \in handler[s].atoms :
        /\ HasRepo(s, "add", r)
        /\ handler' = [handler EXCEPT ![s].pc = "stage", ![s].repo = r,
                                      ![s].new = b \notin heap[r].atoms]
        /\ heap' = IF b \in heap[r].atoms THEN heap
                   ELSE [heap EXCEPT ![r].atoms = @ \cup {b}, ![r].add = @ \cup {b},
                                     ![r].del = @ \ {b}]
        /\ Contend(IF Saving \/ Loading \/ b \in Pending(s) \cup gone THEN {b} ELSE {})
  BY DEF ApplyAdd
<1>2. PICK n : n = (b \notin heap[r].atoms)
  OBVIOUS
<1>3. AppliedTo(s, r, n)
  <2>1. n \in BOOLEAN /\ handler \in [Slots -> Handler]
    BY <1>2 DEF Shape, TypeOK
  <2>2. handler' = [handler EXCEPT ![s].pc = "stage", ![s].repo = r, ![s].new = n]
    BY <1>1, <1>2, Zenon
  <2> QED
    BY <2>1, <2>2, ApplyEffect
<1>4. /\ Others(s) /\ handler'[s].op = handler[s].op /\ handler'[s].pc = "stage"
      /\ handler'[s].atoms = handler[s].atoms /\ handler'[s].new = n
  BY <1>3 DEF AppliedTo
<1>5. /\ r \in Used /\ handler[s].op = "add" /\ handler[s].pc \in {"repo", "resume"}
      /\ heap[r].pc = "ready"
  BY <1>1, HasRepoUsed, HasRepoFacts
<1>6. handler[s].atoms = {b} /\ b \in Atoms
  BY <1>1, <1>5 DEF Shape, ChangeInv, ChangeOk
<1>7. UNCHANGED <<head, commits, stage, loaded, promise, view, acked, gone, goneAcked>>
  BY DEF ApplyAdd, stores, clients
<1>8. /\ OtherRepos(r) /\ heap'[r].pc = heap[r].pc /\ heap'[r].current = heap[r].current
      /\ heap'[r].atoms = heap[r].atoms \cup {b}
  <2>1. CASE b \in heap[r].atoms
    BY <1>1, <2>1 DEF OtherRepos
  <2>2. CASE b \notin heap[r].atoms
    BY <1>1, <1>6, <2>2, AddEffect DEF Shape, TypeOK
  <2> QED
    BY <2>1, <2>2
<1>9. CASE b = a
  <2>1. Concerns(s, a) /\ Concerns(s, a)'
    BY <1>4, <1>5, <1>6, <1>9 DEF Concerns
  <2>2. ~Saving /\ ~Loading /\ a \notin Pending(s)
    BY <1>1, <1>9 DEF Contend
  <2>3. ~handler'[s].new => a \in heap[r].atoms
    BY <1>2, <1>4, <1>9
  <2> QED
    BY <1>4, <1>5, <1>7, <1>8, <1>9, <2>1, <2>2, <2>3, ApplyAtom
<1>10. CASE b # a
  <2>1. SameData(a)
    BY <1>7, <1>8, <1>10 DEF SameData, AtomsOf, OtherRepos
  <2>2. ~Concerns(s, a) /\ ~Concerns(s, a)' /\ ~Writing(s) /\ ~Writing(s)'
    BY <1>4, <1>5, <1>6, <1>10 DEF Concerns, Writing, Committing
  <2>3. Used' \subseteq Used
    <3>1. handler'[s].pc \notin Using
      BY <1>4 DEF Using, Committing, Resetting
    <3> QED
      BY <1>4, <1>7, <3>1, StayUsed, UsedShrinks
  <2> QED
    BY <1>4, <2>1, <2>2, <2>3, OtherAtom
<1> QED
  BY <1>9, <1>10

LEMMA ApplyRemoveAtom ==
    ASSUME Shape, NEW a \in Atoms, AtomInv(a), NEW s \in Slots, ApplyRemove(s), a \notin contended'
    PROVE  AtomInv(a)'
<1>1. PICK r \in Repos, b \in handler[s].atoms :
        /\ HasRepo(s, "remove", r)
        /\ handler' = [handler EXCEPT ![s].pc = "stage", ![s].repo = r,
                                      ![s].new = b \in heap[r].atoms]
        /\ heap' = IF b \notin heap[r].atoms THEN heap
                   ELSE [heap EXCEPT ![r].atoms = @ \ {b}, ![r].add = @ \ {b},
                                     ![r].del = @ \cup {b}]
        /\ Contend(IF Saving \/ Loading \/ b \in Pending(s) THEN {b} ELSE {})
  BY DEF ApplyRemove
<1>2. PICK n : n = (b \in heap[r].atoms)
  OBVIOUS
<1>3. AppliedTo(s, r, n)
  <2>1. n \in BOOLEAN /\ handler \in [Slots -> Handler]
    BY <1>2 DEF Shape, TypeOK
  <2>2. handler' = [handler EXCEPT ![s].pc = "stage", ![s].repo = r, ![s].new = n]
    BY <1>1, <1>2, Zenon
  <2> QED
    BY <2>1, <2>2, ApplyEffect
<1>4. /\ Others(s) /\ handler'[s].op = handler[s].op /\ handler'[s].pc = "stage"
      /\ handler'[s].atoms = handler[s].atoms /\ handler'[s].new = n
  BY <1>3 DEF AppliedTo
<1>5. /\ r \in Used /\ handler[s].op = "remove" /\ handler[s].pc \in {"repo", "resume"}
      /\ heap[r].pc = "ready"
  BY <1>1, HasRepoUsed, HasRepoFacts
<1>6. handler[s].atoms = {b} /\ b \in Atoms
  BY <1>1, <1>5 DEF Shape, ChangeInv, ChangeOk
<1>7. UNCHANGED <<head, commits, stage, loaded, promise, view, acked, gone, goneAcked>>
  BY DEF ApplyRemove, stores, clients
<1>8. /\ OtherRepos(r) /\ heap'[r].pc = heap[r].pc /\ heap'[r].current = heap[r].current
      /\ heap'[r].atoms = heap[r].atoms \ {b}
  <2>1. CASE b \notin heap[r].atoms
    BY <1>1, <2>1 DEF OtherRepos
  <2>2. CASE b \in heap[r].atoms
    BY <1>1, <1>6, <2>2, RemoveEffect DEF Shape, TypeOK
  <2> QED
    BY <2>1, <2>2
<1>9. CASE b = a
  <2>1. Concerns(s, a) /\ Concerns(s, a)'
    BY <1>4, <1>5, <1>6, <1>9 DEF Concerns
  <2>2. ~Saving /\ ~Loading /\ a \notin Pending(s)
    BY <1>1, <1>9 DEF Contend
  <2>3. ~handler'[s].new => a \notin heap[r].atoms
    BY <1>2, <1>4, <1>9
  <2> QED
    BY <1>4, <1>5, <1>7, <1>8, <1>9, <2>1, <2>2, <2>3, ApplyAtom
<1>10. CASE b # a
  <2>1. SameData(a)
    BY <1>7, <1>8, <1>10 DEF SameData, AtomsOf, OtherRepos
  <2>2. ~Concerns(s, a) /\ ~Concerns(s, a)' /\ ~Writing(s) /\ ~Writing(s)'
    BY <1>4, <1>5, <1>6, <1>10 DEF Concerns, Writing, Committing
  <2>3. Used' \subseteq Used
    <3>1. handler'[s].pc \notin Using
      BY <1>4 DEF Using, Committing, Resetting
    <3> QED
      BY <1>4, <1>7, <3>1, StayUsed, UsedShrinks
  <2> QED
    BY <1>4, <2>1, <2>2, <2>3, OtherAtom
<1> QED
  BY <1>9, <1>10

(* The change is staged. *)
LEMMA StageAtomsAtom ==
    ASSUME Shape, NEW a, AtomInv(a), NEW s \in Slots, StageAtoms(s)
    PROVE  AtomInv(a)'
<1> USE DEF AtomInv
<1>1. /\ Others(s) /\ handler'[s].op = handler[s].op /\ handler'[s].pc = "answer"
      /\ handler'[s].repo = handler[s].repo /\ handler'[s].atoms = handler[s].atoms
      /\ handler'[s].new = handler[s].new
  BY GotoEffect, LabelTypes DEF StageAtoms, Shape, TypeOK
<1>2. handler[s].pc = "stage" /\ handler[s].op \in {"add", "remove"}
  BY DEF StageAtoms, Shape, OpInv, OpOk
<1>3. PICK b \in Atoms : handler[s].atoms = {b}
  BY <1>2 DEF Shape, ChangeInv, ChangeOk
<1>4. /\ handler[s].op = "add" /\ handler[s].new
           => stage'.add = stage.add \cup {b} /\ stage'.del = stage.del
      /\ handler[s].op = "remove" /\ handler[s].new
           => stage'.add = stage.add /\ stage'.del = stage.del \cup {b}
      /\ ~handler[s].new => stage'.add = stage.add /\ stage'.del = stage.del
  BY <1>3 DEF StageAtoms, Shape, TypeOK
<1>5. UNCHANGED <<head, commits, heap, loaded, promise, view, acked, gone, goneAcked>>
  BY DEF StageAtoms, memory, clients, history
<1>6. Used' \subseteq Used
  <2>1. handler'[s].pc \notin Using
    BY <1>1 DEF Using, Committing, Resetting
  <2> QED
    BY <1>1, <1>5, <2>1, StayUsed, UsedShrinks
<1>7. CASE b # a
  <2>1. SameData(a)
    BY <1>2, <1>4, <1>5, <1>7 DEF SameData, AtomsOf
  <2>2. ~Concerns(s, a) /\ ~Concerns(s, a)' /\ ~Writing(s) /\ ~Writing(s)'
    BY <1>1, <1>2, <1>3, <1>7 DEF Concerns, Writing, Committing
  <2> QED
    BY <1>1, <1>6, <2>1, <2>2, OtherAtom
<1>8. CASE b = a /\ ~handler[s].new
  <2>1. SameData(a)
    BY <1>4, <1>5, <1>8 DEF SameData, AtomsOf
  <2>2. SameChanges(s, a)
    BY <1>1, <1>2, <1>8 DEF SameChanges, Concerns, Applied, Fresh, Unsent
  <2>3. ~InReset(s) /\ ~InReset(s)' /\ ~Writing(s)' /\ SaveOk(s, a)'
    BY <1>1, <1>2 DEF InReset, Writing, At, Committing, SaveOk
  <2> QED
    BY <1>1, <1>6, <2>1, <2>2, <2>3, FrameAtom
<1>9. CASE b = a /\ handler[s].new
  <2>1. Concerns(s, a) /\ Applied(s, a) /\ Concerns(s, a)' /\ Applied(s, a)' /\ Unsent(s, a)'
    BY <1>1, <1>2, <1>3, <1>9 DEF Concerns, Applied, Unsent
  <2>2. \A t \in Slots : t # s => ~Concerns(t, a) /\ ~Concerns(t, a)' /\ handler'[t] = handler[t]
    BY <1>1, <2>1 DEF Single, Others, Concerns
  <2>3. \A t \in Slots : ~Fresh(t, a)'
    BY <1>1, <2>2 DEF Fresh
  <2>4. ~Loading /\ ~InWindow
    BY <2>1 DEF LoadInv, InWindow, ResetInv, ResetOk
  <2>5. ~Loading' /\ \A t \in Slots : ~InReset(t)'
    <3>1. ASSUME NEW t \in Slots PROVE ~InReset(t)'
      <4>1. CASE t = s
        BY <1>1, <1>2, <4>1 DEF InReset, At
      <4>2. CASE t # s
        BY <2>2, <2>4, <4>2 DEF InReset, At, InWindow
      <4> QED
        BY <4>1, <4>2
    <3> QED
      BY <1>5, <2>4, <3>1 DEF Loading
  <2>6. \A r \in Used : heap[r].pc = "ready" => (handler[s].op = "add" <=> a \in heap[r].atoms)
    BY <2>1 DEF AppliedInv
  <2>7. handler[s].op = "add" <=> a \in Recoverable'
    <3>1. CASE handler[s].op = "add"
      <4>1. a \notin stage.del
        BY <2>1, <3>1 DEF Single, Shape, ClientInv
      <4> QED
        BY <1>4, <1>9, <3>1, <4>1 DEF Recoverable
    <3>2. CASE handler[s].op = "remove"
      BY <1>4, <1>9, <3>2 DEF Recoverable
    <3> QED
      BY <1>2, <3>1, <3>2
  <2>8. One' /\ Single(a)'
    BY <1>1, <1>5, <1>6, <2>1, <2>2 DEF One, Single
  <2>9. LoadInv(a)'
    BY <2>5 DEF LoadInv, Loading
  <2>10. KeptInv(a)'
    <3>1. \A S : Kept(a, S)
      BY <2>1, ConcernedIsFree
    <3> QED
      BY <1>5, <3>1 DEF KeptInv, Kept
  <2>11. AppliedInv(a)'
    <3>1. \A t \in Slots : Applied(t, a)' => t = s
      BY <2>2 DEF Applied
    <3> QED
      BY <1>1, <1>5, <1>6, <2>6, <2>7, <3>1 DEF AppliedInv
  <2>12. AgreeInv(a)'
    BY <1>5, <1>6, <2>1, <2>6, <2>7 DEF AgreeInv
  <2>13. SaveInv(a)'
    <3>1. SaveOk(s, a)'
      BY <1>1 DEF SaveOk
    <3>2. ASSUME NEW t \in Slots, t # s PROVE SaveOk(t, a)'
      <4>1. handler'[t] = handler[t] /\ SaveOk(t, a)
        BY <2>2, <3>2 DEF SaveInv
      <4>2. handler[t].pc \in Committing => (handler[s].op = "add" <=> a \in heap[handler[t].repo].atoms)
        BY <2>6, WritingRepo DEF Writing
      <4>3. a \in stage'.add => a \in stage.add \/ handler[s].op = "add"
        BY <1>2, <1>4, <1>9
      <4> QED
        BY <1>5, <4>1, <4>2, <4>3 DEF SaveOk, AtomsOf, Committing
    <3> QED
      BY <3>1, <3>2 DEF SaveInv
  <2>14. ResetInv(a)'
    BY <2>5 DEF ResetInv, ResetOk
  <2> QED
    BY <2>8, <2>9, <2>10, <2>11, <2>12, <2>13, <2>14
<1> QED
  BY <1>7, <1>8, <1>9

(* The change is answered, and the others are told. *)
LEMMA AtomsReceivedAtom ==
    ASSUME Shape, NEW a, AtomInv(a), NEW s \in Slots, AtomsReceived(s)
    PROVE  AtomInv(a)'
<1> USE DEF AtomInv
<1>1. Others(s) /\ handler'[s] = Idle
  BY EndEffect DEF AtomsReceived, Shape, TypeOK
<1>2. handler[s].pc = "answer" /\ handler[s].op \in {"add", "remove"}
  BY DEF AtomsReceived, Shape, OpInv, OpOk
<1>3. PICK b \in Atoms : handler[s].atoms = {b}
  BY <1>2 DEF Shape, ChangeInv, ChangeOk
<1>4. /\ handler[s].op = "add" => acked' \in {acked, acked \cup {b}} /\ goneAcked' = goneAcked
      /\ handler[s].op = "remove" => goneAcked' \in {goneAcked, goneAcked \cup {b}} /\ acked' = acked
  BY <1>3 DEF AtomsReceived
<1>5. \A d \in Devices :
        /\ view'[d] # Missing => view[d] # Missing
        /\ view'[d] # Missing /\ d # s[1] /\ handler[s].op = "add" /\ handler[s].new
             => view'[d] = view[d] \cup {b}
        /\ view'[d] # Missing /\ d # s[1] /\ handler[s].op = "remove" /\ handler[s].new
             => view'[d] = view[d] \ {b}
        /\ view'[d] # Missing /\ (d = s[1] \/ ~handler[s].new) => view'[d] = view[d]
  <2>1. PICK x, y :
          /\ x = IF handler[s].op = "add" /\ handler[s].new THEN {b} ELSE {}
          /\ y = IF handler[s].op = "remove" /\ handler[s].new THEN {b} ELSE {}
    OBVIOUS
  <2>2. view' = [d \in Devices |-> IF d \in channel \ {s[1]} /\ view[d] # Missing
                                   THEN (view[d] \cup x) \ y ELSE view[d]]
    <3>1. CASE handler[s].op = "add"
      <4>1. Send({s[1]}, x, {}) /\ y = {}
        BY <1>3, <2>1, <3>1 DEF AtomsReceived
      <4> QED
        BY <4>1 DEF Send
    <3>2. CASE handler[s].op = "remove"
      <4>1. Send({s[1]}, {}, y) /\ x = {}
        BY <1>3, <2>1, <3>2 DEF AtomsReceived
      <4> QED
        BY <4>1 DEF Send
    <3> QED
      BY <1>2, <3>1, <3>2
  <2>3. \A d \in Devices : view[d] # Missing => d \in channel
    BY DEF Shape, ClientInv
  <2>4. ASSUME NEW d \in Devices
        PROVE  /\ view'[d] # Missing => view[d] # Missing
               /\ view'[d] # Missing /\ d # s[1] => view'[d] = (view[d] \cup x) \ y
               /\ d = s[1] => view'[d] = view[d]
    BY <2>2, <2>3
  <2> QED
    BY <2>1, <2>4
<1>6. UNCHANGED <<head, commits, stage, heap, loaded, promise, gone>>
  BY DEF AtomsReceived, stores, memory
<1>7. Used' \subseteq Used
  BY <1>1, <1>6, StayUsed, UsedShrinks, IdleIsNotBusy
<1>8. CASE b # a
  <2>1. SameData(a)
    BY <1>2, <1>4, <1>5, <1>6, <1>8 DEF SameData, AtomsOf
  <2>2. ~Concerns(s, a) /\ ~Concerns(s, a)' /\ ~Writing(s) /\ ~Writing(s)'
    BY <1>1, <1>2, <1>3, <1>8, IdleType DEF Concerns, Writing, Committing
  <2> QED
    BY <1>1, <1>7, <2>1, <2>2, OtherAtom
<1>9. CASE b = a
  <2>1. Concerns(s, a) /\ Applied(s, a) /\ ~Fresh(s, a)
    BY <1>2, <1>3, <1>9 DEF Concerns, Applied, Fresh
  <2>2. \A t \in Slots : t # s => ~Concerns(t, a) /\ handler'[t] = handler[t]
    BY <1>1, <2>1 DEF Single, Others
  <2>3. \A t \in Slots : ~Concerns(t, a)' /\ ~Applied(t, a)' /\ ~Fresh(t, a)
    BY <1>1, <2>1, <2>2, IdleType DEF Concerns, Applied, Fresh
  <2>4. ~Loading /\ ~InWindow
    BY <2>1 DEF LoadInv, InWindow, ResetInv, ResetOk
  <2>5. ~Loading' /\ \A t \in Slots : ~InReset(t)'
    <3>1. ASSUME NEW t \in Slots PROVE ~InReset(t)'
      <4>1. CASE t = s
        BY <1>1, <4>1, IdleType DEF InReset, At
      <4>2. CASE t # s
        BY <2>2, <2>4, <4>2 DEF InReset, At, InWindow
      <4> QED
        BY <4>1, <4>2
    <3> QED
      BY <1>6, <2>4, <3>1 DEF Loading
  <2>6. /\ \A r \in Used : heap[r].pc = "ready" => (handler[s].op = "add" <=> a \in heap[r].atoms)
        /\ handler[s].op = "add" <=> a \in Recoverable
    BY <2>1 DEF AppliedInv
  <2>7. AtomsOf(head)' = AtomsOf(head) /\ Recoverable' = Recoverable
    BY <1>6 DEF AtomsOf, Recoverable
  <2>8. ASSUME NEW d \in Devices, view'[d] # Missing PROVE handler[s].op = "add" <=> a \in view'[d]
    <3>1. CASE d = s[1]
      BY <1>5, <2>1, <2>8, <3>1 DEF Single
    <3>2. CASE d # s[1] /\ handler[s].new
      BY <1>2, <1>5, <1>9, <2>8, <3>2
    <3>3. CASE d # s[1] /\ ~handler[s].new
      <4>1. Events(d) \in Slots /\ Events(d) # s
        BY <3>3, SlotFacts
      <4>2. ~Concerns(Events(d), a) /\ \A t \in Slots : ~Unsent(t, a)
        BY <2>2, <3>3, <4>1 DEF Unsent, Applied
      <4>3. a \in view[d] <=> a \in Recoverable
        BY <1>5, <2>4, <2>8, <4>2 DEF AgreeInv
      <4> QED
        BY <1>5, <2>6, <2>8, <3>3, <4>3
    <3> QED
      BY <3>1, <3>2, <3>3
  <2>9. /\ handler[s].op = "add" => a \notin goneAcked'
        /\ handler[s].op = "remove" => a \in gone'
    <3>1. handler[s].op = "add" => a \notin gone
      BY <2>1 DEF Single
    <3>2. handler[s].op = "remove" => a \in gone
      BY <1>3, <1>9 DEF Shape, ChangeInv, ChangeOk
    <3> QED
      BY <1>4, <1>6, <3>1, <3>2 DEF Shape, ClientInv
  <2>10. One' /\ Single(a)'
    BY <1>7, <2>3 DEF One, Single
  <2>11. LoadInv(a)'
    BY <2>5 DEF LoadInv, Loading
  <2>12. KeptInv(a)'
    BY <1>2, <1>6, <1>7, <2>6, <2>7, <2>8, <2>9 DEF KeptInv, Kept
  <2>13. AppliedInv(a)'
    BY <2>3 DEF AppliedInv
  <2>14. AgreeInv(a)'
    BY <1>6, <1>7, <2>6, <2>7, <2>8 DEF AgreeInv
  <2>15. SaveInv(a)'
    <3>1. SaveOk(s, a)'
      BY <1>1, IdleType DEF SaveOk
    <3>2. ASSUME NEW t \in Slots, t # s PROVE SaveOk(t, a)'
      BY <1>6, <2>2, <3>2 DEF SaveInv, SaveOk, AtomsOf
    <3> QED
      BY <3>1, <3>2 DEF SaveInv
  <2>16. ResetInv(a)'
    BY <2>5 DEF ResetInv, ResetOk
  <2> QED
    BY <2>10, <2>11, <2>12, <2>13, <2>14, <2>15, <2>16
<1> QED
  BY <1>8, <1>9

-----------------------------------------------------------------------------
(* Every atom that is not contended. *)
CleanInv == \A a \in Atoms : a \notin contended => AtomInv(a)

(* An atom that is contended stays so. *)
LEMMA ContendedGrows == [Next]_vars => contended \subseteq contended'
<1> USE DEF history
<1>1. ASSUME NEW d \in Devices,
             \/ Connect(d) \/ WatchBranch(d) \/ AddAtoms(d) \/ OtherEvent(d) \/ SendAtoms(d)
             \/ GetBranch(d) \/ CheckoutEvent(d) \/ Unwatch(d) \/ Disconnect(d)
      PROVE  contended' = contended
  BY <1>1 DEF Connect, WatchBranch, AddAtoms, OtherEvent, SendAtoms, GetBranch, CheckoutEvent,
              Unwatch, Disconnect
<1>2. ASSUME NEW d \in Devices, RemoveAtoms(d) \/ Commit(d) \/ RestoreEvent(d)
      PROVE  contended \subseteq contended'
  BY <1>2 DEF RemoveAtoms, Commit, RestoreEvent, TakeCommit, Contend
<1>3. ASSUME NEW s \in Slots,
             \/ RepoLoaded(s) \/ LoadFailed(s) \/ StageAtoms(s) \/ AtomsReceived(s)
             \/ StoreData(s) \/ SaveHead(s) \/ CheckoutHead(s) \/ ClearAdded(s)
             \/ ClearRemoved(s) \/ StoreRestored(s) \/ ResetCurrent(s) \/ UnloadCommitted(s)
      PROVE  contended' = contended
  BY <1>3 DEF RepoLoaded, LoadFailed, StageAtoms, AtomsReceived, StoreData, SaveHead,
              CheckoutHead, ClearAdded, ClearRemoved, StoreRestored, ResetCurrent, UnloadCommitted
<1>4. ASSUME NEW s \in Slots,
             \/ UnloadBranch(s) \/ ApplyAdd(s) \/ ApplyRemove(s) \/ ResetHead(s) \/ SendReset(s)
             \/ WaitForRepo(s)
      PROVE  contended \subseteq contended'
  BY <1>4 DEF UnloadBranch, ApplyAdd, ApplyRemove, ResetHead, SendReset, WaitForRepo, TakeCommit,
              Contend
<1>5. ASSUME NEW r \in Repos, Checkout(r) \/ SaveCheckedOut(r) \/ GetStage(r)
      PROVE  contended' = contended
  BY <1>5 DEF Checkout, SaveCheckedOut, GetStage
<1>6. Crash => contended' = contended
  BY DEF Crash
<1>7. Next => contended \subseteq contended'
  BY <1>1, <1>2, <1>3, <1>4, <1>5, <1>6, NextCases
<1> QED
  BY <1>7 DEF vars

LEMMA InitAtom ==
    ASSUME Init, NEW a
    PROVE  AtomInv(a)
<1>1. /\ \A s \in Slots : handler[s] = Idle
      /\ \A d \in Devices : view[d] = Missing
      /\ \A r \in Repos : heap[r].pc = "free"
  BY DEF Init, NewRepo
<1>2. \A s \in Slots : /\ ~Concerns(s, a) /\ ~Applied(s, a) /\ ~Writing(s) /\ ~InReset(s)
                       /\ handler[s].pc = "idle"
  BY <1>1, IdleType DEF Concerns, Applied, Writing, InReset, At, Committing
<1>3. Used = {}
  BY <1>2 DEF Init, Used, Using, Committing, Resetting
<1>4. acked = {} /\ goneAcked = {}
  BY DEF Init
<1>5. One /\ Single(a) /\ LoadInv(a)
  BY <1>1, <1>2, <1>3 DEF One, Single, LoadInv, Loading
<1>6. KeptInv(a) /\ AppliedInv(a) /\ AgreeInv(a)
  BY <1>1, <1>2, <1>3, <1>4 DEF KeptInv, Kept, AppliedInv, AgreeInv
<1>7. SaveInv(a) /\ ResetInv(a)
  BY <1>2 DEF SaveInv, SaveOk, ResetInv, ResetOk
<1> QED
  BY <1>5, <1>6, <1>7 DEF AtomInv

LEMMA NextAtom ==
    ASSUME Shape, NEW a \in Atoms, AtomInv(a), [Next]_vars, a \notin contended'
    PROVE  AtomInv(a)'
<1>1. ASSUME NEW d \in Devices,
             \/ Connect(d) \/ WatchBranch(d) \/ AddAtoms(d) \/ RemoveAtoms(d) \/ OtherEvent(d)
             \/ SendAtoms(d) \/ GetBranch(d) \/ Commit(d) \/ CheckoutEvent(d)
             \/ RestoreEvent(d) \/ Unwatch(d) \/ Disconnect(d)
      PROVE  AtomInv(a)'
  BY <1>1, ConnectAtom, WatchBranchAtom, AddAtomsAtom, RemoveAtomsAtom, OtherEventAtom,
     SendAtomsAtom, GetBranchAtom, CommitEventAtom, CheckoutEventAtom, RestoreEventAtom,
     UnwatchAtom, DisconnectAtom
<1>2. ASSUME NEW s \in Slots,
             \/ RepoLoaded(s) \/ LoadFailed(s) \/ UnloadBranch(s) \/ ApplyAdd(s)
             \/ ApplyRemove(s) \/ StageAtoms(s) \/ AtomsReceived(s) \/ StoreData(s)
             \/ SaveHead(s) \/ CheckoutHead(s) \/ UnloadCommitted(s)
      PROVE  AtomInv(a)'
  BY <1>2, RepoLoadedAtom, LoadFailedAtom, UnloadBranchAtom, ApplyAddAtom, ApplyRemoveAtom,
     StageAtomsAtom, AtomsReceivedAtom, StoreDataAtom, SaveHeadAtom, CheckoutHeadAtom,
     UnloadCommittedAtom
<1>3. ASSUME NEW s \in Slots,
             \/ ClearAdded(s) \/ ClearRemoved(s) \/ StoreRestored(s) \/ ResetHead(s)
             \/ ResetCurrent(s) \/ SendReset(s)
      PROVE  AtomInv(a)'
  BY <1>3, ClearAddedCommitAtom, ClearAddedCheckoutAtom, ClearRemovedCommitAtom,
     ClearRemovedCheckoutAtom, StoreRestoredAtom, ResetHeadAtom, ResetCurrentAtom, SendResetAtom
<1>4. ASSUME NEW s \in Slots, WaitForRepo(s), \A t \in Slots : ~Settled(t)
      PROVE  AtomInv(a)'
  BY <1>4, WaitForNewRepoAtom, WaitForPromiseAtom
<1>5. ASSUME NEW r \in Repos, Checkout(r) \/ SaveCheckedOut(r) \/ GetStage(r)
      PROVE  AtomInv(a)'
  BY <1>5, CheckoutAtom, SaveCheckedOutAtom, GetStageAtom
<1>6. Next => AtomInv(a)'
  BY <1>1, <1>2, <1>3, <1>4, <1>5, CrashAtom, NextCases
<1>7. UNCHANGED vars => AtomInv(a)'
  BY SameHandlersAtom DEF vars, stores, memory, clients, history
<1> QED
  BY <1>6, <1>7

LEMMA NextClean == Shape /\ CleanInv /\ [Next]_vars => CleanInv'
<1> SUFFICES ASSUME Shape, CleanInv, [Next]_vars, NEW a \in Atoms, a \notin contended'
             PROVE  AtomInv(a)'
  BY DEF CleanInv, Atoms
<1>1. a \notin contended
  BY ContendedGrows
<1> QED
  BY <1>1, NextAtom DEF CleanInv

LEMMA CleanIsKept ==
    ASSUME Shape, CleanInv, NEW S, \A a \in Atoms : a \notin contended => Kept(a, S)
    PROVE  acked \ (gone \cup contended) \subseteq S /\ (goneAcked \ contended) \cap S = {}
<1>1. acked \subseteq Atoms /\ goneAcked \subseteq Atoms
  BY DEF Shape, TypeOK
<1> QED
  BY <1>1 DEF Kept

LEMMA AlwaysClean == Spec => [](Shape /\ CleanInv)
<1>1. Init => Shape /\ CleanInv
  BY InitShape, InitAtom DEF CleanInv
<1>2. Shape /\ CleanInv /\ [Next]_vars => (Shape /\ CleanInv)'
  BY NextShape, NextClean
<1> QED
  BY <1>1, <1>2, PTL DEF Spec

(* What the server acknowledged, in ADD_ATOMS, survives a crash of it at any *)
(* moment, for any number of devices, atoms, commits and CausalRepo objects, *)
(* unless the atom was changed during something that the code does not keep *)
(* apart from it.                                                          *)
THEOREM Durable == Spec => []AnsweredIsDurable
<1>1. Shape /\ CleanInv => AnsweredIsDurable
  <2> SUFFICES ASSUME Shape, CleanInv PROVE AnsweredIsDurable
    OBVIOUS
  <2>1. \A a \in Atoms : a \notin contended => Kept(a, Recoverable)
    BY DEF CleanInv, AtomInv, KeptInv
  <2> QED
    BY <2>1, CleanIsKept DEF AnsweredIsDurable
<1> QED
  BY <1>1, AlwaysClean, PTL

(* And every device that watches the branch has it: a snapshot that is sent *)
(* and the broadcasts that follow leave no gap, whichever handlers run      *)
(* beside them.                                                            *)
THEOREM Seen == Spec => []SeenByWatchers
<1>1. Shape /\ CleanInv => SeenByWatchers
  <2> SUFFICES ASSUME Shape, CleanInv, NEW d \in Devices, view[d] # Missing
               PROVE  /\ acked \ (gone \cup contended) \subseteq view[d]
                      /\ (goneAcked \ contended) \cap view[d] = {}
    BY DEF SeenByWatchers
  <2>1. \A a \in Atoms : a \notin contended => Kept(a, view[d])
    BY DEF CleanInv, AtomInv, KeptInv
  <2> QED
    BY <2>1, CleanIsKept
<1> QED
  BY <1>1, AlwaysClean, PTL
=============================================================================
