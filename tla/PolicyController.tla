-------------------------- MODULE PolicyController --------------------------
(***************************************************************************)
(* The policies and roles of one record: the calls of the PolicyController *)
(* (aux-records/PolicyController.ts) that change them, each a sequence of  *)
(* awaits on the store (aux-auth/server/MongoDBPolicyStore.ts), so that    *)
(* the calls of several requests interleave; and, at any time, what a      *)
(* request to a resource of the record would be answered.                  *)
(***************************************************************************)
EXTENDS Authorization

CONSTANTS
    Owner,            \* the owner of the record
    Users, Insts,     \* the ids of users and insts
    Marks,            \* the markers of resources, "publicRead" one of them
    Addresses,        \* what the patterns of permissions match
    Roles,            \* roles other than admin
    InitialDocs,      \* what the policies of the markers may be at first
    Grantable,        \* the permissions that calls grant and revoke
    Callers,          \* who makes calls: [user, insts]
    MaxCalls,         \* calls made
    MaxStored,        \* a call begins with at most so many stored permissions
    MaxTime           \* the clock

ASSUME PolicyAssumption ==
    /\ Owner \in Users /\ "" \notin Users /\ NoRole \notin Roles
    /\ "publicRead" \in Marks /\ Account \notin Marks /\ IsFiniteSet(Marks)
    /\ MaxCalls \in Nat /\ MaxStored \in Nat /\ MaxTime \in Nat

VARIABLES
    docs,    \* marker -> the permissions of its user policy
    roles,   \* subject -> the roles assigned to it, with their expiration
    calls,   \* the calls and where they are
    now

vars == <<docs, roles, calls, now>>

Forever == 1000      \* no expiration: Infinity
Subjects == {User(u) : u \in Users} \cup {Inst(i) : i \in Insts}
AllRoles == Roles \cup {Admin, Everyone}
Assigned == [role : Roles \cup {Admin}, expire : (1 .. MaxTime) \cup {Forever}]
CallIds == 1 .. MaxCalls

Distinct(s) == \A j, k \in DOMAIN s : j # k => s[j] # s[k]

(* The permissions there are: those of the first policies and those that   *)
(* can be granted.                                                         *)
Permissions ==
    Grantable \cup UNION {Range(d[m]) : d \in InitialDocs, m \in Marks \cup {Account}}

ASSUME CallersAssumption ==
    /\ \A by \in Callers : by.user \in Subjects \cup {Nobody} /\ by.insts \subseteq Subjects
    /\ \A d \in InitialDocs :
          /\ d \in [Marks \cup {Account} -> Seq(Permissions)]
          /\ \A m \in Marks \cup {Account} : Distinct(d[m])
    /\ \A p \in Permissions : p.role \in AllRoles

-----------------------------------------------------------------------------
(* The permissions of a marker: the default policies, then its own.        *)

Types == <<"data.create", "data.read", "data.update", "data.delete", "data.list",
           "file.create", "file.read", "file.delete", "file.update",
           "event.increment", "event.count", "event.update",
           "policy.grantPermission", "policy.revokePermission", "policy.assign",
           "policy.unassign", "policy.list", "policy.read",
           "role.grant", "role.revoke", "role.read", "role.list">>

RoleTargets == (Roles \cup {Admin}) \X Subjects \X ((0 .. MaxTime) \cup {Forever})

AllTargets(type) ==
    IF type \in {"role.grant", "role.revoke"} THEN RoleTargets
    ELSE Addresses \cup Marks \cup {Account}

Default(types, role) ==
    [k \in DOMAIN types |-> [type |-> types[k], role |-> role, scope |-> AllTargets(types[k])]]

DefaultAny == Default(Types, Admin)
DefaultPublicRead ==
    Default(<<"data.read", "data.list", "file.read", "event.count">>, Everyone)

(* Mutant of ListPoliciesForMarker: the policy of the marker comes first. *)
ListPoliciesForMarkerOwnFirst(m) ==
    docs[m] \o DefaultAny \o (IF m = "publicRead" THEN DefaultPublicRead ELSE <<>>)

ListPoliciesForMarker(m) ==
    DefaultAny \o (IF m = "publicRead" THEN DefaultPublicRead ELSE <<>>) \o docs[m]

ListRoles(sub) == {r \in roles[sub] : r.expire > now}

Context(key, perms) ==
    [perms |-> perms, held |-> [s \in Subjects |-> {r.role : r \in ListRoles(s)}],
     owner |-> Owner, key |-> key]

CurrentContext(key) ==
    Context(key, [m \in Marks \cup {Account} |-> ListPoliciesForMarker(m)])

-----------------------------------------------------------------------------
NoCall == [pc |-> "idle", op |-> "none", user |-> Nobody, insts |-> {}, key |-> FALSE,
           marker |-> Account, permission |-> <<>>, sub |-> Nobody, role |-> NoRole,
           expire |-> 0, perms |-> <<>>, seen |-> {}, stale |-> FALSE]

Done == [NoCall EXCEPT !.pc = "done"]

Init ==
    /\ docs \in InitialDocs
    /\ roles \in [Subjects -> {{}} \cup {{[role |-> r, expire |-> Forever]} : r \in Roles}]
    /\ \A s \in Subjects : s = User(Owner) => roles[s] = {}
    /\ calls = [c \in CallIds |-> NoCall]
    /\ now = 0

At(c, label) == calls[c].pc = label

Stored == FoldSet(LAMBDA m, n : n + Len(docs[m]), 0, DOMAIN docs)

(* A call begins: calls are numbered in the order in which they do.        *)
Start(c, call) ==
    /\ At(c, "idle")
    /\ \A d \in CallIds : d < c => ~At(d, "idle")
    /\ Stored <= MaxStored
    /\ calls' = [calls EXCEPT ![c] = [call EXCEPT !.pc = "list"]]
    /\ UNCHANGED <<docs, roles, now>>

CallPermission(c) ==
    \E op \in {"policy.grantPermission", "policy.revokePermission"},
       by \in Callers, m \in Marks, p \in Grantable :
         Start(c, [NoCall EXCEPT !.op = op, !.user = by.user, !.insts = by.insts,
                                 !.marker = m, !.permission = p])

CallRole(c) ==
    \E op \in {"role.grant", "role.revoke"}, by \in Callers,
       sub \in Subjects \ {User(Owner)}, r \in Roles :
       \E e \in (IF op = "role.grant" THEN {MaxTime, Forever} ELSE {0}) :
         Start(c, [NoCall EXCEPT !.op = op, !.user = by.user, !.insts = by.insts,
                                 !.sub = sub, !.role = r, !.expire = e])

IsRoleCall(call) == call.op \in {"role.grant", "role.revoke"}

(* What the call asks of the decision.  A grant asks for the time left.    *)
RequestOf(call) ==
    [action |-> call.op, user |-> call.user, insts |-> call.insts,
     markers |-> <<Account>>,
     target |-> IF ~IsRoleCall(call) THEN call.marker
                ELSE <<call.role, call.sub,
                       IF call.expire \in {0, Forever} THEN call.expire
                       ELSE call.expire - now>>]

(* constructAuthorizationContext and _listPermissionsForMarkers.           *)
ListPermissions(c) ==
    /\ At(c, "list")
    /\ calls' = [calls EXCEPT ![c].pc = "decide",
                              ![c].perms = [m \in {Account} |-> ListPoliciesForMarker(m)]]
    /\ UNCHANGED <<docs, roles, now>>

(* The roles of the subjects are read and the request is decided.          *)
Decide(c) ==
    /\ At(c, "decide")
    /\ LET ok == AuthorizeRequest(Context(calls[c].key, calls[c].perms), RequestOf(calls[c]))
       IN calls' = [calls EXCEPT ![c] = IF ok THEN [@ EXCEPT !.pc = "read", !.perms = <<>>]
                                        ELSE Done]
    /\ UNCHANGED <<docs, roles, now>>

(* Mutant of Read: whether the permission is there is not looked at. *)
ReadUnchecked(c) ==
    /\ At(c, "read")
    /\ LET call == calls[c]
           seen == IF IsRoleCall(call) THEN ListRoles(call.sub) ELSE docs[call.marker]
       IN calls' = [calls EXCEPT ![c] = [@ EXCEPT !.pc = "write", !.seen = seen]]
    /\ UNCHANGED <<docs, roles, now>>

(* getUserPolicy, listRolesForUser, listRolesForInst.  A permission that   *)
(* is there already, or not there to be revoked, ends the call.            *)
Read(c) ==
    /\ At(c, "read")
    /\ LET call == calls[c]
           had == call.permission \in Range(docs[call.marker])
           needed == IsRoleCall(call) \/ had = (call.op = "policy.revokePermission")
           seen == IF IsRoleCall(call) THEN ListRoles(call.sub) ELSE docs[call.marker]
       IN calls' = [calls EXCEPT ![c] = IF needed THEN [@ EXCEPT !.pc = "write", !.seen = seen]
                                        ELSE Done]
    /\ UNCHANGED <<docs, roles, now>>

(* makeNewRoles.                                                           *)
NewRoles(call) ==
    IF call.op = "role.revoke" THEN {r \in call.seen : r.role # call.role}
    ELSE {r \in call.seen : r.role # call.role \/ r.expire <= call.expire}
            \cup {[role |-> call.role, expire |-> call.expire]}

(* The permissions other than p, in their order.                           *)
Without(permissions, p) ==
    LET Upto[k \in 0 .. Len(permissions)] ==
          IF k = 0 THEN <<>>
          ELSE IF permissions[k] = p THEN Upto[k - 1]
               ELSE Append(Upto[k - 1], permissions[k])
    IN Upto[Len(permissions)]

(* Mutant of NewPermissions: permissions are compared by their type. *)
NewPermissionsByType(call) ==
    IF call.op = "policy.grantPermission" THEN Append(call.seen, call.permission)
    ELSE SelectSeq(call.seen, LAMBDA p : p.type # call.permission.type)

NewPermissions(call) ==
    IF call.op = "policy.grantPermission" THEN Append(call.seen, call.permission)
    ELSE Without(call.seen, call.permission)

(* Calls on the same roles or the same policy that have read them.         *)
Overtaken(c) ==
    {d \in CallIds \ {c} : /\ At(d, "write")
                           /\ IsRoleCall(calls[d]) = IsRoleCall(calls[c])
                           /\ calls[d].sub = calls[c].sub
                           /\ calls[d].marker = calls[c].marker}

(* updateUserPolicy, updateUserRoles, updateInstRoles.                     *)
Write(c) ==
    /\ At(c, "write")
    /\ LET call == calls[c]
       IN IF IsRoleCall(call)
            THEN /\ roles' = [roles EXCEPT ![call.sub] =
                                {r \in NewRoles(call) : r.expire > now}]
                 /\ UNCHANGED docs
            ELSE /\ docs' = [docs EXCEPT ![call.marker] = NewPermissions(call)]
                 /\ UNCHANGED roles
    /\ calls' = [d \in CallIds |->
                    IF d = c THEN Done
                    ELSE [calls[d] EXCEPT !.stale = @ \/ d \in Overtaken(c)]]
    /\ UNCHANGED now

Tick ==
    /\ now < MaxTime
    /\ now' = now + 1
    /\ UNCHANGED <<docs, roles, calls>>

Next ==
    \/ \E c \in CallIds : \/ CallPermission(c) \/ CallRole(c) \/ ListPermissions(c)
                          \/ Decide(c) \/ Read(c) \/ Write(c)
    \/ Tick

Spec == Init /\ [][Next]_vars

-----------------------------------------------------------------------------
(* Requests to resources.  The markers of an update are the existing ones  *)
(* and then the added ones, as union() lists them.                         *)

MarkerLists ==
    {<<m>> : m \in Marks} \cup {s \in Marks \X Marks : Distinct(s)}

Parties == [user : {User(u) : u \in Users} \cup {Nobody},
            insts : {{}} \cup {{Inst(i)} : i \in Insts}]

ResourceRequests ==
    {[action |-> a, target |-> t, markers |-> ms, user |-> p.user, insts |-> p.insts] :
        a \in {"data.read", "data.create"}, t \in Addresses,
        ms \in MarkerLists, p \in Parties}

UpdateRequest(a, t, p, old, new) ==
    [action |-> a, target |-> t, user |-> p.user, insts |-> p.insts,
     existing |-> Range(old), added |-> new \ Range(old), removed |-> Range(old) \ new,
     markers |-> old \o SetToSeq(new \ Range(old))]

UpdateRequests ==
    {UpdateRequest(a, t, p, old, new) :
        a \in {"data.update", "file.update"}, t \in Addresses, p \in Parties,
        old \in MarkerLists, new \in (SUBSET Marks) \ {{}}}

Requests == ResourceRequests \cup {r \in UpdateRequests : r.action = "data.update"
                                                          \/ r.added \cup r.removed # {}}

ListRequests ==
    {[action |-> "data.list", user |-> p.user, insts |-> p.insts,
      items |-> <<[target |-> a[1], markers |-> <<m, n>>], [target |-> a[2], markers |-> <<n>>]>>] :
        a \in {s \in Addresses \X Addresses : s[1] # s[2]}, m \in Marks, n \in Marks,
        p \in Parties}

-----------------------------------------------------------------------------
(* What a request is answered depends on docs, on roles and on which roles *)
(* have expired, and every value they take is also taken while no call is  *)
(* under way, at first at time 0, since the first roles do not expire.     *)
Quiet ==
    /\ \A c \in CallIds : At(c, "idle") \/ At(c, "done")
    /\ now = 0 \/ \E c \in CallIds : At(c, "done")

(* The reference: one role that the subject may act under covers all.      *)

MayActUnder(ctx, sub) ==
    {Everyone} \cup (IF sub = Nobody THEN {} ELSE ctx.held[sub])
      \cup (IF ctx.key THEN {Admin} ELSE IF sub = User(Owner) THEN AllRoles ELSE {})

Grants(ctx, m, type, target, r) ==
    LET ps == ctx.perms[m]
    IN \E k \in DOMAIN ps : Matches(ps[k], type, target) /\ ps[k].role = r

Covers(ctx, m, type, r) ==
    Grants(ctx, m, type, m, r) \/ Grants(ctx, m, type, m, Everyone)

Justified(ctx, req, sub) ==
    \E r \in MayActUnder(ctx, sub) :
      LET Act(m) == Grants(ctx, m, req.action, req.target, r)
          Assign(m) == Covers(ctx, m, "policy.assign", r)
          Unassign(m) == Covers(ctx, m, "policy.unassign", r)
          on == Range(req.markers)
      IN CASE req.action = "data.read" -> \E m \in on : Act(m)
           [] req.action = "data.create" -> \A m \in on : Act(m) /\ Assign(m)
           [] OTHER ->
                /\ IF req.action = "data.update" THEN \E m \in req.existing : Act(m)
                   ELSE \A m \in on : Act(m)
                /\ \A m \in req.added : Act(m) /\ Assign(m)
                /\ \A m \in req.removed : Act(m) /\ Unassign(m)

-----------------------------------------------------------------------------
TypeOK ==
    /\ docs \in [Marks \cup {Account} -> Seq(Permissions)]
    /\ \A m \in Marks \cup {Account} : Distinct(docs[m])
    /\ \A s \in Subjects : roles[s] \subseteq Assigned
    /\ \A c \in CallIds : calls[c].pc \in {"idle", "list", "decide", "read", "write", "done"}
    /\ now \in 0 .. MaxTime

(* PolicyController.ts _authorizeRequest and the functions it is given.    *)
(* A request is allowed only if there is one role that its user may act    *)
(* under, and one for every inst it comes from, whose permissions cover    *)
(* every marker the action needs; a read needs no more than that.          *)
AllowedIsJustified ==
    Quiet => \A key \in BOOLEAN :
      LET ctx == CurrentContext(key) IN
        \A req \in Requests :
          LET justified == /\ Justified(ctx, req, req.user)
                           /\ key \/ \A i \in req.insts : Justified(ctx, req, i)
          IN IF req.action = "data.read" THEN AuthorizeRequest(ctx, req) = justified
             ELSE AuthorizeRequest(ctx, req) => justified

(* PolicyController.ts:3624, MongoDBPolicyStore.ts:35.  Whatever was       *)
(* granted and revoked, the owner of the record, and whoever has its key,  *)
(* can do everything: the role found first is always that of the admins.   *)
OwnerKeepsControl ==
    Quiet => \A key \in BOOLEAN :
      LET ctx == CurrentContext(key) IN
        \A req \in Requests :
          key \/ (req.user = User(Owner) /\ req.insts = {}) => AuthorizeRequest(ctx, req)

(* PolicyController.ts:1571, 3373-3393.  An item is listed only for a user *)
(* and insts that may each list it by itself.                              *)
ListedIsReadable ==
    Quiet => LET ctx == CurrentContext(FALSE) IN
      \A req \in ListRequests : \A item \in AuthorizeList(ctx, req) :
        \A s \in {req.user} \cup req.insts : item \in ListItems(ctx, <<item>>, s)

(* PolicyController.ts:208-400, 740-960.  A call that no other call has    *)
(* overtaken changes the role or the permission it names and no other.     *)
WritesOnlyItsOwn ==
    [][\A c \in CallIds :
        At(c, "write") /\ calls'[c] = Done /\ ~calls[c].stale =>
          LET call == calls[c]
              Others(R) == {r \in R : r.role # call.role /\ r.expire > now}
              Rest(d) == Without(d[call.marker], call.permission)
          IN IF IsRoleCall(call)
               THEN /\ Others(roles'[call.sub]) = Others(roles[call.sub])
                    /\ (\E r \in roles'[call.sub] : r.role = call.role)
                          = (call.op = "role.grant" /\ call.expire > now)
               ELSE /\ Rest(docs') = Rest(docs)
                    /\ (call.permission \in Range(docs'[call.marker]))
                          = (call.op = "policy.grantPermission")
      ]_vars

(* PolicyController.ts:787: "Remove all the same roles that expire before  *)
(* the new one."  So a grant never takes a role away earlier than it would *)
(* have ended.                                                             *)
GrantNeverShortens ==
    [][\A c \in CallIds :
        At(c, "write") /\ calls'[c] = Done /\ calls[c].op = "role.grant"
            /\ ~calls[c].stale =>
          \A r \in roles[calls[c].sub] : r.role = calls[c].role /\ r.expire > now =>
            \E q \in roles'[calls[c].sub] : q.role = r.role /\ q.expire >= r.expire
      ]_vars
=============================================================================
