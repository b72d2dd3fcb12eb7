--------------------------- MODULE Authorization ----------------------------
(***************************************************************************)
(* The decision of the PolicyController (aux-records/PolicyController.ts): *)
(* may the user of a request, and every inst it is made from, perform an   *)
(* action on a resource with certain markers?  A marker stands for a list  *)
(* of permissions, a permission names the role that it is for, and a       *)
(* subject acts for one request under one role: the role of the first      *)
(* permission found for it.                                                *)
(*                                                                         *)
(* A permission is [type, role, scope]: the scope is the set of targets    *)
(* that its patterns (addresses, events, markers, MIME types, roles, user  *)
(* ids, durations) match.  A context ctx is what a request reads:          *)
(*   ctx.perms    marker -> its permissions, in order                      *)
(*   ctx.held     subject -> the roles it holds                            *)
(*   ctx.owner    the owner of the record                                  *)
(*   ctx.key      whether a valid record key came with the request         *)
(***************************************************************************)
EXTENDS Integers, Sequences, FiniteSets, SequencesExt

CONSTANT MaxAllowedInstances

ASSUME InstancesAssumption == MaxAllowedInstances \in Nat \ {0}

Everyone == "everyone"   \* role: true
Admin == "admin"
NoRole == "none"         \* role: null
Account == "account"     \* the marker of policies and roles

User(id) == <<"user", id>>
Inst(id) == <<"inst", id>>
Nobody == User("")       \* not logged in

(* _byData, _byFile, _byEvent, _byPolicy, _byRolePermission, _byRoleGrant, *)
(* _byRoleRevoke, _byPolicyList and _byRoleList.                           *)
Matches(p, type, target) == p.type = type /\ target \in p.scope

ByRecordOwner(ctx, sub) == sub = User(ctx.owner) /\ sub # Nobody

ByAdminRole(ctx, sub, p) ==
    IF ctx.key THEN p.role = Admin ELSE ByRecordOwner(ctx, sub)

BySubjectRole(ctx, sub, p) == sub # Nobody /\ p.role \in ctx.held[sub]

(* The filters of the actions on resources and of those on policies and    *)
(* roles differ in what a record key is worth.                             *)
DataFilter(ctx, sub, p) ==
    p.role = Everyone \/ ByAdminRole(ctx, sub, p) \/ BySubjectRole(ctx, sub, p)

AccountFilter(ctx, sub, p) ==
    p.role = Everyone \/ BySubjectRole(ctx, sub, p) \/ ByRecordOwner(ctx, sub)

(* _findPermissionByFilter: the role of the first permission that passes   *)
(* the filter, the k-th, if there is one.                                  *)
FindPermission(permissions, k) == IF k = 0 THEN NoRole ELSE permissions[k].role

(* Mutant of FindAction: the role that was found is forgotten. *)
FindActionAnyRole(ctx, sub, m, type, target, role) ==
    FindPermission(ctx.perms[m], SelectInSeq(ctx.perms[m],
        LAMBDA p : Matches(p, type, target) /\ DataFilter(ctx, sub, p)))

(* Once a role was found, only permissions for it count.                   *)
FindAction(ctx, sub, m, type, target, role) ==
    FindPermission(ctx.perms[m], SelectInSeq(ctx.perms[m],
        LAMBDA p : /\ Matches(p, type, target)
                   /\ IF role = NoRole THEN DataFilter(ctx, sub, p) ELSE p.role = role))

(* policy.assign and policy.unassign, for everyone or for the role.        *)
HasPolicy(ctx, m, type, role) ==
    FindPermission(ctx.perms[m], SelectInSeq(ctx.perms[m],
        LAMBDA p : Matches(p, type, m) /\ p.role \in {Everyone, role})) # NoRole

(* What the loops over markers make of the role: the first marker with a   *)
(* permission decides it.  The filters look at the role of a permission    *)
(* only, so that a marker passed over before has none for that role.       *)
FirstRole(ctx, sub, markers, type, target) ==
    LET k == SelectInSeq(markers,
                LAMBDA m : FindAction(ctx, sub, m, type, target, NoRole) # NoRole)
    IN IF k = 0 THEN NoRole ELSE FindAction(ctx, sub, markers[k], type, target, NoRole)

(* The markers with a permission for the role.                             *)
Having(ctx, sub, markers, type, target, role) ==
    {m \in Range(markers) : FindAction(ctx, sub, m, type, target, role) # NoRole}

-----------------------------------------------------------------------------
(* One marker is enough: data.read, data.delete, file.read, file.delete,   *)
(* event.count and event.increment.                                        *)
AuthorizeAny(ctx, req, sub) ==
    \E m \in Range(req.markers) :
        FindAction(ctx, sub, m, req.action, req.target, NoRole) # NoRole

(* Policies and roles: the permissions of the account marker decide.       *)
AuthorizeAccount(ctx, req, sub) ==
    FindPermission(ctx.perms[Account], SelectInSeq(ctx.perms[Account],
        LAMBDA p : Matches(p, req.action, req.target) /\ AccountFilter(ctx, sub, p))) # NoRole

(* Every marker is needed, and may be assigned: data.create, file.create.  *)
AuthorizeAll(ctx, req, sub) ==
    LET role == FirstRole(ctx, sub, req.markers, req.action, req.target)
    IN /\ role # NoRole
       /\ Range(req.markers)
            \subseteq Having(ctx, sub, req.markers, req.action, req.target, role)
       /\ \A m \in Range(req.markers) : HasPolicy(ctx, m, "policy.assign", role)

(* Whether a marker that the request adds or removes may be.               *)
MayChange(ctx, req, m, role) ==
    /\ m \in req.added => HasPolicy(ctx, m, "policy.assign", role)
    /\ m \in req.removed \ req.added => HasPolicy(ctx, m, "policy.unassign", role)

WillMarkersBeRemaining(req) == req.added # {} \/ req.existing # req.removed

(* data.update and event.update: the added and the removed markers are all *)
(* needed, of the existing ones one is enough.                             *)
AuthorizeUpdate(ctx, req, sub) ==
    LET role == FirstRole(ctx, sub, req.markers, req.action, req.target)
        having == Having(ctx, sub, req.markers, req.action, req.target, role)
        changed == (req.added \cup req.removed) \cap Range(req.markers)
    IN /\ role # NoRole
       /\ changed \subseteq having
       /\ \A m \in having : MayChange(ctx, req, m, role)
       /\ having \cap req.existing # {} \/ Range(req.markers) \subseteq having

(* file.update: every marker is needed, and there must be a change.        *)
AuthorizeFileUpdate(ctx, req, sub) ==
    LET role == FirstRole(ctx, sub, req.markers, req.action, req.target)
    IN /\ req.added # {} \/ req.removed # {}
       /\ role # NoRole
       /\ Range(req.markers)
            \subseteq Having(ctx, sub, req.markers, req.action, req.target, role)
       /\ \A m \in Range(req.markers) : MayChange(ctx, req, m, role)

(* data.list: the items the subject may list, under the role of the first  *)
(* permission found.  An item is [target, markers].                        *)
ListItems(ctx, items, sub) ==
    LET RoleFor(item) == FirstRole(ctx, sub, item.markers, "data.list", item.target)
        k == SelectInSeq(items, LAMBDA item : RoleFor(item) # NoRole)
        role == RoleFor(items[k])
    IN IF k = 0 THEN {}
       ELSE {item \in Range(items) :
               Having(ctx, sub, item.markers, "data.list", item.target, role) # {}}

-----------------------------------------------------------------------------
AnyActions == {"data.read", "data.delete", "file.read", "file.delete", "event.count",
               "event.increment"}
AllActions == {"data.create", "file.create"}
UpdateActions == {"data.update", "event.update"}
AccountActions == {"policy.grantPermission", "policy.revokePermission", "policy.read",
                   "policy.list", "role.grant", "role.revoke", "role.read", "role.list"}

AuthorizeSubject(ctx, req, sub) ==
    CASE req.action \in AnyActions -> AuthorizeAny(ctx, req, sub)
      [] req.action \in AllActions -> AuthorizeAll(ctx, req, sub)
      [] req.action \in UpdateActions ->
           WillMarkersBeRemaining(req) /\ AuthorizeUpdate(ctx, req, sub)
      [] req.action = "file.update" ->
           WillMarkersBeRemaining(req) /\ AuthorizeFileUpdate(ctx, req, sub)
      [] req.action \in AccountActions -> AuthorizeAccount(ctx, req, sub)

(* Mutant of InstsToCheck: a logged in user vouches for the insts. *)
InstsToCheckUser(ctx, req) == IF req.user # Nobody THEN {} ELSE req.insts

(* A record key stands in for the insts, except on policies and roles.     *)
InstsToCheck(ctx, req) ==
    IF ctx.key /\ req.action \notin AccountActions THEN {} ELSE req.insts

AuthorizeRequest(ctx, req) ==
    /\ Cardinality(req.insts) <= MaxAllowedInstances
    /\ req.markers # <<>>
    /\ AuthorizeSubject(ctx, req, req.user)
    /\ \A i \in InstsToCheck(ctx, req) : AuthorizeSubject(ctx, req, i)

(* The items a data.list request answers: those of the user that every     *)
(* inst may list too.                                                      *)
AuthorizeList(ctx, req) ==
    IF Cardinality(req.insts) > MaxAllowedInstances THEN {}
    ELSE {item \in ListItems(ctx, req.items, req.user) :
            \A i \in InstsToCheck(ctx, req) : item \in ListItems(ctx, req.items, i)}
=============================================================================
