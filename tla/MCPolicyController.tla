------------------------- MODULE MCPolicyController -------------------------
EXTENDS PolicyController

Permission(t, r, s) == [type |-> t, role |-> r, scope |-> s]

Update == Permission("data.update", "editor", {"x"})
UpdateAll == Permission("data.update", Everyone, {"x"})
Create == Permission("data.create", "editor", {"x"})
Assign == Permission("policy.assign", "editor", Marks)
Unassign == Permission("policy.unassign", "editor", Marks)
List == Permission("data.list", "editor", {"x"})
ReadAll == Permission("data.read", "editor", {"x"})
FileUpdate == Permission("file.update", "editor", {"x"})

GrantRoles ==
    Permission("role.grant", "editor", {t \in RoleTargets : t[1] = "editor" /\ t[3] <= MaxTime})

MarkerDocs ==
    {<<>>, <<Update>>, <<UpdateAll, Update>>, <<Update, Assign>>, <<Update, Unassign>>,
     <<UpdateAll, Assign>>, <<Create, Assign>>, <<ReadAll, List>>, <<FileUpdate, Unassign>>}

PublicDocs ==
    {<<>>, <<Update>>, <<Update, Unassign>>, <<Create, Assign>>, <<FileUpdate, Unassign>>}

MCInitialDocs ==
    {d \in [Marks \cup {Account} -> MarkerDocs \cup {<<GrantRoles>>}] :
        \/ d[Account] = <<>> /\ d["publicRead"] \in PublicDocs /\ d["secret"] \in MarkerDocs
        \/ d[Account] = <<GrantRoles>> /\ \A m \in Marks : d[m] = <<>>}

MCGrantable == {Update, UpdateAll}

MCCallers == {[user |-> User("owner"), insts |-> {}],
              [user |-> User("user"), insts |-> {}],
              [user |-> User("user"), insts |-> {Inst("inst")}]}
=============================================================================
