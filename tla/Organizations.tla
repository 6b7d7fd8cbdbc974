---------------------------- MODULE Organizations ----------------------------
(***************************************************************************)
(* Users, groups and organisations: organizations/routes.py and            *)
(* routes_users.py.  users.group_id and printers.org_id name a row of      *)
(* groups without a foreign key.  An organisation is a row with is_org =   *)
(* 1; the two kinds are one here, and the owner of a group, who only       *)
(* cannot be deleted, is left out.                                         *)
(*                                                                         *)
(* An administrator without a group is the superadmin of the farm, one     *)
(* with a group administers that group.  Which of the two a caller is,     *)
(* get_current_user reads before the handler runs; the handlers themselves *)
(* are coroutines that await nothing, so that each is one step.  Deleting  *)
(* an organisation sets its members' group_id to NULL: its administrators  *)
(* are superadmins from then on.                                           *)
(***************************************************************************)
EXTENDS Naturals, FiniteSets

CONSTANTS Person,        \* user names
          Tenant,        \* ids of groups, never used twice
          NoTenant,      \* NULL
          AdminCall,     \* requests at a time
          OrgPrinter

ASSUME OrganizationsAssumption ==
    NoTenant \notin Tenant /\ Tenant # {} /\ \E p, q \in Person : p # q

VARIABLES people,    \* [Person -> its row of users, or NoPerson]
          groups,    \* [Tenant -> its row of groups]
          orgOf,     \* [OrgPrinter -> org_id]
          callers    \* [AdminCall -> the caller as get_current_user read it]

orgVars == <<people, groups, orgOf, callers>>

\* Active administrators, and all other users.
Role == {"admin", "other"}
NoPerson == [role |-> "none", group |-> NoTenant]
NoCaller == [who |-> "none"]
GroupId == Tenant \cup {NoTenant}

OrganizationsTypeOK ==
    /\ people \in [Person -> {NoPerson} \cup [role : Role, group : GroupId]]
    /\ groups \in [Tenant -> {"unused", "row", "gone"}]
    /\ orgOf \in [OrgPrinter -> GroupId]
    /\ callers \in [AdminCall -> {NoCaller} \cup [who : Person, group : GroupId]]

Listed == {p \in Person : people[p] # NoPerson}
ActiveAdmins == {p \in Person : people[p].role = "admin"}
Superadmins == {p \in Person : people[p].role = "admin" /\ people[p].group = NoTenant}
GroupRows == {t \in Tenant : groups[t] = "row"}

(* A farm as its setup leaves it, with one administrator, or with groups,  *)
(* the first of which has an administrator of its own.                     *)
OrganizationsInit ==
    LET first == CHOOSE p \in Person : TRUE
        second == CHOOSE p \in Person : p # first
        admin(group) == [role |-> "admin", group |-> group]
    IN  /\ \E founded \in BOOLEAN :
              /\ people = [p \in Person |->
                    CASE p = first -> admin(NoTenant)
                      [] founded /\ p = second -> admin(CHOOSE t \in Tenant : TRUE)
                      [] OTHER -> NoPerson]
              /\ groups = [t \in Tenant |-> IF founded THEN "row" ELSE "unused"]
        /\ orgOf = [m \in OrgPrinter |-> NoTenant]
        /\ callers = [c \in AdminCall |-> NoCaller]

-----------------------------------------------------------------------------
(* get_current_user and require_role("admin"), before the body is read and *)
(* the session made.                                                       *)
Authenticate(c) ==
    /\ callers[c] = NoCaller
    /\ \E p \in ActiveAdmins :
          callers' = [callers EXCEPT ![c] = [who |-> p, group |-> people[p].group]]
    /\ UNCHANGED <<people, groups, orgOf>>

Scoped(c) == callers[c].group # NoTenant

\* _check_org_admin_access
MayManage(c, group) == Scoped(c) => group = callers[c].group

Answer(c) == callers' = [callers EXCEPT ![c] = NoCaller]

(* create_user and import_users_csv: a scoped administrator's users go to  *)
(* its own group; what group the superadmin names is not looked up.        *)
CreateUser(c) ==
    /\ \E p \in Person \ Listed, role \in Role,
          group \in IF Scoped(c) THEN {callers[c].group} ELSE GroupId :
          people' = [people EXCEPT ![p] = [role |-> role, group |-> group]]
    /\ UNCHANGED <<groups, orgOf>>

(* No rule keeps the last administrator from being demoted or disabled.    *)
AlterUser(c) ==
    /\ \E p \in Listed, role \in Role, group \in GroupId :
          /\ MayManage(c, people[p].group) /\ MayManage(c, group)
          /\ people' = [people EXCEPT ![p] = [role |-> role, group |-> group]]
    /\ UNCHANGED <<groups, orgOf>>

\* Nobody deletes himself, nor the last active administrator.
RemoveUser(c) ==
    /\ \E p \in Listed \ {callers[c].who} :
          /\ MayManage(c, people[p].group)
          /\ people[p].role = "admin" => Cardinality(ActiveAdmins) > 1
          /\ people' = [people EXCEPT ![p] = NoPerson]
    /\ UNCHANGED <<groups, orgOf>>

(* add_org_member.  A scoped administrator adds to its own organisation,   *)
(* and neither a superadmin nor a member of another (fault: only the       *)
(* organisation is looked at, as its docstring says of the old version).   *)
MayAddFault(c, p, t) == Scoped(c) => t = callers[c].group
MayAdd(c, p, t) ==
    Scoped(c) => /\ t = callers[c].group
                 /\ p \notin Superadmins
                 /\ people[p].group \in {NoTenant, callers[c].group}

AddOrgMember(c) ==
    /\ \E p \in Listed, t \in GroupRows :
          /\ MayAdd(c, p, t)
          /\ people' = [people EXCEPT ![p].group = t]
    /\ UNCHANGED <<groups, orgOf>>

CreateGroup(c) ==
    /\ ~Scoped(c)
    /\ \E t \in Tenant : groups[t] = "unused" /\ groups' = [groups EXCEPT ![t] = "row"]
    /\ UNCHANGED <<people, orgOf>>

(* delete_org frees the printers; delete_group takes any row and leaves    *)
(* the printers with the id of a deleted one.                              *)
RemoveGroup(c) ==
    /\ ~Scoped(c)
    /\ \E t \in GroupRows :
          /\ people' = [p \in Person |->
                IF people[p].group = t THEN [people[p] EXCEPT !.group = NoTenant] ELSE people[p]]
          /\ groups' = [groups EXCEPT ![t] = "gone"]
          /\ \/ orgOf' = [m \in OrgPrinter |-> IF orgOf[m] = t THEN NoTenant ELSE orgOf[m]]
             \/ UNCHANGED orgOf

\* Whether the organisation exists is not asked.
AssignPrinter(c) ==
    /\ ~Scoped(c)
    /\ \E m \in OrgPrinter, t \in Tenant : orgOf' = [orgOf EXCEPT ![m] = t]
    /\ UNCHANGED <<people, groups>>

\* An error, or a change of names, owners and settings only.
Refuse == UNCHANGED <<people, groups, orgOf>>

HandleAdmin(c) ==
    /\ callers[c] # NoCaller
    /\ Answer(c)
    /\ \/ CreateUser(c) \/ AlterUser(c) \/ RemoveUser(c) \/ AddOrgMember(c)
       \/ CreateGroup(c) \/ RemoveGroup(c) \/ AssignPrinter(c) \/ Refuse

OrganizationsNext == \E c \in AdminCall : Authenticate(c) \/ HandleAdmin(c)

OrganizationsSpec == OrganizationsInit /\ [][OrganizationsNext]_orgVars

-----------------------------------------------------------------------------
(* What the administrator of a group does, on whichever route, makes and   *)
(* unmakes no superadmin, and moves nobody into or out of another group,   *)
(* even when the administrator was moved or demoted since the request was  *)
(* authenticated.                                                          *)
ScopedAdminsStay ==
    [][\A c \in AdminCall :
          /\ callers[c] # NoCaller /\ Scoped(c) /\ callers'[c] = NoCaller
          =>
          /\ Superadmins' = Superadmins
          /\ \A t \in Tenant \ {callers[c].group}, p \in Person :
                people[p].group = t <=> people'[p].group = t]_orgVars
=============================================================================
