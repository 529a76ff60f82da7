----------------------------- MODULE AccessAdmin -----------------------------
(***************************************************************************)
(* The access page (app/admin/access) over the roles and memberships of    *)
(* api/routes/rbac.py: two lists fetched together, and a dialog each to    *)
(* set a user's roles, to delete a user, to set the levels of a role, to   *)
(* add and to delete a role.  The lists are plain state: every load        *)
(* replaces them by what it read, in whichever order the answers arrive.   *)
(***************************************************************************)
EXTENDS Naturals, FiniteSets, TLC

CONSTANTS
    Users, Roles,
    Superusers,        \* users with the flag
    SystemRoles,       \* roles that cannot be deleted
    Me,                \* the signed-in user
    None,
    MaxAccessEvents    \* bound: clicks and requests of others

AccessAssumption ==
    /\ None \notin Users \cup Roles /\ Me \in Users /\ Superusers \subseteq Users
    /\ SystemRoles \subseteq Roles /\ MaxAccessEvents \in Nat

VARIABLES
    memberships,    \* server: user -> its role ids, None once deleted
    permissions,    \* server: role -> its level for each page, None where there is none
    users, roles,   \* the lists of the page, as loaded
    loads,          \* GETs of both lists on their way
    editUser, selected,            \* the roles dialog: user row and ticks
    deleteUserTarget,
    permissionsDialogRoleId, levels, touched,  \* the levels dialog; touched is history
    addRoleOpen, deleteTarget,
    accessCalls,    \* writes on their way, at most one per dialog
    accessEvents

rbac == <<memberships, permissions>>
listed == <<users, roles, loads>>
userDialogs == <<editUser, selected, deleteUserTarget>>
levelsDialog == <<permissionsDialogRoleId, levels, touched>>
roleDialogs == <<levelsDialog, addRoleOpen, deleteTarget>>
vars == <<rbac, listed, userDialogs, roleDialogs, accessCalls, accessEvents>>

-----------------------------------------------------------------------------
ALL_PAGES == {"admin.access", "munki.software"}
AccessLevel == {"none", "read", "write"}
RolePermissions == [ALL_PAGES -> AccessLevel]
NoAccess == [p \in ALL_PAGES |-> "none"]

UserRolesRead == [user_id : Users, role_ids : SUBSET Roles]
RoleRead == [id : Roles, permissions : RolePermissions]

Rows == [users |-> {[user_id |-> u, role_ids |-> memberships[u]] :
                       u \in {x \in Users : memberships[x] # None}},
         roles |-> {[id |-> r, permissions |-> permissions[r]] :
                       r \in {x \in Roles : permissions[x] # None}}]

Quiet == UNCHANGED accessEvents
Event == accessEvents < MaxAccessEvents /\ accessEvents' = accessEvents + 1

RoleIn(list, id) == {r \in list : r.id = id}

\* The effect of the levels dialog on [role]: the row of the list for the id.

\* Mutant: the levels are loaded when another role is opened.
Reseed_ById(list, id) ==
    IF RoleIn(list, id) = {} \/ id = permissionsDialogRoleId THEN UNCHANGED <<levels, touched>>
    ELSE levels' = (CHOOSE r \in RoleIn(list, id) : TRUE).permissions /\ touched' = FALSE

Reseed(list, id) ==
    IF RoleIn(list, id) = {} THEN UNCHANGED <<levels, touched>>
    ELSE levels' = (CHOOSE r \in RoleIn(list, id) : TRUE).permissions /\ touched' = FALSE

-----------------------------------------------------------------------------
\* load(): the two GETs, answered together or not at all.  The lists are
\* read when the server answers, any time before the answer arrives; opens
\* is the role whose dialog the caller opens after it.
LoadThenOpen(opens) == loads' = loads \cup {[rows |-> None, opens |-> opens]}
Load == LoadThenOpen(None)
ServerReads(load) ==
    /\ load.rows = None
    /\ loads' = (loads \ {load}) \cup {[load EXCEPT !.rows = Rows]}
    /\ Quiet /\ UNCHANGED <<rbac, users, roles, userDialogs, roleDialogs, accessCalls>>
Loaded(load) ==
    /\ loads' = loads \ {load}
    /\ permissionsDialogRoleId' = IF load.opens = None THEN permissionsDialogRoleId ELSE load.opens
    /\ \/ /\ load.rows # None
          /\ users' = load.rows.users /\ roles' = load.rows.roles
          /\ Reseed(load.rows.roles, permissionsDialogRoleId')
       \/ /\ UNCHANGED <<users, roles>>
          /\ IF load.opens = None THEN UNCHANGED <<levels, touched>> ELSE Reseed(roles, load.opens)
    /\ Quiet /\ UNCHANGED <<rbac, userDialogs, addRoleOpen, deleteTarget, accessCalls>>

DialogOpen ==
    \/ editUser # None \/ deleteUserTarget # None
    \/ permissionsDialogRoleId # None \/ addRoleOpen \/ deleteTarget # None

\* The buttons of the rows: nobody deletes oneself, nobody but a superuser
\* deletes a superuser, nobody deletes a system role.
userColumns ==
    IF DialogOpen THEN {}
    ELSE {[button |-> "edit", row |-> u] : u \in users}
         \cup {[button |-> "delete", row |-> u] : u \in {x \in users :
                 x.user_id # Me /\ (x.user_id \in Superusers => Me \in Superusers)}}
roleColumns ==
    IF DialogOpen THEN {}
    ELSE {[button |-> "edit", row |-> r] : r \in roles}
         \cup {[button |-> "delete", row |-> r] : r \in {x \in roles : x.id \notin SystemRoles}}

PressUser(b) ==
    /\ b \in userColumns
    /\ IF b.button = "edit"
       THEN editUser' = b.row /\ selected' = b.row.role_ids /\ UNCHANGED deleteUserTarget
       ELSE deleteUserTarget' = b.row /\ UNCHANGED <<editUser, selected>>
    /\ Event /\ UNCHANGED <<rbac, listed, roleDialogs, accessCalls>>
PressRole(b) ==
    /\ b \in roleColumns
    /\ IF b.button = "edit"
       THEN /\ permissionsDialogRoleId' = b.row.id /\ Reseed(roles, b.row.id)
            /\ UNCHANGED deleteTarget
       ELSE deleteTarget' = b.row /\ UNCHANGED levelsDialog
    /\ Event /\ UNCHANGED <<rbac, listed, userDialogs, addRoleOpen, accessCalls>>
PressAddRole ==
    /\ ~DialogOpen
    /\ addRoleOpen' = TRUE
    /\ Event /\ UNCHANGED <<rbac, listed, userDialogs, levelsDialog, deleteTarget, accessCalls>>

\* onOpenChange(false): Cancel, Escape, the cross; also with a write on its way.
CloseDialog ==
    /\ DialogOpen
    /\ editUser' = None /\ deleteUserTarget' = None /\ permissionsDialogRoleId' = None
    /\ addRoleOpen' = FALSE /\ deleteTarget' = None
    /\ Quiet /\ UNCHANGED <<rbac, listed, selected, levels, touched, accessCalls>>

-----------------------------------------------------------------------------
Send(call) ==
    /\ \A c \in accessCalls : c.what # call.what
    /\ accessCalls' = accessCalls \cup {call}
    /\ Event /\ UNCHANGED <<rbac, listed, userDialogs, roleDialogs>>

\* UserEditRolesDialog
TickRole(r) ==
    /\ editUser # None /\ RoleIn(roles, r) # {}
    /\ selected' = (selected \ {r}) \cup ({r} \ selected)
    /\ Event /\ UNCHANGED <<rbac, listed, editUser, deleteUserTarget, roleDialogs, accessCalls>>
save ==
    editUser # None /\ Send([what |-> "roles", user |-> editUser.user_id, role_ids |-> selected])

\* DeleteUserDialog
confirmDeleteUser ==
    deleteUserTarget # None /\ Send([what |-> "delete user", user |-> deleteUserTarget.user_id])

\* RolePermissionsDialog with its AccessLevelSelects
SetLevel(page, level) ==
    /\ RoleIn(roles, permissionsDialogRoleId) # {}
    /\ levels[page] # level
    /\ levels' = [levels EXCEPT ![page] = level] /\ touched' = TRUE
    /\ Event /\ UNCHANGED <<rbac, listed, userDialogs, permissionsDialogRoleId, addRoleOpen,
                            deleteTarget, accessCalls>>
savePerms ==
    /\ RoleIn(roles, permissionsDialogRoleId) # {}
    /\ Send([what |-> "levels", role |-> permissionsDialogRoleId, levels |-> levels])

\* AddRoleDialog
submitRole == addRoleOpen /\ \E r \in Roles : Send([what |-> "add role", role |-> r])

\* DeleteRoleDialog
confirmDeleteRole ==
    deleteTarget # None /\ Send([what |-> "delete role", role |-> deleteTarget.id])

-----------------------------------------------------------------------------
\* The answers.  Each dialog's success closes that dialog, whatever it shows
\* by then, and loads the lists again.
RolesSaved(c) ==
    /\ c.what = "roles"
    /\ memberships[c.user] # None /\ \A r \in c.role_ids : permissions[r] # None
    /\ memberships' = [memberships EXCEPT ![c.user] = c.role_ids]
    /\ editUser' = None /\ Load
    /\ UNCHANGED <<permissions, users, roles, selected, deleteUserTarget, roleDialogs>>
UserDeleted(c) ==
    /\ c.what = "delete user"
    /\ memberships[c.user] # None
    /\ memberships' = [memberships EXCEPT ![c.user] = None]
    /\ deleteUserTarget' = None /\ Load
    /\ UNCHANGED <<permissions, users, roles, editUser, selected, roleDialogs>>
LevelsSaved(c) ==
    /\ c.what = "levels"
    /\ permissions[c.role] # None
    /\ permissions' = [permissions EXCEPT ![c.role] = c.levels]
    /\ Load
    /\ UNCHANGED <<memberships, users, roles, userDialogs, roleDialogs>>
\* The new role's levels dialog opens once the lists are there.
RoleAdded(c) ==
    /\ c.what = "add role"
    /\ permissions[c.role] = None
    /\ permissions' = [permissions EXCEPT ![c.role] = NoAccess]
    /\ addRoleOpen' = FALSE /\ LoadThenOpen(c.role)
    /\ UNCHANGED <<memberships, users, roles, userDialogs, levelsDialog, deleteTarget>>
RoleDeleted(c) ==
    /\ c.what = "delete role"
    /\ permissions[c.role] # None
    /\ permissions' = [permissions EXCEPT ![c.role] = None]
    /\ memberships' = [u \in Users |-> IF memberships[u] = None THEN None
                                       ELSE memberships[u] \ {c.role}]
    /\ deleteTarget' = None /\ Load
    /\ permissionsDialogRoleId' =
          IF permissionsDialogRoleId = c.role THEN None ELSE permissionsDialogRoleId
    /\ UNCHANGED <<users, roles, userDialogs, levels, touched, addRoleOpen>>
Answer(c) ==
    /\ accessCalls' = accessCalls \ {c}
    /\ \/ RolesSaved(c) \/ UserDeleted(c) \/ LevelsSaved(c) \/ RoleAdded(c) \/ RoleDeleted(c)
       \/ UNCHANGED <<rbac, listed, userDialogs, roleDialogs>>
    /\ Quiet

\* Another administrator.
OtherAdmin ==
    /\ \/ \E r \in Roles, l \in RolePermissions :
              /\ permissions[r] # None
              /\ permissions' = [permissions EXCEPT ![r] = l] /\ UNCHANGED memberships
       \/ \E u \in Users, rs \in SUBSET Roles :
              /\ memberships[u] # None /\ \A r \in rs : permissions[r] # None
              /\ memberships' = [memberships EXCEPT ![u] = rs] /\ UNCHANGED permissions
    /\ Event /\ UNCHANGED <<listed, userDialogs, roleDialogs, accessCalls>>

-----------------------------------------------------------------------------
Init ==
    /\ memberships = [u \in Users |-> {}]
    /\ permissions = [r \in Roles |-> IF r \in SystemRoles THEN NoAccess ELSE None]
    /\ users = {} /\ roles = {} /\ loads = {[rows |-> None, opens |-> None]}
    /\ editUser = None /\ selected = {} /\ deleteUserTarget = None
    /\ permissionsDialogRoleId = None /\ levels = NoAccess /\ touched = FALSE
    /\ addRoleOpen = FALSE /\ deleteTarget = None
    /\ accessCalls = {} /\ accessEvents = 0

Next ==
    \/ \E load \in loads : ServerReads(load) \/ Loaded(load)
    \/ \E b \in userColumns : PressUser(b)
    \/ \E b \in roleColumns : PressRole(b)
    \/ PressAddRole \/ CloseDialog
    \/ \E r \in Roles : TickRole(r)
    \/ \E p \in ALL_PAGES, l \in AccessLevel : SetLevel(p, l)
    \/ save \/ confirmDeleteUser \/ savePerms \/ submitRole \/ confirmDeleteRole
    \/ \E c \in accessCalls : Answer(c)
    \/ OtherAdmin

Spec == Init /\ [][Next]_vars

-----------------------------------------------------------------------------
AccessTypeOK ==
    /\ \A u \in Users : memberships[u] # None => memberships[u] \subseteq Roles
    /\ users \subseteq UserRolesRead /\ roles \subseteq RoleRead
    /\ levels \in RolePermissions /\ selected \subseteq Roles

(* Levels that nobody has touched since the lists were last loaded are the  *)
(* levels of the role in the list, also when the list was loaded again      *)
(* under the open dialog: Save does not put older levels back over the      *)
(* changes another administrator made in between.                           *)
UntouchedLevelsAreListed ==
    ~touched => \A r \in RoleIn(roles, permissionsDialogRoleId) : levels = r.permissions

=============================================================================
