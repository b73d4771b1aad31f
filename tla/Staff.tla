--------------------------------- MODULE Staff ---------------------------------
(***************************************************************************)
(* The staff of one restaurant, their roles and who may change them:       *)
(* staff.service.ts behind permissions.guard.ts.  A request passes the     *)
(* guard, is validated against the rows it names, hashes a password, and   *)
(* writes; each read is a query and a step of its own, and what it         *)
(* answered may have changed when the next is made.                        *)
(*                                                                         *)
(* A member points at a role by its name (User.customRole), with no        *)
(* foreign key.  Names, photos, phones and passwords are not kept, and     *)
(* neither are e-mails, whose uniqueness the database guarantees.          *)
(***************************************************************************)
EXTENDS FiniteSets

CONSTANTS Requests,      \* requests in progress, one handler each
          Owner,         \* the restaurant's owner
          Members,       \* ids of staff users, never used twice
          RoleIds,       \* ids of StaffRole rows, never used twice
          RoleNames,
          Plain,         \* 'STAFF': no role, unless a role has that name
          NoName,        \* null
          Permissions, Modules,
          AskedSets,     \* sets of permissions that requests give a role
          ModuleOf,      \* PERMISSION_REGISTRY
          StaffModule,   \* module of the two permissions:
          ManageStaff,   \* staff:create, staff:update and staff:delete
          ManageRoles    \* staff:roles

ASSUME NameAssumption == NoName \notin RoleNames \union {Plain}
ASSUME PermissionAssumption ==
  /\ ModuleOf \in [Permissions -> Modules]
  /\ {ManageStaff, ManageRoles} \subseteq Permissions /\ AskedSets \subseteq SUBSET Permissions
  /\ ModuleOf[ManageStaff] = StaffModule /\ ModuleOf[ManageRoles] = StaffModule
ASSUME OwnerAssumption == Owner \notin Members

VARIABLES
  member,     \* of each id: "unused", "active", "inactive" or "deleted"
  customRole, \* the role a member points at
  roleName,   \* name of a role; NoName when it does not exist
  spent,      \* ids of the roles that were created
  grants,     \* permissions of a role
  modules,    \* Restaurant.activeModules
  jobs,       \* what each request is at
  overtaken,  \* history: requests that rely on a row written since they read it
  disturbed   \* history: members written by such a request, or given a role
              \* while it was being deleted

users == <<member, customRole>>
roles == <<roleName, spent, grants>>
vars == <<users, roles, modules, jobs, overtaken, disturbed>>

Callers == Members \union {Owner}
Here(u) == member[u] \in {"active", "inactive"}
Named(name) == {k \in RoleIds : roleName[k] = name}
RoleExists(name) == Named(name) # {}

\* The permissions of the role of that name.
Granted(name) == UNION {grants[k] : k \in Named(name)}

\* The handler's own check that the caller belongs to the restaurant.
Belongs(c) == c \in Members => Here(c)

\* Who may give roles.
CanAssign(c) ==
  c \in Members => Here(c) /\ customRole[c] # NoName /\ ManageRoles \in Granted(customRole[c])

\* The operations, and the permission that the route of one requires.
RoleOps == {"createRole", "updateRole", "deleteRole"}
StaffOps == {"createStaff", "updateStaff", "deleteStaff"}
Needed(op) == IF op \in RoleOps THEN ManageRoles ELSE ManageStaff

\* getAvailablePermissions.
Available == {p \in Permissions : ModuleOf[p] \in modules}

\* Of a request: where it is, the role its caller's row had, what it asks for
\* (name, target, perms), and what was read that must hold until it writes.
Done == [op |-> "idle", at |-> "idle", caller |-> Owner, role |-> NoName, name |-> NoName,
         target |-> NoName, perms |-> {}, losers |-> {}, relies |-> {}]

TypeOK ==
  /\ member \in [Members -> {"unused", "active", "inactive", "deleted"}]
  /\ customRole \in [Members -> RoleNames \union {Plain, NoName}]
  /\ roleName \in [RoleIds -> RoleNames \union {NoName}]
  /\ spent \subseteq RoleIds /\ {k \in RoleIds : roleName[k] # NoName} \subseteq spent
  /\ grants \in [RoleIds -> SUBSET Permissions]
  /\ \A j, k \in RoleIds : j # k /\ roleName[j] = roleName[k] => roleName[j] = NoName
  /\ modules \subseteq Modules
  /\ overtaken \subseteq Requests /\ disturbed \subseteq Members

Init ==
  /\ member = [u \in Members |-> "unused"] /\ customRole = [u \in Members |-> NoName]
  /\ roleName = [k \in RoleIds |-> NoName] /\ spent = {} /\ grants = [k \in RoleIds |-> {}]
  /\ modules \in {Modules, Modules \ {StaffModule}}
  /\ jobs = [r \in Requests |-> Done]
  /\ overtaken = {} /\ disturbed = {}

-------------------------------------------------------------------------------
(* Steps of every request.                                                  *)

\* The handler goes on with what it has read; it writes nothing yet.
Continue(r, job) ==
  /\ jobs' = [jobs EXCEPT ![r] = job]
  /\ UNCHANGED <<users, roles, modules, overtaken, disturbed>>

\* permissions.guard.ts: the owner is let in when the module is in use, by one
\* query; of an active member the row is read...
Enter(r, c, op) ==
  /\ jobs[r] = Done
  /\ \/ /\ c = Owner /\ ModuleOf[Needed(op)] \in modules
        /\ Continue(r, [Done EXCEPT !.op = op, !.at = "guarded"])
     \/ /\ c \in Members /\ member[c] = "active"
        /\ Continue(r, [Done EXCEPT !.op = op, !.at = "entered", !.caller = c,
                                    !.role = customRole[c]])

\* ...then the modules in use...
PassModule(r) ==
  /\ jobs[r].at = "entered"
  /\ ModuleOf[Needed(jobs[r].op)] \in modules /\ jobs[r].role # NoName
  /\ Continue(r, [jobs[r] EXCEPT !.at = "module"])

\* ...then the role.  The handlers read all that again.
PassRole(r) ==
  /\ jobs[r].at = "module" /\ Needed(jobs[r].op) \in Granted(jobs[r].role)
  /\ Continue(r, [jobs[r] EXCEPT !.at = "guarded", !.role = NoName])

\* The handler begins, whatever it is asked for; its caller must belong here.
Begins(r, op) == jobs[r].op = op /\ jobs[r].at = "guarded" /\ Belongs(jobs[r].caller)

\* The request is over; others that rely on a row it wrote are overtaken.
Commit(r, written) ==
  /\ jobs' = [jobs EXCEPT ![r] = Done]
  /\ overtaken' = (overtaken \ {r}) \union
                    {q \in Requests \ {r} : jobs[q].relies \cap written # {}}
  /\ UNCHANGED modules

Disturb(r, us) == disturbed' = IF r \in overtaken THEN disturbed \union us ELSE disturbed

\* Validation fails, the row is gone, the name or e-mail is taken meanwhile.
Reject(r) ==
  /\ jobs[r] # Done
  /\ jobs' = [jobs EXCEPT ![r] = Done]
  /\ overtaken' = overtaken \ {r}
  /\ UNCHANGED <<users, roles, modules, disturbed>>

\* RestaurantsService.toggleModule.
ToggleModule(m) ==
  /\ modules' = IF m \in modules THEN modules \ {m} ELSE modules \union {m}
  /\ UNCHANGED <<users, roles, jobs, overtaken, disturbed>>

-------------------------------------------------------------------------------
(* Roles.                                                                   *)

BeginCreateRole(r, name, perms) ==
  /\ Begins(r, "createRole")
  /\ Continue(r, [jobs[r] EXCEPT !.at = "known", !.name = name, !.perms = perms])

\* The name is free.
CheckName(r) ==
  /\ jobs[r].op = "createRole" /\ jobs[r].at = "known" /\ ~RoleExists(jobs[r].name)
  /\ Continue(r, [jobs[r] EXCEPT !.at = "checked"])

\* Permissions of modules not in use are left out.
ReadAvailable(r) ==
  /\ jobs[r].op \in {"createRole", "updateRole"} /\ jobs[r].at = "checked"
  /\ Belongs(jobs[r].caller)
  /\ Continue(r, [jobs[r] EXCEPT !.at = "write", !.perms = @ \cap Available])

\* The unique index on (restaurantId, name) has the last word.
CreateRole(r, k) ==
  /\ jobs[r].op = "createRole" /\ jobs[r].at = "write" /\ k \notin spent /\ ~RoleExists(jobs[r].name)
  /\ roleName' = [roleName EXCEPT ![k] = jobs[r].name]
  /\ grants' = [grants EXCEPT ![k] = jobs[r].perms]
  /\ spent' = spent \union {k}
  /\ UNCHANGED <<users, disturbed>>
  /\ Commit(r, {jobs[r].name})

\* updateStaffRole and deleteStaffRole find the role.
BeginUpdateRole(r, k, perms) ==
  /\ Begins(r, "updateRole") /\ roleName[k] # NoName
  /\ Continue(r, [jobs[r] EXCEPT !.at = "checked", !.target = k, !.perms = perms])

UpdateRole(r) ==
  LET k == jobs[r].target IN
  /\ jobs[r].op = "updateRole" /\ jobs[r].at = "write" /\ roleName[k] # NoName
  /\ grants' = [grants EXCEPT ![k] = jobs[r].perms]
  /\ UNCHANGED <<users, roleName, spent, disturbed>>
  /\ Commit(r, {roleName[k]})

BeginDeleteRole(r, k) ==
  /\ Begins(r, "deleteRole") /\ roleName[k] # NoName
  /\ Continue(r, [jobs[r] EXCEPT !.at = "checked", !.target = k])

\* Members whose row a transaction holds.
Locked == UNION {jobs[q].losers : q \in Requests}

\* One transaction: members lose the role...
ClearRole(r) ==
  LET losers == {u \in Members : Here(u) /\ customRole[u] = roleName[jobs[r].target]} IN
  /\ jobs[r].op = "deleteRole" /\ jobs[r].at = "checked"
  /\ roleName[jobs[r].target] # NoName /\ losers \cap Locked = {}
  /\ Continue(r, [jobs[r] EXCEPT !.at = "write", !.losers = losers])

\* Members who were given the role after that.
Latecomers(r) ==
  {u \in Members \ jobs[r].losers : Here(u) /\ customRole[u] = roleName[jobs[r].target]}

\* Faulty: members keep pointing at the role.
DeleteRoleAlone(r) ==
  LET k == jobs[r].target IN
  /\ jobs[r].op = "deleteRole" /\ jobs[r].at = "write" /\ roleName[k] # NoName
  /\ roleName' = [roleName EXCEPT ![k] = NoName]
  /\ grants' = [grants EXCEPT ![k] = {}]
  /\ disturbed' = disturbed \union Latecomers(r)
  /\ UNCHANGED <<users, spent>>
  /\ Commit(r, {roleName[k]})

\* ...then it is deleted, and the transaction commits.
DeleteRole(r) ==
  LET k == jobs[r].target  losers == jobs[r].losers IN
  /\ jobs[r].op = "deleteRole" /\ jobs[r].at = "write" /\ roleName[k] # NoName
  /\ customRole' = [u \in Members |-> IF u \in losers THEN NoName ELSE customRole[u]]
  /\ roleName' = [roleName EXCEPT ![k] = NoName]
  /\ grants' = [grants EXCEPT ![k] = {}]
  /\ disturbed' = disturbed \union Latecomers(r)
  /\ UNCHANGED <<member, spent>>
  /\ Commit(r, losers \union {roleName[k]})

-------------------------------------------------------------------------------
(* Members.                                                                 *)

\* To the code, a member who is created as 'STAFF' is given no role.
BeginCreateStaff(r, name) ==
  /\ Begins(r, "createStaff")
  /\ Continue(r, [jobs[r] EXCEPT !.at = IF name = Plain THEN "write" ELSE "known", !.name = name])

\* updateStaff and deleteStaff find the member; name is NoName when the request
\* leaves the role alone.
BeginUpdateStaff(r, u, name) ==
  /\ Begins(r, "updateStaff") /\ Here(u)
  /\ Continue(r, [jobs[r] EXCEPT !.at = IF name = NoName THEN "write" ELSE "known",
                                 !.target = u, !.name = name])

BeginDeleteStaff(r, u) ==
  /\ Begins(r, "deleteStaff") /\ jobs[r].caller # u /\ Here(u)
  /\ Continue(r, [jobs[r] EXCEPT !.at = "write", !.target = u])

\* canAssignRole: the owner may; of a member the row is read...
ReadCaller(r) ==
  LET c == jobs[r].caller IN
  /\ jobs[r].op \in {"createStaff", "updateStaff"} /\ jobs[r].at = "known"
  /\ \/ c = Owner /\ Continue(r, [jobs[r] EXCEPT !.at = "entitled"])
     \/ /\ c \in Members /\ Here(c) /\ customRole[c] # NoName
        /\ Continue(r, [jobs[r] EXCEPT !.at = "caller", !.role = customRole[c], !.relies = {c}])

\* Faulty: any role will do.
CheckHasRole(r) ==
  /\ jobs[r].at = "caller" /\ RoleExists(jobs[r].role)
  /\ Continue(r, [jobs[r] EXCEPT !.at = "entitled", !.relies = @ \union {jobs[r].role}])

\* ...then the role it points at.
CheckRight(r) ==
  /\ jobs[r].at = "caller" /\ ManageRoles \in Granted(jobs[r].role)
  /\ Continue(r, [jobs[r] EXCEPT !.at = "entitled", !.relies = @ \union {jobs[r].role}])

\* The role to be given is there; for 'STAFF' nothing is looked up.
CheckRole(r) ==
  /\ jobs[r].at = "entitled" /\ (jobs[r].name = Plain \/ RoleExists(jobs[r].name))
  /\ Continue(r, [jobs[r] EXCEPT !.at = "write", !.relies = @ \union {jobs[r].name}])

\* Faulty: points the member at the role by its id.
CreateStaffWithId(r, u, status) ==
  /\ jobs[r].op = "createStaff" /\ jobs[r].at = "write" /\ member[u] = "unused"
  /\ member' = [member EXCEPT ![u] = status]
  /\ \E id \in {k \in RoleIds : roleName[k] = jobs[r].name} : customRole' = [customRole EXCEPT ![u] = id]
  /\ UNCHANGED roles
  /\ Disturb(r, {u})
  /\ Commit(r, {u})

\* The member's customRole is the name of the role.
CreateStaff(r, u, status) ==
  /\ jobs[r].op = "createStaff" /\ jobs[r].at = "write" /\ member[u] = "unused"
  /\ member' = [member EXCEPT ![u] = status]
  /\ customRole' = [customRole EXCEPT ![u] = jobs[r].name]
  /\ UNCHANGED roles
  /\ Disturb(r, {u})
  /\ Commit(r, {u})

UpdateStaff(r, status) ==
  LET u == jobs[r].target IN
  /\ jobs[r].op = "updateStaff" /\ jobs[r].at = "write" /\ Here(u) /\ u \notin Locked
  /\ member' = [member EXCEPT ![u] = status]
  /\ customRole' = [customRole EXCEPT ![u] = IF jobs[r].name = NoName THEN @ ELSE jobs[r].name]
  /\ UNCHANGED roles
  /\ Disturb(r, {u})
  /\ Commit(r, {u})

DeleteStaff(r) ==
  LET u == jobs[r].target IN
  /\ jobs[r].op = "deleteStaff" /\ jobs[r].at = "write" /\ Here(u) /\ u \notin Locked
  /\ member' = [member EXCEPT ![u] = "deleted"]
  /\ customRole' = [customRole EXCEPT ![u] = NoName]
  /\ UNCHANGED <<roles, disturbed>>
  /\ Commit(r, {u})

-------------------------------------------------------------------------------
Guards(r) == \/ \E c \in Callers, op \in RoleOps \union StaffOps : Enter(r, c, op)
             \/ PassModule(r) \/ PassRole(r)

Begin(r) ==
  \/ \E k \in RoleIds : BeginDeleteRole(r, k)
  \/ \E perms \in AskedSets :
       \/ \E name \in RoleNames : BeginCreateRole(r, name, perms)
       \/ \E k \in RoleIds : BeginUpdateRole(r, k, perms)
  \/ \E name \in RoleNames \union {Plain} : BeginCreateStaff(r, name)
  \/ \E u \in Members :
       \/ BeginDeleteStaff(r, u)
       \/ \E name \in RoleNames \union {Plain, NoName} : BeginUpdateStaff(r, u, name)

Reads(r) == \/ CheckName(r) \/ ReadAvailable(r) \/ ClearRole(r)
            \/ ReadCaller(r) \/ CheckRight(r) \/ CheckRole(r)

Writes(r) ==
  \/ \E k \in RoleIds : CreateRole(r, k)
  \/ UpdateRole(r) \/ DeleteRole(r) \/ DeleteStaff(r)
  \/ \E status \in {"active", "inactive"} :
       UpdateStaff(r, status) \/ \E u \in Members : CreateStaff(r, u, status)

Next == \/ \E r \in Requests : Guards(r) \/ Begin(r) \/ Reads(r) \/ Writes(r) \/ Reject(r)
        \/ \E m \in Modules : ToggleModule(m)

Spec == Init /\ [][Next]_vars

-------------------------------------------------------------------------------
(* Properties.                                                              *)

\* The role a member points at exists, unless the request that assigned it
\* overlapped the role's deletion: it found the role before, or wrote between its
\* two statements.  (A role created later under the same name is then the
\* member's.)  'STAFF' is no role's name to the code, and is not looked for.
RoleOfMemberExists ==
  \A u \in Members \ disturbed :
    Here(u) /\ customRole[u] \in RoleNames \ {Plain} => RoleExists(customRole[u])

\* A member is given a role only by a caller who still has staff:roles when it
\* is written, or who has lost it since it was looked at
\* (errors.missing_staff_roles_permission); and so is 'STAFF', except to a new
\* member: that asks for no right, also when there is a role of that name.
RoleAssignedByRoleManager ==
  [][\A u \in Members : (customRole'[u] # customRole[u] /\ customRole'[u] # NoName) =>
       \E r \in Requests :
         /\ jobs[r].op \in {"createStaff", "updateStaff"} /\ jobs'[r] = Done
         /\ \/ CanAssign(jobs[r].caller) \/ r \in overtaken
            \/ jobs[r].op = "createStaff" /\ customRole'[u] = Plain]_vars
===============================================================================
