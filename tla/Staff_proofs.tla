----------------------------- MODULE Staff_proofs -----------------------------
(***************************************************************************)
(* Proofs about Staff: types, that the role of a member exists, and that   *)
(* roles are assigned by those who may, whatever changes between the       *)
(* validation of a request and its write.                                  *)
(***************************************************************************)
EXTENDS Staff, TLAPS

-------------------------------------------------------------------------------
(* The inductive invariant.                                                 *)

Roles == RoleNames \union {Plain, NoName}

Job == [op : RoleOps \union StaffOps \union {"idle"},
        at : {"idle", "entered", "module", "guarded", "known", "checked", "caller",
              "entitled", "write"},
        caller : Callers, role : Roles, name : Roles,
        target : Members \union RoleIds \union {NoName}, perms : SUBSET Permissions,
        losers : SUBSET Members, relies : SUBSET (Members \union Roles)]

Begun(j) == j.at \in {"known", "checked", "caller", "entitled", "write"}
Looking(j) == j.at \in {"known", "caller", "entitled"}

\* Once its handler has begun, a request names what its operation needs.
WellFormed(j) ==
  /\ Begun(j) =>
       /\ j.op = "createRole" => j.name \in RoleNames
       /\ j.op \in {"updateRole", "deleteRole"} => j.target \in RoleIds
       /\ j.op \in {"updateStaff", "deleteStaff"} => j.target \in Members
       /\ j.op = "createStaff" => j.name \in RoleNames \union {Plain}
  /\ Looking(j) /\ j.op = "updateStaff" => j.name # NoName
  /\ j.at \in {"caller", "entitled"} => j.op \in {"createStaff", "updateStaff"}

\* The caller may give roles, and the request relies on the rows that say so.
Entitled(j) ==
  /\ CanAssign(j.caller)
  /\ j.caller \in Members => {j.caller, customRole[j.caller]} \subseteq j.relies

\* The request gives a role that is not free to give.
Assigns(j) ==
  /\ j.op \in {"createStaff", "updateStaff"} /\ j.at = "write"
  /\ j.name # NoName /\ ~(j.op = "createStaff" /\ j.name = Plain)

\* What a request has read is still so, as long as nobody has written a row it
\* relies on.
Current(j) ==
  /\ j.at = "caller" =>
       /\ j.caller \in j.relies \cap Members /\ Here(j.caller)
       /\ customRole[j.caller] = j.role /\ j.role # NoName
  /\ j.at = "entitled" \/ Assigns(j) => Entitled(j)
  /\ Assigns(j) /\ j.name # Plain => j.name \in j.relies /\ RoleExists(j.name)

ReadsHold ==
  /\ jobs \in [Requests -> Job] /\ \A r \in Requests : WellFormed(jobs[r])
  /\ \A r \in Requests \ overtaken : Current(jobs[r])

Inv == TypeOK /\ ReadsHold /\ RoleOfMemberExists

-------------------------------------------------------------------------------
(* Jobs and what they rely on.                                              *)

LEMMA DoneJob == Done \in Job /\ WellFormed(Done) /\ Current(Done)
  BY DEF Done, Job, Roles, Callers, WellFormed, Begun, Looking, Current, Assigns

\* The user has a role that grants staff:roles.
LEMMA RoleManager ==
  ASSUME NEW c
  PROVE  /\ CanAssign(c) <=> (c \in Members => Here(c) /\ customRole[c] # NoName
                       /\ \E k \in RoleIds : roleName[k] = customRole[c] /\ ManageRoles \in grants[k])
         /\ CanAssign(c)' <=> (c \in Members => Here(c)' /\ customRole'[c] # NoName
                       /\ \E k \in RoleIds : roleName'[k] = customRole'[c] /\ ManageRoles \in grants'[k])
  BY DEF CanAssign, Granted, Named

LEMMA NamedRole ==
  ASSUME NEW n
  PROVE  /\ RoleExists(n) <=> \E k \in RoleIds : roleName[k] = n
         /\ RoleExists(n)' <=> \E k \in RoleIds : roleName'[k] = n
  BY DEF RoleExists, Named

LEMMA InitInv == Init => Inv
<1> SUFFICES ASSUME Init PROVE Inv
  OBVIOUS
<1>1. TypeOK
  BY NameAssumption DEF Init, TypeOK
<1>2. ReadsHold
  BY DoneJob DEF Init, ReadsHold
<1>3. RoleOfMemberExists
  BY NameAssumption DEF Init, RoleOfMemberExists
<1> QED BY <1>1, <1>2, <1>3 DEF Inv

\* Users and roles stay as they are.
LEMMA JobMoves ==
  ASSUME Inv, NEW r \in Requests, NEW j \in Job, jobs' = [jobs EXCEPT ![r] = j], WellFormed(j),
         UNCHANGED <<users, roles, modules, disturbed>>,
         overtaken' = overtaken \/ overtaken' = overtaken \ {r},
         r \notin overtaken' => Current(j)
  PROVE  Inv'
<1>0. /\ TypeOK /\ ReadsHold
      /\ UNCHANGED <<member, customRole, roleName, spent, grants, modules, disturbed>>
  BY DEF Inv, users, roles
<1>1. TypeOK'
  BY <1>0 DEF TypeOK
<1>2. jobs' \in [Requests -> Job] /\ jobs'[r] = j /\ \A q \in Requests : q # r => jobs'[q] = jobs[q]
  BY <1>0 DEF ReadsHold
<1>3. ASSUME NEW q \in Requests \ overtaken' PROVE Current(jobs[q])'
  <2>1. PICK k \in Job : k = jobs'[q]
    BY <1>2
  <2>2. Current(k)
    BY <1>0, <1>2, <2>1 DEF ReadsHold
  <2>3. Current(k)'
    BY <1>0, <2>2, RoleManager, NamedRole DEF Current, Entitled, Here, Assigns
  <2> QED BY <2>1, <2>3 DEF Current, Entitled, Assigns, CanAssign, RoleExists, Granted, Named, Here
<1>4. RoleOfMemberExists'
  BY <1>0 DEF Inv, RoleOfMemberExists, Here, RoleExists, Named
<1>5. ASSUME NEW q \in Requests PROVE WellFormed(jobs[q])'
  BY <1>0, <1>2 DEF ReadsHold, WellFormed, Begun, Looking
<1> QED BY <1>1, <1>2, <1>3, <1>4, <1>5 DEF Inv, ReadsHold

\* A request writes: what it leaves alone outside the rows it is known to write
\* keeps what the others have read as it was.
LEMMA OthersCurrent ==
  ASSUME Inv, NEW r \in Requests, NEW written, Commit(r, written),
         \A u \in Members \ written : customRole'[u] = customRole[u] /\ (Here(u) => Here(u)'),
         \A k \in RoleIds : roleName[k] \notin written \union {NoName} =>
                              roleName'[k] = roleName[k] /\ grants'[k] = grants[k]
  PROVE  ReadsHold'
<1>0. /\ TypeOK /\ ReadsHold /\ jobs' = [jobs EXCEPT ![r] = Done]
      /\ overtaken' = (overtaken \ {r}) \union
                        {q \in Requests \ {r} : jobs[q].relies \cap written # {}}
  BY DEF Inv, Commit
<1>1. jobs' \in [Requests -> Job] /\ jobs'[r] = Done /\ \A q \in Requests : q # r => jobs'[q] = jobs[q]
  BY <1>0, DoneJob DEF ReadsHold
<1>2. ASSUME NEW q \in Requests \ overtaken' PROVE Current(jobs[q])'
  <2>1. CASE q = r
    BY <1>1, <2>1 DEF Current, Assigns, Done
  <2>2. CASE q # r
    <3>1. PICK j \in Job : j = jobs[q] /\ j = jobs'[q]
      BY <1>0, <1>1, <2>2 DEF ReadsHold
    <3>2. Current(j) /\ j.relies \cap written = {}
      BY <1>0, <2>2, <3>1 DEF ReadsHold
    <3>3. j.at = "caller" => /\ j.caller \in j.relies \cap Members /\ Here(j.caller)'
                             /\ customRole'[j.caller] = j.role /\ j.role # NoName
      BY <3>2 DEF Current
    <3>4. ASSUME Entitled(j) PROVE Entitled(j)'
      <4>1. CASE j.caller \notin Members
        BY <4>1 DEF Entitled, CanAssign
      <4>2. CASE j.caller \in Members
        <5>1. /\ Here(j.caller) /\ customRole[j.caller] # NoName
              /\ {j.caller, customRole[j.caller]} \subseteq j.relies
          BY <3>4, <4>2 DEF Entitled, CanAssign
        <5>2. PICK k \in RoleIds : roleName[k] = customRole[j.caller] /\ ManageRoles \in grants[k]
          BY <3>4, <4>2, RoleManager DEF Entitled
        <5>3. Here(j.caller)' /\ customRole'[j.caller] = customRole[j.caller]
          BY <3>2, <4>2, <5>1
        <5>4. roleName'[k] = roleName[k] /\ grants'[k] = grants[k]
          BY <3>2, <5>1, <5>2
        <5>5. CanAssign(j.caller)'
          BY <5>1, <5>2, <5>3, <5>4, RoleManager
        <5> QED BY <5>1, <5>3, <5>5 DEF Entitled
      <4> QED BY <4>1, <4>2
    <3>5. j.at = "entitled" \/ Assigns(j) => Entitled(j)'
      BY <3>2, <3>4 DEF Current
    <3>6. Assigns(j) /\ j.name # Plain => j.name \in j.relies /\ RoleExists(j.name)'
      BY <3>2, NamedRole DEF Current, Assigns
    <3>7. Current(j)'
      BY <3>3, <3>5, <3>6 DEF Current, Assigns
    <3> QED BY <3>1, <3>7 DEF Current, Entitled, Assigns, CanAssign, RoleExists, Granted, Named, Here
  <2> QED BY <2>1, <2>2
<1>3. ASSUME NEW q \in Requests PROVE WellFormed(jobs[q])'
  BY <1>0, <1>1, DoneJob DEF ReadsHold, WellFormed, Begun, Looking
<1> QED BY <1>1, <1>2, <1>3 DEF ReadsHold

\* A handler goes on with what it has read.
LEMMA ContinueStep ==
  ASSUME Inv, NEW r \in Requests, NEW j \in Job, Continue(r, j), WellFormed(j),
         r \in overtaken \/ Current(j)
  PROVE  Inv'
  BY JobMoves DEF Continue

\* The guard, and the choice of what a handler is asked for.
LEMMA BeginStep ==
  ASSUME Inv, NEW r \in Requests, Guards(r) \/ Begin(r)
  PROVE  Inv'
<1>0. TypeOK /\ jobs[r] \in Job /\ WellFormed(jobs[r]) /\ Done \in Job
  BY DoneJob DEF Inv, ReadsHold
<1>1. ASSUME NEW c \in Callers, NEW op \in RoleOps \union StaffOps, Enter(r, c, op) PROVE Inv'
  <2>1. ASSUME NEW j \in {[Done EXCEPT !.op = op, !.at = "guarded"],
                          [Done EXCEPT !.op = op, !.at = "entered", !.caller = c, !.role = customRole[c]]},
               Continue(r, j), c \in Members \/ j.at = "guarded"
        PROVE  Inv'
    <3>1. j \in Job /\ j.at \in {"guarded", "entered"}
      <4>1. CASE j = [Done EXCEPT !.op = op, !.at = "guarded"]
        BY <1>0, <4>1 DEF Job
      <4>2. CASE j = [Done EXCEPT !.op = op, !.at = "entered", !.caller = c, !.role = customRole[c]]
        <5>1. customRole[c] \in Roles
          BY <1>0, <2>1, <4>2 DEF Done, TypeOK, Roles
        <5> QED BY <1>0, <4>2, <5>1 DEF Job
      <4> QED BY <2>1, <4>1, <4>2
    <3>2. WellFormed(j) /\ Current(j)
      BY <3>1 DEF WellFormed, Begun, Looking, Current, Assigns
    <3> QED BY <2>1, <3>1, <3>2, ContinueStep
  <2> QED BY <1>1, <2>1 DEF Enter, Done
<1>2. ASSUME NEW j \in Job, Continue(r, j), j.at \in {"module", "guarded"} PROVE Inv'
  <2>1. WellFormed(j) /\ Current(j)
    BY <1>2 DEF WellFormed, Begun, Looking, Current, Assigns
  <2> QED BY <1>2, <2>1, ContinueStep
<1>3. CASE PassModule(r)
  <2>1. [jobs[r] EXCEPT !.at = "module"] \in Job /\ [jobs[r] EXCEPT !.at = "module"].at = "module"
    BY <1>0 DEF Job
  <2> QED BY <1>2, <1>3, <2>1 DEF PassModule
<1>4. CASE PassRole(r)
  <2>1. /\ [jobs[r] EXCEPT !.at = "guarded", !.role = NoName] \in Job
        /\ [jobs[r] EXCEPT !.at = "guarded", !.role = NoName].at = "guarded"
    BY <1>0 DEF Job, Roles
  <2> QED BY <1>2, <1>4, <2>1 DEF PassRole
<1>5. ASSUME NEW j \in Job, Continue(r, j), WellFormed(j), j.at \in {"known", "checked", "write"}, ~Assigns(j)
      PROVE  Inv'
  <2>1. Current(j)
    BY <1>5 DEF Current
  <2> QED BY <1>5, <2>1, ContinueStep
<1>6. ASSUME NEW k \in RoleIds, BeginDeleteRole(r, k) PROVE Inv'
  <2> DEFINE j == [jobs[r] EXCEPT !.at = "checked", !.target = k]
  <2>1. j \in Job /\ j.op = "deleteRole" /\ j.at = "checked" /\ j.target = k /\ Continue(r, j)
    BY <1>0, <1>6 DEF Job, BeginDeleteRole, Begins
  <2> HIDE DEF j
  <2>2. WellFormed(j) /\ ~Assigns(j)
    BY <2>1 DEF WellFormed, Begun, Looking, Assigns
  <2> QED BY <1>5, <2>1, <2>2
<1>7. ASSUME NEW perms \in AskedSets, NEW name \in RoleNames, BeginCreateRole(r, name, perms)
      PROVE  Inv'
  <2> DEFINE j == [jobs[r] EXCEPT !.at = "known", !.name = name, !.perms = perms]
  <2>1. j \in Job /\ j.op = "createRole" /\ j.at = "known" /\ j.name = name /\ Continue(r, j)
    BY <1>0, <1>7, PermissionAssumption DEF Job, Roles, BeginCreateRole, Begins
  <2> HIDE DEF j
  <2>2. WellFormed(j) /\ ~Assigns(j)
    BY <2>1 DEF WellFormed, Begun, Looking, Assigns
  <2> QED BY <1>5, <2>1, <2>2
<1>8. ASSUME NEW perms \in AskedSets, NEW k \in RoleIds, BeginUpdateRole(r, k, perms) PROVE Inv'
  <2> DEFINE j == [jobs[r] EXCEPT !.at = "checked", !.target = k, !.perms = perms]
  <2>1. j \in Job /\ j.op = "updateRole" /\ j.at = "checked" /\ j.target = k /\ Continue(r, j)
    BY <1>0, <1>8, PermissionAssumption DEF Job, BeginUpdateRole, Begins
  <2> HIDE DEF j
  <2>2. WellFormed(j) /\ ~Assigns(j)
    BY <2>1 DEF WellFormed, Begun, Looking, Assigns
  <2> QED BY <1>5, <2>1, <2>2
<1>9. ASSUME NEW name \in RoleNames \union {Plain}, BeginCreateStaff(r, name) PROVE Inv'
  <2> DEFINE at == IF name = Plain THEN "write" ELSE "known"
  <2>0. at \in {"write", "known"} /\ (at = "write" <=> name = Plain)
    OBVIOUS
  <2> HIDE DEF at
  <2> DEFINE j == [jobs[r] EXCEPT !.at = at, !.name = name]
  <2>1. /\ j \in Job /\ j.op = "createStaff" /\ j.at = at
        /\ j.name = name
    BY <1>0, <1>9, <2>0 DEF Job, Roles, BeginCreateStaff, Begins
  <2>3. Continue(r, j)
    BY <1>9 DEF BeginCreateStaff, at
  <2> HIDE DEF j
  <2>2. WellFormed(j) /\ ~Assigns(j)
    BY <2>0, <2>1 DEF WellFormed, Begun, Looking, Assigns
  <2> QED BY <1>5, <2>0, <2>1, <2>2, <2>3
<1>10. ASSUME NEW u \in Members, BeginDeleteStaff(r, u) PROVE Inv'
  <2> DEFINE j == [jobs[r] EXCEPT !.at = "write", !.target = u]
  <2>1. j \in Job /\ j.op = "deleteStaff" /\ j.at = "write" /\ j.target = u /\ Continue(r, j)
    BY <1>0, <1>10 DEF Job, BeginDeleteStaff, Begins
  <2> HIDE DEF j
  <2>2. WellFormed(j) /\ ~Assigns(j)
    BY <2>1 DEF WellFormed, Begun, Looking, Assigns
  <2> QED BY <1>5, <2>1, <2>2
<1>11. ASSUME NEW u \in Members, NEW name \in RoleNames \union {Plain, NoName}, BeginUpdateStaff(r, u, name)
       PROVE  Inv'
  <2> DEFINE at == IF name = NoName THEN "write" ELSE "known"
  <2>0. at \in {"write", "known"} /\ (at = "write" <=> name = NoName)
    OBVIOUS
  <2> HIDE DEF at
  <2> DEFINE j == [jobs[r] EXCEPT !.at = at,
                                  !.target = u, !.name = name]
  <2>1. /\ j \in Job /\ j.op = "updateStaff" /\ j.at = at
        /\ j.name = name /\ j.target = u
    BY <1>0, <1>11, <2>0 DEF Job, Roles, BeginUpdateStaff, Begins
  <2>3. Continue(r, j)
    BY <1>11 DEF BeginUpdateStaff, at
  <2> HIDE DEF j
  <2>2. WellFormed(j) /\ ~Assigns(j)
    BY <2>0, <2>1 DEF WellFormed, Begun, Looking, Assigns
  <2> QED BY <1>5, <2>0, <2>1, <2>2, <2>3
<1> QED BY <1>1, <1>3, <1>4, <1>6, <1>7, <1>8, <1>9, <1>10, <1>11 DEF Guards, Begin

\* The other steps that write no user and no role.
LEMMA ReadStep ==
  ASSUME Inv, NEW r \in Requests, Reads(r) \/ Reject(r)
  PROVE  Inv'
<1>0. /\ TypeOK /\ jobs[r] \in Job /\ WellFormed(jobs[r])
      /\ r \in overtaken \/ Current(jobs[r])
  BY DEF Inv, ReadsHold
<1>1. CASE CheckName(r)
  <2> DEFINE j == [jobs[r] EXCEPT !.at = "checked"]
  <2>1. /\ j \in Job /\ j.op = "createRole" /\ j.at = "checked" /\ j.name = jobs[r].name
        /\ jobs[r].at = "known" /\ jobs[r].op = "createRole" /\ Continue(r, j)
    BY <1>0, <1>1 DEF Job, CheckName
  <2> HIDE DEF j
  <2>2. WellFormed(j) /\ Current(j)
    BY <1>0, <2>1 DEF WellFormed, Begun, Looking, Current, Assigns
  <2> QED BY <2>1, <2>2, ContinueStep
<1>2. CASE ReadAvailable(r)
  <2> DEFINE j == [jobs[r] EXCEPT !.at = "write", !.perms = @ \cap Available]
  <2>1. /\ j \in Job /\ j.op \in {"createRole", "updateRole"} /\ j.at = "write"
        /\ j.op = jobs[r].op /\ j.name = jobs[r].name /\ j.target = jobs[r].target
        /\ jobs[r].at = "checked" /\ Continue(r, j)
    BY <1>0, <1>2 DEF Job, ReadAvailable
  <2> HIDE DEF j
  <2>2. WellFormed(j) /\ Current(j)
    BY <1>0, <2>1 DEF WellFormed, Begun, Looking, Current, Assigns
  <2> QED BY <2>1, <2>2, ContinueStep
<1>3. CASE ClearRole(r)
  <2> DEFINE losers == {u \in Members : Here(u) /\ customRole[u] = roleName[jobs[r].target]}
             j == [jobs[r] EXCEPT !.at = "write", !.losers = losers]
  <2>1. /\ j \in Job /\ j.op = "deleteRole" /\ j.at = "write" /\ j.target = jobs[r].target
        /\ jobs[r].at = "checked" /\ jobs[r].op = "deleteRole" /\ Continue(r, j)
    BY <1>0, <1>3 DEF Job, ClearRole
  <2> HIDE DEF j
  <2>2. WellFormed(j) /\ Current(j)
    BY <1>0, <2>1 DEF WellFormed, Begun, Looking, Current, Assigns
  <2> QED BY <2>1, <2>2, ContinueStep
<1>4. CASE ReadCaller(r) /\ jobs[r].caller = Owner
  <2> DEFINE j == [jobs[r] EXCEPT !.at = "entitled"]
  <2>1. /\ j \in Job /\ j.op \in {"createStaff", "updateStaff"} /\ j.at = "entitled"
        /\ j.op = jobs[r].op /\ j.name = jobs[r].name /\ j.target = jobs[r].target
        /\ j.caller \notin Members /\ jobs[r].at = "known" /\ Continue(r, j)
    BY <1>0, <1>4, OwnerAssumption DEF Job, ReadCaller
  <2> HIDE DEF j
  <2>2. WellFormed(j) /\ Current(j)
    BY <1>0, <2>1 DEF WellFormed, Begun, Looking, Current, Assigns, Entitled, CanAssign
  <2> QED BY <2>1, <2>2, ContinueStep
<1>5. CASE ReadCaller(r) /\ jobs[r].caller # Owner
  <2> DEFINE c == jobs[r].caller
             j == [jobs[r] EXCEPT !.at = "caller", !.role = customRole[c], !.relies = {c}]
  <2>1. /\ c \in Members /\ Here(c) /\ customRole[c] # NoName /\ Continue(r, j)
        /\ jobs[r].op \in {"createStaff", "updateStaff"} /\ jobs[r].at = "known"
    BY <1>5 DEF ReadCaller
  <2>2. /\ j \in Job /\ j.at = "caller" /\ j.op = jobs[r].op /\ j.name = jobs[r].name
        /\ j.target = jobs[r].target /\ j.caller = c /\ j.role = customRole[c] /\ j.relies = {c}
    BY <1>0, <2>1 DEF Job, TypeOK, Roles
  <2> HIDE DEF j
  <2>3. WellFormed(j)
    BY <1>0, <2>1, <2>2 DEF WellFormed, Begun, Looking
  <2>4. Current(j)
    BY <2>1, <2>2 DEF Current, Assigns
  <2> QED BY <2>1, <2>2, <2>3, <2>4, ContinueStep
<1>6. CASE CheckRight(r)
  <2> DEFINE j == [jobs[r] EXCEPT !.at = "entitled", !.relies = @ \union {jobs[r].role}]
  <2>1. /\ j \in Job /\ j.op = jobs[r].op /\ j.name = jobs[r].name /\ j.target = jobs[r].target
        /\ j.caller = jobs[r].caller /\ j.at = "entitled" /\ j.relies = jobs[r].relies \union {jobs[r].role}
        /\ jobs[r].at = "caller" /\ ManageRoles \in Granted(jobs[r].role) /\ Continue(r, j)
    BY <1>0, <1>6 DEF Job, CheckRight
  <2> HIDE DEF j
  <2>2. WellFormed(j)
    BY <1>0, <2>1 DEF WellFormed, Begun, Looking
  <2>3. ASSUME r \notin overtaken PROVE Current(j)
    <3>1. /\ j.caller \in jobs[r].relies \cap Members /\ Here(j.caller)
          /\ customRole[j.caller] = jobs[r].role /\ jobs[r].role # NoName
      BY <1>0, <2>1, <2>3 DEF Current
    <3>2. Entitled(j)
      BY <2>1, <3>1 DEF Entitled, CanAssign
    <3> QED BY <2>1, <3>2 DEF Current, Assigns
  <2> QED BY <2>1, <2>2, <2>3, ContinueStep
<1>7. CASE CheckRole(r)
  <2> DEFINE j == [jobs[r] EXCEPT !.at = "write", !.relies = @ \union {jobs[r].name}]
  <2>1. /\ j \in Job /\ j.op = jobs[r].op /\ j.name = jobs[r].name /\ j.target = jobs[r].target
        /\ j.caller = jobs[r].caller /\ j.at = "write" /\ j.relies = jobs[r].relies \union {jobs[r].name}
        /\ jobs[r].at = "entitled" /\ (jobs[r].name = Plain \/ RoleExists(jobs[r].name)) /\ Continue(r, j)
    BY <1>0, <1>7 DEF Job, CheckRole
  <2> HIDE DEF j
  <2>2. WellFormed(j)
    BY <1>0, <2>1 DEF WellFormed, Begun, Looking
  <2>3. ASSUME r \notin overtaken PROVE Current(j)
    <3>1. Entitled(jobs[r])
      BY <1>0, <2>1, <2>3 DEF Current
    <3>2. Entitled(j)
      BY <2>1, <3>1 DEF Entitled
    <3> QED BY <2>1, <3>2 DEF Current
  <2> QED BY <2>1, <2>2, <2>3, ContinueStep
<1>8. CASE Reject(r)
  BY <1>8, DoneJob, JobMoves DEF Reject
<1> QED BY <1>1, <1>2, <1>3, <1>4, <1>5, <1>6, <1>7, <1>8 DEF Reads

-------------------------------------------------------------------------------
(* The writes.                                                              *)

LEMMA CreateRoleStep ==
  ASSUME Inv, NEW r \in Requests, NEW k \in RoleIds, CreateRole(r, k)
  PROVE  Inv'
<1> DEFINE name == jobs[r].name
<1>0. /\ TypeOK /\ jobs[r] \in Job /\ name \in RoleNames /\ k \notin spent /\ ~RoleExists(name)
      /\ roleName' = [roleName EXCEPT ![k] = name] /\ grants' = [grants EXCEPT ![k] = jobs[r].perms]
      /\ spent' = spent \union {k} /\ UNCHANGED <<member, customRole, modules, disturbed>>
      /\ Commit(r, {name})
  BY DEF Inv, ReadsHold, WellFormed, Begun, CreateRole, Commit, users
<1>1. name \in RoleNames /\ jobs[r].perms \subseteq Permissions /\ roleName[k] = NoName
  BY <1>0 DEF Job, TypeOK
<1>2. /\ roleName'[k] = name /\ \A j \in RoleIds : j # k => roleName'[j] = roleName[j] /\ grants'[j] = grants[j]
      /\ roleName' \in [RoleIds -> RoleNames \union {NoName}]
      /\ grants' \in [RoleIds -> SUBSET Permissions]
  BY <1>0, <1>1 DEF TypeOK
<1>3. TypeOK'
  <2>1. {j \in RoleIds : roleName'[j] # NoName} \subseteq spent' /\ spent' \subseteq RoleIds
    BY <1>0, <1>2 DEF TypeOK
  <2>2. \A i, j \in RoleIds : i # j /\ roleName'[i] = roleName'[j] => roleName'[i] = NoName
    BY <1>0, <1>2, NamedRole DEF TypeOK
  <2>3. overtaken' \subseteq Requests
    BY <1>0 DEF TypeOK, Commit
  <2> QED BY <1>0, <1>2, <2>1, <2>2, <2>3 DEF TypeOK
<1>4. ReadsHold'
  <2>1. \A u \in Members : Here(u) => Here(u)'
    BY <1>0 DEF Here
  <2> QED BY <1>0, <1>1, <1>2, <2>1, OthersCurrent
<1>5. RoleOfMemberExists'
  <2>1. \A n \in RoleNames : RoleExists(n) => RoleExists(n)'
    BY <1>1, <1>2, NamedRole, NameAssumption
  <2>2. \A u \in Members : Here(u)' => Here(u)
    BY <1>0 DEF Here
  <2> QED BY <1>0, <2>1, <2>2 DEF Inv, RoleOfMemberExists, RoleExists, Named
<1> QED BY <1>3, <1>4, <1>5 DEF Inv

LEMMA UpdateRoleStep ==
  ASSUME Inv, NEW r \in Requests, UpdateRole(r)
  PROVE  Inv'
<1> DEFINE k == jobs[r].target
<1>0. /\ TypeOK /\ jobs[r] \in Job /\ k \in RoleIds /\ grants' = [grants EXCEPT ![k] = jobs[r].perms]
      /\ UNCHANGED <<member, customRole, roleName, spent, modules, disturbed>>
      /\ Commit(r, {roleName[k]})
  BY DEF Inv, ReadsHold, WellFormed, Begun, UpdateRole, Commit, users
<1>1. k \in RoleIds /\ jobs[r].perms \subseteq Permissions
  BY <1>0 DEF Job
<1>2. TypeOK'
  BY <1>0, <1>1 DEF TypeOK, Commit
<1>3. ReadsHold'
  <2>1. \A u \in Members : Here(u) => Here(u)'
    BY <1>0 DEF Here
  <2>2. \A j \in RoleIds : j # k => grants'[j] = grants[j]
    BY <1>0 DEF TypeOK
  <2> QED BY <1>0, <2>1, <2>2, OthersCurrent
<1>4. RoleOfMemberExists'
  BY <1>0 DEF Inv, RoleOfMemberExists, Here, RoleExists, Named
<1> QED BY <1>2, <1>3, <1>4 DEF Inv

LEMMA DeleteRoleStep ==
  ASSUME Inv, NEW r \in Requests, DeleteRole(r)
  PROVE  Inv'
<1> DEFINE k == jobs[r].target
           losers == jobs[r].losers
<1>0. /\ TypeOK /\ jobs[r] \in Job /\ k \in RoleIds /\ roleName[k] # NoName
      /\ customRole' = [u \in Members |-> IF u \in losers THEN NoName ELSE customRole[u]]
      /\ roleName' = [roleName EXCEPT ![k] = NoName] /\ grants' = [grants EXCEPT ![k] = {}]
      /\ disturbed' = disturbed \union Latecomers(r) /\ UNCHANGED <<member, spent, modules>>
      /\ Commit(r, losers \union {roleName[k]})
  BY DEF Inv, ReadsHold, WellFormed, Begun, DeleteRole, Commit
<1>1. k \in RoleIds /\ losers \subseteq Members
  BY <1>0 DEF Job
<1>2. /\ roleName'[k] = NoName
      /\ \A j \in RoleIds : j # k => roleName'[j] = roleName[j] /\ grants'[j] = grants[j]
      /\ roleName' \in [RoleIds -> RoleNames \union {NoName}]
      /\ grants' \in [RoleIds -> SUBSET Permissions]
      /\ customRole' \in [Members -> RoleNames \union {Plain, NoName}]
      /\ \A u \in Members \ losers : customRole'[u] = customRole[u]
      /\ \A u \in losers \cap Members : customRole'[u] = NoName
  BY <1>0, <1>1 DEF TypeOK
<1>3. TypeOK'
  <2>1. {j \in RoleIds : roleName'[j] # NoName} \subseteq spent' /\ spent' \subseteq RoleIds
    BY <1>0, <1>2 DEF TypeOK
  <2>2. \A i, j \in RoleIds : i # j /\ roleName'[i] = roleName'[j] => roleName'[i] = NoName
    BY <1>0, <1>2 DEF TypeOK
  <2>3. overtaken' \subseteq Requests /\ disturbed' \subseteq Members
    BY <1>0 DEF TypeOK, Commit, Latecomers
  <2> QED BY <1>0, <1>2, <2>1, <2>2, <2>3 DEF TypeOK
<1>4. ReadsHold'
  <2>1. \A u \in Members : Here(u) => Here(u)'
    BY <1>0 DEF Here
  <2> QED BY <1>0, <1>2, <2>1, OthersCurrent
<1>5. RoleOfMemberExists'
  <2> SUFFICES ASSUME NEW u \in Members, u \notin disturbed', Here(u)',
                      customRole'[u] \in RoleNames \ {Plain}
               PROVE  RoleExists(customRole[u])'
    BY DEF RoleOfMemberExists
  <2>1. Here(u) /\ customRole'[u] = customRole[u] /\ u \notin losers /\ u \notin disturbed
    BY <1>0, <1>2, NameAssumption DEF Here
  <2>2. customRole[u] # roleName[k]
    BY <1>0, <2>1 DEF Latecomers
  <2>3. PICK j \in RoleIds : roleName[j] = customRole[u]
    BY <2>1, NamedRole DEF Inv, RoleOfMemberExists
  <2>4. roleName'[j] = customRole'[u]
    BY <1>2, <2>1, <2>2, <2>3
  <2> QED BY <2>4 DEF RoleExists, Named
<1> QED BY <1>3, <1>4, <1>5 DEF Inv

\* createStaff, updateStaff and deleteStaff write one member.
LEMMA MemberWritten ==
  ASSUME Inv, NEW r \in Requests, NEW u \in Members,
         NEW status \in {"active", "inactive", "deleted"}, NEW role \in Roles,
         member' = [member EXCEPT ![u] = status], customRole' = [customRole EXCEPT ![u] = role],
         UNCHANGED roles, Commit(r, {u}), disturbed \subseteq disturbed', disturbed' \subseteq Members,
         u \notin disturbed' /\ status # "deleted" /\ role \in RoleNames \ {Plain} => RoleExists(role)
  PROVE  Inv'
<1>0. /\ TypeOK /\ UNCHANGED <<roleName, spent, grants, modules>>
  BY DEF Inv, roles, Commit
<1>1. TypeOK'
  BY <1>0 DEF TypeOK, Roles, Commit
<1>2. /\ \A v \in Members : v # u => customRole'[v] = customRole[v] /\ member'[v] = member[v]
      /\ customRole'[u] = role /\ member'[u] = status
  BY <1>0 DEF TypeOK
<1>3. ReadsHold'
  <2>1. \A v \in Members \ {u} : Here(v) => Here(v)'
    BY <1>2 DEF Here
  <2> QED BY <1>0, <1>2, <2>1, OthersCurrent
<1>4. RoleOfMemberExists'
  <2> SUFFICES ASSUME NEW v \in Members, v \notin disturbed', Here(v)',
                      customRole'[v] \in RoleNames \ {Plain}
               PROVE  RoleExists(customRole[v])'
    BY DEF RoleOfMemberExists
  <2>1. RoleExists(customRole'[v])
    <3>1. CASE v = u
      BY <1>2, <3>1 DEF Here
    <3>2. CASE v # u
      BY <1>2, <3>2 DEF Inv, RoleOfMemberExists, Here
    <3> QED BY <3>1, <3>2
  <2> QED BY <1>0, <2>1 DEF RoleExists, Named
<1> QED BY <1>1, <1>3, <1>4 DEF Inv

LEMMA MemberStep ==
  ASSUME Inv, NEW r \in Requests,
         \/ DeleteStaff(r)
         \/ \E status \in {"active", "inactive"} :
              UpdateStaff(r, status) \/ \E u \in Members : CreateStaff(r, u, status)
  PROVE  Inv'
<1>0. /\ TypeOK /\ jobs \in [Requests -> Job] /\ jobs[r] \in Job /\ WellFormed(jobs[r])
      /\ r \notin overtaken => Current(jobs[r])
  BY DEF Inv, ReadsHold
<1>1. CASE DeleteStaff(r)
  <2>1. jobs[r].target \in Members /\ NoName \in Roles /\ NoName \notin RoleNames
    BY <1>0, <1>1, NameAssumption DEF DeleteStaff, WellFormed, Begun, Roles
  <2>2. disturbed' = disturbed /\ disturbed' \subseteq Members
    BY <1>0, <1>1 DEF DeleteStaff, TypeOK
  <2> QED BY <1>1, <2>1, <2>2, MemberWritten DEF DeleteStaff
<1>2. ASSUME NEW status \in {"active", "inactive"}, UpdateStaff(r, status) PROVE Inv'
  <2> DEFINE u == jobs[r].target
             role == IF jobs[r].name = NoName THEN customRole[u] ELSE jobs[r].name
  <2>1. /\ u \in Members /\ jobs[r].name \in Roles /\ Here(u)
        /\ jobs[r].op = "updateStaff" /\ jobs[r].at = "write"
    BY <1>0, <1>2 DEF UpdateStaff, WellFormed, Begun, Job
  <2>2. role \in Roles /\ customRole' = [customRole EXCEPT ![u] = role]
    BY <1>0, <1>2, <2>1 DEF UpdateStaff, TypeOK, Roles
  <2>3. disturbed' = IF r \in overtaken THEN disturbed \union {u} ELSE disturbed
    BY <1>2 DEF UpdateStaff, Disturb
  <2>4. u \notin disturbed' /\ role \in RoleNames \ {Plain} => RoleExists(role)
    <3>1. CASE jobs[r].name = NoName
      BY <2>1, <2>3, <3>1 DEF Inv, RoleOfMemberExists
    <3>2. CASE jobs[r].name # NoName
      BY <1>0, <2>1, <2>3, <3>2 DEF Current, Assigns
    <3> QED BY <3>1, <3>2
  <2>5. disturbed \subseteq disturbed' /\ disturbed' \subseteq Members
    BY <1>0, <2>1, <2>3 DEF TypeOK
  <2>6. /\ status \in {"active", "inactive", "deleted"} /\ member' = [member EXCEPT ![u] = status]
        /\ UNCHANGED roles /\ Commit(r, {u})
    BY <1>2 DEF UpdateStaff
  <2> HIDE DEF u, role
  <2> QED BY <2>1, <2>2, <2>4, <2>5, <2>6, MemberWritten
<1>3. ASSUME NEW status \in {"active", "inactive"}, NEW u \in Members, CreateStaff(r, u, status)
      PROVE  Inv'
  <2>1. /\ jobs[r].name \in Roles /\ jobs[r].name # NoName
        /\ jobs[r].op = "createStaff" /\ jobs[r].at = "write"
    BY <1>0, <1>3, NameAssumption DEF CreateStaff, WellFormed, Begun, Roles
  <2>2. disturbed' = IF r \in overtaken THEN disturbed \union {u} ELSE disturbed
    BY <1>3 DEF CreateStaff, Disturb
  <2>3. u \notin disturbed' /\ jobs[r].name \in RoleNames \ {Plain} => RoleExists(jobs[r].name)
    BY <1>0, <2>1, <2>2 DEF Current, Assigns
  <2>4. disturbed \subseteq disturbed' /\ disturbed' \subseteq Members
    BY <1>0, <2>2 DEF TypeOK
  <2>5. /\ status \in {"active", "inactive", "deleted"} /\ member' = [member EXCEPT ![u] = status]
        /\ customRole' = [customRole EXCEPT ![u] = jobs[r].name]
        /\ UNCHANGED roles /\ Commit(r, {u})
    BY <1>3 DEF CreateStaff
  <2> QED BY <2>1, <2>3, <2>4, <2>5, MemberWritten
<1> QED BY <1>1, <1>2, <1>3

LEMMA OtherStep ==
  ASSUME Inv, UNCHANGED vars \/ \E m \in Modules : ToggleModule(m)
  PROVE  Inv'
<1>0. UNCHANGED <<member, customRole, roleName, spent, grants, jobs, overtaken, disturbed>>
      /\ modules' \subseteq Modules
  BY DEF Inv, TypeOK, ToggleModule, vars, users, roles
<1>1. TypeOK'
  BY <1>0 DEF Inv, TypeOK
<1>2. ReadsHold'
  BY <1>0 DEF Inv, ReadsHold, WellFormed, Begun, Looking, Current, Entitled, Assigns, CanAssign,
              RoleExists, Granted, Named, Here
<1>3. RoleOfMemberExists'
  BY <1>0 DEF Inv, RoleOfMemberExists, Here, RoleExists, Named
<1> QED BY <1>1, <1>2, <1>3 DEF Inv

-------------------------------------------------------------------------------
(* Theorems.                                                                *)

LEMMA Invariance == Spec => []Inv
<1>1. Inv /\ [Next]_vars => Inv'
  BY BeginStep, ReadStep, CreateRoleStep, UpdateRoleStep, DeleteRoleStep, MemberStep, OtherStep DEF Next, Writes
<1> QED BY InitInv, <1>1, PTL DEF Spec

\* Users, roles and requests keep their types, and the unique index on the names of
\* roles holds through createRole and deleteRole.
THEOREM TypeCorrect == Spec => []TypeOK
  BY Invariance, PTL DEF Inv

\* createStaff and updateStaff give no member a role that does not exist, and
\* deleteRole leaves none behind, unless the two overlap.
THEOREM RolesExist == Spec => []RoleOfMemberExists
  BY Invariance, PTL DEF Inv

\* A role is given under the caller's right canAssignRole looked at, still held at
\* the write or lost since: every other write leaves customRole or clears it.  Only
\* 'STAFF', role or not, is given to a new member without that right.
THEOREM RolesAssigned == Spec => RoleAssignedByRoleManager
<1> DEFINE ByManager ==
      \A u \in Members : (customRole'[u] # customRole[u] /\ customRole'[u] # NoName) =>
        \E r \in Requests :
          /\ jobs[r].op \in {"createStaff", "updateStaff"} /\ jobs'[r] = Done
          /\ \/ CanAssign(jobs[r].caller) \/ r \in overtaken
             \/ jobs[r].op = "createStaff" /\ customRole'[u] = Plain
<1>1. Inv /\ [Next]_vars => ByManager
  <2> SUFFICES ASSUME Inv, [Next]_vars, NEW u \in Members, customRole'[u] # customRole[u],
                      customRole'[u] # NoName
               PROVE  \E r \in Requests :
                        /\ jobs[r].op \in {"createStaff", "updateStaff"} /\ jobs'[r] = Done
                        /\ \/ CanAssign(jobs[r].caller) \/ r \in overtaken
                           \/ jobs[r].op = "createStaff" /\ customRole'[u] = Plain
    OBVIOUS
  <2>0. TypeOK /\ jobs \in [Requests -> Job] /\ \A r \in Requests \ overtaken : Current(jobs[r])
    BY DEF Inv, ReadsHold
  <2>1. ASSUME NEW r \in Requests, jobs[r].op \in {"createStaff", "updateStaff"}, jobs[r].at = "write",
               customRole'[u] = jobs[r].name, jobs' = [jobs EXCEPT ![r] = Done]
        PROVE  \E q \in Requests :
                 /\ jobs[q].op \in {"createStaff", "updateStaff"} /\ jobs'[q] = Done
                 /\ \/ CanAssign(jobs[q].caller) \/ q \in overtaken
                    \/ jobs[q].op = "createStaff" /\ customRole'[u] = Plain
    <3>1. \/ r \in overtaken \/ CanAssign(jobs[r].caller)
          \/ jobs[r].op = "createStaff" /\ customRole'[u] = Plain
      BY <2>0, <2>1 DEF Current, Assigns, Entitled
    <3>2. jobs'[r] = Done
      BY <2>0, <2>1
    <3> QED BY <2>1, <3>1, <3>2
  <2>2. ASSUME NEW r \in Requests, NEW status, NEW v \in Members, CreateStaff(r, v, status)
        PROVE  jobs[r].op = "createStaff" /\ jobs[r].at = "write" /\ customRole'[u] = jobs[r].name
               /\ jobs' = [jobs EXCEPT ![r] = Done]
    BY <2>0, <2>2 DEF CreateStaff, Commit, TypeOK
  <2>3. ASSUME NEW r \in Requests, NEW status, UpdateStaff(r, status)
        PROVE  jobs[r].op = "updateStaff" /\ jobs[r].at = "write" /\ customRole'[u] = jobs[r].name
               /\ jobs' = [jobs EXCEPT ![r] = Done]
    BY <2>0, <2>3 DEF UpdateStaff, Commit, TypeOK
  <2>4. ASSUME NEW r \in Requests, DeleteStaff(r) PROVE FALSE
    BY <2>0, <2>4 DEF DeleteStaff, TypeOK
  <2>5. ASSUME NEW r \in Requests, DeleteRole(r) PROVE FALSE
    BY <2>0, <2>5 DEF DeleteRole
  <2>6. ASSUME NEW r \in Requests, UpdateRole(r) \/ \E k \in RoleIds : CreateRole(r, k) PROVE FALSE
    BY <2>6 DEF UpdateRole, CreateRole, users
  <2>7. ASSUME NEW r \in Requests, NEW j, Continue(r, j) PROVE FALSE
    BY <2>7 DEF Continue, users
  <2>8. ASSUME NEW r \in Requests, Guards(r) \/ Begin(r) PROVE FALSE
    BY <2>7, <2>8 DEF Guards, Enter, PassModule, PassRole, Begin, BeginDeleteRole, BeginCreateRole,
                BeginUpdateRole, BeginCreateStaff, BeginDeleteStaff, BeginUpdateStaff
  <2>9. ASSUME NEW r \in Requests, Reads(r) \/ Reject(r) PROVE FALSE
    BY <2>7, <2>9 DEF Reads, CheckName, ReadAvailable, ClearRole, ReadCaller, CheckRight, CheckRole,
                Reject, users
  <2>10. ASSUME UNCHANGED vars \/ \E m \in Modules : ToggleModule(m) PROVE FALSE
    BY <2>10 DEF ToggleModule, vars, users
  <2> QED BY <2>1, <2>2, <2>3, <2>4, <2>5, <2>6, <2>8, <2>9, <2>10 DEF Next, Writes
<1>2. Inv /\ [Next]_vars => [ByManager]_vars
  BY <1>1
<1> QED BY Invariance, <1>2, PTL DEF Spec, RoleAssignedByRoleManager
===============================================================================
