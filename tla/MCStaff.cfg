SPECIFICATION Spec
SYMMETRY Symmetry
CONSTANTS
  staffModule = staffModule
  manageStaff = manageStaff
  manageRoles = manageRoles
  Requests = {q1, q2}
  Owner = Owner
  Members = {u1, u2}
  RoleIds = {k1}
  RoleNames = {n1, Plain}
  Plain = Plain
  NoName = NoName
  Permissions = {manageStaff, manageRoles}
  Modules = {staffModule}
  AskedSets <- MCAskedSets
  ModuleOf <- MCModuleOf
  StaffModule = staffModule
  ManageStaff = manageStaff
  ManageRoles = manageRoles
INVARIANT TypeOK
INVARIANT RoleOfMemberExists
PROPERTY RoleAssignedByRoleManager
CHECK_DEADLOCK FALSE
