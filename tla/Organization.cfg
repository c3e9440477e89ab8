CONSTANTS
  Users = {u1, u2}
  Orgs = {o1}
  Fields = {f1, f2}
  Keys = {k1}
  Requests = {r1, r2}
  Roles = {"owner", "admin"}
  None = None
  Members = {u1, u2}
  Permits = {p1}
  SystemRoles <- MCSystemRoles
  Custom = "editor"
  Editors = {r1, r2}
  Readers = {q1}
  Absent = Absent
  Firms = {f1, f2}
  Staff = {s1, s2}
  Agents = {a1}
  Credentials = {c1}
  Prints = {p1}
  Calls = {r1, r2}
  Nobody = Nobody
SYMMETRY Symmetry
SPECIFICATION MCSpec
INVARIANTS
  
  SettingsKept
  
PROPERTIES
  OnlyAuthorized
CHECK_DEADLOCK FALSE
