\* Two users and one to create, two departments, two requests.
SPECIFICATION Spec
CONSTANTS
  d0 = d0
  d1 = d1
  Users = {u0, u1, u2}
  Departments = {d0, d1}
  Default = d0
  First = u0
  Staff = {u1}
  GrantSets <- MCGrantSets
  Requests = {r1, r2}
  Setup = setup
  Anybody = anybody
SYMMETRY Symmetry
INVARIANTS AdminKept OrphansAreLate
PROPERTIES AsDeclared LossVersioned
CHECK_DEADLOCK FALSE
