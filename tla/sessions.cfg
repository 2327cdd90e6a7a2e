\* Two API processes, three sessions, two password changes.
SPECIFICATION Spec
CONSTANTS
  Api = {a1, a2}
  Session = {s1, s2, s3}
  NoSession = none
  MaxPasswords = 2
SYMMETRY Symmetry
INVARIANTS RotatedOnce RevocationHolds OldPasswordEnds
CHECK_DEADLOCK FALSE
