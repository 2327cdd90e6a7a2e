\* Two processes that start, set up, publish, edit and fail; three versions.
SPECIFICATION Spec
CONSTANTS
  Api = {a1, a2}
  Token = {t1, t2, t3}
  NoToken = NoToken
  MaxVersion = 3
SYMMETRY Symmetry
INVARIANTS PointerAgrees Served
PROPERTIES SetupSpendsToken
