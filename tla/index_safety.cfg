\* An import and two more jobs, two index versions, two permission changes.
SPECIFICATION Spec
CONSTANTS
  MaxJobs = 3
  MaxIndexes = 2
  MaxPolicy = 2
  Department <- OneDepartment
INVARIANTS Coherent HashVouches BlocksHaveJobs DeletedNeverHit
PROPERTIES NoRevival
