\* An import and the deletion of its document.
SPECIFICATION Spec
CONSTANTS
  MaxJobs = 2
  MaxIndexes = 1
  MaxPolicy = 0
  Department <- OneDepartment
PROPERTY DeletedForGood
