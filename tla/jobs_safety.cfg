\* One job, three processes of which two share an id, steps that may outlive
\* their lease, one crash.
SPECIFICATION Spec
CONSTANTS
  w1 = w1
  w2 = w2
  w3 = w3
  idA = idA
  idB = idB
  NoId = NoId
  MaxJobs = 1
  JobTypes = {"permission_refresh"}
  Worker = {w1, w2, w3}
  Id = {idA, idB}
  IdOf <- SharedIds
  MaxAttempts = 2
  AttemptCap = 4
  LeaseTicks = 1
  BackoffTicks = 1
  MaxFaults = 1
  SlowStages = TRUE
SYMMETRY SameIdWorkers
INVARIANTS EffectsMatchStage StageExclusion AttemptsAccounted
PROPERTIES CancelHonoured FailureNamesItsStage ImplementsContract
