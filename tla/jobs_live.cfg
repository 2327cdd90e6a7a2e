\* Two jobs, two workers with ids of their own, one crash; every step ends
\* within its lease.
SPECIFICATION FairSpec
CONSTANTS
  w1 = w1
  w2 = w2
  w3 = w3
  idA = idA
  idB = idB
  NoId = NoId
  MaxJobs = 2
  JobTypes = {"index_delete"}
  Worker = {w1, w2}
  Id = {idA, idB}
  IdOf <- UniqueIds
  MaxAttempts = 2
  AttemptCap = 4
  LeaseTicks = 1
  BackoffTicks = 1
  MaxFaults = 1
  SlowStages = FALSE
PROPERTIES JobSettles
