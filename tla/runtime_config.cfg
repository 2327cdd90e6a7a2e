\* Two versions, two changes, two threads of one process beside another process.
SPECIFICATION FairRuntimeSpec
CONSTANTS
  Process = {"p1", "p2"}
  Thread = {"t1", "t2"}
  ProcessOf <- MCProcessOf
  LastVersion = 2
  Ref = {"k1"}
  KeyRef <- MCKeyRef
  TTL = 2
  MaxRequest = 1
  MaxWrites = 2
  MaxRotations = 1
INVARIANTS StaleBounded
PROPERTIES AuthFollows
