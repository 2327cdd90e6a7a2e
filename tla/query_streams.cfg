\* Two questions, an older conversation, a model text cut in every way.
SPECIFICATION Spec
CONSTANTS
  Requests = {"r1", "r2"}
  Conversations = {"c1", "c2"}
  Ways <- MCWays
  Scripts <- MCScripts
  MaxChunk = 3
  Existing = {"c1"}
  New = "new"
  MaxTurns = 1
  Capacity = 1
INVARIANTS ShownIsStored AnswersLogged StreamMatchesAnswer
PROPERTIES StreamsSettle
CHECK_DEADLOCK FALSE
