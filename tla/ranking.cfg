\* One question, two sub-questions, four chunks, budgets that bind.
SPECIFICATION RankingSpec
CONSTANTS
  RrfK = 2
  Unit = 60
  MinRerank = 3
  MinFusion = 500
  MinSource = 2
  DocumentOf <- MCDocumentOf
  SectionOf <- MCSectionOf
  Length <- MCLength
  CharsPerToken <- MCCharsPerToken
  Similarity <- MCSimilarity
  MaxChunks = 3
  MaxChars = 9
  MaxTokens = 6
  MaxPerDocument = 2
  MaxPerSection = 1
  MmrEnabled = TRUE
  Lambda = 7
  Texts <- MCTexts
  Question = "q"
  Fallbacks <- MCFallbacks
  Responses <- MCResponses
  MaxQueries = 3
  KeywordWeight = 1
  VectorWeight = 2
  OriginalWeight = 2
  RewriteWeight = 1
  Recalls <- MCRecalls
  Replies <- MCReplies
  Readable <- MCReadable
  Neighbours <- MCNeighbours
  ExpandWindow = 1
  TopK = 2
  RerankInput = 3
  Modes <- MCModes
INVARIANTS NothingStarved SubQuestionsSurvive PromptWithinLimits AnswersGrounded
CHECK_DEADLOCK FALSE
