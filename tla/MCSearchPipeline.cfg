SPECIFICATION Spec
CONSTANTS
  None = None
  Corpus <- MCCorpus
  Owner <- MCOwner
  People <- MCPeople
  Kinds <- MCKinds
  Tags <- MCTags
  Norm <- MCNorm
  Words <- MCWords
  IsoDay <- MCIsoDay
  DateRange <- MCDateRange
  Nearest <- MCNearest
  Similar <- MCSimilar
  Lexicon <- MCLexicon
  Bm25 <- MCBm25
  TopK = 2
  PerSpecK = 3
  MaxPerDoc = 1
  MaxSpecs = 3
  Setups <- MCSetups
  Requests <- MCRequests
  TooShort = {"hi"}
  Trivial = {"q", "gas"}
  Replies <- MCReplies
  MaxPrunes = 1
INVARIANTS AnswerIsReached SourcesAreSound PlansServeTheQuestion
PROPERTIES NeverDowngraded
