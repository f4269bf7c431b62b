SPECIFICATION Spec
CONSTANTS
  Similarity <- MCSimilarity
  NoId = 0
  Requests <- MCRequests
  Answers <- MCAnswers
  Limit = 2
  AskedRelease = 1
  AskedGroup = 1
  PrintDuration = 104
  MaxWords = 2
INVARIANTS
  BadGatewayIsEarned
  NoFallbackSkipped
  RecordingsAreResolved
  BestIsAnswered
  EveryFieldHasItsSource
  WordsAreBest
