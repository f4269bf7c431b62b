SPECIFICATION Spec
CONSTANTS
  Similarity <- MCSimilarity
  NoId = 0
  Requests <- MCRequests
  Answers <- MCSteady
  Limit = 2
  AskedRelease = 1
  AskedGroup = 1
  PrintDuration = 104
  MaxWords = 2
INVARIANTS AllFailedIsBadGateway
