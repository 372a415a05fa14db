SPECIFICATION Spec
CONSTANTS
  MaxInt = 3
  MaxID = 2
  MaxByte = 1
  MaxTokens <- MCMaxTokens
INVARIANTS
  RequestsRight
  ResponsesRight
  RoundTrip
  EqualIffSameBytes
  CredentialsArrive
  InfoAsReplied
CHECK_DEADLOCK FALSE
