SPECIFICATION Spec
CONSTANTS
  Message = {m1}
  Raw <- Fields
  Encoded <- ItemStreams
  Asked = {1, 16}
  Extension = 4
  MessageSet = TRUE
  RawTags = FALSE
  Room = 3
  RecursionLimit = 2
INVARIANTS RoundTrip QueriesAgree DeterministicAgrees ItemsAgree
PROPERTIES ImplementsLog
CHECK_DEADLOCK FALSE
