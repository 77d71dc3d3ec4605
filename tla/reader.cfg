SPECIFICATION FairSpec
CONSTANTS
  MaxPieces = 3
  Input <- Inputs
  Decoder = {"dynamic", "generated", "fast"}
  ScalarField = {1}
  MessageField = {3}
  GroupField = {2}
  RecursionLimit = 2
INVARIANTS TypeOK DepthIsNesting AcceptsMessages UnknownFieldsKept StoredFieldsWhole
PROPERTIES DecodeReturns
CHECK_DEADLOCK FALSE
