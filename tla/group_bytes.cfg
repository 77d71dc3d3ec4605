SPECIFICATION Spec
CONSTANTS
  MaxPieces = 2
  Input <- Inputs
  Decoder = {"generated"}
  ScalarField = {1}
  MessageField = {3}
  GroupField = {2}
  RecursionLimit = 2
INVARIANTS GroupBytesEndAtTag
CHECK_DEADLOCK FALSE
