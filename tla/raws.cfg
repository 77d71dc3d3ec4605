SPECIFICATION Spec
CONSTANTS
  Message = {m1, m2}
  Raw <- FewFields
  Encoded <- Streams
  Asked = {1}
  Extension = 4
  MessageSet = FALSE
  RawTags = TRUE
  Room = 2
  RecursionLimit = 2
INVARIANTS TypeOK OwnedOnce StoredFieldsValid
PROPERTIES ImplementsLog
CHECK_DEADLOCK FALSE
