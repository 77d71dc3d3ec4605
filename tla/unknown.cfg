SPECIFICATION FairSpec
CONSTANTS
  choice = choice
  plain = plain
  k1 = k1
  k2 = k2
  d1 = d1
  d2 = d2
  NoOneof = plain
  NoKey = NoKey
  Key = {k1}
  Datum = {d1, d2}
  EnumNumber = {d1}
  EnumMap = {4}
  EnumZero = d2
  Field <- EnumField
  Kind <- EnumKind
  Repeated = {1}
  Oneof <- EnumOneof
  UnknownNumber = {9}
  Source <- EnumSource
  HashThreshold = 3
  MaxValues = 2
  MaxBody = 1
  MaxUnknown = 2
  MaxRecords = 3
PROPERTIES ImplementsMessage CallsReturn
