SPECIFICATION FairSpec
CONSTANTS
  choice = choice
  plain = plain
  k1 = k1
  k2 = k2
  d1 = d1
  d2 = d2
  NoOneof = plain
  NoKey = NoKey
  Key = {k1, k2}
  Datum = {d1, d2}
  EnumNumber = {d1}
  EnumMap = {}
  EnumZero = d2
  Field <- MapField
  Kind <- MapKind
  Repeated = {}
  Oneof <- MapOneof
  UnknownNumber = {}
  Source <- MapSource
  HashThreshold = 3
  MaxValues = 3
  MaxBody = 1
  MaxUnknown = 0
  MaxRecords = 3
INVARIANTS MapKeysUnique
PROPERTIES DedupInvisible ImplementsMessage CallsReturn
