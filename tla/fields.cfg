SPECIFICATION FairSpec
CONSTANTS
  choice = choice
  plain = plain
  k1 = k1
  k2 = k2
  d1 = d1
  d2 = d2
  NoOneof = plain
  NoKey = NoKey
  Key = {k1}
  Datum = {d1, d2}
  EnumNumber = {d1}
  EnumMap = {}
  EnumZero = d2
  Field <- OneofField
  Kind <- OneofKind
  Repeated = {5}
  Oneof <- OneofOneof
  UnknownNumber = {}
  Source <- OneofSource
  HashThreshold = 3
  MaxValues = 2
  MaxBody = 2
  MaxUnknown = 0
  MaxRecords = 2
INVARIANTS TypeOK StoredOnce OneofExclusive ListingAgrees
PROPERTIES FailedSetKeepsField ImplementsMessage CallsReturn
