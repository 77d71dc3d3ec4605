SPECIFICATION Spec
CONSTANTS
  Block = {b1, b2, b3, b4, b5}
  KeyKind = {"string", "scalar"}
  ValueKind = {"bytes", "message", "scalar"}
INVARIANTS OneOwner
PROPERTIES LeaksKeysOnly
CHECK_DEADLOCK FALSE
