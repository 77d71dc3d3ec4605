SPECIFICATION FairSpec
CONSTANTS
  root = root
  bridge = bridge
  base = base
  leaf = leaf
  Path <- Files
  Symbol <- Files
  MaxChainDepth = 2
  Trees <- GraphTrees
  Root = root
INVARIANTS WeakLeavesUsable
CHECK_DEADLOCK FALSE
