SPECIFICATION FairSpec
CONSTANTS
  root = root
  bridge = bridge
  base = base
  leaf = leaf
  Path <- Files
  Symbol <- Files
  MaxChainDepth = 2
  Trees <- GraphTrees
  Root = root
INVARIANTS ImportsListedFirst MissingNotListed OrderNeverRejects OutcomeIsTrue
PROPERTIES LoadReturns
CHECK_DEADLOCK FALSE
