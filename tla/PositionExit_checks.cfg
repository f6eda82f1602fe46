SPECIFICATION FairSpec
CONSTANTS
  base = base
  Streams = {base}
  Configs <- AllConfigs
CHECK_DEADLOCK FALSE
INVARIANTS Consistent TargetsInOrder NoPhantomSale
PROPERTIES MoonBagExempt ExitsReturn
