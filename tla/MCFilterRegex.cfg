CONSTANTS
  Tags <- AllTags
  Strings <- AllStrings
  Matches <- TagsMatched
  Addrs <- AllAddrs
  CIDRs <- AllCIDRs
  Within <- AddrsWithin
  FlagSets <- SomeFlags
  Inventories <- SomeInventories
SPECIFICATION Spec
CHECK_DEADLOCK FALSE
INVARIANTS
  RegexFlagsObeyed
