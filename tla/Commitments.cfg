SPECIFICATION MCSpec
CONSTANTS
  Digits = {0, 1}
  KeySize = 2
  Keys <- MCKeys
  Values = {v}
  Nil = Nil
  Tags = {latest}
  Cached = TRUE
  ParallelThreshold = 2
  MaxWrites = 4
  MaxStops = 1
  w = w
  TrieHeight = 4
  BatchHeight = 2
  CacheHeightLimit = 4
  maxPastTries = 3
  TrieKeys <- MCTrieKeys
  DefaultLeaf = DefaultLeaf
  KeyValues <- MCKeyValues
  MaxUpdates = 4
  MaxTrieCalls = 2
  Width = 2
  TopLimit = 2
  PriceRange <- MCPriceRange
  FirstLevels <- MCFirstLevels
  MaxChanges = 2
  MaxBuilds = 2
INVARIANTS RootsHold TrieSound BookTreeSound
PROPERTIES ImplementsMap
CHECK_DEADLOCK FALSE
