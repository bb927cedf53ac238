CONSTANTS
  Getter = {g1, g2}
  MaxRuns = 2
SPECIFICATION Spec
INVARIANTS TypeOK TroubleHasReasons
PROPERTY BrokenCacheIsFinal
