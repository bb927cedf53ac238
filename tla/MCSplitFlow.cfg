CONSTANTS
  main = main
  le = le
  ri = ri
  ll = ll
  lr = lr
  a = a
  b = b
  Unit = {main, le, ri, ll, lr}
  Whole = main
  Halved = {main, le}
  Left <- FlowLeft
  Right <- FlowRight
  Path = {1, 2, 3}
  Paths <- FlowPaths
  Verifier = {a, b}
  Backups <- FlowBackups
  Merges = {"none", "cpa"}
SPECIFICATION FairSpec
INVARIANTS TypeOK VerdictIsRight MergeIsTight ResultsAreUsed NoVerdictReasons
PROPERTY Ends
