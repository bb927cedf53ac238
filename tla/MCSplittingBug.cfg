CONSTANTS
  main = main
  le = le
  ri = ri
  ll = ll
  lr = lr
  rl = rl
  rr = rr
  l1 = l1
  l2 = l2
  l3 = l3
  l4 = l4
  r1 = r1
  r2 = r2
  Unit = {main, le, ri, ll, lr, rl, rr, l1, l2, l3, l4, r1, r2}
  Whole = main
  Halved = {main, le, ri, ll, lr, rl}
  Left <- TreeLeft
  Right <- TreeRight
  Path = {1, 2, 3, 4, 5, 6, 7}
  Paths <- TreePaths
  MaxWidth = 4
  MaxHeight = 4
  Parallel <- DefaultParallel
  SoftTimeout = FALSE
SPECIFICATION Spec
INVARIANTS
  FoundBugIsReported
