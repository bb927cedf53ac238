CONSTANTS
  w = w
  c = c
  cc = cc
  u = u
  k = k
  a = a
  s1 = s1
  s2 = s2
  d = d
  p = p
  c1 = c1
  b1 = b1
  q1 = q1
  t2 = t2
  b2 = b2
  s = s
  v = v
  u2 = u2
  ln = ln
  NoTask = NoTask
  Task = {d, p, c1, b1, q1, t2, b2, s, v}
  Root = d
  Kind <- SplitKind
  Policy <- SplitPolicy
  Initial <- SplitInitial
  Successors <- SplitSuccessors
  HasTimeout = {t2, b1}
  Missing = {}
SPECIFICATION Spec
INVARIANTS
  TypeOK
  StopReachesSubtree
  TreeConsistent
  OnlyStoppedResultsLost
PROPERTIES
  NoWorkForStopped
