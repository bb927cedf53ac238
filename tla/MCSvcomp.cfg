CONSTANTS
  w = w
  c = c
  cc = cc
  u = u
  k = k
  a = a
  s1 = s1
  s2 = s2
  d = d
  p = p
  c1 = c1
  b1 = b1
  q1 = q1
  t2 = t2
  b2 = b2
  s = s
  v = v
  u2 = u2
  ln = ln
  NoTask = NoTask
  Task = {w, c, cc, u, k, a, s1, s2}
  Root = w
  Kind <- SvcompKind
  Policy <- SvcompPolicy
  Initial <- SvcompInitial
  Successors <- SvcompSuccessors
  HasTimeout = {w, k}
  Missing = {s2}
SPECIFICATION FairSpec
INVARIANTS
  CleanEnd
PROPERTIES
  EventuallyOver
