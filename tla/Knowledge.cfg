\* One file, two pages, a second source that publishes one of them.
SPECIFICATION Spec
CONSTANTS
  j1 = j1
  j2 = j2
  f = f
  p = p
  q = q
  s1 = s1
  s2 = s2
  Jobs = {j1, j2}
  Files = {f}
  Pages = {p, q}
  Sources = {s1, s2}
  Publishes <- SharedPage
  v1 = v1
  v2 = v2
  Versions = {v1, v2}
  Apart = TRUE
  Null = Null
  MaxStarts = 3
  MaxEvents = 1
SYMMETRY Alike
INVARIANT KnowledgeIsFaithful
CHECK_DEADLOCK FALSE
