\* Two tabs, a create command that is sent twice, and the other calls.
SPECIFICATION Spec
CONSTANTS
  c1 = c1
  c2 = c2
  k1 = k1
  n1 = n1
  n2 = n2
  Tabs = {t1, t2}
  Calls = {c1, c2}
  Threads = {t1, t2, c1, c2}
  Nodes = {n1, n2, n3, n4}
  FirstNodes = {n1, n2}
  Links <- OneLink
  Keys = {k1}
  NoKey = NoKey
  Nobody = Nobody
  Sends <- Retried
  MaxVersion = 3
SYMMETRY Symmetry
INVARIANTS
  GraphIsClosed
  OneNodePerKey
  VersionNamesNodes
PROPERTIES
  CommandsAreAtomic
CHECK_DEADLOCK FALSE
