\* A batch of two, accepted twice, reported twice and continued.
SPECIFICATION Spec
CONSTANTS
  m1 = m1
  m2 = m2
  c2 = c2
  r1 = r1
  r2 = r2
  Runs = {r1, r2}
  Requests = {m1, c2}
  RunOf <- OwnRun
  Continuations = {c2}
  Questions = {}
  Cancels = {}
  NoRun = NoRun
  Items = {1, 2}
  Asking = {r1}
  Accepts = {k1, k2}
  Rejects = {}
  Callbacks = {b1, b2}
  After <- FirstTask
SYMMETRY Symmetry
VIEW View
INVARIANTS
  SessionTypeOK
  ConsumedOnce
  CountedOnce
  RowFollowsNotice
CHECK_DEADLOCK FALSE
