\* Two messages, a cancel, an acceptance and a rejection overlap.
SPECIFICATION Spec
CONSTANTS
  m1 = m1
  m2 = m2
  c2 = c2
  r1 = r1
  r2 = r2
  Runs = {r1, r2}
  Requests = {m1, m2}
  RunOf <- OwnRun
  Continuations = {}
  Questions = {m2}
  Cancels = {x1}
  NoRun = NoRun
  Items = {1}
  Asking = {r1}
  Accepts = {k1}
  Rejects = {j1}
  Callbacks = {}
  After <- FirstTask
INVARIANTS
  OneActiveRun
  ConsentBeforeTask
  EndIsLogged
CHECK_DEADLOCK FALSE
