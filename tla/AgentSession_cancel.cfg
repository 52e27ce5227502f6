\* One message and a cancel.
SPECIFICATION Spec
CONSTANTS
  m1 = m1
  m2 = m2
  c2 = c2
  r1 = r1
  r2 = r2
  Runs = {r1, r2}
  Requests = {m1}
  RunOf <- OwnRun
  Continuations = {}
  Questions = {}
  Cancels = {x1}
  NoRun = NoRun
  Items = {1}
  Asking = {}
  Accepts = {}
  Rejects = {}
  Callbacks = {}
  After <- FirstTask
PROPERTIES
  AbortedIsFinal
CHECK_DEADLOCK FALSE
