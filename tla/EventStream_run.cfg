\* Three events, three handlers of which w1 serves a message, one client and a
\* restart.
SPECIFICATION FairSpec
CONSTANTS
  w1 = w1
  w2 = w2
  w3 = w3
  Writers = {w1, w2, w3}
  Turns = {w1}
  RunOf <- TwoRuns
  Clients = {c1}
  MaxEvents = 3
  MaxRestarts = 1
INVARIANTS
  SentOnce
  ReplayComplete
PROPERTIES
  SeesLast
CHECK_DEADLOCK FALSE
