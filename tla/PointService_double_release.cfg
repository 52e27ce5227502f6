\* Settlement overlaps cancel or timeout.
SPECIFICATION Spec
CONSTANTS
  Users = {u1}
  Pool = pool
  Tasks = {t1, t2}
  Requests = {r1, r2}
  Scheduler = cron
  Keys = {k1}
  NoTask = NoTask
  Nobody = Nobody
  NoKey = NoKey
  Costs = {1, 2}
  MaxCost = 2
  Surcharges = {0}
  Amounts = {1}
  Opening <- OpeningOf2
  MaxCredits = 0
  SharedPool = FALSE
  Joiners = {}
INVARIANTS
  ReleasedOnce
CHECK_DEADLOCK FALSE
