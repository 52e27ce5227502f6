\* Any two transactions of a task may overlap, and a member joins the shared pool.
SPECIFICATION Spec
CONSTANTS
  Users = {u1}
  Pool = pool
  Tasks = {t1, t2}
  Requests = {r1, r2}
  Scheduler = cron
  Keys = {k1}
  NoTask = NoTask
  Nobody = Nobody
  NoKey = NoKey
  Costs = {1}
  MaxCost = 2
  Surcharges <- Around
  Amounts = {1}
  Opening <- OpeningOf1
  MaxCredits = 1
  SharedPool = TRUE
  Joiners = {u1}
SYMMETRY Symmetry
INVARIANTS
  TypeOK
  AvailableNeverNegative
  StatusIsBooked
  OutboxMatchesLedger
PROPERTIES
  PoolIsLastResort
CHECK_DEADLOCK FALSE
