\* Transactions that end one task do not overlap; fair scheduler and row locks.
SPECIFICATION FairSerialSpec
CONSTANTS
  Users = {u1}
  Pool = pool
  Tasks = {t1, t2}
  Requests = {r1, r2}
  Scheduler = cron
  Keys = {k1}
  NoTask = NoTask
  Nobody = Nobody
  NoKey = NoKey
  Costs = {2}
  MaxCost = 2
  Surcharges <- Around
  Amounts = {1}
  Opening <- OpeningOf2
  MaxCredits = 1
  SharedPool = TRUE
  Joiners = {}
INVARIANTS
  FrozenBacksPending
  BalanceIsStatement
PROPERTIES
  EveryFreezeEnds
  Implements
  ImplementsHolds
CHECK_DEADLOCK FALSE
