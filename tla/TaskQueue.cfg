SPECIFICATION MCSpec
CONSTANTS
  t1 = t1
  t2 = t2
  t3 = t3
  t4 = t4
  w1 = w1
  w2 = w2
  Tasks = {t1, t2, t3, t4}
  Workers = {w1, w2}
  Cancellers = {c1}
  Serves <- TaskRequests
  Params <- TaskParams
  CallLimits = {OwnLimit, 3}
  OwnLimit = OwnLimit
  NoTask = NoTask
  MaxFaults = 1
INVARIANTS
  LedgerExact
  CancelStopsWork
  LedgerNeverOverstates
PROPERTIES
  RunningSettles
\* Once every task is finished and no request is in flight nothing happens.
CHECK_DEADLOCK FALSE
