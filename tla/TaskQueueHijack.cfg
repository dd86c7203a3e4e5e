SPECIFICATION HijackSpec
CONSTANTS
  t1 = t1
  t2 = t2
  t3 = t3
  t4 = t4
  w1 = w1
  w2 = w2
  Tasks = {t1, t2, t3, t4}
  Workers = {w1, w2}
  Cancellers = {}
  Serves <- TaskRequests
  Params <- TaskParams
  CallLimits = {OwnLimit}
  OwnLimit = OwnLimit
  NoTask = NoTask
  MaxFaults = 0
INVARIANTS
  OneWorkerPerTask
\* Once every task is finished and no request is in flight nothing happens.
CHECK_DEADLOCK FALSE
