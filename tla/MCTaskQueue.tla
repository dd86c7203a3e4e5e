----------------------------- MODULE MCTaskQueue -----------------------------
(* Small instances of TaskQueue for TLC: each task is enqueued with other   *)
(* parameters, so that one run meets every branch of the worker cycle.      *)
EXTENDS TaskQueue, TLC

CONSTANTS t1, t2, t3, t4, w1, w2

VARIABLE load  \* which of the two loads this behaviour is about

(* t1 fits its budget, t2 needs three steps and can pay for two, t3 has no  *)
(* handler; t4 costs more than its own limit and less than a caller's.      *)
TaskParams ==
  (t1 :> [steps |-> 2, unit |-> 1, limit |-> 2, supported |-> TRUE]) @@
  (t2 :> [steps |-> 3, unit |-> 2, limit |-> 5, supported |-> TRUE]) @@
  (t3 :> [steps |-> 1, unit |-> 1, limit |-> 1, supported |-> FALSE]) @@
  (t4 :> [steps |-> 2, unit |-> 1, limit |-> 1, supported |-> TRUE])

(* One worker thread runs whatever it is asked to; a second one is asked to *)
(* run t4.                                                                  *)
TaskRequests == (w1 :> {t1, t2, t3, t4}) @@ (w2 :> {t4})

(* Two tasks of one worker, its third one, or one task of two workers.      *)
Loads == {{t1, t3}, {t2}, {t4}}

MCInit == Init /\ load \in Loads
MCNext ==
  /\ Next
  /\ UNCHANGED load
  /\ \A t \in Tasks \ load : row'[t].status = "NONE"

MCSpec == MCInit /\ [][MCNext]_<<vars, load>> /\ Fairness

(* Only the contended task, where mutual exclusion is in question.          *)
HijackSpec == MCInit /\ load = {t4} /\ [][MCNext]_<<vars, load>>
=============================================================================
