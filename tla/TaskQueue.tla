------------------------------ MODULE TaskQueue ------------------------------
(***************************************************************************)
(* The persistent task queue (tasks/queue.py over the async_tasks table).  *)
(* Every operation runs in a database session of its own: an HTTP handler  *)
(* thread that reads the row, decides, writes the columns it changed and   *)
(* commits.  Nothing is held between the read and the commit, so a step    *)
(* here is one read or one commit, and the sessions interleave.            *)
(*                                                                         *)
(* Costs are counted in whole units (the code rounds to 5 decimals).       *)
(***************************************************************************)
EXTENDS Integers

CONSTANTS
  Tasks,       \* ids of async_tasks rows
  Workers,     \* sessions that run POST /api/tasks/{id}/run
  Cancellers,  \* sessions that run POST /api/tasks/{id}/cancel
  Serves,      \* the tasks each worker session is asked to run
  Params,      \* what each task was enqueued with
  CallLimits,  \* values of the max_cost_limit_usd argument of a call
  OwnLimit,    \* the argument left out: the task's own limit applies
  NoTask,      \* a session that holds no task
  MaxFaults    \* bound on the sessions that die or whose commit fails

Sessions == Workers \union Cancellers

ASSUME SessionsAssumption ==
  /\ Workers \intersect Cancellers = {}
  /\ Serves \in [Workers -> SUBSET Tasks]
  /\ NoTask \notin Tasks
  /\ MaxFaults \in Nat

ASSUME ParamsAssumption ==
  /\ Params \in [Tasks -> [steps : Nat, unit : Nat, limit : Nat,
                           supported : BOOLEAN]]
  /\ CallLimits \subseteq Nat \union {OwnLimit}
  /\ CallLimits # {}
  /\ OwnLimit \notin Nat

VARIABLES
  row,      \* row[t]: the committed columns of task t
  pc,       \* where each session is
  job,      \* the task each session works on
  seen,     \* the row as the session last loaded it (its identity map)
  step,     \* steps the worker has executed in this cycle
  limit,    \* effective_limit of the worker's call
  faults,   \* sessions that died or lost their commit so far
  spent,    \* history: units really spent on a task, by all workers
  unpaid,   \* history: ... of which no worker will commit the charge
  stranded, \* history: a worker that had claimed the task gave it up
  stop      \* history: the last cancellation that was acknowledged

local == <<pc, job, seen, step, limit>>
history == <<spent, unpaid, stranded, stop>>
vars == <<row, local, faults, history>>

(* Of a cancellation: that one was answered with CANCELLED, the steps      *)
(* executed since, and whether a worker that had read the row before it    *)
(* has claimed the task after it.                                          *)
Stop == [asked : BOOLEAN, late : Nat, missed : BOOLEAN]
NotAsked == [asked |-> FALSE, late |-> 0, missed |-> FALSE]
JustAsked == [asked |-> TRUE, late |-> 0, missed |-> FALSE]

Finished == {"COMPLETED", "FAILED", "CANCELLED"}
Status == {"NONE", "QUEUED", "RUNNING"} \union Finished
Row == [status : Status, progress : Nat, cost : Nat]
NoRow == [status |-> "NONE", progress |-> 0, cost |-> 0]

WorkerPlace ==
  {"idle", "claim", "top", "work", "charge", "overrun", "finish", "abort"}
Place == WorkerPlace \union {"cancel"}

(* The budget a call enforces: its argument, or the task's own limit.      *)
Effective(t, arg) == IF arg = OwnLimit THEN Params[t].limit ELSE arg

Exists(t) == row[t].status # "NONE"

(***************************************************************************)
(* A flush writes only the columns whose value differs from the loaded     *)
(* one; the others keep whatever another session committed meanwhile.      *)
(***************************************************************************)
Flushed(t, old, new) ==
  [status   |-> IF new.status = old.status THEN row[t].status ELSE new.status,
   progress |-> IF new.progress = old.progress THEN row[t].progress
                ELSE new.progress,
   cost     |-> IF new.cost = old.cost THEN row[t].cost ELSE new.cost]

Write(s, new) ==
  row' = [row EXCEPT ![job[s]] = Flushed(job[s], seen[s], new)]

(* The session ends: handler returned, its objects are gone.               *)
Return(s) ==
  /\ pc' = [pc EXCEPT ![s] = "idle"]
  /\ job' = [job EXCEPT ![s] = NoTask]
  /\ seen' = [seen EXCEPT ![s] = NoRow]
  /\ step' = [step EXCEPT ![s] = 0]
  /\ limit' = [limit EXCEPT ![s] = 0]

Init ==
  /\ row = [t \in Tasks |-> NoRow]
  /\ pc = [s \in Sessions |-> "idle"]
  /\ job = [s \in Sessions |-> NoTask]
  /\ seen = [s \in Sessions |-> NoRow]
  /\ step = [s \in Sessions |-> 0]
  /\ limit = [s \in Sessions |-> 0]
  /\ faults = 0
  /\ spent = [t \in Tasks |-> 0]
  /\ unpaid = [t \in Tasks |-> 0]
  /\ stranded = [t \in Tasks |-> FALSE]
  /\ stop = [t \in Tasks |-> NotAsked]

Enqueue(t) ==
  /\ ~Exists(t)
  /\ row' = [row EXCEPT ![t].status = "QUEUED"]
  /\ UNCHANGED <<local, faults, history>>

-----------------------------------------------------------------------------
(* execute_worker_cycle, one action per read or commit.                    *)

(* The cycle reads the row.  A finished, cancelled or running task is      *)
(* returned as it is, so only a QUEUED one goes on.                        *)
BeginCycle(w, t, arg) ==
  /\ pc[w] = "idle"
  /\ t \in Serves[w]
  /\ row[t].status = "QUEUED"
  /\ pc' = [pc EXCEPT ![w] = "claim"]
  /\ job' = [job EXCEPT ![w] = t]
  /\ seen' = [seen EXCEPT ![w] = row[t]]
  /\ limit' = [limit EXCEPT ![w] = Effective(t, arg)]
  /\ UNCHANGED <<row, step, faults, history>>

Refusable(w) ==
  \/ seen[w].cost >= limit[w]
  \/ ~Params[job[w]].supported

(* Budget already used up, or no handler for the task type.                *)
Refuse(w) ==
  /\ pc[w] = "claim"
  /\ Refusable(w)
  /\ Write(w, [seen[w] EXCEPT !.status = "FAILED"])
  /\ Return(w)
  /\ UNCHANGED <<faults, history>>

Claim(w) ==
  /\ pc[w] = "claim"
  /\ ~Refusable(w)
  /\ Write(w, [seen[w] EXCEPT !.status = "RUNNING"])
  /\ pc' = [pc EXCEPT ![w] = "top"]
  /\ stop' = [stop EXCEPT ![job[w]].missed =
                @ \/ row[job[w]].status = "CANCELLED"]
  /\ UNCHANGED <<job, seen, step, limit, faults, spent, unpaid, stranded>>

StepsLeft(w) == step[w] < Params[job[w]].steps
OverBudget(w, r) == r.cost + Params[job[w]].unit > limit[w]

CheckedOnce(w) ==  \* slip: cancellation looked at before the loop only
  step[w] = 0 /\ row[job[w]].status = "CANCELLED"
CancelSeen(w) == row[job[w]].status = "CANCELLED"

(* Loop head: refresh, then the cancellation check ...                     *)
StopOnCancel(w) ==
  /\ pc[w] = "top"
  /\ StepsLeft(w)
  /\ CancelSeen(w)
  /\ Return(w)
  /\ UNCHANGED <<row, faults, history>>

CheckWithoutRefresh(w) ==  \* slip: the loop head does not reload the row
  /\ pc[w] = "top"
  /\ StepsLeft(w)
  /\ ~CancelSeen(w)
  /\ pc' = [pc EXCEPT ![w] = IF OverBudget(w, seen[w])
                             THEN "overrun" ELSE "work"]
  /\ UNCHANGED <<row, job, seen, step, limit, faults, history>>

(* ... then the budget check, on the row just refreshed.                   *)
CheckBudget(w) ==
  /\ pc[w] = "top"
  /\ StepsLeft(w)
  /\ ~CancelSeen(w)
  /\ seen' = [seen EXCEPT ![w] = row[job[w]]]
  /\ pc' = [pc EXCEPT ![w] = IF OverBudget(w, row[job[w]])
                             THEN "overrun" ELSE "work"]
  /\ UNCHANGED <<row, job, step, limit, faults, history>>

FailOverBudget(w) ==
  /\ pc[w] = "overrun"
  /\ Write(w, [seen[w] EXCEPT !.status = "FAILED"])
  /\ Return(w)
  /\ UNCHANGED <<faults, history>>

Percent(i, n) == (i * 100) \div n

CumulativeCharge(w) ==  \* slip: step_i * unit_cost passed as the delta
  seen[w].cost + (step[w] + 1) * Params[job[w]].unit
Charged(w) == seen[w].cost + Params[job[w]].unit

(* The step is executed ...                                                *)
RunStep(w) ==
  /\ pc[w] = "work"
  /\ pc' = [pc EXCEPT ![w] = "charge"]
  /\ spent' = [spent EXCEPT ![job[w]] = @ + Params[job[w]].unit]
  /\ stop' = [stop EXCEPT ![job[w]].late = IF stop[job[w]].asked
                                           THEN @ + 1 ELSE @]
  /\ UNCHANGED <<row, job, seen, step, limit, faults, unpaid, stranded>>

(* ... and update_progress commits progress and cost, both computed from   *)
(* the row loaded at the loop head.                                        *)
UpdateProgress(w) ==
  /\ pc[w] = "charge"
  /\ Write(w, [seen[w] EXCEPT
                 !.progress = Percent(step[w] + 1, Params[job[w]].steps),
                 !.cost = Charged(w)])
  /\ step' = [step EXCEPT ![w] = @ + 1]
  /\ pc' = [pc EXCEPT ![w] = "top"]
  /\ UNCHANGED <<job, seen, limit, faults, history>>

(* After the last step: update_progress reloads the row it committed.      *)
Reload(w) ==
  /\ pc[w] = "top"
  /\ ~StepsLeft(w)
  /\ seen' = [seen EXCEPT ![w] = row[job[w]]]
  /\ pc' = [pc EXCEPT ![w] = "finish"]
  /\ UNCHANGED <<row, job, step, limit, faults, history>>

Complete(w) ==
  /\ pc[w] = "finish"
  /\ Write(w, [seen[w] EXCEPT !.status = "COMPLETED", !.progress = 100])
  /\ Return(w)
  /\ UNCHANGED <<faults, history>>

(* The worker at s gives up the step it was in; what that step cost is     *)
(* never charged.                                                          *)
GivesUpCharge(s) ==
  unpaid' = IF pc[s] = "charge"
            THEN [unpaid EXCEPT ![job[s]] = @ + Params[job[s]].unit]
            ELSE unpaid

(* Something inside the try block raises, and it is not a commit.          *)
Raise(w) ==
  /\ pc[w] \in {"top", "work", "charge"}
  /\ seen' = [seen EXCEPT ![w] = IF pc[w] = "top" THEN row[job[w]] ELSE @]
  /\ pc' = [pc EXCEPT ![w] = "abort"]
  /\ GivesUpCharge(w)
  /\ UNCHANGED <<row, job, step, limit, faults, spent, stranded, stop>>

SwallowError(w) ==  \* slip: the handler returns without writing FAILED
  /\ pc[w] = "abort"
  /\ Return(w)
  /\ UNCHANGED <<row, faults, history>>

FailOnError(w) ==
  /\ pc[w] = "abort"
  /\ Write(w, [seen[w] EXCEPT !.status = "FAILED"])
  /\ Return(w)
  /\ UNCHANGED <<faults, history>>

-----------------------------------------------------------------------------
(* cancel_task: COMPLETED and FAILED rows are returned as they are.        *)
ReadForCancel(c, t) ==
  /\ pc[c] = "idle"
  /\ Exists(t)
  /\ row[t].status \notin {"COMPLETED", "FAILED"}
  /\ pc' = [pc EXCEPT ![c] = "cancel"]
  /\ job' = [job EXCEPT ![c] = t]
  /\ seen' = [seen EXCEPT ![c] = row[t]]
  /\ UNCHANGED <<row, step, limit, faults, history>>

Cancel(c) ==
  /\ pc[c] = "cancel"
  /\ Write(c, [seen[c] EXCEPT !.status = "CANCELLED"])
  /\ Return(c)
  /\ stop' = [stop EXCEPT ![job[c]] = IF row'[job[c]].status = "CANCELLED"
                                      THEN JustAsked ELSE @]
  /\ UNCHANGED <<faults, spent, unpaid, stranded>>

-----------------------------------------------------------------------------
(* A session ends before its next commit: what was committed stays.        *)
Vanish(s) ==
  /\ faults < MaxFaults
  /\ faults' = faults + 1
  /\ stranded' = [t \in Tasks |->
       stranded[t] \/ (t = job[s] /\ pc[s] \notin {"claim", "cancel"})]
  /\ GivesUpCharge(s)
  /\ Return(s)
  /\ UNCHANGED <<row, spent, stop>>

(* The server process (or the session's connection) dies.                  *)
Die(s) == pc[s] # "idle" /\ Vanish(s)

(* A commit fails and its transaction is rolled back.  Outside the try     *)
(* block the request fails.  Inside it the handler of the exception sets   *)
(* FAILED and commits the same session, which refuses until someone rolls  *)
(* it back: the request fails and the row stays as it was.  So it does if  *)
(* the commit that fails is the handler's own.                             *)
CommitFails(s) ==
  /\ pc[s] \in {"claim", "overrun", "charge", "finish", "abort", "cancel"}
  /\ Vanish(s)

-----------------------------------------------------------------------------
WorkerStep(w) ==
  \/ Refuse(w) \/ Claim(w)
  \/ StopOnCancel(w) \/ CheckBudget(w) \/ FailOverBudget(w)
  \/ RunStep(w) \/ UpdateProgress(w) \/ Reload(w)
  \/ Complete(w) \/ FailOnError(w)

Next ==
  \/ \E t \in Tasks : Enqueue(t)
  \/ \E w \in Workers, t \in Tasks, arg \in CallLimits : BeginCycle(w, t, arg)
  \/ \E w \in Workers : WorkerStep(w) \/ Raise(w)
  \/ \E c \in Cancellers, t \in Tasks : ReadForCancel(c, t)
  \/ \E c \in Cancellers : Cancel(c)
  \/ \E s \in Sessions : Die(s) \/ CommitFails(s)

Spec == Init /\ [][Next]_vars

(* A handler thread that entered a cycle or a cancel runs to its end; that *)
(* a request arrives, or that code raises, is nobody's duty.               *)
Fairness ==
  /\ \A w \in Workers : WF_vars(WorkerStep(w))
  /\ \A c \in Cancellers : WF_vars(Cancel(c))

-----------------------------------------------------------------------------
(* Properties.                                                             *)

EffectiveLimits(t) == {Effective(t, arg) : arg \in CallLimits}

(* What every reachable state looks like: the columns and each session's   *)
(* local copy have their types, and a session that is busy has a task.     *)
TypeOK ==
  /\ row \in [Tasks -> Row]
  /\ pc \in [Sessions -> Place]
  /\ job \in [Sessions -> Tasks \union {NoTask}]
  /\ seen \in [Sessions -> Row]
  /\ step \in [Sessions -> Nat]
  /\ limit \in [Sessions -> Nat]
  /\ faults \in Nat
  /\ spent \in [Tasks -> Nat]
  /\ unpaid \in [Tasks -> Nat]
  /\ stranded \in [Tasks -> BOOLEAN]
  /\ stop \in [Tasks -> Stop]
  /\ \A s \in Sessions : pc[s] # "idle" => job[s] \in Tasks
  /\ \A c \in Cancellers : pc[c] \in {"idle", "cancel"}
  /\ \A w \in Workers : pc[w] # "cancel"
  /\ \A w \in Workers : pc[w] \in {"work", "charge"} => StepsLeft(w)

(* The cost column never passes the largest budget a call was made with,   *)
(* however many workers run the task and however their reads and commits   *)
(* interleave (queue.py:156 checks before update_progress adds).           *)
LedgerWithinBudget ==
  \A t \in Tasks : \E l \in EffectiveLimits(t) : row[t].cost <= l

(* The ledger never claims more than was spent: update_progress adds to a  *)
(* value read earlier, so concurrent commits can lose cost, never invent   *)
(* it (queue.py:84).                                                       *)
LedgerNeverOverstates ==
  \A t \in Tasks : row[t].cost <= spent[t]

(* Where one worker session is asked to run a task the ledger is behind    *)
(* only by the step whose charge is being committed, or by one step whose  *)
(* charge was lost for good: its worker raised, died or failed to commit   *)
(* between the two.  Never by more, across cancellations and errors.       *)
Alone(t) ==
  \A w, v \in Workers : t \in Serves[w] \intersect Serves[v] => w = v
Charging(t) == \E w \in Workers : pc[w] = "charge" /\ job[w] = t
LedgerExact ==
  \A t \in Tasks : Alone(t) =>
    /\ spent[t] = row[t].cost + unpaid[t]
                  + (IF Charging(t) THEN Params[t].unit ELSE 0)
    /\ unpaid[t] \in {0, Params[t].unit}
    /\ Charging(t) => unpaid[t] = 0

(* Nor does the money really spent pass the budget then (queue.py:11).     *)
SpendWithinBudget ==
  \A t \in Tasks : Alone(t) => \E l \in EffectiveLimits(t) : spent[t] <= l

(* Cancellation is cooperative and prompt: after a cancellation that was   *)
(* answered with CANCELLED a lone worker may finish the step it is in and  *)
(* executes no other, unless it had read the row QUEUED before and claims  *)
(* it only now: then RUNNING replaces CANCELLED (queue.py:137) and the     *)
(* steps go on.                                                            *)
CancelStopsWork ==
  \A t \in Tasks : Alone(t) => stop[t].late <= 1 \/ stop[t].missed

(* A task that its only worker left COMPLETED did all of its steps and was *)
(* charged for each.                                                       *)
CompletedIsWhole ==
  \A t \in Tasks :
    Alone(t) /\ row[t].status = "COMPLETED" =>
      /\ row[t].progress = 100
      /\ spent[t] = Params[t].steps * Params[t].unit

(* A task that went to RUNNING leaves it, unless a worker that claimed it  *)
(* dies or loses a commit: its except branch commits a session nobody      *)
(* rolled back (queue.py:183), and nothing takes up a task somebody left   *)
(* RUNNING (queue.py:111 returns it as it is).                             *)
RunningSettles ==
  \A t \in Tasks :
    row[t].status = "RUNNING" ~> row[t].status \in Finished \/ stranded[t]

(* "do not allow second worker to hijack running task" (queue.py:112).     *)
AtTask(w, t) == job[w] = t /\ pc[w] \in {"top", "work", "charge", "overrun", "finish"}
OneWorkerPerTask ==
  \A t \in Tasks : \A w, v \in Workers : AtTask(w, t) /\ AtTask(v, t) => w = v
=============================================================================
