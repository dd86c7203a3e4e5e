--------------------------- MODULE TaskQueueProofs ---------------------------
(***************************************************************************)
(* What holds of the task queue for every set of tasks and sessions, every *)
(* parameters and every interleaving.                                      *)
(***************************************************************************)
EXTENDS TaskQueue, TLAPS

LEMMA NoRowIsRow == NoRow \in Row
  BY DEF NoRow, Row, Status, Finished

(* A flush of a well-typed copy onto a well-typed row is well-typed.       *)
LEMMA FlushedType ==
  ASSUME NEW t \in Tasks, row[t] \in Row, NEW old \in Row, NEW new \in Row
  PROVE  Flushed(t, old, new) \in Row
  BY DEF Flushed, Row

LEMMA WriteType ==
  ASSUME TypeOK, NEW s \in Sessions, job[s] \in Tasks,
         NEW new \in Row, Write(s, new)
  PROVE  row' \in [Tasks -> Row]
  <1>1. Flushed(job[s], seen[s], new) \in Row
    BY FlushedType DEF TypeOK
  <1>2. QED
    BY <1>1 DEF Write, TypeOK

LEMMA LimitType ==
  ASSUME NEW t \in Tasks, NEW arg \in CallLimits
  PROVE  Effective(t, arg) \in Nat
  BY ParamsAssumption DEF Effective

LEMMA ReturnType ==
  ASSUME TypeOK, NEW s \in Sessions, Return(s)
  PROVE  /\ pc' \in [Sessions -> Place]
         /\ job' \in [Sessions -> Tasks \union {NoTask}]
         /\ seen' \in [Sessions -> Row]
         /\ step' \in [Sessions -> Nat]
         /\ limit' \in [Sessions -> Nat]
         /\ \A r \in Sessions : pc'[r] # "idle" => job'[r] \in Tasks
         /\ \A c \in Cancellers : pc'[c] \in {"idle", "cancel"}
         /\ \A w \in Workers : pc'[w] # "cancel"
         /\ \A w \in Workers : pc'[w] \in {"work", "charge"} => StepsLeft(w)'
  BY NoRowIsRow DEF StepsLeft, TypeOK, Return, Place, WorkerPlace, Sessions

(* A history of a task's last cancellation stays one.                      *)
LEMMA StopType ==
  ASSUME NEW t \in Tasks, stop \in [Tasks -> Stop]
  PROVE  /\ stop[t] \in Stop /\ stop[t].late \in Nat
         /\ NotAsked \in Stop /\ JustAsked \in Stop
         /\ \A b \in BOOLEAN : [stop EXCEPT ![t].missed = b] \in [Tasks -> Stop]
         /\ \A n \in Nat : [stop EXCEPT ![t].late = n] \in [Tasks -> Stop]
         /\ [stop EXCEPT ![t] = JustAsked] \in [Tasks -> Stop]
  BY DEF Stop, NotAsked, JustAsked

LEMMA GivesUpChargeType ==
  ASSUME TypeOK, NEW s \in Sessions, pc[s] # "idle", GivesUpCharge(s)
  PROVE  unpaid' \in [Tasks -> Nat]
  <1>1. job[s] \in Tasks /\ Params[job[s]].unit \in Nat
    BY ParamsAssumption DEF TypeOK
  <1>2. QED
    BY <1>1 DEF GivesUpCharge, TypeOK

LEMMA VanishType ==
  ASSUME TypeOK, NEW s \in Sessions, pc[s] # "idle", Vanish(s)
  PROVE  TypeOK'
  <1>1. unpaid' \in [Tasks -> Nat]
    BY GivesUpChargeType DEF Vanish
  <1>2. stranded' \in [Tasks -> BOOLEAN] /\ faults' \in Nat
    BY DEF Vanish, TypeOK
  <1>3. QED
    BY <1>1, <1>2, ReturnType DEF Vanish, TypeOK

LEMMA TypeStep ==
  ASSUME TypeOK, [Next]_vars
  PROVE  TypeOK'
  <1> USE DEF Sessions, StepsLeft
  <1>1. ASSUME NEW t \in Tasks, Enqueue(t)
        PROVE  TypeOK'
    <2>1. [row[t] EXCEPT !.status = "QUEUED"] \in Row
      BY DEF TypeOK, Row, Status
    <2>2. row' \in [Tasks -> Row]
      BY <1>1, <2>1 DEF Enqueue, TypeOK
    <2>3. QED
      BY <1>1, <2>2 DEF Enqueue, TypeOK, local, history
  <1>2. ASSUME NEW w \in Workers, NEW t \in Tasks, NEW arg \in CallLimits,
               BeginCycle(w, t, arg)
        PROVE  TypeOK'
    BY <1>2, LimitType, SessionsAssumption
    DEF BeginCycle, TypeOK, Place, WorkerPlace, history
  <1>3. ASSUME NEW w \in Workers, WorkerStep(w)
        PROVE  TypeOK'
    <2>0. w \in Sessions /\ (pc[w] # "idle" => job[w] \in Tasks)
      BY DEF TypeOK
    <2>1. ASSUME NEW st \in Status
          PROVE  [seen[w] EXCEPT !.status = st] \in Row
      BY DEF TypeOK, Row
    <2> USE DEF Status, Finished
    <2>2. CASE Refuse(w)
      BY <2>2, <2>0, <2>1, WriteType, ReturnType DEF Refuse, TypeOK, history
    <2>3. CASE Claim(w)
      <3>1. row' \in [Tasks -> Row]
        BY <2>3, <2>0, <2>1, WriteType DEF Claim
      <3>2. job[w] \in Tasks /\ stop[job[w]] \in Stop
        BY <2>3, <2>0 DEF Claim, TypeOK
      <3>3. (stop[job[w]].missed \/ row[job[w]].status = "CANCELLED") \in BOOLEAN
        BY <3>2 DEF Stop
      <3>4. stop' \in [Tasks -> Stop]
        BY <2>3, <3>2, <3>3, StopType DEF Claim, TypeOK
      <3>5. QED
        BY <2>3, <3>1, <3>4 DEF Claim, TypeOK, Place, WorkerPlace
    <2>4. CASE StopOnCancel(w)
      BY <2>4, ReturnType DEF StopOnCancel, TypeOK, history
    <2>5. CASE CheckBudget(w)
      BY <2>5, <2>0 DEF CheckBudget, TypeOK, Place, WorkerPlace, history
    <2>6. CASE FailOverBudget(w)
      BY <2>6, <2>0, <2>1, WriteType, ReturnType
      DEF FailOverBudget, TypeOK, history
    <2>7. CASE RunStep(w)
      <3>1. job[w] \in Tasks /\ Params[job[w]].unit \in Nat
        BY <2>7, <2>0, ParamsAssumption DEF RunStep
      <3>2. spent' \in [Tasks -> Nat]
        BY <2>7, <3>1 DEF RunStep, TypeOK
      <3>3. stop' \in [Tasks -> Stop]
        <4>1. (IF stop[job[w]].asked THEN stop[job[w]].late + 1
               ELSE stop[job[w]].late) \in Nat
          BY <3>1, StopType DEF TypeOK
        <4>2. QED
          BY <2>7, <3>1, <4>1, StopType DEF RunStep, TypeOK
      <3>4. pc' = [pc EXCEPT ![w] = "charge"]
            /\ UNCHANGED <<row, job, seen, step, limit, faults, unpaid, stranded>>
            /\ pc[w] = "work"
        BY <2>7 DEF RunStep
      <3>5. QED
        BY <2>0, <3>1, <3>2, <3>3, <3>4, SessionsAssumption
        DEF TypeOK, Place, WorkerPlace
    <2>12. CASE UpdateProgress(w)
      <3> DEFINE p == Params[job[w]]
                 q == Percent(step[w] + 1, p.steps)
                 new == [seen[w] EXCEPT !.progress = q, !.cost = Charged(w)]
      <3>1. job[w] \in Tasks
        BY <2>12, <2>0 DEF UpdateProgress
      <3>2. p.unit \in Nat /\ Charged(w) \in Nat
        BY <3>1, ParamsAssumption DEF TypeOK, Row, Charged
      <3>3. q \in Nat
        <4>0. pc[w] = "charge"
          BY <2>12 DEF UpdateProgress
        <4>1. p.steps \in Nat /\ p.steps # 0
          BY <4>0, <3>1, ParamsAssumption DEF TypeOK
        <4>2. step[w] + 1 \in Nat
          BY DEF TypeOK
        <4>3. QED
          BY <4>1, <4>2 DEF Percent
      <3>4. new \in Row
        <4>1. seen[w] \in Row
          BY <3>1 DEF TypeOK
        <4> HIDE DEF q
        <4>2. QED
          BY <3>2, <3>3, <4>1 DEF Row
      <3>5. row' \in [Tasks -> Row]
        BY <2>12, <3>1, <3>4, WriteType DEF UpdateProgress
      <3>6. /\ pc' = [pc EXCEPT ![w] = "top"]
            /\ step' = [step EXCEPT ![w] = @ + 1]
            /\ UNCHANGED <<job, seen, limit, faults, history>>
        BY <2>12 DEF UpdateProgress
      <3>7. QED
        BY <2>0, <3>1, <3>5, <3>6, SessionsAssumption
        DEF TypeOK, Place, WorkerPlace, history
    <2>8. CASE Reload(w)
      BY <2>8, <2>0 DEF Reload, TypeOK, Place, WorkerPlace, history
    <2>9. CASE Complete(w)
      <3>1. [seen[w] EXCEPT !.status = "COMPLETED", !.progress = 100] \in Row
        <4>1. seen[w] \in Row
          BY DEF TypeOK
        <4>2. QED
          BY <4>1 DEF Row, Status, Finished
      <3>2. QED
        BY <2>9, <2>0, <3>1, WriteType, ReturnType
        DEF Complete, TypeOK, history
    <2>10. CASE FailOnError(w)
      BY <2>10, <2>0, <2>1, WriteType, ReturnType
      DEF FailOnError, TypeOK, history
    <2>11. QED
      BY <1>3, <2>2, <2>3, <2>4, <2>5, <2>6, <2>7, <2>8, <2>9, <2>10, <2>12
      DEF WorkerStep
  <1>4. ASSUME NEW w \in Workers, Raise(w)
        PROVE  TypeOK'
    <2>1. w \in Sessions /\ pc[w] # "idle" /\ job[w] \in Tasks
      BY <1>4 DEF Raise, TypeOK
    <2>2. unpaid' \in [Tasks -> Nat]
      BY <1>4, <2>1, GivesUpChargeType DEF Raise
    <2>3. seen' \in [Sessions -> Row]
      BY <1>4, <2>1 DEF Raise, TypeOK
    <2>4. QED
      BY <1>4, <2>1, <2>2, <2>3 DEF Raise, TypeOK, Place, WorkerPlace
  <1>5. ASSUME NEW c \in Cancellers, NEW t \in Tasks, ReadForCancel(c, t)
        PROVE  TypeOK'
    BY <1>5, SessionsAssumption
    DEF ReadForCancel, TypeOK, Place, WorkerPlace, history
  <1>6. ASSUME NEW c \in Cancellers, Cancel(c)
        PROVE  TypeOK'
    <2>1. [seen[c] EXCEPT !.status = "CANCELLED"] \in Row
      BY DEF TypeOK, Row, Status, Finished
    <2>2. c \in Sessions /\ job[c] \in Tasks
      BY <1>6 DEF Cancel, TypeOK
    <2>3. row' \in [Tasks -> Row]
      BY <1>6, <2>1, <2>2, WriteType DEF Cancel
    <2>4. stop' \in [Tasks -> Stop]
      BY <1>6, <2>2, StopType DEF Cancel, TypeOK
    <2>5. QED
      BY <1>6, <2>2, <2>3, <2>4, ReturnType DEF Cancel, TypeOK
  <1>7. ASSUME NEW s \in Sessions, Die(s) \/ CommitFails(s)
        PROVE  TypeOK'
    BY <1>7, VanishType DEF Die, CommitFails
  <1>8. CASE UNCHANGED vars
    BY <1>8 DEF vars, local, history, TypeOK
  <1>9. QED
    BY <1>1, <1>2, <1>3, <1>4, <1>5, <1>6, <1>7, <1>8 DEF Next

(* Every column, local copy and counter of the queue keeps its type, and a *)
(* busy session always has a task.                                         *)
THEOREM TypeCorrect == Spec => []TypeOK
  <1>1. Init => TypeOK
    BY NoRowIsRow DEF Init, TypeOK, StepsLeft, Place, WorkerPlace, Sessions,
                      Stop, NotAsked
  <1>2. TypeOK /\ [Next]_vars => TypeOK'
    BY TypeStep
  <1>3. QED
    BY <1>1, <1>2, PTL DEF Spec

-----------------------------------------------------------------------------
(* The cost ledger.  RunStep spends and UpdateProgress charges; every      *)
(* other step leaves the cost columns alone and a session's copy either as *)
(* it was or freshly read.                                                 *)

KeepsCosts == \A t \in Tasks : row'[t].cost = row[t].cost

(* The session goes on with the copy of the row it had ...                 *)
KeepsCopy(s) ==
  /\ pc[s] # "idle"
  /\ job'[s] = job[s]
  /\ seen'[s].cost = seen[s].cost
  /\ limit'[s] = limit[s]
  /\ pc'[s] \in {"work", "charge"} => pc'[s] = pc[s]

(* ... or has just read the row.                                           *)
ReadsRow(s) ==
  /\ job'[s] \in Tasks
  /\ seen'[s].cost = row[job'[s]].cost
  /\ \/ pc[s] # "idle" /\ job'[s] = job[s] /\ limit'[s] = limit[s]
     \/ s \in Cancellers
     \/ \E arg \in CallLimits : limit'[s] = Effective(job'[s], arg)
  /\ pc'[s] # "charge"
  /\ pc'[s] = "work" =>
       seen'[s].cost + Params[job'[s]].unit <= limit'[s]

MovesNoMoney ==
  /\ KeepsCosts
  /\ UNCHANGED spent
  /\ \A s \in Sessions : pc'[s] = "idle" \/ KeepsCopy(s) \/ ReadsRow(s)

LEMMA WriteKeepsCosts ==
  ASSUME TypeOK, NEW s \in Sessions, job[s] \in Tasks,
         NEW new \in Row, new.cost = seen[s].cost, Write(s, new)
  PROVE  KeepsCosts
  <1>1. Flushed(job[s], seen[s], new).cost = row[job[s]].cost
    BY DEF Flushed
  <1>2. QED
    BY <1>1 DEF Write, KeepsCosts, TypeOK

LEMMA ReturnMovesNothing ==
  ASSUME TypeOK, NEW s \in Sessions, Return(s), KeepsCosts, UNCHANGED spent
  PROVE  MovesNoMoney
  <1>1. ASSUME NEW r \in Sessions
        PROVE  pc'[r] = "idle" \/ KeepsCopy(r)
    BY <1>1 DEF Return, TypeOK, KeepsCopy
  <1>2. QED
    BY <1>1 DEF MovesNoMoney

LEMMA StepShape ==
  ASSUME TypeOK, [Next]_vars
  PROVE  MovesNoMoney \/ \E w \in Workers : RunStep(w) \/ UpdateProgress(w)
  <1> USE DEF Sessions
  <1>0. ASSUME UNCHANGED row PROVE KeepsCosts
    BY <1>0 DEF KeepsCosts
  <1>1. ASSUME NEW t \in Tasks, Enqueue(t)
        PROVE  MovesNoMoney
    <2>1. KeepsCosts
      BY <1>1 DEF Enqueue, KeepsCosts, TypeOK, Row
    <2>2. QED
      BY <1>1, <2>1 DEF Enqueue, MovesNoMoney, KeepsCopy, local, history, TypeOK
  <1>2. ASSUME NEW w \in Workers, NEW t \in Tasks, NEW arg \in CallLimits,
               BeginCycle(w, t, arg)
        PROVE  MovesNoMoney
    BY <1>2, <1>0
    DEF BeginCycle, MovesNoMoney, KeepsCopy, ReadsRow, TypeOK, history
  <1>3. ASSUME NEW w \in Workers, WorkerStep(w), ~RunStep(w),
               ~UpdateProgress(w)
        PROVE  MovesNoMoney
    <2>0. w \in Sessions /\ (pc[w] # "idle" => job[w] \in Tasks)
      BY DEF TypeOK
    <2>1. ASSUME NEW st \in Status
          PROVE  /\ [seen[w] EXCEPT !.status = st] \in Row
                 /\ [seen[w] EXCEPT !.status = st].cost = seen[w].cost
      <3>1. seen[w] \in Row
        BY DEF TypeOK
      <3>2. QED
        BY <3>1 DEF Row
    <2>2. /\ [seen[w] EXCEPT !.status = "COMPLETED", !.progress = 100] \in Row
          /\ [seen[w] EXCEPT !.status = "COMPLETED", !.progress = 100].cost
               = seen[w].cost
      <3>1. seen[w] \in Row
        BY DEF TypeOK
      <3>2. QED
        BY <3>1 DEF Row, Status, Finished
    <2>3. CASE Refuse(w)
      <3>1. KeepsCosts
        BY <2>0, <2>1, <2>3, WriteKeepsCosts DEF Refuse, Status, Finished
      <3>2. QED
        BY <2>3, <3>1, ReturnMovesNothing DEF Refuse, history
    <2>4. CASE Claim(w)
      <3>1. KeepsCosts
        BY <2>0, <2>1, <2>4, WriteKeepsCosts DEF Claim, Status
      <3>2. QED
        BY <2>4, <3>1 DEF Claim, MovesNoMoney, KeepsCopy, TypeOK, history
    <2>5. CASE StopOnCancel(w)
      BY <2>5, <1>0, ReturnMovesNothing DEF StopOnCancel, history
    <2>6. CASE CheckBudget(w)
      <3>1. job[w] \in Tasks
        BY <2>0, <2>6 DEF CheckBudget
      <3>2. row[job[w]].cost \in Nat /\ limit[w] \in Nat
            /\ Params[job[w]].unit \in Nat
        BY <3>1, ParamsAssumption DEF TypeOK, Row
      <3>3. ReadsRow(w)
        BY <2>6, <3>1, <3>2 DEF CheckBudget, ReadsRow, OverBudget, TypeOK
      <3>4. QED
        BY <2>6, <3>3, <1>0
        DEF CheckBudget, MovesNoMoney, KeepsCopy, TypeOK, history
    <2>7. CASE FailOverBudget(w)
      <3>1. KeepsCosts
        BY <2>0, <2>1, <2>7, WriteKeepsCosts
        DEF FailOverBudget, Status, Finished
      <3>2. QED
        BY <2>7, <3>1, ReturnMovesNothing DEF FailOverBudget, history
    <2>8. CASE Reload(w)
      BY <2>8, <2>0, <1>0
      DEF Reload, MovesNoMoney, KeepsCopy, ReadsRow, TypeOK, history
    <2>9. CASE Complete(w)
      <3>1. KeepsCosts
        BY <2>0, <2>2, <2>9, WriteKeepsCosts DEF Complete
      <3>2. QED
        BY <2>9, <3>1, ReturnMovesNothing DEF Complete, history
    <2>10. CASE FailOnError(w)
      <3>1. KeepsCosts
        BY <2>0, <2>1, <2>10, WriteKeepsCosts
        DEF FailOnError, Status, Finished
      <3>2. QED
        BY <2>10, <3>1, ReturnMovesNothing DEF FailOnError, history
    <2>11. QED
      BY <1>3, <2>3, <2>4, <2>5, <2>6, <2>7, <2>8, <2>9, <2>10
      DEF WorkerStep
  <1>4. ASSUME NEW w \in Workers, Raise(w)
        PROVE  MovesNoMoney
    BY <1>4, <1>0
    DEF Raise, MovesNoMoney, KeepsCopy, ReadsRow, TypeOK, history
  <1>5. ASSUME NEW c \in Cancellers, NEW t \in Tasks, ReadForCancel(c, t)
        PROVE  MovesNoMoney
    BY <1>5, <1>0
    DEF ReadForCancel, MovesNoMoney, KeepsCopy, ReadsRow, TypeOK, history
  <1>6. ASSUME NEW c \in Cancellers, Cancel(c)
        PROVE  MovesNoMoney
    <2>1. /\ [seen[c] EXCEPT !.status = "CANCELLED"] \in Row
          /\ [seen[c] EXCEPT !.status = "CANCELLED"].cost = seen[c].cost
      BY DEF TypeOK, Row, Status, Finished
    <2>2. c \in Sessions /\ job[c] \in Tasks
      BY <1>6 DEF Cancel, TypeOK
    <2>3. KeepsCosts
      BY <1>6, <2>1, <2>2, WriteKeepsCosts DEF Cancel
    <2>4. QED
      BY <1>6, <2>3, ReturnMovesNothing DEF Cancel
  <1>7. ASSUME NEW s \in Sessions, Die(s) \/ CommitFails(s)
        PROVE  MovesNoMoney
    BY <1>7, <1>0, ReturnMovesNothing DEF Die, CommitFails, Vanish
  <1>8. CASE UNCHANGED vars
    BY <1>8, <1>0 DEF vars, local, history, MovesNoMoney, KeepsCopy, TypeOK
  <1>9. QED
    BY <1>1, <1>2, <1>3, <1>4, <1>5, <1>6, <1>7, <1>8 DEF Next

-----------------------------------------------------------------------------
(* A session's copy of the cost was once the ledger's value, what has been *)
(* spent never goes back, and a step is charged after it was paid for.     *)
CopiesNeverOverstate ==
  \A s \in Sessions : pc[s] # "idle" =>
    /\ seen[s].cost <= spent[job[s]]
    /\ pc[s] = "charge" => seen[s].cost + Params[job[s]].unit <= spent[job[s]]

(* What RunStep does to the money, and what it leaves alone.               *)
LEMMA RunStepEffect ==
  ASSUME TypeOK, NEW w \in Workers, RunStep(w)
  PROVE  /\ w \in Sessions /\ job[w] \in Tasks /\ pc[w] = "work"
         /\ Params[job[w]].unit \in Nat
         /\ spent'[job[w]] = spent[job[w]] + Params[job[w]].unit
         /\ \A t \in Tasks : t # job[w] => spent'[t] = spent[t]
         /\ \A t \in Tasks : spent[t] \in Nat /\ spent[t] <= spent'[t]
         /\ \A s \in Sessions : s # w => pc'[s] = pc[s]
         /\ pc'[w] = "charge"
         /\ UNCHANGED <<row, job, seen, step, limit, unpaid>>
  <1>1. w \in Sessions /\ job[w] \in Tasks /\ pc[w] = "work"
    BY DEF RunStep, TypeOK, Sessions
  <1>2. Params[job[w]].unit \in Nat
    BY <1>1, ParamsAssumption
  <1>3. spent' = [spent EXCEPT ![job[w]] = @ + Params[job[w]].unit]
    BY DEF RunStep
  <1>4. \A t \in Tasks : spent[t] \in Nat
    BY DEF TypeOK
  <1>5. /\ spent'[job[w]] = spent[job[w]] + Params[job[w]].unit
        /\ \A t \in Tasks : t # job[w] => spent'[t] = spent[t]
    BY <1>1, <1>3 DEF TypeOK
  <1>6. pc' = [pc EXCEPT ![w] = "charge"]
    BY DEF RunStep
  <1>7. \A t \in Tasks : spent[t] <= spent'[t]
    BY <1>1, <1>2, <1>4, <1>5
  <1>8. UNCHANGED <<row, job, seen, step, limit, unpaid>>
    BY DEF RunStep
  <1>9. QED
    BY <1>1, <1>2, <1>4, <1>5, <1>6, <1>7, <1>8 DEF TypeOK

(* What UpdateProgress does to the money, and what it leaves alone.        *)
LEMMA ChargeEffect ==
  ASSUME TypeOK, NEW w \in Workers, UpdateProgress(w)
  PROVE  /\ w \in Sessions /\ job[w] \in Tasks /\ pc[w] = "charge"
         /\ Params[job[w]].unit \in Nat /\ seen[w].cost \in Nat
         /\ row'[job[w]].cost \in {row[job[w]].cost,
                                    seen[w].cost + Params[job[w]].unit}
         /\ \A t \in Tasks : t # job[w] => row'[t] = row[t]
         /\ \A s \in Sessions : s # w => pc'[s] = pc[s]
         /\ pc'[w] = "top"
         /\ UNCHANGED <<job, seen, limit, spent, unpaid>>
  <1> DEFINE t == job[w]
             u == Params[t].unit
             new == [seen[w] EXCEPT
                       !.progress = Percent(step[w] + 1, Params[t].steps),
                       !.cost = Charged(w)]
  <1>1. w \in Sessions /\ t \in Tasks /\ pc[w] = "charge"
    BY DEF UpdateProgress, TypeOK, Sessions
  <1>2. u \in Nat /\ seen[w] \in Row /\ seen[w].cost \in Nat
    BY <1>1, ParamsAssumption DEF TypeOK, Row
  <1>3. new.cost = seen[w].cost + u
    BY <1>2 DEF Row, Charged
  <1>4. row' = [row EXCEPT ![t] = Flushed(t, seen[w], new)]
    BY DEF UpdateProgress, Write
  <1>5. Flushed(t, seen[w], new).cost \in {row[t].cost, seen[w].cost + u}
    BY <1>3 DEF Flushed
  <1>6. /\ row'[t].cost \in {row[t].cost, seen[w].cost + u}
        /\ \A s \in Tasks : s # t => row'[s] = row[s]
    BY <1>1, <1>4, <1>5 DEF TypeOK
  <1>7. pc' = [pc EXCEPT ![w] = "top"] /\ UNCHANGED <<job, seen, limit, spent, unpaid>>
    BY DEF UpdateProgress, history
  <1>8. QED
    BY <1>1, <1>2, <1>6, <1>7 DEF TypeOK

LEMMA NeverOverstatesStep ==
  ASSUME TypeOK, LedgerNeverOverstates, CopiesNeverOverstate,
         [Next]_vars, TypeOK'
  PROVE  LedgerNeverOverstates' /\ CopiesNeverOverstate'
  <1> USE DEF LedgerNeverOverstates, CopiesNeverOverstate
  <1>1. CASE MovesNoMoney
    <2>1. LedgerNeverOverstates'
      BY <1>1 DEF MovesNoMoney, KeepsCosts
    <2>2. ASSUME NEW s \in Sessions, pc'[s] # "idle"
          PROVE  /\ seen'[s].cost <= spent'[job'[s]]
                 /\ pc'[s] = "charge" =>
                      seen'[s].cost + Params[job'[s]].unit <= spent'[job'[s]]
      <3>1. CASE KeepsCopy(s)
        BY <1>1, <3>1 DEF MovesNoMoney, KeepsCopy
      <3>2. CASE ReadsRow(s)
        BY <1>1, <3>2 DEF MovesNoMoney, ReadsRow
      <3>3. QED
        BY <1>1, <2>2, <3>1, <3>2 DEF MovesNoMoney
    <2>3. QED
      BY <2>1, <2>2
  <1>2. ASSUME NEW w \in Workers, RunStep(w)
        PROVE  LedgerNeverOverstates' /\ CopiesNeverOverstate'
    <2>1. ASSUME NEW t \in Tasks
          PROVE  row'[t].cost <= spent'[t]
      <3>1. row[t].cost \in Nat
        BY DEF TypeOK, Row
      <3>2. QED
        BY <1>2, <3>1, RunStepEffect
    <2>2. ASSUME NEW s \in Sessions, pc'[s] # "idle"
          PROVE  /\ seen'[s].cost <= spent'[job'[s]]
                 /\ pc'[s] = "charge" =>
                      seen'[s].cost + Params[job'[s]].unit <= spent'[job'[s]]
      <3>1. job[s] \in Tasks /\ seen[s].cost \in Nat /\ pc[s] # "idle"
            /\ Params[job[s]].unit \in Nat
        BY <1>2, <2>2, RunStepEffect, ParamsAssumption DEF TypeOK, Row
      <3>2. seen[s].cost <= spent[job[s]]
            /\ (pc[s] = "charge" =>
                  seen[s].cost + Params[job[s]].unit <= spent[job[s]])
        BY <3>1
      <3>3. CASE s = w
        BY <1>2, <3>1, <3>2, <3>3, RunStepEffect
      <3>4. CASE s # w
        BY <1>2, <3>1, <3>2, <3>4, RunStepEffect
      <3>5. QED
        BY <3>3, <3>4
    <2>3. QED
      BY <2>1, <2>2
  <1>3. ASSUME NEW w \in Workers, UpdateProgress(w)
        PROVE  LedgerNeverOverstates' /\ CopiesNeverOverstate'
    <2>1. seen[w].cost + Params[job[w]].unit <= spent[job[w]]
      BY <1>3, ChargeEffect
    <2>2. LedgerNeverOverstates'
      BY <1>3, <2>1, ChargeEffect
    <2>3. CopiesNeverOverstate'
      BY <1>3, ChargeEffect
    <2>4. QED
      BY <2>2, <2>3
  <1>4. QED
    BY <1>1, <1>2, <1>3, StepShape

(* The cost column of a task never claims more than was spent on it,       *)
(* whatever sessions run it at once (queue.py:84).                         *)
THEOREM NeverOverstates == Spec => []LedgerNeverOverstates
  <1> DEFINE Inv == LedgerNeverOverstates /\ CopiesNeverOverstate
  <1>1. Init => Inv
    BY DEF Init, LedgerNeverOverstates, CopiesNeverOverstate, NoRow
  <1>2. TypeOK /\ TypeOK' /\ Inv /\ [Next]_vars => Inv'
    BY NeverOverstatesStep
  <1>3. QED
    BY <1>1, <1>2, TypeCorrect, PTL DEF Spec

-----------------------------------------------------------------------------
(* A worker enforces one of the limits a call can carry, and enters a step *)
(* only when the copy it will add to leaves room for the step.             *)
LimitsAreCalls ==
  \A w \in Workers : pc[w] # "idle" => limit[w] \in EffectiveLimits(job[w])

RoomForStep ==
  \A w \in Workers : pc[w] \in {"work", "charge"} =>
    seen[w].cost + Params[job[w]].unit <= limit[w]

BudgetInv == LedgerWithinBudget /\ LimitsAreCalls /\ RoomForStep

LEMMA BudgetStep ==
  ASSUME TypeOK, BudgetInv, [Next]_vars, TypeOK'
  PROVE  BudgetInv'
  <1> USE DEF BudgetInv, LedgerWithinBudget, LimitsAreCalls, RoomForStep,
              EffectiveLimits
  <1>0. \A w \in Workers : w \in Sessions /\ w \notin Cancellers
    BY SessionsAssumption DEF Sessions
  <1>1. CASE MovesNoMoney
    <2>1. LedgerWithinBudget'
      BY <1>1 DEF MovesNoMoney, KeepsCosts
    <2>2. ASSUME NEW w \in Workers, pc'[w] # "idle"
          PROVE  /\ limit'[w] \in EffectiveLimits(job'[w])
                 /\ pc'[w] \in {"work", "charge"} =>
                      seen'[w].cost + Params[job'[w]].unit <= limit'[w]
      <3>1. CASE KeepsCopy(w)
        BY <3>1 DEF KeepsCopy
      <3>2. CASE ReadsRow(w)
        BY <3>2, <1>0 DEF ReadsRow
      <3>3. QED
        BY <1>0, <1>1, <2>2, <3>1, <3>2 DEF MovesNoMoney
    <2>3. QED
      BY <2>1, <2>2
  <1>2. ASSUME NEW w \in Workers, RunStep(w)
        PROVE  BudgetInv'
    BY <1>0, <1>2, RunStepEffect
  <1>3. ASSUME NEW w \in Workers, UpdateProgress(w)
        PROVE  BudgetInv'
    <2>1. /\ seen[w].cost + Params[job[w]].unit <= limit[w]
          /\ limit[w] \in EffectiveLimits(job[w])
      BY <1>3, ChargeEffect
    <2>2. LedgerWithinBudget'
      BY <1>3, <2>1, ChargeEffect
    <2>3. LimitsAreCalls' /\ RoomForStep'
      BY <1>0, <1>3, ChargeEffect
    <2>4. QED
      BY <2>2, <2>3
  <1>4. QED
    BY <1>1, <1>2, <1>3, StepShape

LEMMA BudgetInvariant == Spec => []BudgetInv
  <1>1. Init => BudgetInv
    <2>1. PICK arg \in CallLimits : TRUE
      BY ParamsAssumption
    <2>2. ASSUME NEW t \in Tasks
          PROVE  Effective(t, arg) \in EffectiveLimits(t) /\ 0 <= Effective(t, arg)
      BY LimitType DEF EffectiveLimits
    <2>3. \A t \in Tasks : \E l \in EffectiveLimits(t) : 0 <= l
      BY <2>2
    <2>4. QED
      BY <2>3 DEF Init, BudgetInv, LedgerWithinBudget, LimitsAreCalls,
                  RoomForStep, NoRow, Sessions
  <1>2. TypeOK /\ TypeOK' /\ BudgetInv /\ [Next]_vars => BudgetInv'
    BY BudgetStep
  <1>3. QED
    BY <1>1, <1>2, TypeCorrect, PTL DEF Spec

(* The cost column stays within a budget some call may enforce, for any    *)
(* number of workers on the task and any interleaving (queue.py:156).      *)
THEOREM WithinBudget == Spec => []LedgerWithinBudget
  BY BudgetInvariant, PTL DEF BudgetInv

-----------------------------------------------------------------------------
(* Tasks of one worker session: the deployment the comment at queue.py:112 *)
(* wants the RUNNING check to enforce, here for each task by itself.  What *)
(* is said of a task and of its worker holds of the tasks that are Alone,  *)
(* whatever happens to the others.                                         *)
InLoop == {"top", "work", "charge", "overrun", "finish", "abort"}

LedgerOf(t) ==
  /\ spent[t] = row[t].cost + unpaid[t]
                + (IF Charging(t) THEN Params[t].unit ELSE 0)
  /\ unpaid[t] \in {0, Params[t].unit}
  /\ Charging(t) => unpaid[t] = 0

Affordable(t) == \E l \in EffectiveLimits(t) : spent[t] <= l

SoloTask(t) ==
  /\ LedgerOf(t)
  /\ Affordable(t)
  /\ row[t].status \in {"NONE", "QUEUED"} =>
       spent[t] = 0 /\ unpaid[t] = 0 /\ stop[t] = NotAsked
  /\ stop[t].late <= 1 \/ stop[t].missed
  /\ row[t].status = "COMPLETED" =>
       /\ row[t].progress = 100
       /\ spent[t] = Params[t].steps * Params[t].unit

(* The acknowledged cancellation of t still stands.                        *)
Standing(t) == stop[t].asked /\ ~stop[t].missed

(* A worker before its claim has a task nothing was done for; one past it  *)
(* has a task that is running or cancelled, with exactly its own steps     *)
(* executed; and a cancellation that stands is found at the loop head.     *)
SoloWorker(w) ==
  LET t == job[w]
      u == Params[t].unit
  IN
  /\ pc[w] = "claim" =>
       /\ row[t].status \in {"QUEUED", "CANCELLED"}
       /\ seen[w].status = "QUEUED"
       /\ spent[t] = 0
       /\ unpaid[t] = 0
       /\ stop[t].late = 0
       /\ step[w] = 0
  /\ pc[w] \in InLoop =>
       /\ row[t].status \in {"RUNNING", "CANCELLED"}
       /\ step[w] <= Params[t].steps
       /\ (Standing(t) /\ pc[w] \in {"top", "work", "charge"})
            => row[t].status = "CANCELLED"
  /\ pc[w] \in InLoop \ {"abort"} =>
       /\ unpaid[t] = 0
       /\ spent[t] = step[w] * u + (IF pc[w] = "charge" THEN u ELSE 0)
  /\ (pc[w] = "work" /\ Standing(t)) => stop[t].late = 0
  /\ pc[w] \in {"work", "charge"} => seen[w].cost = row[t].cost
  /\ pc[w] = "finish" =>
       /\ step[w] = Params[t].steps
       /\ seen[w].progress = row[t].progress

Serving ==
  \A w \in Workers : /\ pc[w] = "idle" => step[w] = 0
                     /\ pc[w] # "idle" => job[w] \in Serves[w]

SoloInv ==
  /\ \A t \in Tasks : Alone(t) => SoloTask(t)
  /\ \A w \in Workers : Alone(job[w]) => SoloWorker(w)

LEMMA WriteEffect ==
  ASSUME TypeOK, NEW s \in Sessions, NEW t \in Tasks, job[s] = t,
         NEW new \in Row, Write(s, new)
  PROVE  /\ row'[t].status \in {row[t].status, new.status}
         /\ new.status # seen[s].status => row'[t].status = new.status
         /\ new.status = seen[s].status => row'[t].status = row[t].status
         /\ row'[t].progress = IF new.progress = seen[s].progress
                               THEN row[t].progress ELSE new.progress
         /\ row'[t].cost = IF new.cost = seen[s].cost
                           THEN row[t].cost ELSE new.cost
         /\ \A r \in Tasks : r # t => row'[r] = row[r]
  <1>1. row' = [row EXCEPT ![t] = Flushed(t, seen[s], new)]
    BY DEF Write
  <1>2. row'[t] = Flushed(t, seen[s], new)
    BY <1>1 DEF TypeOK
  <1>3. QED
    BY <1>1, <1>2 DEF TypeOK, Flushed

(* A worker's step is about its own task, and no other worker is at it.    *)
OthersKept(w, t) ==
  /\ \A s \in Tasks : s # t => /\ row'[s] = row[s]
                               /\ spent'[s] = spent[s]
                               /\ unpaid'[s] = unpaid[s]
                               /\ stop'[s] = stop[s]
  /\ \A v \in Workers : v # w => /\ pc'[v] = pc[v]
                                 /\ job'[v] = job[v]
                                 /\ seen'[v] = seen[v]
                                 /\ step'[v] = step[v]

(* A step of a worker at t does not change who is charging other tasks ... *)
LEMMA ChargingElsewhere ==
  ASSUME TypeOK, NEW w \in Workers, NEW t \in Tasks, job[w] = t,
         OthersKept(w, t), job'[w] = t \/ pc'[w] = "idle",
         NEW s \in Tasks, s # t
  PROVE  Charging(s)' <=> Charging(s)
  <1>1. \A v \in Workers : (pc'[v] = "charge" /\ job'[v] = s)
                            <=> (pc[v] = "charge" /\ job[v] = s)
    BY DEF OthersKept
  <1>2. QED
    BY <1>1 DEF Charging

(* ... and a task of one worker is charged by that one only.               *)
LEMMA ChargingHere ==
  ASSUME Serving, NEW w \in Workers, NEW t \in Tasks, Alone(t), pc[w] # "idle",
         job[w] = t
  PROVE  /\ Charging(t) <=> pc[w] = "charge"
         /\ OthersKept(w, t) => (Charging(t)' <=> pc'[w] = "charge" /\ job'[w] = t)
  <1>1. \A v \in Workers : v # w /\ pc[v] # "idle" => job[v] # t
    BY DEF Serving, Alone
  <1>2. Charging(t) <=> pc[w] = "charge"
    BY <1>1 DEF Charging
  <1>3. ASSUME OthersKept(w, t)
        PROVE  Charging(t)' <=> pc'[w] = "charge" /\ job'[w] = t
    <2>1. \A v \in Workers : v # w => ~(pc'[v] = "charge" /\ job'[v] = t)
      BY <1>1, <1>3 DEF OthersKept
    <2>2. QED
      BY <2>1 DEF Charging
  <1>4. QED
    BY <1>2, <1>3

LEMMA SoloLocal ==
  ASSUME TypeOK, Serving, SoloInv,
         NEW w \in Workers, NEW t \in Tasks, pc[w] # "idle", job[w] = t,
         job'[w] = t \/ pc'[w] = "idle",
         OthersKept(w, t), Alone(t) => SoloTask(t)',
         Alone(job'[w]) => SoloWorker(w)'
  PROVE  SoloInv'
  <1>1. ASSUME NEW s \in Tasks, s # t, Alone(s)
        PROVE  SoloTask(s)'
    <2>1. Charging(s)' <=> Charging(s)
      BY <1>1, ChargingElsewhere
    <2>2. QED
      BY <1>1, <2>1 DEF SoloInv, SoloTask, LedgerOf, Affordable, OthersKept
  <1>2. ASSUME NEW v \in Workers, v # w, Alone(job[v])
        PROVE  SoloWorker(v)'
    <2>1. pc[v] # "idle" => job[v] # t
      BY <1>2 DEF Serving, Alone
    <2>2. pc[v] # "idle" => job[v] \in Tasks
      BY DEF TypeOK, Sessions
    <2>3. CASE pc[v] = "idle"
      BY <1>2, <2>3 DEF SoloInv, SoloWorker, OthersKept, InLoop
    <2>4. CASE pc[v] # "idle"
      BY <1>2, <2>1, <2>2, <2>4 DEF SoloInv, SoloWorker, OthersKept, Standing
    <2>5. QED
      BY <2>3, <2>4
  <1>3. \A v \in Workers : v # w => job'[v] = job[v]
    BY DEF OthersKept
  <1>4. QED
    BY <1>1, <1>2, <1>3 DEF SoloInv

(* Whoever else is at the task, a worker's step is about that task only,   *)
(* and afterwards it is still at it or idle.                               *)
LEMMA StepIsLocal ==
  ASSUME TypeOK, NEW w \in Workers, NEW t \in Tasks, job[w] = t, pc[w] # "idle",
         WorkerStep(w) \/ Raise(w) \/ Vanish(w)
  PROVE  /\ OthersKept(w, t)
         /\ job'[w] = t \/ pc'[w] = "idle"
  <1>1. w \in Sessions
    BY DEF Sessions
  <1>2. ASSUME NEW new, Write(w, new)
        PROVE  \A s \in Tasks : s # t => row'[s] = row[s]
    BY <1>2 DEF Write, TypeOK
  <1>3. ASSUME Return(w)
        PROVE  /\ pc'[w] = "idle"
               /\ \A v \in Workers : v # w => /\ pc'[v] = pc[v]
                                              /\ job'[v] = job[v]
                                              /\ seen'[v] = seen[v]
                                              /\ step'[v] = step[v]
    BY <1>1, <1>3 DEF Return, TypeOK, Sessions
  <1>4. CASE Refuse(w) \/ FailOverBudget(w) \/ FailOnError(w) \/ Complete(w)
    BY <1>2, <1>3, <1>4
    DEF Refuse, FailOverBudget, FailOnError, Complete, history, OthersKept
  <1>5. CASE StopOnCancel(w)
    BY <1>3, <1>5 DEF StopOnCancel, history, OthersKept
  <1>6. CASE Claim(w)
    <2>1. \A s \in Tasks : s # t => row'[s] = row[s] /\ stop'[s] = stop[s]
      BY <1>2, <1>6 DEF Claim, TypeOK
    <2>2. QED
      BY <1>1, <1>6, <2>1 DEF Claim, OthersKept, TypeOK, Sessions
  <1>7. CASE CheckBudget(w) \/ Reload(w)
    BY <1>1, <1>7
    DEF CheckBudget, Reload, history, OthersKept, TypeOK, Sessions
  <1>8. CASE UpdateProgress(w)
    <2>1. \A s \in Tasks : s # t => row'[s] = row[s]
      BY <1>2, <1>8 DEF UpdateProgress
    <2>2. QED
      BY <1>1, <1>8, <2>1 DEF UpdateProgress, history, OthersKept, TypeOK, Sessions
  <1>9. CASE RunStep(w)
    BY <1>1, <1>9 DEF RunStep, OthersKept, TypeOK, Sessions
  <1>10. ASSUME GivesUpCharge(w)
         PROVE  \A s \in Tasks : s # t => unpaid'[s] = unpaid[s]
    BY <1>10 DEF GivesUpCharge, TypeOK
  <1>11. CASE Raise(w)
    BY <1>1, <1>10, <1>11 DEF Raise, OthersKept, TypeOK, Sessions
  <1>12. CASE Vanish(w)
    BY <1>3, <1>10, <1>12 DEF Vanish, OthersKept
  <1>13. QED
    BY <1>4, <1>5, <1>6, <1>7, <1>8, <1>9, <1>11, <1>12 DEF WorkerStep

LEMMA ReturnSolo ==
  ASSUME TypeOK, NEW w \in Workers, Return(w)
  PROVE  /\ SoloWorker(w)'
         /\ \A v \in Workers : v # w => /\ pc'[v] = pc[v]
                                        /\ job'[v] = job[v]
                                        /\ seen'[v] = seen[v]
                                        /\ step'[v] = step[v]
  BY DEF Return, TypeOK, Sessions, SoloWorker, InLoop

LEMMA BusyAtStep ==
  ASSUME NEW w \in Workers, WorkerStep(w) \/ Raise(w)
  PROVE  pc[w] # "idle"
  BY DEF WorkerStep, Raise, Refuse, Claim, StopOnCancel, CheckBudget,
         FailOverBudget, RunStep, UpdateProgress, Reload, Complete, FailOnError

LEMMA SoloWorkerStep ==
  ASSUME TypeOK, Serving, SoloInv, BudgetInv, NEW t \in Tasks, Alone(t),
         NEW w \in Workers, job[w] = t, pc[w] # "idle",
         WorkerStep(w) \/ Raise(w) \/ Vanish(w), TypeOK'
  PROVE  SoloInv'
  <1> DEFINE r == row[t]
             u == Params[t].unit
  <1>1. w \in Sessions
    BY DEF Sessions
  <1>2. /\ seen[w] \in Row
        /\ r \in Row /\ r.cost \in Nat
        /\ Params[t].steps \in Nat
        /\ u \in Nat
        /\ step[w] \in Nat
        /\ spent[t] \in Nat
        /\ unpaid[t] \in Nat
        /\ stop[t] \in Stop /\ stop[t].late \in Nat
    BY <1>1, ParamsAssumption DEF TypeOK, Stop, Row
  <1>3. SoloTask(t) /\ SoloWorker(w)
    BY DEF SoloInv
  <1>4. ASSUME NEW st \in Status
        PROVE  LET new == [seen[w] EXCEPT !.status = st] IN
               /\ new \in Row
               /\ new.status = st
               /\ new.progress = seen[w].progress
               /\ new.cost = seen[w].cost
    BY <1>2 DEF Row
  <1>5. {"RUNNING", "FAILED", "COMPLETED", "CANCELLED"} \subseteq Status
    BY DEF Status, Finished
  <1>6. OthersKept(w, t) /\ (job'[w] = t \/ pc'[w] = "idle")
    BY StepIsLocal
  <1>7. /\ Charging(t) <=> pc[w] = "charge"
        /\ Charging(t)' <=> pc'[w] = "charge" /\ job'[w] = t
    BY <1>6, ChargingHere
  <1> SUFFICES SoloTask(t)' /\ SoloWorker(w)'
    BY <1>6, SoloLocal
  (* A session that returns, outside the charge of a step.                 *)
  <1>8. ASSUME Return(w), pc[w] # "charge", UNCHANGED history,
               row'[t].cost = r.cost,
               row'[t].status \in {"NONE", "QUEUED"} => UNCHANGED row,
               row'[t].status = "COMPLETED" =>
                 \/ UNCHANGED row
                 \/ row'[t].progress = 100 /\ spent[t] = Params[t].steps * u
        PROVE  SoloTask(t)' /\ SoloWorker(w)'
    <2>1. pc'[w] = "idle"
      BY <1>1, <1>8 DEF Return, TypeOK
    <2>2. SoloTask(t)'
      BY <1>3, <1>7, <1>8, <2>1 DEF SoloTask, LedgerOf, Affordable, history
    <2>3. QED
      BY <1>8, <2>2, ReturnSolo
  (* A session that writes FAILED and returns.                             *)
  <1>9. ASSUME pc[w] \in {"claim", "overrun", "abort"},
               Write(w, [seen[w] EXCEPT !.status = "FAILED"]),
               Return(w), UNCHANGED history
        PROVE  SoloTask(t)' /\ SoloWorker(w)'
    <2> DEFINE new == [seen[w] EXCEPT !.status = "FAILED"]
    <2>1. /\ row'[t].status \in {r.status, "FAILED"}
          /\ new.status # seen[w].status => row'[t].status = "FAILED"
          /\ row'[t].cost = r.cost
      <3>1. /\ new \in Row
            /\ new.status = "FAILED"
            /\ new.progress = seen[w].progress
            /\ new.cost = seen[w].cost
        BY <1>4, <1>5
      <3>2. Write(w, new)
        BY <1>9
      <3> HIDE DEF new
      <3>3. QED
        BY <1>1, <3>1, <3>2, WriteEffect
    <2>2. row'[t].status \in {"FAILED", "RUNNING", "CANCELLED"}
      BY <1>3, <1>4, <1>5, <1>9, <2>1 DEF SoloWorker, InLoop
    <2>3. QED
      BY <1>8, <1>9, <2>1, <2>2
  <1>10. CASE Refuse(w) \/ FailOverBudget(w) \/ FailOnError(w)
    BY <1>9, <1>10 DEF Refuse, FailOverBudget, FailOnError
  <1>11. CASE Claim(w)
    <2>1. row'[t].status = "RUNNING" /\ row'[t].cost = r.cost
      <3> DEFINE new == [seen[w] EXCEPT !.status = "RUNNING"]
      <3>1. /\ new \in Row
            /\ new.status = "RUNNING"
            /\ new.progress = seen[w].progress
            /\ new.cost = seen[w].cost
        BY <1>4, <1>5
      <3>2. Write(w, new) /\ seen[w].status = "QUEUED"
        BY <1>3, <1>11 DEF Claim, SoloWorker
      <3> HIDE DEF new
      <3>3. QED
        BY <1>1, <3>1, <3>2, WriteEffect
    <2>2. /\ pc[w] = "claim" /\ pc'[w] = "top" /\ job'[w] = t
          /\ UNCHANGED <<step, spent, unpaid>>
          /\ stop'[t] = [stop[t] EXCEPT !.missed = @ \/ r.status = "CANCELLED"]
      BY <1>1, <1>11 DEF Claim, TypeOK
    <2>3. /\ stop'[t].late = 0
          /\ stop'[t].missed <=> stop[t].missed \/ r.status = "CANCELLED"
          /\ stop'[t].asked = stop[t].asked
      <3>1. stop[t].late = 0
        BY <1>3, <2>2 DEF SoloWorker
      <3> DEFINE m == stop[t].missed \/ r.status = "CANCELLED"
      <3>2. stop'[t] = [stop[t] EXCEPT !.missed = m]
        BY <2>2
      <3> HIDE DEF m
      <3>3. /\ stop'[t].late = stop[t].late
            /\ stop'[t].missed = m
            /\ stop'[t].asked = stop[t].asked
        BY <1>2, <3>2 DEF Stop
      <3>4. QED
        BY <3>1, <3>3 DEF m
    <2>4. SoloTask(t)'
      BY <1>3, <1>7, <2>1, <2>2, <2>3 DEF SoloTask, LedgerOf, Affordable
    <2>5. Standing(t)' => row'[t].status = "CANCELLED"
      <3>1. r.status = "QUEUED" => ~stop[t].asked
        BY <1>3 DEF SoloTask, NotAsked
      <3>2. QED
        BY <1>3, <2>2, <2>3, <3>1 DEF SoloWorker, Standing
    <2>6. spent'[t] = step'[w] * u /\ step'[w] <= Params[t].steps /\ unpaid'[t] = 0
      BY <1>2, <1>3, <2>2 DEF SoloWorker
    <2>7. SoloWorker(w)'
      <3>1. step[w] = 0 /\ step' = step /\ spent'[t] = 0
        BY <1>3, <2>2 DEF SoloWorker
      <3>2. 0 * u + 0 = 0
        BY <1>2
      <3>3. QED
        BY <2>1, <2>2, <2>5, <2>6, <3>1, <3>2 DEF SoloWorker, InLoop
    <2>8. QED
      BY <2>4, <2>7
  <1>12. CASE StopOnCancel(w)
    BY <1>8, <1>12 DEF StopOnCancel
  <1>13. CASE CheckBudget(w) \/ Reload(w)
    <2>1. /\ UNCHANGED <<row, job, step, spent, unpaid, stop>>
          /\ pc[w] = "top" /\ pc'[w] \in {"work", "overrun", "finish"}
      BY <1>1, <1>13 DEF CheckBudget, Reload, history, TypeOK
    <2>2. pc'[w] = "work" => seen'[w] = r /\ r.status # "CANCELLED"
      BY <1>1, <1>13, <2>1 DEF CheckBudget, Reload, CancelSeen, TypeOK
    <2>3. pc'[w] = "finish" => seen'[w] = r /\ step[w] = Params[t].steps
      BY <1>1, <1>2, <1>3, <1>13, <2>1
      DEF CheckBudget, Reload, StepsLeft, SoloWorker, InLoop, TypeOK
    <2>4. ~Standing(t) \/ r.status = "CANCELLED"
      BY <1>3, <2>1 DEF SoloWorker, InLoop
    <2>5. SoloWorker(w)'
      BY <1>3, <2>1, <2>2, <2>3, <2>4 DEF SoloWorker, InLoop, Standing
    <2>6. SoloTask(t)'
      BY <1>3, <1>7, <2>1 DEF SoloTask, LedgerOf, Affordable
    <2>7. QED
      BY <2>5, <2>6
  <1>14. CASE Raise(w) \/ Vanish(w)
    <2>1. /\ UNCHANGED <<row, spent, stop>>
          /\ GivesUpCharge(w)
          /\ pc'[w] \in {"abort", "idle"}
      BY <1>1, <1>14 DEF Raise, Vanish, Return, TypeOK
    <2>2. unpaid'[t] = IF pc[w] = "charge" THEN unpaid[t] + u ELSE unpaid[t]
      BY <2>1 DEF GivesUpCharge, TypeOK
    <2>3. pc[w] = "charge" => unpaid[t] = 0
      BY <1>3, <1>7 DEF SoloTask, LedgerOf
    <2>4. LedgerOf(t)'
      BY <1>2, <1>3, <1>7, <2>1, <2>2, <2>3 DEF SoloTask, LedgerOf
    <2>5. row[t].status \in {"NONE", "QUEUED"} => pc[w] # "charge"
      BY <1>3 DEF SoloWorker, InLoop
    <2>6. SoloTask(t)'
      BY <1>3, <2>1, <2>2, <2>4, <2>5 DEF SoloTask, Affordable
    <2>7. CASE Vanish(w)
      BY <2>6, <2>7, ReturnSolo DEF Vanish
    <2>8. CASE Raise(w)
      <3>1. pc[w] \in InLoop /\ pc'[w] = "abort" /\ job'[w] = t /\ step' = step
        BY <1>1, <2>8 DEF Raise, InLoop, TypeOK
      <3>2. SoloWorker(w)'
        BY <1>3, <2>1, <3>1 DEF SoloWorker, InLoop
      <3>3. QED
        BY <2>6, <3>2
    <2>9. QED
      BY <1>14, <2>7, <2>8
  <1>15. CASE RunStep(w)
    <2>1. /\ pc[w] = "work" /\ pc'[w] = "charge"
          /\ spent'[t] = spent[t] + u
          /\ UNCHANGED <<row, job, seen, step, unpaid>>
      BY <1>15, RunStepEffect
    <2>2. stop'[t] = [stop[t] EXCEPT !.late = IF stop[t].asked
                                             THEN stop[t].late + 1 ELSE stop[t].late]
      BY <1>15 DEF RunStep, TypeOK
    <2>3. /\ stop'[t].late = IF stop[t].asked THEN stop[t].late + 1 ELSE stop[t].late
          /\ stop'[t].asked = stop[t].asked
          /\ stop'[t].missed = stop[t].missed
          /\ Standing(t)' <=> Standing(t)
      BY <1>2, <2>2 DEF Stop, Standing
    <2>4. /\ r.status \in {"RUNNING", "CANCELLED"}
          /\ spent[t] = step[w] * u /\ unpaid[t] = 0
          /\ step[w] <= Params[t].steps
          /\ Standing(t) => r.status = "CANCELLED" /\ stop[t].late = 0
          /\ seen[w].cost = r.cost
      <3>1. step[w] * u \in Nat
        BY <1>2
      <3>2. QED
        BY <1>3, <2>1, <3>1 DEF SoloWorker, InLoop
    <2>5. LedgerOf(t)'
      BY <1>2, <1>3, <1>7, <2>1, <2>4 DEF SoloTask, LedgerOf
    <2>6. stop'[t].late <= 1 \/ stop'[t].missed
      BY <1>2, <1>3, <2>3, <2>4 DEF Standing, SoloTask
    <2>7. Affordable(t)'
      <3>1. seen[w].cost + u <= limit[w] /\ limit[w] \in EffectiveLimits(t)
        BY <2>1 DEF BudgetInv, RoomForStep, LimitsAreCalls
      <3>2. spent[t] = r.cost
        BY <1>2, <1>3, <1>7, <2>1, <2>4 DEF SoloTask, LedgerOf
      <3>3. spent'[t] <= limit[w]
        BY <2>1, <2>4, <3>1, <3>2
      <3>4. QED
        BY <3>1, <3>3 DEF Affordable
    <2>8. SoloTask(t)'
      BY <2>1, <2>4, <2>5, <2>6, <2>7 DEF SoloTask
    <2>9. SoloWorker(w)'
      BY <2>1, <2>3, <2>4 DEF SoloWorker, InLoop
    <2>10. QED
      BY <2>8, <2>9
  <1>16. CASE UpdateProgress(w)
    <2> DEFINE new == [seen[w] EXCEPT
                         !.progress = Percent(step[w] + 1, Params[t].steps),
                         !.cost = Charged(w)]
    <2>1. /\ pc[w] = "charge" /\ pc'[w] = "top" /\ job'[w] = t
          /\ step'[w] = step[w] + 1
          /\ UNCHANGED <<spent, unpaid, stop>>
          /\ row'[t] = Flushed(t, seen[w], new)
      BY <1>1, <1>16 DEF UpdateProgress, Write, history, TypeOK
    <2>2. new.status = seen[w].status /\ new.cost = seen[w].cost + u
          /\ seen[w].cost \in Nat
      BY <1>2 DEF Row, Charged
    <2>3. /\ r.status \in {"RUNNING", "CANCELLED"}
          /\ spent[t] = step[w] * u + u /\ unpaid[t] = 0
          /\ Standing(t) => r.status = "CANCELLED"
          /\ seen[w].cost = r.cost
      BY <1>3, <2>1 DEF SoloWorker, InLoop
    <2>4. row'[t].status = r.status /\ row'[t].cost = r.cost + u
      <3>1. Flushed(t, seen[w], new).status = r.status
        BY <2>2 DEF Flushed
      <3>2. Flushed(t, seen[w], new).cost = IF new.cost = seen[w].cost THEN r.cost
                                            ELSE new.cost
        BY DEF Flushed
      <3>3. QED
        BY <1>2, <2>1, <2>2, <2>3, <3>1, <3>2
    <2>5. step[w] + 1 <= Params[t].steps
      <3>1. step[w] < Params[t].steps
        BY <2>1 DEF TypeOK, StepsLeft
      <3>2. QED
        BY <1>2, <3>1
    <2>6. (step[w] + 1) * u = step[w] * u + u
      <3>1. \A a, b \in Nat : (a + 1) * b = a * b + b
        BY SMT
      <3>2. QED
        BY <1>2, <3>1
    <2>7. LedgerOf(t)'
      BY <1>2, <1>3, <1>7, <2>1, <2>3, <2>4 DEF SoloTask, LedgerOf
    <2>8. SoloTask(t)'
      BY <1>3, <2>1, <2>3, <2>4, <2>7 DEF SoloTask, Affordable
    <2>9. /\ spent'[t] = step'[w] * u /\ step'[w] <= Params[t].steps
          /\ unpaid'[t] = 0 /\ row'[t].status \in {"RUNNING", "CANCELLED"}
          /\ Standing(t)' => row'[t].status = "CANCELLED"
      BY <2>1, <2>3, <2>4, <2>5, <2>6 DEF Standing
    <2> HIDE DEF new
    <2>10. SoloWorker(w)'
      BY <1>2, <2>1, <2>9 DEF SoloWorker, InLoop
    <2>11. QED
      BY <2>8, <2>10
  <1>17. CASE Complete(w)
    <2> DEFINE new == [seen[w] EXCEPT !.status = "COMPLETED",
                                      !.progress = 100]
    <2>1. /\ new \in Row
          /\ new.status = "COMPLETED"
          /\ new.progress = 100
          /\ new.cost = seen[w].cost
      BY <1>2, <1>5 DEF Row
    <2>2. /\ row'[t].status \in {r.status, "COMPLETED"}
          /\ row'[t].progress = IF 100 = seen[w].progress
                                THEN r.progress ELSE 100
          /\ row'[t].cost = r.cost
      <3>1. Write(w, new)
        BY <1>17 DEF Complete
      <3> HIDE DEF new
      <3>2. QED
        BY <1>1, <2>1, <3>1, WriteEffect
    <2>3. /\ r.status \in {"RUNNING", "CANCELLED"}
          /\ spent[t] = Params[t].steps * u
          /\ seen[w].progress = r.progress
      <3>1. pc[w] = "finish"
        BY <1>17 DEF Complete
      <3>2. /\ r.status \in {"RUNNING", "CANCELLED"} /\ step[w] = Params[t].steps
            /\ spent[t] = step[w] * u + 0 /\ seen[w].progress = r.progress
        BY <1>3, <3>1 DEF SoloWorker, InLoop
      <3>3. step[w] * u \in Nat
        BY <1>2
      <3>4. QED
        BY <3>2, <3>3
    <2>4. row'[t].status # "NONE" /\ row'[t].status # "QUEUED"
          /\ (row'[t].status = "COMPLETED" => row'[t].progress = 100)
      BY <2>2, <2>3
    <2>5. QED
      BY <1>8, <1>17, <2>2, <2>3, <2>4 DEF Complete
  <1>18. QED
    BY <1>10, <1>11, <1>12, <1>13, <1>14, <1>15, <1>16, <1>17 DEF WorkerStep

LEMMA ServingStep ==
  ASSUME TypeOK, Serving, [Next]_vars
  PROVE  Serving'
  <1>1. ASSUME NEW w \in Workers, WorkerStep(w) \/ Raise(w)
        PROVE  Serving'
    <2>1. PICK t \in Tasks : job[w] = t
      BY <1>1, BusyAtStep DEF TypeOK, Sessions
    <2>2. \A v \in Workers : v # w => /\ pc'[v] = pc[v]
                                      /\ job'[v] = job[v]
                                      /\ step'[v] = step[v]
      BY <1>1, <2>1, BusyAtStep, StepIsLocal DEF OthersKept
    <2>3. /\ pc'[w] = "idle" => step'[w] = 0
          /\ pc'[w] # "idle" => job'[w] = job[w]
      BY <1>1 DEF WorkerStep, Refuse, Claim, StopOnCancel, CheckBudget,
         FailOverBudget, RunStep, UpdateProgress, Reload, Complete,
         FailOnError, Raise, Return, TypeOK, Sessions
    <2>4. pc[w] # "idle"
      BY <1>1, BusyAtStep
    <2>5. QED
      BY <2>2, <2>3, <2>4 DEF Serving
  <1>2. ASSUME NEW w \in Workers, NEW t \in Tasks, NEW arg \in CallLimits,
               BeginCycle(w, t, arg)
        PROVE  Serving'
    BY <1>2 DEF BeginCycle, Serving, TypeOK, Sessions
  <1>3. ASSUME NEW s \in Sessions, Die(s) \/ CommitFails(s)
        PROVE  Serving'
    BY <1>3 DEF Die, CommitFails, Vanish, Return, Serving, TypeOK, Sessions
  <1>4. ASSUME NEW c \in Cancellers, NEW t \in Tasks,
               ReadForCancel(c, t) \/ Cancel(c)
        PROVE  Serving'
    BY <1>4, SessionsAssumption
    DEF ReadForCancel, Cancel, Return, Serving, TypeOK, Sessions
  <1>5. ASSUME NEW t \in Tasks, Enqueue(t)
        PROVE  Serving'
    BY <1>5 DEF Enqueue, local, Serving
  <1>6. CASE UNCHANGED vars
    BY <1>6 DEF vars, local, Serving
  <1>7. ASSUME NEW c \in Cancellers, Cancel(c)
        PROVE  Serving'
    BY <1>7, SessionsAssumption DEF Cancel, Return, Serving, TypeOK, Sessions
  <1>8. QED
    BY <1>1, <1>2, <1>3, <1>4, <1>5, <1>6, <1>7 DEF Next

(* A step that leaves where the workers are, and adds no step, money or    *)
(* status but a cancellation that is acknowledged as such.                 *)
LEMMA SoloQuiet ==
  ASSUME TypeOK, SoloInv,
         \A w \in Workers : /\ pc'[w] = pc[w]
                            /\ job'[w] = job[w]
                            /\ seen'[w] = seen[w]
                            /\ step'[w] = step[w],
         UNCHANGED <<spent, unpaid>>,
         \A t \in Tasks :
           \/ row'[t] = row[t] /\ stop'[t] = stop[t]
           \/ /\ row'[t].status = "CANCELLED"
              /\ row'[t].cost = row[t].cost
              /\ row'[t].progress = row[t].progress
              /\ stop'[t] = JustAsked
  PROVE  SoloInv'
  <1>1. \A t \in Tasks : Charging(t)' <=> Charging(t)
    BY DEF Charging
  <1>2. ASSUME NEW t \in Tasks, Alone(t)
        PROVE  SoloTask(t)'
    BY <1>1, <1>2 DEF SoloInv, SoloTask, LedgerOf, Affordable, JustAsked
  <1>3. ASSUME NEW w \in Workers, Alone(job[w])
        PROVE  SoloWorker(w)'
    <2>1. pc[w] # "idle" => job[w] \in Tasks
      BY DEF TypeOK, Sessions
    <2>2. CASE pc[w] = "idle"
      BY <1>3, <2>2 DEF SoloWorker, InLoop
    <2>3. CASE pc[w] # "idle" /\ row'[job[w]] = row[job[w]]
                              /\ stop'[job[w]] = stop[job[w]]
      BY <1>3, <2>3 DEF SoloInv, SoloWorker, InLoop, Standing
    <2>4. CASE pc[w] # "idle" /\ row'[job[w]].status = "CANCELLED"
                              /\ row'[job[w]].cost = row[job[w]].cost
                              /\ row'[job[w]].progress = row[job[w]].progress
                              /\ stop'[job[w]] = JustAsked
      BY <1>3, <2>4 DEF SoloInv, SoloWorker, InLoop, Standing, JustAsked
    <2>5. QED
      BY <2>1, <2>2, <2>3, <2>4
  <1>4. QED
    BY <1>2, <1>3 DEF SoloInv

LEMMA SoloStep ==
  ASSUME TypeOK, Serving, SoloInv, BudgetInv, [Next]_vars, TypeOK'
  PROVE  SoloInv'
  <1>1. ASSUME NEW t \in Tasks, Enqueue(t)
        PROVE  SoloInv'
    <2>1. /\ row'[t].status = "QUEUED"
          /\ row'[t].cost = row[t].cost
          /\ row[t].status = "NONE"
          /\ \A s \in Tasks : s # t => row'[s] = row[s]
          /\ UNCHANGED <<local, history>>
      BY <1>1 DEF Enqueue, Exists, TypeOK, Row
    <2>2. \A s \in Tasks : Charging(s)' <=> Charging(s)
      BY <2>1 DEF Charging, local
    <2>3. \A s \in Tasks : Alone(s) => SoloTask(s)'
      BY <2>1, <2>2 DEF SoloInv, SoloTask, LedgerOf, Affordable, history
    <2>4. ASSUME NEW w \in Workers, Alone(job[w])
          PROVE  SoloWorker(w)'
      <3>1. pc[w] # "idle" => job[w] \in Tasks
        BY DEF TypeOK, Sessions
      <3>2. pc[w] \in {"idle", "claim"} \union InLoop
        BY SessionsAssumption DEF TypeOK, Sessions, Place, WorkerPlace, InLoop
      <3>3. pc[w] # "idle" => job[w] # t
        BY <2>1, <2>4, <3>2 DEF SoloInv, SoloWorker, InLoop
      <3>4. CASE pc[w] = "idle"
        BY <2>1, <3>4 DEF SoloWorker, local, InLoop
      <3>5. CASE pc[w] # "idle"
        BY <2>1, <2>4, <3>1, <3>3, <3>5
        DEF SoloInv, SoloWorker, Standing, local, history, InLoop
      <3>6. QED
        BY <3>4, <3>5
    <2>5. job' = job
      BY <2>1 DEF local
    <2>6. QED
      BY <2>3, <2>4, <2>5 DEF SoloInv
  <1>2. ASSUME NEW w \in Workers, NEW t \in Tasks, NEW arg \in CallLimits,
               BeginCycle(w, t, arg)
        PROVE  SoloInv'
    <2>1. /\ pc[w] = "idle" /\ pc'[w] = "claim" /\ job'[w] = t
          /\ row[t].status = "QUEUED" /\ seen'[w] = row[t]
          /\ \A v \in Workers : v # w => /\ pc'[v] = pc[v]
                                         /\ job'[v] = job[v]
                                         /\ seen'[v] = seen[v]
          /\ UNCHANGED <<row, step, history>>
      BY <1>2 DEF BeginCycle, TypeOK, Sessions
    <2>2. \A s \in Tasks : Charging(s)' <=> Charging(s)
      <3>1. \A v \in Workers, s \in Tasks :
              (pc'[v] = "charge" /\ job'[v] = s)
                <=> (pc[v] = "charge" /\ job[v] = s)
        BY <2>1
      <3>2. QED
        BY <3>1 DEF Charging
    <2>3. \A s \in Tasks : Alone(s) => SoloTask(s)'
      BY <2>1, <2>2 DEF SoloInv, SoloTask, LedgerOf, Affordable, history
    <2>4. Alone(t) => SoloWorker(w)'
      <3>1. step'[w] = 0
        BY <2>1 DEF Serving
      <3>2. Alone(t) => spent[t] = 0 /\ unpaid[t] = 0 /\ stop[t].late = 0
        BY <2>1 DEF SoloInv, SoloTask, NotAsked
      <3>3. QED
        BY <2>1, <3>1, <3>2 DEF SoloWorker, InLoop, history
    <2>5. ASSUME NEW v \in Workers, v # w, Alone(job[v])
          PROVE  SoloWorker(v)'
      BY <2>1, <2>5 DEF SoloInv, SoloWorker, Standing, InLoop, history
    <2>6. QED
      BY <2>1, <2>3, <2>4, <2>5 DEF SoloInv
  <1>3. ASSUME NEW w \in Workers, pc[w] # "idle",
               WorkerStep(w) \/ Raise(w) \/ Vanish(w)
        PROVE  SoloInv'
    <2>1. PICK t \in Tasks : job[w] = t
      BY <1>3 DEF TypeOK, Sessions
    <2>2. CASE Alone(t)
      BY <1>3, <2>1, <2>2, SoloWorkerStep
    <2>3. CASE ~Alone(t)
      <3>1. OthersKept(w, t) /\ (job'[w] = t \/ pc'[w] = "idle")
        BY <1>3, <2>1, StepIsLocal
      <3>2. Alone(job'[w]) => SoloWorker(w)'
        BY <2>3, <3>1 DEF SoloWorker, InLoop
      <3>3. QED
        BY <1>3, <2>1, <2>3, <3>1, <3>2, SoloLocal
    <2>4. QED
      BY <2>2, <2>3
  <1>4. ASSUME NEW c \in Cancellers, NEW t \in Tasks, ReadForCancel(c, t)
        PROVE  SoloInv'
    <2>1. /\ UNCHANGED <<row, step, spent, unpaid, stop>>
          /\ \A w \in Workers : /\ pc'[w] = pc[w]
                                /\ job'[w] = job[w]
                                /\ seen'[w] = seen[w]
      BY <1>4, SessionsAssumption DEF ReadForCancel, history, TypeOK, Sessions
    <2>2. QED
      BY <2>1, SoloQuiet
  <1>5. ASSUME NEW c \in Cancellers, Return(c)
        PROVE  \A w \in Workers : /\ pc'[w] = pc[w]
                                  /\ job'[w] = job[w]
                                  /\ seen'[w] = seen[w]
                                  /\ step'[w] = step[w]
    BY <1>5, SessionsAssumption DEF Return, TypeOK, Sessions
  <1>6. ASSUME NEW c \in Cancellers, Cancel(c)
        PROVE  SoloInv'
    <2>1. PICK t \in Tasks : job[c] = t
      BY <1>6 DEF Cancel, TypeOK, Sessions
    <2> DEFINE new == [seen[c] EXCEPT !.status = "CANCELLED"]
    <2>2. c \in Sessions /\ seen[c] \in Row
      BY DEF Sessions, TypeOK
    <2>3. /\ new \in Row
          /\ new.status = "CANCELLED"
          /\ new.progress = seen[c].progress
          /\ new.cost = seen[c].cost
      BY <2>2 DEF Row, Status, Finished
    <2>4. /\ Write(c, new) /\ Return(c) /\ UNCHANGED <<spent, unpaid>>
          /\ stop' = [stop EXCEPT ![t] = IF row'[t].status = "CANCELLED"
                                         THEN JustAsked ELSE stop[t]]
      BY <1>6, <2>1 DEF Cancel
    <2> HIDE DEF new
    <2>5. /\ row'[t].status \in {row[t].status, "CANCELLED"}
          /\ new.status # seen[c].status => row'[t].status = "CANCELLED"
          /\ new.status = seen[c].status => row'[t].status = row[t].status
          /\ row'[t].progress = row[t].progress
          /\ row'[t].cost = row[t].cost
          /\ \A s \in Tasks : s # t => row'[s] = row[s]
      BY <2>1, <2>2, <2>3, <2>4, WriteEffect
    <2>6. /\ stop'[t] = IF row'[t].status = "CANCELLED" THEN JustAsked ELSE stop[t]
          /\ \A s \in Tasks : s # t => stop'[s] = stop[s]
      BY <2>1, <2>4 DEF TypeOK
    <2>7. row'[t].status # "CANCELLED" => row'[t] = row[t]
      <3>1. row[t] \in Row /\ row'[t] \in Row
        BY <2>1 DEF TypeOK
      <3>2. QED
        BY <2>5, <3>1 DEF Row
    <2>8. QED
      BY <1>5, <2>4, <2>5, <2>6, <2>7, SoloQuiet
  <1>7. ASSUME NEW s \in Sessions, Die(s) \/ CommitFails(s)
        PROVE  SoloInv'
    <2>1. Vanish(s) /\ pc[s] # "idle"
      BY <1>7 DEF Die, CommitFails
    <2>2. CASE s \in Workers
      BY <1>3, <2>1, <2>2
    <2>3. CASE s \in Cancellers
      <3>1. pc[s] # "charge"
        BY <2>3 DEF TypeOK
      <3>2. UNCHANGED <<row, spent, unpaid, stop>> /\ Return(s)
        BY <2>1, <3>1 DEF Vanish, GivesUpCharge
      <3>3. QED
        BY <1>5, <2>3, <3>2, SoloQuiet
    <2>4. QED
      BY <2>2, <2>3 DEF Sessions
  <1>8. CASE UNCHANGED vars
    BY <1>8, SoloQuiet DEF vars, local, history
  <1>9. QED
    BY <1>1, <1>2, <1>3, <1>4, <1>6, <1>7, <1>8, BusyAtStep DEF Next

LEMMA SoloInvariant == Spec => [](Serving /\ SoloInv)
  <1>1. ASSUME Init
        PROVE  Serving /\ SoloInv
    <2>1. \A t \in Tasks : Affordable(t)
      <3>1. PICK arg \in CallLimits : TRUE
        BY ParamsAssumption
      <3>2. ASSUME NEW t \in Tasks
            PROVE  Effective(t, arg) \in EffectiveLimits(t)
                   /\ 0 <= Effective(t, arg)
        BY LimitType DEF EffectiveLimits
      <3>3. QED
        BY <1>1, <3>2 DEF Init, Affordable
    <2>2. \A w \in Workers : pc[w] = "idle" /\ step[w] = 0
      BY <1>1 DEF Init, Sessions
    <2>3. ASSUME NEW t \in Tasks
          PROVE  SoloTask(t)
      <3>1. /\ row[t].status = "NONE" /\ row[t].cost = 0
            /\ spent[t] = 0 /\ unpaid[t] = 0
            /\ stop[t] = NotAsked /\ stop[t].late = 0
        BY <1>1 DEF Init, NotAsked, NoRow
      <3>2. ~Charging(t)
        BY <2>2 DEF Charging
      <3>3. QED
        BY <2>1, <3>1, <3>2 DEF SoloTask, LedgerOf
    <2>4. QED
      BY <2>2, <2>3 DEF Serving, SoloInv, SoloWorker, InLoop
  <1>2. TypeOK /\ TypeOK' /\ BudgetInv /\ Serving /\ SoloInv /\ [Next]_vars
        => Serving' /\ SoloInv'
    BY ServingStep, SoloStep
  <1>3. QED
    BY <1>1, <1>2, TypeCorrect, BudgetInvariant, PTL DEF Spec

(* The ledger of a task that one worker session is asked to run is behind  *)
(* what was spent on it by the step being charged, or by one step whose    *)
(* charge was given up, and by nothing else, across cancellations,         *)
(* exceptions, failed commits and deaths (queue.py:84, :159).              *)
THEOREM SoloLedgerExact == Spec => []LedgerExact
  <1>1. SoloInv => LedgerExact
    BY DEF SoloInv, SoloTask, LedgerOf, LedgerExact
  <1>2. QED
    BY <1>1, SoloInvariant, PTL

(* ... and what is really spent on it stays within a budget (queue.py:11). *)
THEOREM SoloSpendWithinBudget == Spec => []SpendWithinBudget
  <1>1. SoloInv => SpendWithinBudget
    BY DEF SoloInv, SoloTask, Affordable, SpendWithinBudget
  <1>2. QED
    BY <1>1, SoloInvariant, PTL

(* ... after an acknowledged cancellation it executes at most the step it  *)
(* was in, unless it claims the task after the cancellation on the row it  *)
(* had read before (queue.py:108, :137) ...                                *)
THEOREM SoloCancelStopsWork == Spec => []CancelStopsWork
  <1>1. SoloInv => CancelStopsWork
    BY DEF SoloInv, SoloTask, CancelStopsWork
  <1>2. QED
    BY <1>1, SoloInvariant, PTL

(* ... and COMPLETED means that all of its steps were done and charged.    *)
THEOREM SoloCompletedIsWhole == Spec => []CompletedIsWhole
  <1>1. SoloInv => CompletedIsWhole
    BY DEF SoloInv, SoloTask, CompletedIsWhole
  <1>2. QED
    BY <1>1, SoloInvariant, PTL

=============================================================================
