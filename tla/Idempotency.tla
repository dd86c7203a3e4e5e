---------------------------- MODULE Idempotency ----------------------------
(* IdempotencyRegistry.execute of .agents/transaction-core/idempotency.js    *)
(* for one idempotency key: look the key up, await the factory that starts   *)
(* the job, then store the record. Requests run at the same time, in one     *)
(* process or several, and a process may die in between.                     *)
EXTENDS Naturals, Sequences, FiniteSets

CONSTANTS Request,      \* the requests that carry the key
          Payload,      \* their payloads, by hash
          MaxJobs       \* bound on the jobs the factory starts

ASSUME IdempotencyAssumption == MaxJobs \in Nat

VARIABLES stored,   \* the registry file of the key: a job, 0 when there is none
          jobs,     \* the payload of every job the factory has started
          doing,    \* a request: idle, or [payload, job], job 0 before the factory returns
          answers,  \* what requests were answered: [payload, job], job 0 for a conflict
          excused   \* history: two requests overlapped, one died or its write failed

registryVars == <<stored, jobs, doing, answers, excused>>

Idle == [payload |-> {}, job |-> 0]
Busy == {r \in Request : doing[r] # Idle}
Executing(p) == [payload |-> {p}, job |-> 0]

RegistryInit ==
    /\ stored = 0 /\ jobs = <<>> /\ answers = {}
    /\ doing = [r \in Request |-> Idle]
    /\ excused = FALSE

Answer(p, j) == answers' = answers \cup {[payload |-> p, job |-> j]}

(* get(): the record of the key, if there is one.                            *)
SamePayload(p) == jobs[stored] = p

(* Mutant: the payload is not compared.                                      *)
ExecuteAnyPayload(r, p) ==
    /\ doing[r] = Idle
    /\ IF stored # 0
       THEN /\ Answer(p, stored)
            /\ UNCHANGED <<doing, excused>>
       ELSE /\ doing' = [doing EXCEPT ![r] = Executing(p)]
            /\ excused' = (excused \/ Busy # {})
            /\ UNCHANGED answers
    /\ UNCHANGED <<stored, jobs>>

(* execute() up to the factory: an existing record is the answer, or a       *)
(* conflict when the payload differs.                                        *)
Execute(r, p) ==
    /\ doing[r] = Idle
    /\ IF stored # 0
       THEN /\ Answer(p, IF SamePayload(p) THEN stored ELSE 0)
            /\ UNCHANGED <<doing, excused>>
       ELSE /\ doing' = [doing EXCEPT ![r] = Executing(p)]
            /\ excused' = (excused \/ Busy # {})
            /\ UNCHANGED answers
    /\ UNCHANGED <<stored, jobs>>

(* The factory started the job.                                              *)
FactoryReturns(r) ==
    /\ doing[r] # Idle /\ doing[r].job = 0 /\ Len(jobs) < MaxJobs
    /\ \E p \in doing[r].payload : jobs' = Append(jobs, p)
    /\ doing' = [doing EXCEPT ![r].job = Len(jobs) + 1]
    /\ UNCHANGED <<stored, answers, excused>>

(* The record is renamed over whatever is there; an error of the write is    *)
(* swallowed and the answer is the same.                                     *)
Store(r) ==
    /\ doing[r].job # 0
    /\ \/ stored' = doing[r].job /\ UNCHANGED excused
       \/ excused' = TRUE /\ UNCHANGED stored
    /\ \E p \in doing[r].payload : Answer(p, doing[r].job)
    /\ doing' = [doing EXCEPT ![r] = Idle]
    /\ UNCHANGED jobs

(* The factory rejects, and nothing was started.                             *)
FactoryFails(r) ==
    /\ doing[r] # Idle /\ doing[r].job = 0
    /\ doing' = [doing EXCEPT ![r] = Idle]
    /\ UNCHANGED <<stored, jobs, answers, excused>>

(* The process dies; the request is retried later.                           *)
Die(r) ==
    /\ doing[r] # Idle
    /\ doing' = [doing EXCEPT ![r] = Idle]
    /\ excused' = (excused \/ doing[r].job # 0)
    /\ UNCHANGED <<stored, jobs, answers>>

RegistryNext ==
    \E r \in Request : \/ \E p \in Payload : Execute(r, p)
                       \/ FactoryReturns(r) \/ Store(r) \/ FactoryFails(r) \/ Die(r)

RegistrySpec == RegistryInit /\ [][RegistryNext]_registryVars

-----------------------------------------------------------------------------

RegistryTypeOK ==
    /\ jobs \in Seq(Payload) /\ stored \in 0 .. Len(jobs)
    /\ doing \in [Request -> {Idle} \cup [payload : {{p} : p \in Payload}, job : 0 .. Len(jobs)]]
    /\ answers \subseteq [payload : Payload, job : 0 .. Len(jobs)]
    /\ excused \in BOOLEAN

(* One key, one job: whoever repeats a request, with failed factories and    *)
(* with conflicts in between, no second job is started, unless two requests  *)
(* overlapped, or a process died or failed to write the record after its job *)
(* was started; and nobody is ever answered with a job of another payload.   *)
OneJobPerKey ==
    /\ excused \/ Len(jobs) <= 1
    /\ \A a \in answers : a.job # 0 => jobs[a.job] = a.payload
=============================================================================
