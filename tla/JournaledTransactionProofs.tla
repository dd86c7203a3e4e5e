---------------------- MODULE JournaledTransactionProofs ----------------------
(***************************************************************************)
(* Proofs about JournaledTransaction, for every set of files and contents  *)
(* and every bound: its type invariant, the safety of what the files held, *)
(* and that it implements AtomicUpdate.                                    *)
(***************************************************************************)
EXTENDS JournaledTransaction, TLAPS

TypeInv == TypeOK /\ (pc = "effect" => cursor < Len(ops))

LEMMA InitType == Init => TypeInv
<1> SUFFICES ASSUME Init PROVE TypeInv
  OBVIOUS
<1>1. journal \in [state : JournalState, had : SUBSET Indices, backed : SUBSET Indices]
  BY DEF Init, JournalState
<1>2. backup \in [Indices -> Values] /\ MaxOps \in Nat
  BY BoundAssumption DEF Init, Indices, Values
<1> QED
  <2>1. disk \in [Files -> Values] /\ folder \in BOOLEAN
    BY DEF Init
  <2>2. ops \in Seq(Op) /\ Len(ops) = 0 /\ trail \in Seq([Files -> Values])
    BY DEF Init
  <2>3. pc = "stage" /\ cursor = 0 /\ had = {} /\ backed = {} /\ ~failed /\ failed \in BOOLEAN
    BY DEF Init
  <2>4. workdir \in BOOLEAN /\ late \in BOOLEAN /\ hadFolder \in BOOLEAN
        /\ faults = 0 /\ edits = 0 /\ recovers = 0
    BY DEF Init
  <2> QED
    BY <1>1, <1>2, <2>1, <2>2, <2>3, <2>4 DEF TypeInv, TypeOK, Place

LEMMA OpFile ==
  ASSUME NEW op \in Op
  PROVE  /\ op.kind # "deleteDir" => op.file \in Files /\ op.content \in Values
         /\ op.kind = "deleteDir" => op.file = Folder
         /\ op.kind \in {"write", "delete", "deleteDir"}
BY DEF Op, Values

LEMMA TypeStep == TypeInv /\ [Next]_vars => TypeInv'
<1> SUFFICES ASSUME TypeInv, [Next]_vars PROVE TypeInv'
  OBVIOUS
<1> USE DEF TypeInv, TypeOK
<1> MaxOps \in Nat
  BY BoundAssumption
<1> ops \in Seq(Op) /\ Len(ops) \in Nat
  OBVIOUS
<1> ASSUME cursor < Len(ops)
    PROVE  ops[cursor + 1] \in Op /\ cursor + 1 \in 1..Len(ops) /\ cursor + 1 \in Indices
  BY DEF Indices
<1> ASSUME cursor > 0
    PROVE  ops[cursor] \in Op /\ cursor \in 1..Len(ops) /\ cursor \in Indices
  BY DEF Indices
<1>1. ASSUME NEW op \in Op, Stage(op) PROVE TypeInv'
  BY <1>1 DEF Stage, files, memory, counts, history
<1>2. ASSUME Prepare PROVE TypeInv'
  BY <1>2 DEF Prepare, At, Save, counts, history, Place, JournalState
<1>3. ASSUME BeginCommit PROVE TypeInv'
  BY <1>3 DEF BeginCommit, At, Save, files, counts, history, Place, JournalState
<1>4. ASSUME Check PROVE TypeInv'
  BY <1>4 DEF Check, files, counts, history
<1>5. ASSUME NEW to \in {"undo", "apply"}, LeaveChecks(to) PROVE TypeInv'
  BY <1>5 DEF LeaveChecks, At, files, counts, Place
<1>6. ASSUME TakeBackup PROVE TypeInv'
  <2>1. disk[Next1.file] \in Values \/ ~Copied(Next1)
    BY <1>6, OpFile DEF TakeBackup, Next1, Copied
  <2> QED
    BY <1>6, <2>1 DEF TakeBackup, At, counts, history, Place, Next1
<1>7. ASSUME CopyFails PROVE TypeInv'
  BY <1>7 DEF CopyFails, At, Fault, files, history, Place
<1>8. ASSUME Effect PROVE TypeInv'
  <2> Next1 \in Op /\ cursor < Len(ops)
    BY <1>8 DEF Effect, At, Next1
  <2>1. disk' \in [Files -> Values] /\ folder' \in BOOLEAN
    BY <1>8, OpFile DEF Effect, Written, MakesFolder
  <2>2. trail' \in Seq([Files -> Values])
    BY <1>8, <2>1 DEF Effect
  <2> QED
    BY <1>8, <2>1, <2>2 DEF Effect, At, counts, Place
<1>9. ASSUME EffectFails PROVE TypeInv'
  <2>1. folder' \in BOOLEAN
    BY <1>9 DEF EffectFails, MakesFolder
  <2> faults' \in Nat
    BY <1>9 DEF EffectFails, Fault
  <2>2. pc' = "undo" /\ UNCHANGED <<disk, workdir, backup, journal, ops, cursor, had, backed,
                                    failed, edits, recovers, late, trail, hadFolder>>
    BY <1>9 DEF EffectFails, At, history
  <2> QED
    BY <2>1, <2>2 DEF Place
<1>10. ASSUME FinishApply PROVE TypeInv'
  BY <1>10 DEF FinishApply, At, Save, files, counts, history, Place, JournalState
<1>11. ASSUME BeginRollback PROVE TypeInv'
  BY <1>11 DEF BeginRollback, At, Save, files, counts, history, Place, JournalState
<1>12. ASSUME Revert PROVE TypeInv'
  <2> Last1 \in Op /\ cursor - 1 \in 0..Len(ops) /\ cursor \in Indices
    BY <1>12 DEF Revert, Last1
  <2>1. disk' \in [Files -> Values] /\ folder' \in BOOLEAN /\ failed' \in BOOLEAN
        /\ backup' \in [Indices -> Values]
    BY <1>12, OpFile DEF Revert, Restore, Recreate, Remove, NothingToDo, MakesFolder, Values,
                         HasBackup
  <2> QED
    BY <1>12, <2>1 DEF Revert, counts, history
<1>13. ASSUME RevertFails PROVE TypeInv'
  BY <1>13 DEF RevertFails, Fault, files, history
<1>14. ASSUME EndRollback PROVE TypeInv'
  BY <1>14 DEF EndRollback, At, Save, files, counts, history, Place, JournalState
<1>15. ASSUME Cleanup PROVE TypeInv'
  BY <1>15 DEF Cleanup, At, NoBackups, counts, history, Place, Values, Indices
<1>16. ASSUME Crash PROVE TypeInv'
  <2>1. journal' \in [state : JournalState, had : SUBSET Indices, backed : SUBSET Indices]
    BY <1>16 DEF Crash, JournalState
  <2>2. workdir' \in BOOLEAN /\ pc' = "crashed" /\ cursor' = 0 /\ had' = {} /\ backed' = {}
        /\ failed' \in BOOLEAN
    BY <1>16 DEF Crash
  <2>3. UNCHANGED <<disk, folder, backup, ops, faults, edits, recovers, late, trail, hadFolder>>
    BY <1>16 DEF Crash, counts, history
  <2> QED
    BY <2>1, <2>2, <2>3 DEF Place
<1>17. ASSUME NEW reached, NEW completes, Recover(reached, completes) PROVE TypeInv'
  <2> DEFINE left == {i \in (journal.had \intersect journal.backed) \ reached :
                        workdir /\ backup[i] # Absent}
  <2>1. journal'.state \in JournalState /\ journal' \in [state : JournalState, had : SUBSET Indices, backed : SUBSET Indices]
    BY <1>17 DEF Recover, JournalState
  <2>2. workdir' \in BOOLEAN /\ backup' \in [Indices -> Values]
    BY <1>17 DEF Recover, NoBackups, Values, Indices
  <2> QED
    BY <1>17, <2>1, <2>2 DEF Recover, memory, history
<1>18. ASSUME NEW f \in Files, NEW v \in Values, Edit(f, v) PROVE TypeInv'
  BY <1>18 DEF Edit, memory
<1>19. ASSUME UNCHANGED vars PROVE TypeInv'
  BY <1>19 DEF vars, files, memory, counts, history
<1> QED
  BY <1>1, <1>2, <1>3, <1>4, <1>5, <1>6, <1>7, <1>8, <1>9, <1>10, <1>11, <1>12, <1>13,
     <1>14, <1>15, <1>16, <1>17, <1>18, <1>19
     DEF Next, Mismatch, BeginApply, RecoverRollback, RecoverContinue

\* Every state is well typed; in particular no loop of commit or rollback runs
\* past its operations.
THEOREM TypeCorrect == Spec => []TypeOK
<1>1. TypeInv => TypeOK
  BY DEF TypeInv
<1> QED
  BY InitType, TypeStep, <1>1, PTL DEF Spec

-----------------------------------------------------------------------------
(***************************************************************************)
(* The inductive invariant, for transactions nobody else disturbs.         *)
(***************************************************************************)
Active == pc \in {"apply", "effect", "undo", "revert"}

\* Nothing is recorded before the apply begins.
Early == pc \in {"stage", "prepared", "check"} =>
           /\ trail = <<>> /\ had = {} /\ backed = {}
           /\ pc # "check" => cursor = 0

\* What the journal says in each phase of the writer.
Phase == /\ pc = "stage" => journal.state = "none"
         /\ pc = "prepared" => journal.state = "PREPARED"
         /\ pc = "check" \/ Active => journal.state \in {"APPLYING", "ROLLING_BACK"}
         /\ pc = "clean" => journal.state \in {"COMMITTED", "ROLLED_BACK"}
         /\ journal.state = "none" => trail = <<>>
         /\ Active \/ pc \in {"prepared", "check"} => workdir
         /\ pc \in {"stage", "prepared", "check", "apply", "effect", "undo"} => ~failed

\* One operation carried out on the files.
Carried(op, old) ==
  IF op.kind = "deleteDir" THEN old ELSE [old EXCEPT ![op.file] = op.content]

\* The trail is the plan carried out one operation at a time, and the disk is
\* at its end, or, while reverting, where the next operation to revert left it.
Chain == /\ \A k \in 1..(Len(trail) - 1) :
              k \in DOMAIN ops /\ trail[k + 1] = Carried(ops[k], trail[k])
         /\ pc \in {"apply", "effect", "undo"} => /\ Len(trail) = cursor + 1
                                                  /\ disk = trail[cursor + 1]
         /\ pc = "revert" => /\ Len(trail) >= cursor + 1
                             /\ ~failed => disk = trail[cursor + 1]

\* After n operations each file is what the last of them on it says.
CarriedUpTo(n) ==
  \A f \in Files :
    \/ /\ \A i \in 1..n : ops[i].file # f
       /\ disk[f] = trail[1][f]
    \/ \E i \in 1..n : /\ ops[i].file = f
                       /\ \A j \in 1..n : ops[j].file = f => j <= i
                       /\ disk[f] = ops[i].content

Forward == pc \in {"apply", "effect", "undo"} => CarriedUpTo(cursor)

Settled ==
  /\ journal.state = "COMMITTED" => trail # <<>> /\ Promise!Achieves(disk, trail[1], ops)
  /\ journal.state = "ROLLED_BACK" => trail # <<>> /\ disk = trail[1]

\* How many operations have their backup taken and not yet put back.
Reached == IF pc = "effect" THEN cursor + 1 ELSE cursor

\* A backup is what the operation's file held before it; a file that was absent
\* has none.
Copies ==
  /\ Active => \A i \in 1..Reached : ops[i].kind # "deleteDir" =>
                 IF trail[i][ops[i].file] # Absent
                 THEN i \in had /\ i \in backed /\ backup[i] = trail[i][ops[i].file]
                 ELSE i \notin had /\ backup[i] = Absent
  /\ pc \in {"stage", "prepared", "check"} => \A i \in Indices : backup[i] = Absent
  /\ pc \in {"apply", "effect"} =>
       had \subseteq 1..Reached /\ \A i \in Indices : i > Reached => backup[i] = Absent
  /\ \A i \in backed : i \in DOMAIN ops /\ ops[i].kind # "deleteDir"

FirstOn(i, f) == ops[i].file = f /\ \A j \in 1..(i - 1) : ops[j].file # f

\* The first operation on a file still holds what the file was.
Held ==
  Active => \A f \in Files :
              (\E i \in 1..cursor : ops[i].file = f)
                => \E i \in 1..cursor : FirstOn(i, f) /\ backup[i] = trail[1][f]

\* A directory that is gone will be made again by an operation yet to revert.
WillReturn(n) == \E i \in 1..n : ops[i].kind = "deleteDir" /\ i \in had

Folders ==
  Active /\ hadFolder =>
    /\ ~failed => folder \/ WillReturn(cursor)
    /\ \A k \in 1..Reached : ops[k].kind = "deleteDir" /\ k \notin had => WillReturn(k - 1)
    /\ pc = "effect" /\ ops[cursor + 1].kind = "deleteDir" /\ folder => cursor + 1 \in had

Parts == /\ Phase /\ Chain /\ Forward /\ Settled /\ Copies /\ Held
         /\ Folders /\ OriginalsSurvive /\ FolderComesBack

Inv == /\ TypeInv
       /\ Early
       /\ Undisturbed => Parts

-----------------------------------------------------------------------------
LEMMA InitInv == Init => Inv
<1> SUFFICES ASSUME Init PROVE Inv
  OBVIOUS
<1>1. TypeInv
  BY InitType
<1>2. /\ pc = "stage" /\ trail = <<>> /\ had = {} /\ backed = {} /\ cursor = 0
      /\ journal.state = "none" /\ ~failed /\ \A i \in Indices : backup[i] = Absent
  BY DEF Init, Indices
<1> QED
  BY <1>1, <1>2 DEF Inv, Parts, Early, Phase, Chain, Forward, Settled, Copies, Held, Folders,
     OriginalsSurvive, FolderComesBack, Active

LEMMA EarlyStep == TypeInv /\ Early /\ [Next]_vars => Early'
<1> SUFFICES ASSUME TypeInv, Early, [Next]_vars PROVE Early'
  OBVIOUS
<1>1. CASE \E op \in Op : Stage(op)
  BY <1>1 DEF Stage, Early, memory, history
<1>2. CASE Prepare \/ BeginCommit \/ Check
  BY <1>2 DEF Prepare, BeginCommit, Check, At, Early, history
<1>3. CASE Mismatch \/ BeginApply
  BY <1>3 DEF Mismatch, BeginApply, LeaveChecks, At, Early
<1>4. CASE TakeBackup \/ CopyFails \/ Effect \/ EffectFails \/ FinishApply
  BY <1>4 DEF TakeBackup, CopyFails, Effect, EffectFails, FinishApply, At, Early
<1>5. CASE BeginRollback \/ Revert \/ RevertFails \/ EndRollback \/ Cleanup \/ Crash
  BY <1>5 DEF BeginRollback, Revert, RevertFails, EndRollback, Cleanup, Crash, At, Early
<1>6. ASSUME NEW reached, NEW completes, Recover(reached, completes) PROVE Early'
  BY <1>6 DEF Recover, Early, memory, history
<1>7. CASE \E f \in Files, v \in Values : Edit(f, v)
  BY <1>7 DEF Edit, Early, memory
<1>8. CASE UNCHANGED vars
  BY <1>8 DEF vars, memory, history, Early
<1> QED
  BY <1>1, <1>2, <1>3, <1>4, <1>5, <1>6, <1>7, <1>8
     DEF Next, RecoverRollback, RecoverContinue

\* What a step that disturbs nothing can be.
Step == \/ \E op \in Op : Stage(op)
        \/ Prepare \/ BeginCommit \/ Check \/ Mismatch \/ BeginApply
        \/ TakeBackup \/ CopyFails \/ Effect \/ EffectFails \/ FinishApply
        \/ BeginRollback \/ Revert \/ RevertFails \/ EndRollback \/ Cleanup \/ Crash
        \/ \E f \in Files, v \in Values : Edit(f, v) /\ pc \in {"stage", "prepared"}
        \/ UNCHANGED vars

LEMMA StaysUndisturbed == TypeInv /\ [Next]_vars /\ Undisturbed' => Undisturbed /\ Step
<1> SUFFICES ASSUME TypeInv, [Next]_vars, Undisturbed' PROVE Undisturbed /\ Step
  OBVIOUS
<1> recovers \in Nat
  BY DEF TypeInv, TypeOK
<1>1. ASSUME NEW reached, NEW completes, Recover(reached, completes) PROVE FALSE
  BY <1>1 DEF Recover, Undisturbed
<1>2. ASSUME NEW f \in Files, NEW v \in Values, Edit(f, v)
      PROVE  Undisturbed /\ pc \in {"stage", "prepared"}
  BY <1>2 DEF Edit, Undisturbed
<1>3. \/ \E f \in Files, v \in Values : Edit(f, v)
      \/ Step /\ ~(\E f \in Files, v \in Values : Edit(f, v))
  BY <1>1 DEF Next, Step, RecoverRollback, RecoverContinue
<1>4. ASSUME Step, ~(\E f \in Files, v \in Values : Edit(f, v)) PROVE UNCHANGED <<late, recovers>>
  <2>1. CASE \E op \in Op : Stage(op)
    BY <2>1 DEF Stage, counts, history
  <2>2. CASE Prepare \/ BeginCommit \/ Check \/ Mismatch \/ BeginApply
    BY <2>2 DEF Prepare, BeginCommit, Check, Mismatch, BeginApply, LeaveChecks, counts, history
  <2>3. CASE TakeBackup \/ CopyFails \/ Effect \/ EffectFails \/ FinishApply
    BY <2>3 DEF TakeBackup, CopyFails, Effect, EffectFails, FinishApply, counts, history
  <2>4. CASE BeginRollback \/ Revert \/ RevertFails \/ EndRollback \/ Cleanup \/ Crash
    BY <2>4 DEF BeginRollback, Revert, RevertFails, EndRollback, Cleanup, Crash, counts, history
  <2>5. CASE UNCHANGED vars
    BY <2>5 DEF vars, counts, history
  <2> QED
    BY <1>4, <2>1, <2>2, <2>3, <2>4, <2>5 DEF Step
<1> QED
  BY <1>2, <1>3, <1>4 DEF Undisturbed, Step

-----------------------------------------------------------------------------
(***************************************************************************)
(* Each step preserves the parts.                                          *)
(***************************************************************************)
Hyp == TypeInv /\ Early /\ Undisturbed /\ Parts

LEMMA OpIndices ==
  ASSUME TypeInv
  PROVE  /\ DOMAIN ops = 1..Len(ops) /\ DOMAIN ops \subseteq Indices
         /\ cursor \in Nat /\ 1..cursor \subseteq DOMAIN ops
         /\ \A i \in DOMAIN ops : ops[i] \in Op
BY BoundAssumption DEF TypeInv, TypeOK, Indices

LEMMA BeforeApply ==
  ASSUME Hyp, pc \in {"stage", "prepared", "check"}, pc' \in {"stage", "prepared", "check"},
         UNCHANGED <<trail, had, backed, backup, failed>>,
         \/ pc' = "stage" /\ journal' = journal /\ pc = "stage"
         \/ pc' = "prepared" /\ journal'.state = "PREPARED" /\ workdir'
         \/ pc' = "check" /\ journal'.state = "APPLYING" /\ workdir'
         \/ pc' = "check" /\ pc = "check" /\ UNCHANGED <<journal, workdir>>
  PROVE  Parts'
<1>1. trail' = <<>> /\ backed' = {} /\ \A i \in Indices : backup'[i] = Absent
  BY DEF Hyp, Early, Parts, Copies
<1>2. journal'.state \notin {"COMMITTED", "ROLLED_BACK"}
  BY DEF Hyp, Parts, Phase
<1>3. Phase'
  BY <1>1 DEF Hyp, Parts, Phase, Active
<1>4. Chain' /\ Forward' /\ Held' /\ Folders'
  BY <1>1 DEF Chain, Forward, Held, Folders, Active
<1>5. Settled' /\ OriginalsSurvive' /\ FolderComesBack'
  BY <1>1, <1>2 DEF Settled, OriginalsSurvive, FolderComesBack
<1>6. Copies'
  BY <1>1 DEF Copies, Active
<1> QED
  BY <1>3, <1>4, <1>5, <1>6 DEF Parts

LEMMA EarlyParts ==
  ASSUME Hyp,
         \/ \E op \in Op : Stage(op)
         \/ Prepare \/ BeginCommit \/ Check
         \/ \E f \in Files, v \in Values : Edit(f, v) /\ pc \in {"stage", "prepared"}
  PROVE  Parts'
<1> USE DEF Hyp
<1>1. CASE \E op \in Op : Stage(op)
  BY <1>1, BeforeApply DEF Stage, files, memory, history
<1>2. CASE Prepare
  BY <1>2, BeforeApply DEF Prepare, At, Save, history
<1>3. CASE BeginCommit
  BY <1>3, BeforeApply DEF BeginCommit, At, Save, files, history, Parts, Phase
<1>4. CASE Check
  BY <1>4, BeforeApply DEF Check, files, history
<1>5. CASE \E f \in Files, v \in Values : Edit(f, v) /\ pc \in {"stage", "prepared"}
  <2>1. pc = "prepared" => journal.state = "PREPARED" /\ workdir
    BY DEF Parts, Phase
  <2> QED
    BY <1>5, <2>1, BeforeApply DEF Edit, memory
<1> QED
  BY <1>1, <1>2, <1>3, <1>4, <1>5

LEMMA LeaveChecksParts ==
  ASSUME Hyp, NEW to \in {"undo", "apply"}, LeaveChecks(to) PROVE Parts'
<1> USE DEF Hyp
<1>1. /\ pc = "check" /\ pc' = to /\ cursor' = 0 /\ trail' = <<disk>> /\ hadFolder' = folder
      /\ UNCHANGED <<disk, folder, workdir, backup, journal, ops, had, backed, failed>>
  BY DEF LeaveChecks, At, files
<1>2. Len(trail') = 1 /\ trail'[1] = disk /\ disk' = disk
  BY <1>1
<1>3. had = {} /\ backed = {} /\ (\A i \in Indices : backup[i] = Absent)
      /\ journal.state \in {"APPLYING", "ROLLING_BACK"} /\ workdir /\ ~failed
  BY <1>1 DEF Early, Parts, Phase, Copies
<1>4. Phase'
  BY <1>1, <1>3 DEF Phase, Active
<1>5. Chain'
  BY <1>1, <1>2 DEF Chain
<1>6. Forward' /\ Held'
  BY <1>1, <1>2 DEF Forward, CarriedUpTo, Held
<1>7. Settled' /\ FolderComesBack' /\ OriginalsSurvive'
  BY <1>1, <1>2, <1>3 DEF Settled, FolderComesBack, OriginalsSurvive
<1>8. Copies'
  BY <1>1, <1>3 DEF Copies, Reached, Active
<1>9. Folders'
  BY <1>1 DEF Folders, Reached
<1> QED
  BY <1>4, <1>5, <1>6, <1>7, <1>8, <1>9 DEF Parts

LEMMA TakeBackupParts == ASSUME Hyp, TakeBackup PROVE Parts'
<1> USE DEF Hyp
<1> DEFINE n == cursor + 1
           op == ops[n]
<1>1. /\ pc = "apply" /\ pc' = "effect"
      /\ had' = IF Exists(op) THEN had \union {n} ELSE had
      /\ \/ /\ Copied(op)
            /\ backup' = [backup EXCEPT ![n] = disk[op.file]] /\ backed' = backed \union {n}
         \/ ~Copied(op) /\ UNCHANGED <<backup, backed>>
      /\ UNCHANGED <<disk, folder, workdir, journal, ops, cursor, failed, trail, hadFolder>>
  BY DEF TakeBackup, At, Next1, history
<1>2. /\ op \in Op /\ n \in DOMAIN ops /\ n \in Indices /\ cursor \in Nat
      /\ backup \in [Indices -> Values] /\ disk \in [Files -> Values]
  BY BoundAssumption DEF TakeBackup, TypeInv, TypeOK, Indices
<1>3. /\ op.kind # "deleteDir" => op.file \in Files /\ op.file # Folder
      /\ op.kind = "deleteDir" => op.file = Folder
  BY <1>2, OpFile, PathAssumption
<1>4. /\ disk = trail[n] /\ Len(trail) = n /\ backup[n] = Absent /\ n \notin had
      /\ had \subseteq 1..cursor
  BY <1>1, <1>2 DEF Parts, Chain, Copies, Reached
<1> HIDE DEF n, op
<1>5. \A i \in 1..cursor : i # n /\ i \in Indices
  BY <1>2, OpIndices DEF n
<1>6. \A i \in 1..cursor : backup'[i] = backup[i] /\ (i \in had' <=> i \in had)
                           /\ (i \in backed => i \in backed')
  BY <1>1, <1>2, <1>5
<1>7. op.kind # "deleteDir" =>
        IF disk[op.file] # Absent
        THEN n \in had' /\ n \in backed' /\ backup'[n] = disk[op.file]
        ELSE n \notin had' /\ backup'[n] = Absent
  BY <1>1, <1>2, <1>3, <1>4 DEF Copied, Exists
<1>8. op.kind = "deleteDir" => (n \in had' <=> folder) /\ UNCHANGED <<backup, backed>>
  BY <1>1, <1>3, <1>4 DEF Copied, Exists
<1>9. Phase'
  BY <1>1 DEF Parts, Phase, Active
<1>15. Chain' /\ Forward'
  BY <1>1 DEF Parts, Chain, Forward, CarriedUpTo
<1>10. Settled' /\ FolderComesBack'
  BY <1>1 DEF Parts, Settled, FolderComesBack, Phase, Active
<1>11. Copies'
  <2>1. ASSUME NEW i \in 1..n, ops[i].kind # "deleteDir"
        PROVE  IF trail[i][ops[i].file] # Absent
               THEN i \in had' /\ i \in backed' /\ backup'[i] = trail[i][ops[i].file]
               ELSE i \notin had' /\ backup'[i] = Absent
    <3>1. CASE i = n
      BY <2>1, <3>1, <1>7, <1>4 DEF op
    <3>2. CASE i # n
      <4> i \in 1..cursor
        BY <3>2, <1>2 DEF n
      <4> QED
        BY <2>1, <1>1, <1>6 DEF Parts, Copies, Active, Reached
    <3> QED
      BY <3>1, <3>2
  <2>2. \A i \in backed' : i \in DOMAIN ops /\ ops[i].kind # "deleteDir"
    BY <1>1, <1>2 DEF Parts, Copies, Copied, op
  <2>3. Reached' = n
    BY <1>1 DEF Reached, n
  <2>4. had' \subseteq 1..n
    <3>1. n \in 1..n /\ 1..cursor \subseteq 1..n
      BY <1>2 DEF n
    <3>2. had' \subseteq had \union {n}
      BY <1>1
    <3> QED
      BY <3>1, <3>2, <1>4
  <2>5. \A i \in Indices : i > n => backup'[i] = Absent
    <3>1. \A i \in Indices : i > n => i > cursor /\ i # n
      BY <1>2, BoundAssumption DEF n, Indices
    <3>2. \A i \in Indices : i > cursor => backup[i] = Absent
      BY <1>1 DEF Parts, Copies, Reached
    <3>3. \A i \in Indices : i # n => backup'[i] = backup[i]
      BY <1>1, <1>2
    <3> QED
      BY <3>1, <3>2, <3>3
  <2> QED
    BY <1>1, <2>1, <2>2, <2>3, <2>4, <2>5 DEF Copies
<1>12. Held'
  BY <1>1, <1>6 DEF Parts, Held, Active, FirstOn
<1>13. Folders'
  <2> SUFFICES ASSUME hadFolder PROVE Folders'
    BY <1>1 DEF Folders
  <2>1. ASSUME NEW k \in Nat, k <= cursor, WillReturn(k) PROVE WillReturn(k)'
    BY <2>1, <1>1, <1>2, <1>6 DEF WillReturn
  <2>2. ~failed => folder \/ WillReturn(cursor)
    BY <1>1 DEF Parts, Folders, Active
  <2>3. ~failed' => folder' \/ WillReturn(cursor)'
    BY <2>1, <2>2, <1>1, <1>2
  <2>4. ASSUME NEW k \in 1..n, ops[k].kind = "deleteDir", k \notin had'
        PROVE  WillReturn(k - 1)'
    <3>1. CASE k = n
      <4>1. ~folder /\ k - 1 = cursor
        BY <2>4, <3>1, <1>2, <1>8 DEF op, n
      <4> QED
        BY <4>1, <2>3, <1>1 DEF WillReturn, Parts, Phase
    <3>2. CASE k # n
      <4>1. k \in 1..cursor /\ k \notin had
        BY <2>4, <3>2, <1>2, <1>6 DEF n
      <4>2. WillReturn(k - 1)
        BY <4>1, <2>4, <1>1 DEF Parts, Folders, Active, Reached
      <4> QED
        BY <4>1, <4>2, <2>1, <1>2
    <3> QED
      BY <3>1, <3>2
  <2>5. op.kind = "deleteDir" /\ folder => n \in had'
    BY <1>8
  <2> QED
    BY <1>1, <2>3, <2>4, <2>5 DEF Folders, Reached, n, op
<1>14. OriginalsSurvive'
  <2> SUFFICES ASSUME NEW f \in Files, trail[1][f] \notin {disk[f], Absent}
               PROVE  \E i \in DOMAIN ops : ops[i].file = f /\ backup'[i] = trail[1][f]
    BY <1>1 DEF OriginalsSurvive
  <2>1. PICK i \in DOMAIN ops : ops[i].file = f /\ backup[i] = trail[1][f]
    BY <1>1, <1>4, <1>2 DEF Parts, OriginalsSurvive, Phase, Active, n
  <2>2. i # n /\ i \in Indices
    BY <2>1, <1>4, OpIndices
  <2> QED
    BY <2>1, <2>2, <1>1, <1>2
<1> QED
  BY <1>9, <1>15, <1>10, <1>11, <1>12, <1>13, <1>14 DEF Parts

LEMMA EffectParts == ASSUME Hyp, Effect PROVE Parts'
<1> USE DEF Hyp
<1> DEFINE n == cursor + 1
           op == ops[n]
<1>1. /\ pc = "effect" /\ pc' = "apply" /\ cursor' = n /\ trail' = Append(trail, disk')
      /\ UNCHANGED <<workdir, backup, journal, ops, had, backed, failed, hadFolder>>
  BY DEF Effect, At
<1>2. /\ op \in Op /\ n \in DOMAIN ops /\ n \in Indices /\ cursor \in Nat
      /\ disk \in [Files -> Values] /\ trail \in Seq([Files -> Values])
  BY <1>1, OpIndices DEF TypeInv, TypeOK
<1>3. /\ op.kind # "deleteDir" => op.file \in Files /\ op.file # Folder
      /\ op.kind = "deleteDir" => op.file = Folder /\ op.file \notin Files
  BY <1>2, OpFile, PathAssumption
<1>4. disk = trail[n] /\ Len(trail) = n /\ Reached = n
  BY <1>1, <1>2 DEF Parts, Chain, Reached
<1>5. disk' = Carried(op, disk)
  BY <1>2, OpFile DEF Effect, Next1, Written, Carried
<1>6. (op.kind # "deleteDir" /\ folder) => folder'
  BY <1>2, OpFile DEF Effect, Next1, MakesFolder
<1>7. /\ Len(trail') = n + 1 /\ trail'[n + 1] = disk'
      /\ \A k \in 1..n : trail'[k] = trail[k]
  <2>1. disk' \in [Files -> Values]
    BY <1>2, <1>3, <1>5, OpFile DEF Carried
  <2> QED
    BY <1>1, <1>2, <1>4, <2>1
<1>8. op.kind # "deleteDir" => IF disk[op.file] # Absent
                               THEN n \in had /\ backup[n] = disk[op.file]
                               ELSE backup[n] = Absent
  BY <1>1, <1>2, <1>4 DEF Parts, Copies, Active
<1>9. CarriedUpTo(cursor)
  BY <1>1 DEF Parts, Forward
<1>10. 1 \in 1..n
  BY <1>2
<1> HIDE DEF n, op
<1>11. \A i \in 1..n : i = n \/ i \in 1..cursor
  BY <1>2 DEF n
<1>12. \A i \in 1..cursor : i \in 1..n /\ i < n
  BY <1>2 DEF n
<1>13. Phase'
  BY <1>1 DEF Parts, Phase, Active
<1>14. Chain'
  <2>1. ASSUME NEW k \in 1..n
        PROVE  k \in DOMAIN ops /\ trail'[k + 1] = Carried(ops[k], trail'[k])
    <3>1. CASE k = n
      BY <3>1, <1>2, <1>4, <1>5, <1>7 DEF op
    <3>2. CASE k # n
      <4>1. k \in 1..(Len(trail) - 1) /\ k + 1 \in 1..n /\ k \in 1..n
        BY <3>2, <1>2, <1>4, <1>11 DEF n
      <4> QED
        BY <4>1, <1>7 DEF Parts, Chain
    <3> QED
      BY <3>1, <3>2
  <2>2. Len(trail') - 1 = n /\ Len(trail') = cursor' + 1
    BY <1>1, <1>2, <1>7 DEF n
  <2>3. disk' = trail'[cursor' + 1]
    BY <1>1, <1>7
  <2> QED
    BY <1>1, <2>1, <2>2, <2>3 DEF Chain
<1>15. Forward'
  <2>1. ASSUME NEW f \in Files
        PROVE  \/ /\ \A i \in 1..n : ops[i].file # f
                  /\ disk'[f] = trail'[1][f]
               \/ \E i \in 1..n : /\ ops[i].file = f
                                  /\ \A j \in 1..n : ops[j].file = f => j <= i
                                  /\ disk'[f] = ops[i].content
    <3>1. CASE op.file = f
      <4>1. disk'[f] = op.content
        BY <3>1, <1>2, <1>3, <1>5 DEF Carried
      <4>2. n \in 1..n /\ \A j \in 1..n : j <= n
        BY <1>2 DEF n
      <4> QED
        BY <3>1, <4>1, <4>2 DEF op
    <3>2. CASE op.file # f
      <4>1. disk'[f] = disk[f]
        BY <3>2, <1>2, <1>3, <1>5 DEF Carried
      <4> QED
        BY <3>2, <4>1, <1>7, <1>9, <1>10, <1>11, <1>12 DEF CarriedUpTo, op
    <3> QED
      BY <3>1, <3>2
  <2> QED
    BY <1>1, <2>1 DEF Forward, CarriedUpTo
<1>16. Settled' /\ FolderComesBack'
  BY <1>1 DEF Parts, Settled, FolderComesBack, Phase, Active
<1>17. Copies'
  <2>1. \A i \in 1..n : trail'[i] = trail[i]
    BY <1>7
  <2> QED
    BY <1>1, <1>4, <2>1 DEF Parts, Copies, Active, Reached
<1>18. Held'
  <2>1. ASSUME NEW f \in Files, \E i \in 1..n : ops[i].file = f
        PROVE  \E i \in 1..n : FirstOn(i, f) /\ backup[i] = trail[1][f]
    <3>1. CASE \E i \in 1..cursor : ops[i].file = f
      BY <3>1, <1>1, <1>12 DEF Parts, Held, Active
    <3>2. CASE ~(\E i \in 1..cursor : ops[i].file = f)
      <4>1. op.file = f /\ op.kind # "deleteDir"
        BY <2>1, <3>2, <1>3, <1>11 DEF op
      <4>2. disk[f] = trail[1][f]
        BY <3>2, <1>9 DEF CarriedUpTo
      <4>3. FirstOn(n, f)
        BY <3>2, <4>1, <1>2 DEF FirstOn, n, op
      <4>4. n \in 1..n
        BY <1>2 DEF n
      <4> QED
        BY <4>1, <4>2, <4>3, <4>4, <1>8
    <3> QED
      BY <3>1, <3>2
  <2>2. \A f, i : FirstOn(i, f)' <=> FirstOn(i, f)
    BY <1>1 DEF FirstOn
  <2> QED
    BY <1>1, <1>7, <1>10, <2>1, <2>2 DEF Held
<1>19. Folders'
  <2> SUFFICES ASSUME hadFolder PROVE Folders'
    BY <1>1 DEF Folders
  <2>1. ~failed => folder \/ WillReturn(cursor)
    BY <1>1 DEF Parts, Folders, Active
  <2>2. \A k : WillReturn(k)' <=> WillReturn(k)
    BY <1>1 DEF WillReturn
  <2>3. WillReturn(cursor) => WillReturn(n)
    BY <1>12 DEF WillReturn
  <2>4. op.kind = "deleteDir" /\ folder => WillReturn(n)
    <3>1. op.kind = "deleteDir" /\ folder => n \in had
      BY <1>1 DEF Parts, Folders, Active, n, op
    <3> QED
      BY <3>1, <1>2 DEF WillReturn, n, op
  <2>5. ~failed' => folder' \/ WillReturn(n)
    BY <2>1, <2>3, <2>4, <1>1, <1>6
  <2>6. \A k \in 1..n : ops[k].kind = "deleteDir" /\ k \notin had => WillReturn(k - 1)
    BY <1>1, <1>4 DEF Parts, Folders, Active
  <2> QED
    BY <1>1, <2>2, <2>5, <2>6 DEF Folders, Reached
<1>20. OriginalsSurvive'
  <2> SUFFICES ASSUME NEW f \in Files, trail[1][f] \notin {disk'[f], Absent}
               PROVE  \E i \in DOMAIN ops : ops[i].file = f /\ backup[i] = trail[1][f]
    BY <1>1, <1>7, <1>10 DEF OriginalsSurvive
  <2>1. trail # <<>> /\ journal.state \notin {"COMMITTED", "ROLLED_BACK"}
    BY <1>1, <1>2, <1>4 DEF Parts, Phase, Active, n
  <2>2. CASE trail[1][f] # disk[f]
    BY <2>1, <2>2 DEF Parts, OriginalsSurvive
  <2>3. CASE trail[1][f] = disk[f]
    <3>1. op.file = f /\ op.kind # "deleteDir"
      BY <2>3, <1>2, <1>3, <1>5 DEF Carried
    <3> QED
      BY <2>3, <3>1, <1>2, <1>8 DEF op
  <2> QED
    BY <2>2, <2>3
<1> QED
  BY <1>13, <1>14, <1>15, <1>16, <1>17, <1>18, <1>19, <1>20 DEF Parts

LEMMA FailsParts == ASSUME Hyp, CopyFails \/ EffectFails PROVE Parts'
<1> USE DEF Hyp
<1>1. /\ pc \in {"apply", "effect"} /\ pc' = "undo" /\ (folder => folder')
      /\ UNCHANGED <<disk, workdir, backup, journal, ops, cursor, had, backed, failed,
                     trail, hadFolder>>
  BY DEF CopyFails, EffectFails, At, files, history, MakesFolder
<1>2. cursor \in Nat /\ 1..cursor \subseteq 1..Reached /\ Reached' = cursor
  BY <1>1, OpIndices DEF Reached
<1>3. Phase' /\ Settled'
  BY <1>1 DEF Parts, Phase, Settled, Active
<1>4. Chain' /\ Forward'
  BY <1>1 DEF Parts, Chain, Forward, CarriedUpTo
<1>5. Copies'
  BY <1>1, <1>2 DEF Parts, Copies, Active
<1>6. Held'
  BY <1>1 DEF Parts, Held, FirstOn, Active
<1>7. Folders'
  BY <1>1, <1>2 DEF Parts, Folders, WillReturn, Active
<1>8. OriginalsSurvive' /\ FolderComesBack'
  BY <1>1 DEF Parts, OriginalsSurvive, FolderComesBack, Phase, Active
<1> QED
  BY <1>3, <1>4, <1>5, <1>6, <1>7, <1>8 DEF Parts

LEMMA FinishApplyParts == ASSUME Hyp, FinishApply PROVE Parts'
<1> USE DEF Hyp
<1>1. /\ pc = "apply" /\ pc' = "clean" /\ cursor = Len(ops) /\ journal'.state = "COMMITTED"
      /\ UNCHANGED <<disk, folder, workdir, backup, ops, cursor, had, backed, failed,
                     trail, hadFolder>>
  BY DEF FinishApply, At, Save, files, history
<1>2. trail # <<>>
  BY <1>1, OpIndices DEF Parts, Chain
<1>3. Promise!Achieves(disk, trail[1], ops)
  <2>1. DOMAIN ops = 1..cursor /\ \A i \in 1..cursor : i \in Nat
    BY <1>1, OpIndices
  <2>2. CarriedUpTo(cursor)
    BY <1>1 DEF Parts, Forward
  <2>3. ASSUME NEW f \in Files
        PROVE  \/ Promise!On(ops, f) = {} /\ disk[f] = trail[1][f]
               \/ \E i \in Promise!On(ops, f) : /\ \A j \in Promise!On(ops, f) : j <= i
                                                /\ disk[f] = ops[i].content
    <3>1. \A i : i \in Promise!On(ops, f) <=> i \in 1..cursor /\ ops[i].file = f
      BY <2>1 DEF Promise!On
    <3>2. CASE (\A i \in 1..cursor : ops[i].file # f) /\ disk[f] = trail[1][f]
      BY <3>1, <3>2
    <3>3. CASE \E i \in 1..cursor : /\ ops[i].file = f
                                   /\ \A j \in 1..cursor : ops[j].file = f => j <= i
                                   /\ disk[f] = ops[i].content
      BY <3>1, <3>3
    <3> QED
      BY <2>2, <3>2, <3>3 DEF CarriedUpTo
  <2> QED
    BY <2>3 DEF Promise!Achieves
<1>4. Phase' /\ Forward' /\ Held' /\ Folders' /\ OriginalsSurvive' /\ FolderComesBack'
  BY <1>1 DEF Parts, Phase, Forward, Held, Folders, OriginalsSurvive, FolderComesBack, Active
<1>5. Chain' /\ Copies'
  BY <1>1 DEF Parts, Chain, Copies, Active
<1>6. Settled'
  BY <1>1, <1>2, <1>3 DEF Settled
<1> QED
  BY <1>4, <1>5, <1>6 DEF Parts

LEMMA BeginRollbackParts == ASSUME Hyp, BeginRollback PROVE Parts'
<1> USE DEF Hyp
<1>1. /\ pc = "undo" /\ pc' = "revert" /\ journal'.state = "ROLLING_BACK"
      /\ UNCHANGED <<disk, folder, workdir, backup, ops, cursor, had, backed, failed,
                     trail, hadFolder>>
  BY DEF BeginRollback, At, Save, files, history
<1>2. cursor \in Nat
  BY OpIndices
<1>3. Phase' /\ Settled' /\ Forward'
  BY <1>1 DEF Parts, Phase, Settled, Forward, Active
<1>4. Chain'
  BY <1>1, <1>2 DEF Parts, Chain
<1>5. Copies' /\ Held'
  BY <1>1 DEF Parts, Copies, Held, FirstOn, Reached, Active
<1>6. Folders'
  BY <1>1 DEF Parts, Folders, WillReturn, Reached, Active
<1>7. OriginalsSurvive' /\ FolderComesBack'
  BY <1>1 DEF Parts, OriginalsSurvive, FolderComesBack, Phase, Active
<1> QED
  BY <1>3, <1>4, <1>5, <1>6, <1>7 DEF Parts

LEMMA RevertParts == ASSUME Hyp, Revert PROVE Parts'
<1> USE DEF Hyp
<1> DEFINE k == cursor
           op == ops[k]
<1>1. /\ pc = "revert" /\ pc' = "revert" /\ k > 0 /\ cursor' = k - 1
      /\ UNCHANGED <<workdir, journal, ops, had, backed, trail, hadFolder>>
  BY DEF Revert, history
<1>2. /\ op \in Op /\ k \in DOMAIN ops /\ k \in Indices /\ cursor \in Nat
      /\ disk \in [Files -> Values] /\ trail \in Seq([Files -> Values])
      /\ backup \in [Indices -> Values] /\ 1..k \subseteq Indices
  BY <1>1, OpIndices DEF TypeInv, TypeOK
<1>3. /\ op.kind # "deleteDir" => op.file \in Files
      /\ op.kind = "deleteDir" => op.file \notin Files
  BY <1>2, OpFile, PathAssumption
<1>4. workdir /\ Reached = k /\ Reached' = k - 1
  BY <1>1 DEF Parts, Phase, Active, Reached
<1>5. Len(trail) >= k + 1 /\ (~failed => disk = trail[k + 1])
      /\ trail[k + 1] = Carried(op, trail[k]) /\ trail[k] \in [Files -> Values]
  BY <1>1, <1>2 DEF Parts, Chain
<1>6. op.kind # "deleteDir" =>
        IF trail[k][op.file] # Absent
        THEN k \in had /\ k \in backed /\ backup[k] = trail[k][op.file]
        ELSE k \notin had /\ backup[k] = Absent
  BY <1>1, <1>2, <1>4 DEF Parts, Copies, Active
<1>7. op.kind = "deleteDir" => k \notin backed
  BY <1>1 DEF Parts, Copies
<1>8. Restore \/ Recreate \/ Remove \/ NothingToDo
  BY DEF Revert
<1>9. ASSUME op.kind # "deleteDir"
      PROVE  /\ disk' = [disk EXCEPT ![op.file] = trail[k][op.file]]
             /\ backup' \in {backup, [backup EXCEPT ![k] = Absent]}
             /\ failed' = failed /\ (folder => folder')
  <2>1. CASE trail[k][op.file] # Absent
    <3>1. HasBackup(k) /\ k \in had
      BY <1>4, <1>6, <1>9, <2>1 DEF HasBackup
    <3>2. Restore
      BY <1>8, <1>9, <3>1 DEF Recreate, Remove, NothingToDo, Last1
    <3> QED
      BY <1>6, <1>9, <2>1, <3>2 DEF Restore, Last1, MakesFolder
  <2>2. CASE trail[k][op.file] = Absent
    <3>1. k \notin had
      BY <1>6, <1>9, <2>2
    <3>2. Remove
      BY <1>8, <3>1 DEF Restore, HasBackup, Recreate, NothingToDo
    <3> QED
      BY <1>9, <2>2, <3>2 DEF Remove, Last1
  <2> QED
    BY <2>1, <2>2
<1>10. ASSUME op.kind = "deleteDir"
       PROVE  disk' = disk /\ backup' = backup /\ (failed => failed') /\ (k \in had => folder')
  <2>1. Recreate \/ Remove
    BY <1>7, <1>8, <1>10 DEF Restore, HasBackup, NothingToDo, Last1
  <2>2. CASE Recreate
    BY <2>2 DEF Recreate
  <2>3. CASE Remove
    <3>1. disk' = disk /\ backup' = backup /\ k \notin had
      BY <1>10, <2>3 DEF Remove, Last1
    <3>2. failed => failed'
      BY <1>10, <2>3 DEF Remove, Last1
    <3> QED
      BY <3>1, <3>2
  <2> QED
    BY <2>1, <2>2, <2>3
<1> HIDE DEF k, op
<1>11. \A i \in 1..(k - 1) : i \in 1..k /\ i # k /\ backup'[i] = backup[i]
  BY <1>2, <1>9, <1>10 DEF k
<1>12. \A i \in 1..k : i = k \/ i \in 1..(k - 1)
  BY <1>2 DEF k
<1>13. Phase' /\ Forward'
  BY <1>1 DEF Parts, Phase, Forward, Active
<1>14. Settled' /\ FolderComesBack'
  BY <1>1 DEF Parts, Phase, Settled, FolderComesBack, Active
<1>15. Chain'
  <2>1. ASSUME ~failed' PROVE disk' = trail[k]
    <3>1. ~failed /\ disk = Carried(op, trail[k])
      BY <2>1, <1>5, <1>9, <1>10
    <3> QED
      BY <3>1, <1>3, <1>5, <1>9, <1>10 DEF Carried
  <2>2. Len(trail') >= cursor' + 1 /\ cursor' + 1 = k
    BY <1>1, <1>2, <1>5 DEF k
  <2>3. \A j \in 1..(Len(trail) - 1) :
           j \in DOMAIN ops /\ trail[j + 1] = Carried(ops[j], trail[j])
    BY DEF Parts, Chain
  <2> QED
    BY <1>1, <2>1, <2>2, <2>3 DEF Chain
<1>16. Copies'
  <2>1. \A i \in 1..k : ops[i].kind # "deleteDir" =>
                 IF trail[i][ops[i].file] # Absent
                 THEN i \in had /\ i \in backed /\ backup[i] = trail[i][ops[i].file]
                 ELSE i \notin had /\ backup[i] = Absent
    BY <1>1, <1>4 DEF Parts, Copies, Active
  <2>2. \A i \in backed : i \in DOMAIN ops /\ ops[i].kind # "deleteDir"
    BY DEF Parts, Copies
  <2> QED
    BY <1>1, <1>4, <1>11, <2>1, <2>2 DEF Copies
<1>17. \A f \in Files : (\E i \in 1..k : ops[i].file = f)
                          => \E i \in 1..k : FirstOn(i, f) /\ backup[i] = trail[1][f]
  BY <1>1 DEF Parts, Held, Active, k
<1>18. Held'
  <2>1. ASSUME NEW f \in Files, \E i \in 1..(k - 1) : ops[i].file = f
        PROVE  \E i \in 1..(k - 1) : FirstOn(i, f) /\ backup'[i] = trail[1][f]
    <3>1. PICK i \in 1..k : FirstOn(i, f) /\ backup[i] = trail[1][f]
      BY <2>1, <1>11, <1>17
    <3>2. i # k
      BY <2>1, <3>1 DEF FirstOn
    <3> QED
      BY <3>1, <3>2, <1>11, <1>12
  <2>2. \A f, i : FirstOn(i, f)' <=> FirstOn(i, f)
    BY <1>1 DEF FirstOn
  <2> QED
    BY <1>1, <2>1, <2>2 DEF Held
<1>19. Folders'
  <2> SUFFICES ASSUME hadFolder PROVE Folders'
    BY <1>1 DEF Folders
  <2>1. /\ ~failed => folder \/ WillReturn(k)
        /\ \A j \in 1..k : ops[j].kind = "deleteDir" /\ j \notin had => WillReturn(j - 1)
    BY <1>1, <1>4 DEF Parts, Folders, Active, k
  <2>2. \A j : WillReturn(j)' <=> WillReturn(j)
    BY <1>1 DEF WillReturn
  <2>3. ASSUME ~failed' PROVE folder' \/ WillReturn(k - 1)
    <3>1. CASE op.kind = "deleteDir"
      <4>1. k \in 1..k
        BY <1>1, <1>2 DEF k
      <4> QED
        BY <3>1, <4>1, <2>1, <1>10 DEF op
    <3>2. CASE op.kind # "deleteDir"
      <4>1. WillReturn(k) => WillReturn(k - 1)
        BY <3>2, <1>12 DEF WillReturn, op
      <4> QED
        BY <2>3, <3>2, <4>1, <2>1, <1>9
    <3> QED
      BY <3>1, <3>2
  <2> QED
    BY <1>1, <1>4, <1>11, <2>1, <2>2, <2>3 DEF Folders
<1>20. OriginalsSurvive'
  <2> SUFFICES ASSUME NEW f \in Files, trail[1][f] \notin {disk'[f], Absent}
               PROVE  \E i \in DOMAIN ops : ops[i].file = f /\ backup'[i] = trail[1][f]
    BY <1>1 DEF OriginalsSurvive
  <2>1. CASE op.file # f
    <3>1. disk'[f] = disk[f]
      BY <2>1, <1>2, <1>3, <1>9, <1>10
    <3>2. trail # <<>> /\ journal.state \notin {"COMMITTED", "ROLLED_BACK"}
      BY <1>1, <1>2, <1>5 DEF Parts, Phase, Active, k
    <3>3. PICK i \in DOMAIN ops : ops[i].file = f /\ backup[i] = trail[1][f]
      BY <3>1, <3>2 DEF Parts, OriginalsSurvive
    <3>4. i # k /\ i \in Indices
      BY <2>1, <3>3, OpIndices DEF op
    <3>5. backup'[i] = backup[i]
      BY <3>4, <1>2, <1>9, <1>10
    <3> QED
      BY <3>3, <3>5
  <2>2. CASE op.file = f
    <3>1. op.kind # "deleteDir" /\ k \in 1..k
      BY <2>2, <1>1, <1>2, <1>3 DEF k
    <3>2. PICK i \in 1..k : FirstOn(i, f) /\ backup[i] = trail[1][f]
      BY <2>2, <3>1, <1>17 DEF op
    <3>3. disk'[f] = trail[k][f]
      BY <2>2, <3>1, <1>2, <1>3, <1>9
    <3>4. i # k
      BY <2>2, <3>1, <3>2, <3>3, <1>6
    <3>5. i \in 1..(k - 1) /\ i \in DOMAIN ops /\ ops[i].file = f
      BY <3>2, <3>4, <1>12, OpIndices DEF FirstOn, k
    <3> QED
      BY <3>2, <3>5, <1>11
  <2> QED
    BY <2>1, <2>2
<1> QED
  BY <1>13, <1>14, <1>15, <1>16, <1>18, <1>19, <1>20 DEF Parts

LEMMA RevertFailsParts == ASSUME Hyp, RevertFails PROVE Parts'
<1> USE DEF Hyp
<1>1. /\ pc = "revert" /\ pc' = "revert" /\ cursor > 0 /\ cursor' = cursor - 1 /\ failed'
      /\ UNCHANGED <<disk, folder, workdir, backup, journal, ops, had, backed, trail, hadFolder>>
  BY DEF RevertFails, files, history
<1>2. cursor \in Nat
  BY OpIndices
<1>3. Phase' /\ Forward' /\ Settled' /\ OriginalsSurvive' /\ FolderComesBack'
  BY <1>1 DEF Parts, Phase, Forward, Settled, OriginalsSurvive, FolderComesBack, Active
<1>4. Chain'
  BY <1>1, <1>2 DEF Parts, Chain
<1>5. \A i \in 1..(cursor - 1) : i \in 1..cursor
  BY <1>2
<1>6. Copies' /\ Folders'
  BY <1>1, <1>5 DEF Parts, Copies, Folders, WillReturn, Reached, Active
<1>7. Held'
  <2>1. ASSUME NEW f \in Files, \E i \in 1..(cursor - 1) : ops[i].file = f
        PROVE  \E i \in 1..(cursor - 1) : FirstOn(i, f) /\ backup[i] = trail[1][f]
    <3>1. PICK i \in 1..cursor : FirstOn(i, f) /\ backup[i] = trail[1][f]
      BY <2>1, <1>1, <1>5 DEF Parts, Held, Active
    <3>2. i # cursor
      BY <2>1, <3>1 DEF FirstOn
    <3> QED
      BY <3>1, <3>2, <1>2
  <2>2. \A f, i : FirstOn(i, f)' <=> FirstOn(i, f)
    BY <1>1 DEF FirstOn
  <2> QED
    BY <1>1, <2>1, <2>2 DEF Held
<1> QED
  BY <1>3, <1>4, <1>6, <1>7 DEF Parts

LEMMA EndRollbackParts == ASSUME Hyp, EndRollback PROVE Parts'
<1> USE DEF Hyp
<1>1. /\ pc = "revert" /\ cursor = 0
      /\ \/ failed /\ pc' = "done" /\ journal'.state = "RECOVERY_REQUIRED"
         \/ ~failed /\ pc' = "clean" /\ journal'.state = "ROLLED_BACK"
      /\ UNCHANGED <<disk, folder, workdir, backup, ops, cursor, had, backed, failed,
                     trail, hadFolder>>
  BY DEF EndRollback, At, Save, files, history
<1>2. trail # <<>> /\ (~failed => disk = trail[1])
  BY <1>1 DEF Parts, Chain
<1>3. hadFolder /\ ~failed => folder
  BY <1>1 DEF Parts, Folders, WillReturn, Active
<1>4. Phase' /\ Forward' /\ Held' /\ Folders' /\ FolderComesBack'
  BY <1>1, <1>3 DEF Phase, Forward, Held, Folders, FolderComesBack, Active
<1>5. Chain' /\ Copies'
  BY <1>1 DEF Parts, Chain, Copies, Active
<1>6. Settled'
  BY <1>1, <1>2 DEF Settled
<1>7. OriginalsSurvive'
  BY <1>1 DEF Parts, OriginalsSurvive, Phase, Active
<1> QED
  BY <1>4, <1>5, <1>6, <1>7 DEF Parts

LEMMA CleanupParts == ASSUME Hyp, Cleanup PROVE Parts'
<1> USE DEF Hyp
<1>1. /\ pc = "clean" /\ pc' = "done"
      /\ UNCHANGED <<disk, folder, journal, ops, backed, trail, hadFolder>>
  BY DEF Cleanup, At, history
<1>2. Phase' /\ Forward' /\ Settled' /\ Held' /\ Folders' /\ OriginalsSurvive' /\ FolderComesBack'
  BY <1>1 DEF Parts, Phase, Forward, Settled, Held, Folders, OriginalsSurvive,
              FolderComesBack, Active
<1>3. Chain' /\ Copies'
  BY <1>1 DEF Parts, Chain, Copies, Active
<1> QED
  BY <1>2, <1>3 DEF Parts

LEMMA CrashParts == ASSUME Hyp, Crash PROVE Parts'
<1> USE DEF Hyp
<1>1. /\ pc' = "crashed" /\ backed' = {}
      /\ journal' = journal \/ (Saving /\ journal'.state = "torn")
      /\ UNCHANGED <<disk, folder, backup, ops, trail, hadFolder>>
  BY DEF Crash, history
<1>2. Saving => trail = <<>> \/ journal.state \notin {"COMMITTED", "ROLLED_BACK"}
  BY DEF Saving, Early, Parts, Phase, Active
<1>3. Phase' /\ Forward' /\ Settled' /\ Held' /\ Folders' /\ FolderComesBack'
  BY <1>1 DEF Parts, Phase, Forward, Settled, Held, Folders, FolderComesBack, Active
<1>4. Chain' /\ Copies'
  BY <1>1 DEF Parts, Chain, Copies, Active
<1>5. OriginalsSurvive'
  BY <1>1, <1>2 DEF Parts, OriginalsSurvive
<1> QED
  BY <1>3, <1>4, <1>5 DEF Parts

LEMMA PartsStep == ASSUME Hyp, Step PROVE Parts'
<1>1. CASE Mismatch \/ BeginApply
  BY <1>1, LeaveChecksParts DEF Mismatch, BeginApply
<1>2. CASE UNCHANGED vars
  <2>1. UNCHANGED <<disk, folder, workdir, backup, journal, ops, pc, cursor, had, backed, failed,
                    late, recovers, trail, hadFolder>>
    BY <1>2 DEF vars, files, memory, counts, history
  <2>2. UNCHANGED <<Phase, Chain, Forward, Settled>>
    BY <2>1 DEF Phase, Chain, Forward, CarriedUpTo, Settled, Active
  <2>3. UNCHANGED <<Copies, Held>>
    BY <2>1 DEF Copies, Held, FirstOn, Reached, Active
  <2>4. UNCHANGED <<Folders, OriginalsSurvive, FolderComesBack>>
    BY <2>1 DEF Folders, OriginalsSurvive, FolderComesBack, WillReturn, Reached, Active,
                Undisturbed
  <2> QED
    BY <2>2, <2>3, <2>4 DEF Hyp, Parts
<1> QED
  BY <1>1, <1>2, EarlyParts, TakeBackupParts, EffectParts, FailsParts, FinishApplyParts,
     BeginRollbackParts, RevertParts, RevertFailsParts, EndRollbackParts, CleanupParts,
     CrashParts DEF Step

LEMMA InvStep == Inv /\ [Next]_vars => Inv'
<1> SUFFICES ASSUME Inv, [Next]_vars PROVE Inv'
  OBVIOUS
<1>1. TypeInv' /\ Early'
  BY TypeStep, EarlyStep DEF Inv
<1>2. Undisturbed' => Parts'
  BY StaysUndisturbed, PartsStep DEF Inv, Hyp
<1> QED
  BY <1>1, <1>2 DEF Inv

LEMMA Invariant == Spec => []Inv
BY InitInv, InvStep, PTL DEF Spec

\* Whatever call fails and wherever the writer crashes, what a file held is on
\* the disk or in a backup until the transaction is settled.
THEOREM NothingIsLost == Spec => []OriginalsSurvive
<1>1. Inv => OriginalsSurvive
  BY DEF Inv, Parts, OriginalsSurvive
<1> QED
  BY Invariant, <1>1, PTL

\* A clean rollback leaves the directory that was there.
THEOREM FolderRestored == Spec => []FolderComesBack
<1>1. Inv => FolderComesBack
  BY DEF Inv, Parts, FolderComesBack
<1> QED
  BY Invariant, <1>1, PTL

\* Files in between are reported by listPending, so doctor asks for recovery.
THEOREM HalfDoneReported == Spec => []HalfDoneIsPending
<1>1. Inv => HalfDoneIsPending
  <2> SUFFICES ASSUME Inv, Undisturbed, trail # <<>>, disk # trail[1],
                      ~Promise!Achieves(disk, trail[1], ops)
               PROVE  Pending
    BY DEF HalfDoneIsPending
  <2>1. journal.state \in JournalState
    BY DEF Inv, TypeInv, TypeOK
  <2>2. journal.state \notin {"COMMITTED", "ROLLED_BACK", "none"}
    BY DEF Inv, Parts, Settled, Phase
  <2> QED
    BY <2>1, <2>2 DEF Pending, JournalState
<1> QED
  BY Invariant, <1>1, PTL

-----------------------------------------------------------------------------
(***************************************************************************)
(* No file is touched unless the expectations held.                        *)
(***************************************************************************)
AllMatch(old, n) ==
  \A i \in 1..n : ops[i].expected # Unchecked => ops[i].expected = old[ops[i].file]

Verified == ~late => /\ pc = "check" => AllMatch(disk, cursor)
                     /\ pc \in {"apply", "effect"} \/ Len(trail) > 1
                          => AllMatch(trail[1], Len(ops))
                     /\ pc \in {"apply", "effect"} => trail # <<>>

LEMMA VerifiedStep == TypeInv /\ Early /\ Verified /\ [Next]_vars => Verified'
<1> SUFFICES ASSUME TypeInv, Early, Verified, [Next]_vars PROVE Verified'
  OBVIOUS
<1>0. Len(ops) \in Nat /\ cursor \in Nat /\ ops \in Seq(Op) /\ trail \in Seq([Files -> Values])
  BY DEF TypeInv, TypeOK
<1>1. CASE \E op \in Op : Stage(op)
  BY <1>1 DEF Stage, Early, Verified, memory, history
<1>2. CASE Prepare
  BY <1>2 DEF Prepare, At, Early, Verified, history
<1>3. CASE BeginCommit
  BY <1>3 DEF BeginCommit, At, Early, Verified, AllMatch, history
<1>4. CASE Check
  <2>1. /\ pc = "check" /\ cursor' = cursor + 1 /\ Matches(ops[cursor + 1])
        /\ UNCHANGED <<disk, ops, pc, trail, late>>
    BY <1>4 DEF Check, files, history
  <2>2. trail = <<>>
    BY <2>1 DEF Early
  <2>3. \A i \in 1..(cursor + 1) : i \in 1..cursor \/ i = cursor + 1
    BY <1>0
  <2>4. ~late => AllMatch(disk, cursor + 1)
    BY <2>1, <2>3 DEF Verified, AllMatch, Matches
  <2> QED
    BY <2>1, <2>2, <2>4 DEF Verified, AllMatch
<1>5. CASE Mismatch
  BY <1>5 DEF Mismatch, LeaveChecks, At, Verified
<1>6. CASE BeginApply
  <2>1. /\ pc = "check" /\ pc' = "apply" /\ cursor = Len(ops) /\ trail' = <<disk>>
        /\ UNCHANGED <<ops, late>>
    BY <1>6 DEF BeginApply, LeaveChecks, At
  <2>2. trail' # <<>> /\ trail'[1] = disk
    BY <2>1
  <2> QED
    BY <2>1, <2>2 DEF Verified, AllMatch
<1>7. CASE TakeBackup
  BY <1>7 DEF TakeBackup, At, Verified, AllMatch, history
<1>8. CASE Effect
  <2>1. /\ pc = "effect" /\ pc' = "apply" /\ trail' = Append(trail, disk')
        /\ UNCHANGED <<ops, late>>
    BY <1>8 DEF Effect, At
  <2>2. disk' \in [Files -> Values]
    BY TypeStep DEF TypeInv, TypeOK
  <2>3. ~late => trail' # <<>> /\ trail'[1] = trail[1]
    BY <1>0, <2>1, <2>2 DEF Verified
  <2> QED
    BY <2>1, <2>3 DEF Verified, AllMatch
<1>9. CASE CopyFails \/ EffectFails \/ FinishApply
  BY <1>9 DEF CopyFails, EffectFails, FinishApply, At, Verified, AllMatch, history
<1>10. CASE BeginRollback \/ Revert \/ RevertFails
  BY <1>10 DEF BeginRollback, Revert, RevertFails, At, Verified, AllMatch, history
<1>11. CASE EndRollback \/ Cleanup \/ Crash
  BY <1>11 DEF EndRollback, Cleanup, Crash, At, Verified, AllMatch, history
<1>12. ASSUME NEW reached, NEW completes, Recover(reached, completes) PROVE Verified'
  BY <1>12 DEF Recover, Verified, AllMatch, memory, history
<1>13. CASE \E f \in Files, v \in Values : Edit(f, v)
  BY <1>13 DEF Edit, Early, Verified, AllMatch, memory
<1>14. CASE UNCHANGED vars
  BY <1>14 DEF vars, files, memory, history, Verified, AllMatch
<1> QED
  BY <1>1, <1>2, <1>3, <1>4, <1>5, <1>6, <1>7, <1>8, <1>9, <1>10, <1>11, <1>12, <1>13, <1>14
     DEF Next, RecoverRollback, RecoverContinue

\* No file is changed unless every precondition held before the first change.
THEOREM PreconditionsHeld == Spec => []VerifiedBeforeTouching
<1>1. Init => Verified
  BY DEF Init, Verified
<1>2. Inv /\ Verified /\ [Next]_vars => Verified'
  BY VerifiedStep DEF Inv
<1>3. Inv /\ Verified => VerifiedBeforeTouching
  BY DEF Inv, Verified, VerifiedBeforeTouching, AllMatch, TypeInv, TypeOK
<1> QED
  BY Invariant, <1>1, <1>2, <1>3, PTL DEF Spec

-----------------------------------------------------------------------------
(***************************************************************************)
(* JournaledTransaction implements AtomicUpdate.                           *)
(***************************************************************************)
LEMMA InitPromise == Init => Promise!Init
BY DEF Init, Promise!Init, Vouched, Outcome, Undisturbed

LEMMA QuietPromise ==
  ASSUME Undisturbed, Undisturbed', UNCHANGED ops, Outcome' = Outcome,
         \/ UNCHANGED <<disk, trail>>
         \/ Outcome = "open" /\ trail = <<>> /\ disk' = disk /\ trail' = <<disk>>
         \/ Outcome = "open" /\ trail # <<>> /\ trail' # <<>> /\ trail'[1] = trail[1]
  PROVE  UNCHANGED Promise!vars
BY DEF Promise!vars, Vouched

LEMMA PromiseStep == Inv /\ Inv' /\ [Next]_vars => [Promise!Next]_(Promise!vars)
<1> SUFFICES ASSUME Inv, Inv', [Next]_vars PROVE [Promise!Next]_(Promise!vars)
  OBVIOUS
<1>1. CASE ~Undisturbed'
  BY <1>1 DEF Promise!Next, Promise!Disturb, Outcome
<1>2. CASE Undisturbed'
  <2>1. Undisturbed /\ Step /\ Parts /\ Parts' /\ TypeInv /\ TypeInv' /\ Early
    BY <1>2, StaysUndisturbed DEF Inv
  <2>2. ASSUME NEW op \in Op, Stage(op) PROVE Promise!Stage
    <3>1. trail = <<>> /\ Outcome = "open" /\ ops' = Append(ops, op)
          /\ UNCHANGED <<disk, journal, trail, late, recovers>>
      BY <2>1, <2>2 DEF Stage, files, memory, counts, history, Early, Parts, Phase, Outcome
    <3> QED
      BY <3>1 DEF Promise!Stage, Vouched, Outcome, Undisturbed
  <2>3. CASE Prepare \/ BeginCommit \/ Check
    <3>1. UNCHANGED <<disk, trail, ops>> /\ Outcome = "open" /\ Outcome' = "open"
      BY <2>1, <2>3, <1>2 DEF Prepare, BeginCommit, Check, At, Save, files, history, Parts,
                              Phase, Outcome
    <3> QED
      BY <1>2, <2>1, <3>1, QuietPromise
  <2>4. CASE Mismatch \/ BeginApply
    <3>1. disk' = disk /\ trail = <<>> /\ trail' = <<disk>> /\ UNCHANGED <<ops, journal>>
          /\ Outcome = "open"
      BY <2>1, <2>4 DEF Mismatch, BeginApply, LeaveChecks, At, files, Early, Parts, Phase,
                        Outcome
    <3> QED
      BY <1>2, <2>1, <3>1, QuietPromise DEF Outcome
  <2>5. CASE TakeBackup \/ CopyFails \/ EffectFails \/ RevertFails \/ Cleanup
    <3>1. UNCHANGED <<disk, trail, ops, journal>>
      BY <2>5 DEF TakeBackup, CopyFails, EffectFails, RevertFails, Cleanup, files, history
    <3> QED
      BY <1>2, <2>1, <3>1, QuietPromise DEF Outcome
  <2>6. CASE Effect
    <3>1. /\ UNCHANGED <<ops, journal>> /\ trail' = Append(trail, disk')
          /\ Outcome = "open" /\ Len(trail) >= 1 /\ trail \in Seq([Files -> Values])
          /\ disk' \in [Files -> Values]
      BY <2>1, <2>6, OpIndices DEF Effect, At, Parts, Phase, Chain, Active, Outcome,
                                   TypeInv, TypeOK
    <3>2. trail # <<>> /\ trail' # <<>> /\ trail'[1] = trail[1]
      BY <3>1
    <3> QED
      BY <1>2, <2>1, <3>1, <3>2, QuietPromise DEF Outcome
  <2>7. CASE Revert
    <3>1. UNCHANGED <<ops, journal, trail>> /\ Outcome = "open" /\ trail # <<>>
      BY <2>1, <2>7, OpIndices DEF Revert, history, Parts, Phase, Chain, Active, Outcome
    <3> QED
      BY <1>2, <2>1, <3>1, QuietPromise DEF Outcome
  <2>8. CASE BeginRollback
    <3>1. UNCHANGED <<disk, trail, ops>> /\ Outcome = "open" /\ Outcome' = "open"
      BY <1>2, <2>1, <2>8 DEF BeginRollback, At, Save, files, history, Parts, Phase, Active,
                              Outcome
    <3> QED
      BY <1>2, <2>1, <3>1, QuietPromise
  <2>9. CASE FinishApply
    <3>1. UNCHANGED <<disk, trail, ops>> /\ Outcome = "open" /\ Outcome' = "committed"
      BY <1>2, <2>1, <2>9 DEF FinishApply, At, Save, files, history, Parts, Phase, Active,
                              Outcome
    <3>2. trail # <<>> /\ Promise!Achieves(disk, trail[1], ops)
      BY <2>1, <2>9, <3>1 DEF FinishApply, Save, Parts, Settled, Promise!Achieves, Promise!On
    <3>3. disk \in [Files -> Values] /\ Vouched = trail[1] /\ Vouched' = disk
      BY <2>1, <3>1, <3>2 DEF Vouched, TypeInv, TypeOK
    <3> QED
      BY <3>1, <3>2, <3>3 DEF Promise!Next, Promise!Commit, Promise!Achieves, Promise!On
  <2>10. CASE EndRollback
    <3>1. /\ UNCHANGED <<disk, trail, ops>> /\ Outcome = "open"
          /\ journal'.state \in {"RECOVERY_REQUIRED", "ROLLED_BACK"}
      BY <2>1, <2>10 DEF EndRollback, At, Save, files, history, Parts, Phase, Active, Outcome
    <3>2. CASE journal'.state = "RECOVERY_REQUIRED"
      BY <1>2, <2>1, <3>1, <3>2, QuietPromise DEF Outcome
    <3>3. CASE journal'.state = "ROLLED_BACK"
      <4>1. trail # <<>> /\ disk = trail[1]
        BY <2>1, <3>1, <3>3 DEF Parts, Settled
      <4>2. Outcome' = "aborted" /\ Vouched = disk /\ Vouched' = disk
        BY <1>2, <3>1, <3>3, <4>1 DEF Outcome, Vouched
      <4> QED
        BY <3>1, <4>2 DEF Promise!Next, Promise!Abort
    <3> QED
      BY <3>1, <3>2, <3>3
  <2>11. CASE Crash
    <3>1. UNCHANGED <<disk, trail, ops>>
      BY <2>11 DEF Crash, history
    <3>2. journal' = journal \/ (Saving /\ journal'.state = "torn")
      BY <2>11 DEF Crash
    <3>3. Saving => journal.state \notin {"COMMITTED", "ROLLED_BACK"}
      BY <2>1 DEF Saving, Parts, Phase, Active
    <3>4. Outcome' = Outcome
      BY <1>2, <2>1, <3>2, <3>3 DEF Outcome
    <3> QED
      BY <1>2, <2>1, <3>1, <3>4, QuietPromise
  <2>12. ASSUME NEW f \in Files, NEW v \in Values, Edit(f, v), pc \in {"stage", "prepared"}
         PROVE  Promise!Edit
    <3>1. trail = <<>> /\ Outcome = "open" /\ disk' = [disk EXCEPT ![f] = v]
          /\ UNCHANGED <<ops, journal, trail>>
      BY <2>1, <2>12 DEF Edit, Early, Parts, Phase, Outcome
    <3> QED
      BY <1>2, <2>1, <3>1 DEF Promise!Edit, Vouched, Outcome
  <2>13. CASE UNCHANGED vars
    BY <1>2, <2>1, <2>13, QuietPromise DEF vars, files, history, Outcome
  <2> QED
    BY <2>1, <2>2, <2>3, <2>4, <2>5, <2>6, <2>7, <2>8, <2>9, <2>10, <2>11, <2>12, <2>13
       DEF Step, Promise!Next
<1> QED
  BY <1>1, <1>2

\* The outcome a transaction declares is true of the files: it is carried out
\* as a whole or not at all.
THEOREM ImplementsAtomicUpdate == Spec => Atomic
BY Invariant, InitPromise, PromiseStep, PTL DEF Spec, Atomic, Promise!Spec
=============================================================================
