------------------------- MODULE JournaledTransaction -------------------------
(***************************************************************************)
(* One multi-file transaction of .agents/filesystem/journaled-transaction  *)
(* .js: staging, prepare, commit with its precondition checks and its      *)
(* apply loop, the automatic rollback, and `ctx.js recover` run by an      *)
(* operator on the journal.  Every file system call that can fail, be      *)
(* interleaved with a user's edit, or be the last one before a crash is a  *)
(* step of its own.                                                        *)
(*                                                                         *)
(* The files live in a project; those in Inside live in one directory the  *)
(* transaction may delete.  A missing file, and a missing backup file, is  *)
(* Absent, which is also the precondition 'NONE'.                          *)
(***************************************************************************)
EXTENDS Integers, Sequences

CONSTANTS
  Files,
  Inside,         \* the files that live in the managed directory
  Folder,         \* the path of that directory
  Contents,
  Absent,
  Unchecked,      \* no expectedBeforeHash given
  Guarded,        \* the files for which a caller may give one
  LiveRecovery,   \* may `recover` run while the writer is alive?
  MaxOps,         \* bound on the operations staged
  MaxFaults,      \* bound on the file system calls that fail
  MaxEdits,       \* bound on the user's edits
  MaxRecovers     \* bound on the runs of `recover`

ASSUME PathAssumption == Folder \notin Files /\ Inside \subseteq Files
                         /\ Guarded \subseteq Files
ASSUME ValueAssumption == Absent \notin Contents /\ Unchecked \notin Contents
                          /\ Unchecked # Absent
ASSUME BoundAssumption == {MaxOps, MaxFaults, MaxEdits, MaxRecovers} \subseteq Nat

Values == Contents \union {Absent}

Op == [kind : {"write"}, file : Files, content : Contents, expected : Values \union {Unchecked}]
      \union
      [kind : {"delete"}, file : Files, content : {Absent}, expected : Values \union {Unchecked}]
      \union
      [kind : {"deleteDir"}, file : {Folder}, content : {Absent}, expected : {Unchecked}]

VARIABLES
  disk,       \* [Files -> Values]
  folder,     \* does the managed directory exist?
  workdir,    \* do the transaction's staging and backup directories exist?
  backup,     \* backup[i]: the copy made before operation i
  journal,    \* journal.json
  ops,        \* the operations, in memory and in the journal
  pc,         \* where the writer stands
  cursor,     \* how many operations are checked, applied, or left to revert
  had,        \* the operations whose hadExisting is true
  backed,     \* the operations with a backupFilePath
  failed,     \* rollbackError is set
  faults, edits, recovers,
  late,       \* history: a user edited the files after the checks began
  trail,      \* history: trail[k + 1] is the disk after k operations
  hadFolder   \* history: the directory existed when the apply began

files == <<disk, folder, workdir, backup>>
memory == <<pc, cursor, had, backed, failed>>
counts == <<faults, edits, recovers>>
history == <<late, trail, hadFolder>>
vars == <<files, journal, ops, memory, counts, history>>

JournalState == {"none", "torn", "PREPARED", "APPLYING", "COMMITTED",
                 "ROLLING_BACK", "ROLLED_BACK", "RECOVERY_REQUIRED"}
Place == {"stage", "prepared", "check", "apply", "effect", "undo", "revert",
          "clean", "done", "crashed"}

\* listPending
Pending == journal.state \in {"APPLYING", "ROLLING_BACK", "RECOVERY_REQUIRED",
                              "PREPARED", "torn"}

Init == /\ disk \in [Files -> Values]
        /\ folder \in BOOLEAN
        /\ \A f \in Inside : disk[f] # Absent => folder
        /\ workdir = FALSE
        /\ backup = [i \in 1..MaxOps |-> Absent]
        /\ journal = [state |-> "none", had |-> {}, backed |-> {}]
        /\ ops = <<>>
        /\ pc = "stage"
        /\ cursor = 0
        /\ had = {}
        /\ backed = {}
        /\ failed = FALSE
        /\ faults = 0 /\ edits = 0 /\ recovers = 0
        /\ late = FALSE
        /\ trail = <<>>
        /\ hadFolder = FALSE

Save(state) == journal' = [state |-> state, had |-> had, backed |-> backed]
At(from, to) == pc = from /\ pc' = to
Fault == faults < MaxFaults /\ faults' = faults + 1

-----------------------------------------------------------------------------
\* stageWrite, stageDelete, stageDeleteDir; a caller that checks expects what
\* it has seen.
Stage(op) == /\ pc = "stage"
             /\ Len(ops) < MaxOps
             /\ op.expected \in {Unchecked} \union
                  (IF op.file \in Guarded THEN {disk[op.file]} ELSE {})
             /\ ops' = Append(ops, op)
             /\ UNCHANGED <<files, journal, memory, counts, history>>

Prepare == /\ At("stage", "prepared")
           /\ workdir' = TRUE
           /\ Save("PREPARED")
           /\ UNCHANGED <<disk, folder, backup, ops, cursor, had, backed, failed,
                          counts, history>>

BeginCommit == /\ At("prepared", "check")
               /\ Save("APPLYING")
               /\ UNCHANGED <<files, ops, cursor, had, backed, failed, counts, history>>

Matches(op) == op.expected # Unchecked => op.expected = disk[op.file]

Check == /\ pc = "check"
         /\ cursor < Len(ops)
         /\ Matches(ops[cursor + 1])
         /\ cursor' = cursor + 1
         /\ UNCHANGED <<files, journal, ops, pc, had, backed, failed, counts, history>>

\* The checks are over, or one has failed: nothing is applied yet.
LeaveChecks(to) == /\ At("check", to)
                   /\ cursor' = 0
                   /\ trail' = <<disk>>
                   /\ hadFolder' = folder
                   /\ UNCHANGED <<files, journal, ops, had, backed, failed, counts, late>>

Mismatch == cursor < Len(ops) /\ ~Matches(ops[cursor + 1]) /\ LeaveChecks("undo")
BeginApply == cursor = Len(ops) /\ LeaveChecks("apply")

-----------------------------------------------------------------------------
\* The apply loop.  Operation cursor + 1 is next.
Next1 == ops[cursor + 1]
Exists(op) == IF op.file = Folder THEN folder ELSE disk[op.file] # Absent
CopiedIfWritten(op) == op.kind = "write" /\ Exists(op)  \* slip: no copy of a deleted file

Copied(op) == op.kind # "deleteDir" /\ Exists(op)
MakesFolder(op) == folder \/ op.file \in Inside   \* mkdir of the parent directory

TakeBackup ==
  /\ cursor < Len(ops)
  /\ At("apply", "effect")
  /\ had' = IF Exists(Next1) THEN had \union {cursor + 1} ELSE had
  /\ IF Copied(Next1)
     THEN /\ workdir
          /\ backup' = [backup EXCEPT ![cursor + 1] = disk[Next1.file]]
          /\ backed' = backed \union {cursor + 1}
     ELSE UNCHANGED <<backup, backed>>
  /\ UNCHANGED <<disk, folder, workdir, journal, ops, cursor, failed, counts, history>>

CopyFails ==
  /\ cursor < Len(ops)
  /\ At("apply", "undo")
  /\ Copied(Next1)
  /\ IF workdir THEN Fault ELSE UNCHANGED faults
  /\ UNCHANGED <<files, journal, ops, cursor, had, backed, failed, edits, recovers, history>>

Written(op) == [disk EXCEPT ![op.file] = op.content]

Effect ==
  /\ At("effect", "apply")
  /\ cursor' = cursor + 1
  /\ CASE Next1.kind = "write" -> /\ workdir
                                  /\ disk' = Written(Next1)
                                  /\ folder' = MakesFolder(Next1)
       [] Next1.kind = "delete" -> disk' = Written(Next1) /\ UNCHANGED folder
       [] Next1.kind = "deleteDir" ->
            /\ folder' = (folder /\ \E f \in Inside : disk[f] # Absent)
            /\ UNCHANGED disk
  /\ trail' = Append(trail, disk')
  /\ UNCHANGED <<workdir, backup, journal, ops, had, backed, failed, counts, late,
                 hadFolder>>

\* The call fails after its retries; a failed rename may have made the parent
\* directory.
EffectFails ==
  /\ At("effect", "undo")
  /\ IF Next1.kind = "write" THEN UNCHANGED folder \/ folder' = MakesFolder(Next1)
                             ELSE UNCHANGED folder /\ Exists(Next1)
  /\ IF Next1.kind = "write" /\ ~workdir THEN UNCHANGED faults ELSE Fault
  /\ UNCHANGED <<disk, workdir, backup, journal, ops, cursor, had, backed, failed,
                 edits, recovers, history>>

FinishApply == /\ At("apply", "clean")
               /\ cursor = Len(ops)
               /\ Save("COMMITTED")
               /\ UNCHANGED <<files, ops, cursor, had, backed, failed, counts, history>>

-----------------------------------------------------------------------------
\* rollback: the applied operations in reverse; operation cursor is next.
BeginRollback == /\ At("undo", "revert")
                 /\ Save("ROLLING_BACK")
                 /\ UNCHANGED <<files, ops, cursor, had, backed, failed, counts, history>>

Last1 == ops[cursor]
HasBackup(i) == i \in had \intersect backed /\ workdir /\ backup[i] # Absent

Restore == /\ HasBackup(cursor)
           /\ disk' = [disk EXCEPT ![Last1.file] = backup[cursor]]
           /\ backup' = [backup EXCEPT ![cursor] = Absent]
           /\ folder' = MakesFolder(Last1)
           /\ UNCHANGED failed

RecreateNothing ==  \* slip: an empty directory is not made again
  cursor \in had /\ Last1.kind = "deleteDir" /\ UNCHANGED <<disk, folder, backup, failed>>

Recreate == /\ cursor \in had
            /\ Last1.kind = "deleteDir"
            /\ folder' = TRUE
            /\ UNCHANGED <<disk, backup, failed>>

RemoveNothing ==  \* slip: files the transaction created stay
  cursor \notin had /\ UNCHANGED <<disk, folder, backup, failed>>

Remove == /\ cursor \notin had
          /\ IF Last1.kind = "deleteDir"
             THEN LET full == folder /\ \E f \in Inside : disk[f] # Absent
                  IN folder' = full /\ failed' = (failed \/ full) /\ UNCHANGED disk
             ELSE disk' = [disk EXCEPT ![Last1.file] = Absent] /\ UNCHANGED <<folder, failed>>
          /\ UNCHANGED backup

NothingToDo == /\ cursor \in had
               /\ Last1.kind # "deleteDir"
               /\ ~HasBackup(cursor)
               /\ UNCHANGED <<disk, backup, folder, failed>>

Revert == /\ pc = "revert"
          /\ cursor > 0
          /\ Restore \/ Recreate \/ Remove \/ NothingToDo
          /\ cursor' = cursor - 1
          /\ UNCHANGED <<workdir, journal, ops, pc, had, backed, counts, history>>

RevertFails == /\ pc = "revert"
               /\ cursor > 0
               /\ HasBackup(cursor) \/ (cursor \in had /\ Last1.kind = "deleteDir" /\ ~folder)
                                    \/ (cursor \notin had /\ Exists(Last1))
               /\ Fault
               /\ failed' = TRUE
               /\ cursor' = cursor - 1
               /\ UNCHANGED <<files, journal, ops, pc, had, backed, edits, recovers, history>>

EndRollbackAnyway ==  \* slip: rollbackError is ignored
  /\ cursor = 0 /\ At("revert", "clean") /\ Save("ROLLED_BACK")
  /\ UNCHANGED <<files, ops, cursor, had, backed, failed, counts, history>>

EndRollback == /\ cursor = 0
               /\ IF failed THEN At("revert", "done") /\ Save("RECOVERY_REQUIRED")
                            ELSE At("revert", "clean") /\ Save("ROLLED_BACK")
               /\ UNCHANGED <<files, ops, cursor, had, backed, failed, counts, history>>

NoBackups == [i \in 1..MaxOps |-> Absent]

Cleanup == /\ At("clean", "done")
           /\ workdir' = FALSE
           /\ backup' = NoBackups
           /\ UNCHANGED <<disk, folder, journal, ops, cursor, had, backed, failed,
                          counts, history>>

-----------------------------------------------------------------------------
\* A journal is overwritten in place: a crash during a save tears it.
Saving == \/ pc \in {"stage", "prepared", "undo"}
          \/ pc = "apply" /\ cursor = Len(ops)
          \/ pc = "revert" /\ cursor = 0

Crash == /\ pc \notin {"done", "crashed"}
         /\ pc' = "crashed"
         /\ \/ UNCHANGED <<journal, workdir>>
            \/ /\ Saving
               /\ journal' = [state |-> "torn", had |-> {}, backed |-> {}]
               /\ workdir' = TRUE
         /\ cursor' = 0 /\ had' = {} /\ backed' = {} /\ failed' = FALSE
         /\ UNCHANGED <<disk, folder, backup, ops, counts, history>>

\* ctx.js recover rebuilds the operations from the journal without their
\* resolvedPath: they find no target on the disk, and a rename to one throws.
Recover(reached, completes) ==
  LET left == {i \in (journal.had \intersect journal.backed) \ reached :
                 workdir /\ backup[i] # Absent}
  IN /\ Pending /\ journal.state # "torn"
     /\ LiveRecovery \/ pc \in {"crashed", "done"}
     /\ recovers < MaxRecovers
     /\ recovers' = recovers + 1
     /\ journal' = [state |-> IF completes THEN "COMMITTED"
                              ELSE IF left = {} THEN "ROLLED_BACK" ELSE "RECOVERY_REQUIRED",
                    had |-> journal.had \ reached,
                    backed |-> journal.backed]
     /\ IF completes \/ left = {} THEN workdir' = FALSE /\ backup' = NoBackups
                                  ELSE UNCHANGED <<workdir, backup>>
     /\ UNCHANGED <<disk, folder, ops, memory, faults, edits, history>>

RecoverRollback == Recover({}, FALSE)

\* commit() again: it fails at the first expectation of a content, else at the
\* first write; a plan of deletions goes through and deletes nothing.
RecoverContinue ==
  IF \E i \in DOMAIN ops : ops[i].expected \in Contents
  THEN Recover({}, FALSE)
  ELSE Recover({i \in DOMAIN ops : \A j \in 1..(i - 1) : ops[j].kind # "write"},
               \A i \in DOMAIN ops : ops[i].kind # "write")

\* A user saves or deletes a file.
Edit(f, v) == /\ edits < MaxEdits
              /\ v # disk[f]
              /\ f \in Inside => folder
              /\ disk' = [disk EXCEPT ![f] = v]
              /\ edits' = edits + 1
              /\ late' = (late \/ pc \notin {"stage", "prepared"})
              /\ UNCHANGED <<folder, workdir, backup, journal, ops, memory, faults,
                             recovers, trail, hadFolder>>

-----------------------------------------------------------------------------
Next == \/ \E op \in Op : Stage(op)
        \/ Prepare \/ BeginCommit \/ Check \/ Mismatch \/ BeginApply
        \/ TakeBackup \/ CopyFails \/ Effect \/ EffectFails \/ FinishApply
        \/ BeginRollback \/ Revert \/ RevertFails \/ EndRollback \/ Cleanup
        \/ Crash \/ RecoverRollback \/ RecoverContinue
        \/ \E f \in Files, v \in Values : Edit(f, v)

Spec == Init /\ [][Next]_vars
-----------------------------------------------------------------------------
Indices == 1..MaxOps

TypeOK ==
  /\ disk \in [Files -> Values]
  /\ folder \in BOOLEAN /\ workdir \in BOOLEAN
  /\ backup \in [Indices -> Values]
  /\ journal \in [state : JournalState, had : SUBSET Indices, backed : SUBSET Indices]
  /\ ops \in Seq(Op) /\ Len(ops) <= MaxOps
  /\ pc \in Place
  /\ cursor \in 0..Len(ops)
  /\ had \subseteq Indices /\ backed \subseteq Indices
  /\ failed \in BOOLEAN
  /\ faults \in Nat /\ edits \in Nat /\ recovers \in Nat
  /\ late \in BOOLEAN
  /\ trail \in Seq([Files -> Values])
  /\ hadFolder \in BOOLEAN

\* Nobody but the writer, its failing calls and its crash has interfered.
Undisturbed == ~late /\ recovers = 0

Outcome == IF ~Undisturbed THEN "void"
           ELSE IF journal.state = "COMMITTED" THEN "committed"
           ELSE IF journal.state = "ROLLED_BACK" THEN "aborted" ELSE "open"

\* Until the outcome is declared the transaction vouches for the files as the
\* apply found them.
Vouched == IF Outcome = "open" /\ trail # <<>> THEN trail[1] ELSE disk

Promise == INSTANCE AtomicUpdate WITH files <- Vouched, plan <- ops,
                                      outcome <- Outcome, Ops <- Op

\* The journal's outcome is true of the files (header, line 11: "atomicity or
\* complete rollback"): COMMITTED only with every operation carried out,
\* ROLLED_BACK only with every file as it was, whatever call failed and
\* wherever the writer crashed.
Atomic == Promise!Spec

\* Until the transaction is settled, what each file held before it is still on
\* the disk or in a backup copy (the copy at 246 precedes the change at 255 or
\* 258, and the cleanup at 290 and 343 follows the journal).
OriginalsSurvive ==
  Undisturbed /\ trail # <<>> /\ journal.state \notin {"COMMITTED", "ROLLED_BACK"} =>
    \A f \in Files : \/ trail[1][f] \in {disk[f], Absent}
                     \/ \E i \in DOMAIN ops : ops[i].file = f /\ backup[i] = trail[1][f]

\* Files that are neither as before nor as planned are reported by listPending
\* (389-414), so that doctor asks for a recovery.
HalfDoneIsPending ==
  Undisturbed /\ trail # <<>> /\ disk # trail[1] /\ ~Promise!Achieves(disk, trail[1], ops)
    => Pending

\* No file is touched unless every expectation of a caller held before the
\* first change (213: "Verify all preconditions before touching any file").
VerifiedBeforeTouching ==
  ~late /\ Len(trail) > 1 =>
    \A i \in DOMAIN ops :
      ops[i].expected # Unchecked => ops[i].expected = trail[1][ops[i].file]

\* A clean rollback brings back the directory it deleted (313-316), even an
\* empty one, and even when later operations had used its path.
FolderComesBack ==
  Undisturbed /\ journal.state = "ROLLED_BACK" /\ hadFolder => folder

\* After a crash `recover` "rolled back cleanly" (ctx.js:805) only what is
\* really as before.
RecoveredIsWhole ==
  pc = "crashed" /\ ~late /\ trail # <<>> /\ journal.state = "ROLLED_BACK"
    => disk = trail[1]
=============================================================================
