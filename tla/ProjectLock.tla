---------------------------- MODULE ProjectLock ----------------------------
(* The project-wide mutation lock of .agents/filesystem/project-lock.js: a  *)
(* file created with O_EXCL that holds the token and the pid of its owner.   *)
(* Every file-system call of acquire and release is a step of its own, and a *)
(* process may die between any two of them.                                  *)
(*                                                                           *)
(* A process is between acquire and release at most once at a time, so its   *)
(* identity stands both for its pid and for the UUID of its current token.   *)
(* Who asks for the lock and what is done under it is in LockCallers.        *)
EXTENDS Naturals, FiniteSets

CONSTANTS Proc,         \* the processes (node commands and the watch daemon)
          MaxCrashes    \* how many of them may die

ASSUME ProcAssumption == IsFiniteSet(Proc) /\ MaxCrashes \in Nat

VARIABLES file,     \* the lock file: Absent, or who created it and whether
                    \* the payload has been written
          dead,     \* the processes that died
          lockPc,   \* where a process is in acquire and release
          found,     \* whose payload acquire found in the lock before reaping it
          raced     \* history: a reaper removed a lock other than the one it read

lockVars == <<file, dead, lockPc, found, raced>>

Absent == [by |-> {}, written |-> FALSE]
LockFile == {Absent} \cup [by : {{p} : p \in Proc}, written : BOOLEAN]

(* "out": no call in progress; "held": acquire has returned a token.         *)
LockPc == {"out", "inspect", "reap", "create", "write", "held", "unlink"}

LockTypeOK ==
    /\ file \in LockFile
    /\ dead \subseteq Proc
    /\ lockPc \in [Proc -> LockPc]
    /\ found \in [Proc -> SUBSET Proc]
    /\ raced \in BOOLEAN

LockInit ==
    /\ file = Absent
    /\ dead = {}
    /\ lockPc = [p \in Proc |-> "out"]
    /\ found = [p \in Proc |-> {}]
    /\ raced = FALSE

-----------------------------------------------------------------------------

(* inspect(): the pid in the payload; an absent file and one that does not   *)
(* parse, because its creator has not written it yet, both give null.        *)
Inspect == IF file.written THEN file.by ELSE {}

Alive(p) == p \notin dead
At(p, l) == Alive(p) /\ lockPc[p] = l
GoTo(p, l) == lockPc' = [lockPc EXCEPT ![p] = l]

(* Mutant: no liveness probe, a dead holder's lock is never reaped.          *)
FindsLockAbsent(p) ==
    /\ At(p, "inspect") /\ Inspect = {}
    /\ GoTo(p, "create")
    /\ UNCHANGED <<file, dead, found, raced>>

(* acquire(): the existing lock is inspected. None: go and create it. One of *)
(* a dead pid: reap it first.                                                *)
FindsLock(p) ==
    /\ At(p, "inspect")
    /\ Inspect = {} \/ Inspect \subseteq dead
    /\ GoTo(p, IF Inspect = {} THEN "create" ELSE "reap")
    /\ found' = [found EXCEPT ![p] = Inspect]
    /\ UNCHANGED <<file, dead, raced>>

(* forceUnlock() as acquire calls it: exists, then unlink with ENOENT        *)
(* ignored, takes away whatever lock file is there by now.                   *)
Reap(p) ==
    /\ At(p, "reap")
    /\ file' = Absent
    /\ raced' = (raced \/ file \notin {Absent, [by |-> found[p], written |-> TRUE]})
    /\ GoTo(p, "create")
    /\ UNCHANGED <<dead, found>>

(* Mutant: the flag 'w', which truncates an existing file.                   *)
CreateOrTruncate(p) ==
    /\ At(p, "create")
    /\ file' = [by |-> {p}, written |-> FALSE]
    /\ GoTo(p, "write")
    /\ UNCHANGED <<dead, found, raced>>

(* openSync(lockPath, 'wx') succeeds only when there is no file.             *)
Create(p) ==
    /\ At(p, "create")
    /\ file = Absent
    /\ file' = [by |-> {p}, written |-> FALSE]
    /\ GoTo(p, "write")
    /\ UNCHANGED <<dead, found, raced>>

(* writeFileSync(fd): when the file was unlinked since, the payload goes to  *)
(* a file without a name, and acquire returns all the same.                  *)
Write(p) ==
    /\ At(p, "write")
    /\ file' = IF file.by = {p} THEN [file EXCEPT !.written = TRUE] ELSE file
    /\ GoTo(p, "held")
    /\ UNCHANGED <<dead, found, raced>>

(* The two ways to CTX_PROJECT_BUSY: a live (or unprobeable) holder at the   *)
(* inspection, EEXIST at the creation.                                       *)
IsBusy(p) ==
    \/ At(p, "inspect") /\ Inspect # {} /\ ~(Inspect \subseteq dead)
    \/ At(p, "create") /\ file # Absent

(* release(token): our token is in the lock: go and unlink it. Otherwise it  *)
(* returns, or throws INVALID_TOKEN, and nothing is removed.                 *)
FindsOwnToken(p) ==
    /\ At(p, "held")
    /\ Inspect = {p}
    /\ GoTo(p, "unlink")
    /\ UNCHANGED <<file, dead, found, raced>>

LostToken(p) ==
    /\ At(p, "held")
    /\ Inspect # {p}

Unlink(p) ==
    /\ At(p, "unlink")
    /\ file' = Absent
    /\ UNCHANGED <<dead, found, raced>>

(* The process is killed; its lock file stays.                               *)
Crash(p) ==
    /\ Alive(p) /\ Cardinality(dead) < MaxCrashes
    /\ dead' = dead \cup {p}
    /\ UNCHANGED <<file, lockPc, found, raced>>

-----------------------------------------------------------------------------

(* The processes that act under the lock.                                    *)
Holders == {p \in Proc : At(p, "held") \/ At(p, "unlink")}

(* The creator died before it wrote the payload: inspect sees no lock, the   *)
(* creation meets EEXIST, and nothing reaps the file.                        *)
Orphaned ==
    file # Absent /\ ~file.written /\ file.by \subseteq dead
=============================================================================
