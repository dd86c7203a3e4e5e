----------------------------- MODULE LockProofs -----------------------------
(* What holds of the project lock and the commands that take it, and of the  *)
(* lease of the transaction core, for any number of processes and instances, *)
(* any limits, and every interleaving of their file-system calls.            *)
EXTENDS LockCallers, LeaseLock, FiniteSetTheorems, TLAPS

(* Where a process is in acquire and release goes with how far its job is.   *)
Placed ==
    \A p \in Proc : /\ lockPc[p] \in {"inspect", "reap", "create", "write"} => jobAt[p] = "locking"
                    /\ jobAt[p] = "working" => lockPc[p] = "held"

(* Whoever reaps a lock has read that of a dead process; and as long as no   *)
(* other lock was reaped, the file is that of the live process that made it. *)
Owned(p) ==
    /\ lockPc[p] \in {"write", "held", "unlink"} => file.by = {p}
    /\ lockPc[p] \in {"held", "unlink"} => file.written
Guarded ==
    /\ \A p \in Proc : lockPc[p] = "reap" => found[p] # {} /\ found[p] \subseteq dead
    /\ ~raced => \A p \in Proc : Alive(p) => Owned(p)

(* A process that is to write the lockfile has read the revision before its. *)
Counted ==
    /\ \A p \in Proc : copy[p] # 0 => /\ jobAt[p] = "working"
                                      /\ p \in Commands => job[p].kind = "export"
    /\ ~raced => /\ revision = exports
                 /\ \A p \in Proc : Alive(p) /\ copy[p] # 0 => copy[p] = revision + 1

(* One of the commands after the i-th, up to the n-th, undid its override or *)
(* had not seen it.                                                          *)
Undoes(q, s) ==
    \/ job[q].kind \in {"override", "unset"} /\ job[q].scope = s
    \/ job[q].kind = "clear"
Excused(i, n) ==
    \E j \in i + 1 .. n : Undoes(commits[j], job[commits[i]].scope) \/ base[commits[j]] < i
IsOverride(i) == job[commits[i]].kind = "override"
Kept(over, i) == over[job[commits[i]].scope] = {commits[i]}

(* What was lost when a command read the file had been undone by then; and a *)
(* command whose job is done does not start again.                           *)
Pending(p) == jobAt[p] \in {"locking", "working"}
Overlapping ==
    /\ \A i \in 1 .. Len(commits) : jobAt[commits[i]] = "done"
    /\ \A p \in Commands : base[p] <= Len(commits)
    /\ \A i \in 1 .. Len(commits) :
         IsOverride(i) /\ ~Kept(profileJson.over, i) => Excused(i, Len(commits))
    /\ \A p \in Commands : Pending(p) =>
         \A i \in 1 .. base[p] : IsOverride(i) /\ ~Kept(read[p].over, i) => Excused(i, base[p])

-----------------------------------------------------------------------------
(* Steps of one process: the others keep their places.                       *)

LEMMA SameLost ==
  ASSUME CallersTypeOK
  PROVE  LostToOverlapOnly <=>
           \A i \in 1 .. Len(commits) :
             IsOverride(i) /\ ~Kept(profileJson.over, i) => Excused(i, Len(commits))
  BY DEF LostToOverlapOnly, IsOverride, Kept, Excused, Undoes

LEMMA Went ==
  ASSUME CallersTypeOK, NEW p \in Proc, NEW l \in LockPc, GoTo(p, l)
  PROVE  /\ lockPc' \in [Proc -> LockPc] /\ lockPc'[p] = l
         /\ \A q \in Proc : q # p => lockPc'[q] = lockPc[q]
  BY DEF CallersTypeOK, LockTypeOK, GoTo

LEMMA Stepped ==
  ASSUME CallersTypeOK, NEW p \in Proc, NEW s \in Steps, Step(p, s)
  PROVE  /\ jobAt' \in [Proc -> Steps] /\ jobAt'[p] = s
         /\ \A q \in Proc : q # p => jobAt'[q] = jobAt[q]
  BY DEF CallersTypeOK, Step

-----------------------------------------------------------------------------
(* The profile's history: most steps neither write it nor begin a job.       *)

Restful ==
    /\ job' = job /\ profileJson' = profileJson /\ read' = read
    /\ commits' = commits /\ base' = base
    /\ \A p \in Commands : /\ jobAt[p] = "done" => jobAt'[p] = "done"
                           /\ Pending(p)' => Pending(p)

LEMMA RestfulKeeps ==
  ASSUME CallersTypeOK, Overlapping, Restful
  PROVE  Overlapping'
  <1>1. /\ \A i : IsOverride(i)' = IsOverride(i)
        /\ \A i, n : Excused(i, n)' = Excused(i, n)
        /\ \A i : Kept(profileJson.over, i)' = Kept(profileJson.over, i)
        /\ \A p, i : Kept(read[p].over, i)' = Kept(read[p].over, i)
    BY DEF Restful, IsOverride, Excused, Kept, Undoes
  <1>2. \A i \in 1 .. Len(commits) : commits[i] \in Commands
    BY DEF CallersTypeOK
  <1>3. \A i \in 1 .. Len(commits)' : jobAt'[commits'[i]] = "done"
    BY <1>2 DEF Restful, Overlapping
  <1>4. QED
    BY <1>1, <1>3 DEF Restful, Overlapping

LEMMA AskKeepsHistory ==
  ASSUME CallersTypeOK, Placed, Overlapping, NEW p \in Commands, Ask(p)
  PROVE  Overlapping'
  <1>1. /\ p \in Proc /\ jobAt[p] = "start" /\ jobAt'[p] = "locking"
        /\ \A q \in Proc : q # p => jobAt'[q] = jobAt[q]
    BY Stepped DEF Ask, Steps, Commands
  <1>2. /\ job' = job /\ profileJson' = profileJson /\ commits' = commits
        /\ read'[p] = profileJson /\ base'[p] = Len(commits)
        /\ \A q \in Commands : q # p => read'[q] = read[q] /\ base'[q] = base[q]
    BY DEF Ask, CallersTypeOK
  <1>3. \A i \in 1 .. Len(commits) : commits[i] \in Commands /\ commits[i] # p
    BY <1>1 DEF CallersTypeOK, Overlapping
  <1>4. \A i \in 1 .. Len(commits) :
          /\ IsOverride(i)' = IsOverride(i)
          /\ Kept(profileJson.over, i)' = Kept(profileJson.over, i)
          /\ \A q \in Commands : q # p => Kept(read[q].over, i)' = Kept(read[q].over, i)
          /\ Kept(read[p].over, i)' = Kept(profileJson.over, i)
    BY <1>2 DEF IsOverride, Kept
  <1>5. Len(commits) \in Nat /\ \A q \in Commands : base[q] \in Nat
    BY DEF CallersTypeOK
  <1>6. \A i \in 1 .. Len(commits) : \A n \in 0 .. Len(commits) :
          Excused(i, n)' = Excused(i, n)
    <2>1. SUFFICES ASSUME NEW i \in 1 .. Len(commits), NEW n \in 0 .. Len(commits)
                   PROVE  Excused(i, n)' = Excused(i, n)
      OBVIOUS
    <2>2. \A j \in i + 1 .. n : base'[commits[j]] = base[commits[j]]
      BY <1>2, <1>3, <1>5
    <2>3. QED
      BY <1>2, <2>2 DEF Excused, Undoes
  <1>7. /\ \A i \in 1 .. Len(commits)' : jobAt'[commits'[i]] = "done"
        /\ \A q \in Commands : base'[q] <= Len(commits')
        /\ Len(commits') = Len(commits)
    BY <1>1, <1>2, <1>3, <1>5 DEF Overlapping, Commands
  <1>8. \A i \in 1 .. Len(commits) :
          IsOverride(i)' /\ ~Kept(profileJson.over, i)' => Excused(i, Len(commits))'
    BY <1>4, <1>5, <1>6, <1>7, <1>2 DEF Overlapping
  <1>9. ASSUME NEW q \in Commands, Pending(q)', NEW i \in 1 .. base'[q],
               IsOverride(i)', ~Kept(read[q].over, i)'
        PROVE  Excused(i, base[q])'
    <2>1. i \in 1 .. Len(commits) /\ base'[q] \in 0 .. Len(commits)
      BY <1>2, <1>5, <1>9 DEF Overlapping
    <2>2. CASE q = p
      BY <1>2, <1>4, <1>6, <1>8, <1>9, <2>1, <2>2
    <2>3. CASE q # p
      <3>1. Pending(q)
        BY <1>1, <1>9, <2>3 DEF Pending, Commands
      <3>2. base'[q] = base[q] /\ IsOverride(i) /\ ~Kept(read[q].over, i)
        BY <1>2, <1>4, <1>9, <2>1, <2>3
      <3>3. Excused(i, base[q])
        BY <1>9, <3>1, <3>2 DEF Overlapping
      <3>4. QED
        BY <1>6, <2>1, <3>2, <3>3
    <2>4. QED
      BY <2>2, <2>3
  <1>10. QED
    BY <1>7, <1>8, <1>9 DEF Overlapping

Profiles == [root : Ids, over : [Scope -> Ids]]

LEMMA NewProfileTyped ==
  ASSUME CallersTypeOK, NEW p \in Commands, job[p].kind # "export"
  PROVE  NewProfile(p) \in Profiles
  <1>1. read[p] \in Profiles /\ {p} \in Ids /\ {} \in Ids /\ job[p].scope \in Scope
        /\ job[p].kind \in {"apply", "override", "unset", "clear", "export"}
    BY CallersAssumption DEF CallersTypeOK, Profiles, Ids, Commands, Job
  <1>2. NoFile \in Profiles
    BY <1>1 DEF NoFile, Profiles
  <1>3. QED
    BY <1>1, <1>2 DEF NewProfile, Profiles

(* What a command does to the override of a scope.                           *)
LEMMA NewProfileOver ==
  ASSUME CallersTypeOK, NEW p \in Commands, job[p].kind # "export", NEW s \in Scope
  PROVE  /\ job[p].kind = "override" /\ job[p].scope = s => NewProfile(p).over[s] = {p}
         /\ NewProfile(p).over[s] = read[p].over[s] \/ Undoes(p, s)
  <1>1. read[p] \in Profiles /\ job[p].scope \in Scope
        /\ job[p].kind \in {"apply", "override", "unset", "clear", "export"}
    BY CallersAssumption DEF CallersTypeOK, Profiles, Job
  <1>2. QED
    BY <1>1 DEF NewProfile, Undoes, Profiles

LEMMA CommitKeepsHistory ==
  ASSUME CallersTypeOK, Overlapping, NEW p \in Commands, CommitProfile(p)
  PROVE  Overlapping'
  <1>0. PICK n \in Nat : n = Len(commits)
    BY DEF CallersTypeOK
  <1>1. /\ p \in Proc /\ jobAt[p] = "working" /\ job[p].kind # "export" /\ jobAt'[p] = "done"
        /\ \A q \in Proc : q # p => jobAt'[q] = jobAt[q]
    BY Stepped DEF CommitProfile, Steps, Commands
  <1>2. /\ job' = job /\ profileJson' = NewProfile(p) /\ read' = read /\ base' = base
    BY DEF CommitProfile
  <1>3. /\ n \in Nat /\ Len(commits') = n + 1 /\ commits'[n + 1] = p
        /\ \A i \in 1 .. n : commits'[i] = commits[i] /\ commits[i] \in Commands
    BY <1>0 DEF CommitProfile, CallersTypeOK
  <1>4. \A q \in Commands : base[q] \in Nat /\ base[q] <= n
    BY <1>0 DEF CallersTypeOK, Overlapping
  <1>5. \A i \in 1 .. n : /\ IsOverride(i)' = IsOverride(i)
                          /\ \A q \in Commands : Kept(read[q].over, i)' = Kept(read[q].over, i)
                          /\ job[commits[i]].scope \in Scope
    BY <1>2, <1>3, CallersAssumption DEF IsOverride, Kept, CallersTypeOK, Job
  <1>6. \A i \in 1 .. n : \A k \in 0 .. n : Excused(i, k) => Excused(i, k)'
    <2>1. SUFFICES ASSUME NEW i \in 1 .. n, NEW k \in 0 .. n, Excused(i, k)
                   PROVE  Excused(i, k)'
      OBVIOUS
    <2>2. PICK j \in i + 1 .. k : Undoes(commits[j], job[commits[i]].scope) \/ base[commits[j]] < i
      BY <2>1 DEF Excused
    <2>3. j \in 1 .. n
      BY <1>3, <2>1
    <2>4. QED
      BY <1>2, <1>3, <2>2, <2>3 DEF Excused, Undoes
  <1>7. \A i \in 1 .. n : Excused(i, n) => Excused(i, n + 1)'
    <2>1. SUFFICES ASSUME NEW i \in 1 .. n, Excused(i, n) PROVE Excused(i, n + 1)'
      OBVIOUS
    <2>2. \A k : k \in i + 1 .. n => k \in i + 1 .. n + 1
      BY <1>3
    <2>3. Excused(i, n)'
      BY <1>3, <1>6, <2>1
    <2>4. QED
      BY <1>2, <1>3, <2>2, <2>3 DEF Excused
  <1>8. /\ \A i \in 1 .. n + 1 : jobAt'[commits'[i]] = "done"
        /\ \A q \in Commands : base'[q] <= n + 1
    BY <1>1, <1>2, <1>3, <1>4, <1>0 DEF Overlapping, Commands
  <1>9. ASSUME NEW i \in 1 .. n + 1, IsOverride(i)', ~Kept(profileJson.over, i)'
        PROVE  Excused(i, n + 1)'
    <2>1. i \in 1 .. n
      <3>1. SUFFICES ASSUME i = n + 1 PROVE FALSE
        BY <1>3, <1>9
      <3>2. commits'[i] = p /\ job[p].kind = "override" /\ job[p].scope \in Scope
        BY <1>2, <1>3, <1>9, <3>1, CallersAssumption DEF IsOverride, CallersTypeOK, Job
      <3>3. QED
        BY <1>1, <1>2, <1>9, <3>2, NewProfileOver DEF Kept
    <2>2. IsOverride(i) /\ job[commits[i]].scope \in Scope
      BY <1>5, <1>9, <2>1
    <2>3. CASE base[p] < i
      <3>1. n + 1 \in i + 1 .. n + 1
        BY <1>3, <2>1
      <3>2. QED
        BY <1>2, <1>3, <2>3, <3>1 DEF Excused
    <2>4. CASE i <= base[p] /\ ~Kept(read[p].over, i)
      <3>1. Pending(p) /\ i \in 1 .. base[p]
        BY <1>1, <1>4, <2>1, <2>4 DEF Pending
      <3>2. Excused(i, base[p])
        BY <2>2, <2>4, <3>1 DEF Overlapping
      <3>3. PICK j \in i + 1 .. base[p] :
              Undoes(commits[j], job[commits[i]].scope) \/ base[commits[j]] < i
        BY <3>2 DEF Excused
      <3>4. j \in i + 1 .. n
        BY <1>3, <1>4, <3>3
      <3>5. Excused(i, n)
        BY <3>3, <3>4 DEF Excused
      <3>6. QED
        BY <1>7, <2>1, <3>5
    <2>5. CASE i <= base[p] /\ Kept(read[p].over, i)
      <3>1. NewProfile(p).over[job[commits[i]].scope] # read[p].over[job[commits[i]].scope]
        BY <1>2, <1>3, <1>9, <2>1, <2>5 DEF Kept
      <3>2. Undoes(p, job[commits[i]].scope)
        BY <1>1, <2>2, <3>1, NewProfileOver
      <3>3. n + 1 \in i + 1 .. n + 1
        BY <1>3, <2>1
      <3>4. QED
        BY <1>2, <1>3, <2>1, <3>2, <3>3 DEF Excused, Undoes
    <2>6. QED
      BY <1>3, <1>4, <2>1, <2>3, <2>4, <2>5
  <1>10. ASSUME NEW q \in Commands, Pending(q)', NEW i \in 1 .. base'[q],
                IsOverride(i)', ~Kept(read[q].over, i)'
         PROVE  Excused(i, base[q])'
    <2>1. i \in 1 .. n /\ base'[q] = base[q] /\ base[q] \in 0 .. n
      BY <1>2, <1>3, <1>4, <1>10
    <2>2. Pending(q)
      BY <1>1, <1>10 DEF Pending, Commands
    <2>3. Excused(i, base[q])
      BY <1>5, <1>10, <2>1, <2>2 DEF Overlapping
    <2>4. QED
      BY <1>6, <2>1, <2>3
  <1>11. QED
    BY <1>3, <1>8, <1>9, <1>10 DEF Overlapping

-----------------------------------------------------------------------------
(* The lock itself.                                                          *)

Asking == {"inspect", "reap", "create", "write"}

LEMMA LockFileShape ==
  ASSUME file \in LockFile
  PROVE  /\ file = [by |-> file.by, written |-> file.written]
         /\ file.written \in BOOLEAN
         /\ file = Absent \/ \E p \in Proc : file.by = {p}
  <1>1. CASE file = Absent
    BY <1>1 DEF Absent
  <1>2. CASE file \in [by : {{p} : p \in Proc}, written : BOOLEAN]
    <2>1. file = [by |-> file.by, written |-> file.written] /\ file.written \in BOOLEAN
      BY <1>2
    <2>2. file.by \in {{p} : p \in Proc}
      BY <1>2
    <2>3. QED
      BY <2>1, <2>2
  <1>3. QED
    BY <1>1, <1>2 DEF LockFile

(* Two live processes are never both past the creation.                      *)
LEMMA Sole ==
  ASSUME Guarded, ~raced, NEW p \in Proc, NEW q \in Proc, Alive(p), Alive(q),
         lockPc[p] \in {"write", "held", "unlink"}, lockPc[q] \in {"write", "held", "unlink"}
  PROVE  p = q
  BY DEF Guarded, Owned

(* A step of p that leaves the file alone and takes p to no place where the  *)
(* file is said to be its own.                                               *)
LEMMA Unguarded ==
  ASSUME CallersTypeOK, Guarded, NEW p \in Proc, NEW l \in {"out", "inspect", "create"},
         GoTo(p, l), file' = file, dead' = dead, raced' = raced,
         \A q \in Proc : q # p => found'[q] = found[q]
  PROVE  Guarded'
  <1>1. lockPc'[p] = l /\ \A q \in Proc : q # p => lockPc'[q] = lockPc[q]
    BY Went DEF LockPc
  <1>2. \A q \in Proc : lockPc'[q] = "reap" => found'[q] # {} /\ found'[q] \subseteq dead'
    BY <1>1 DEF Guarded
  <1>3. ASSUME ~raced', NEW q \in Proc, Alive(q)' PROVE Owned(q)'
    BY <1>1, <1>3 DEF Guarded, Owned, Alive
  <1>4. QED
    BY <1>2, <1>3 DEF Guarded

LEMMA FindsLockKeeps ==
  ASSUME CallersTypeOK, Guarded, NEW p \in Proc, FindsLock(p)
  PROVE  Guarded'
  <1>1. /\ found'[p] = Inspect /\ \A q \in Proc : q # p => found'[q] = found[q]
        /\ file' = file /\ dead' = dead /\ raced' = raced
    BY DEF FindsLock, CallersTypeOK, LockTypeOK
  <1>2. CASE Inspect = {}
    BY <1>1, <1>2, Unguarded DEF FindsLock
  <1>3. CASE Inspect # {}
    <2>1. Inspect \subseteq dead /\ GoTo(p, "reap")
      BY <1>3 DEF FindsLock
    <2>2. lockPc'[p] = "reap" /\ \A q \in Proc : q # p => lockPc'[q] = lockPc[q]
      BY <2>1, Went DEF LockPc
    <2>3. \A q \in Proc : lockPc'[q] = "reap" => found'[q] # {} /\ found'[q] \subseteq dead'
      BY <1>1, <1>3, <2>1, <2>2 DEF Guarded
    <2>4. ASSUME ~raced', NEW q \in Proc, Alive(q)' PROVE Owned(q)'
      BY <1>1, <2>2, <2>4 DEF Guarded, Owned, Alive
    <2>5. QED
      BY <2>3, <2>4 DEF Guarded
  <1>4. QED
    BY <1>2, <1>3

LEMMA ReapKeeps ==
  ASSUME CallersTypeOK, Guarded, NEW p \in Proc, Reap(p)
  PROVE  Guarded'
  <1>1. /\ lockPc[p] = "reap" /\ file' = Absent /\ dead' = dead /\ found' = found
        /\ ~raced' => ~raced /\ file \in {Absent, [by |-> found[p], written |-> TRUE]}
    BY DEF Reap, At
  <1>2. lockPc'[p] = "create" /\ \A q \in Proc : q # p => lockPc'[q] = lockPc[q]
    BY Went DEF Reap, LockPc
  <1>3. found[p] # {} /\ found[p] \subseteq dead
    BY <1>1 DEF Guarded
  <1>4. \A q \in Proc : lockPc'[q] = "reap" => found'[q] # {} /\ found'[q] \subseteq dead'
    BY <1>1, <1>2 DEF Guarded
  <1>5. ASSUME ~raced', NEW q \in Proc, Alive(q)' PROVE Owned(q)'
    <2>1. SUFFICES ASSUME lockPc[q] \in {"write", "held", "unlink"}, q # p PROVE FALSE
      BY <1>2 DEF Owned
    <2>2. file.by = {q} /\ q \notin dead
      BY <1>1, <1>5, <2>1 DEF Guarded, Owned, Alive
    <2>3. file.by = {} \/ file.by = found[p]
      BY <1>1, <1>5 DEF Absent
    <2>4. QED
      BY <1>3, <2>2, <2>3
  <1>6. QED
    BY <1>4, <1>5 DEF Guarded

LEMMA CreateKeeps ==
  ASSUME CallersTypeOK, Guarded, NEW p \in Proc, Create(p)
  PROVE  Guarded'
  <1>1. /\ file = Absent /\ file' = [by |-> {p}, written |-> FALSE]
        /\ dead' = dead /\ found' = found /\ raced' = raced
    BY DEF Create
  <1>2. lockPc'[p] = "write" /\ \A q \in Proc : q # p => lockPc'[q] = lockPc[q]
    BY Went DEF Create, LockPc
  <1>3. \A q \in Proc : lockPc'[q] = "reap" => found'[q] # {} /\ found'[q] \subseteq dead'
    BY <1>1, <1>2 DEF Guarded
  <1>4. ASSUME ~raced', NEW q \in Proc, Alive(q)' PROVE Owned(q)'
    <2>1. CASE q = p
      BY <1>1, <1>2, <2>1 DEF Owned
    <2>2. CASE q # p
      <3>1. Owned(q) /\ file.by = {}
        BY <1>1, <1>4 DEF Guarded, Alive, Absent
      <3>2. QED
        BY <1>2, <2>2, <3>1 DEF Owned
    <2>3. QED
      BY <2>1, <2>2
  <1>5. QED
    BY <1>3, <1>4 DEF Guarded

LEMMA WriteKeeps ==
  ASSUME CallersTypeOK, Guarded, NEW p \in Proc, Write(p)
  PROVE  Guarded'
  <1>1. /\ Alive(p) /\ lockPc[p] = "write" /\ dead' = dead /\ found' = found /\ raced' = raced
        /\ file' = IF file.by = {p} THEN [file EXCEPT !.written = TRUE] ELSE file
    BY DEF Write, At
  <1>2. lockPc'[p] = "held" /\ \A q \in Proc : q # p => lockPc'[q] = lockPc[q]
    BY Went DEF Write, LockPc
  <1>3. \A q \in Proc : lockPc'[q] = "reap" => found'[q] # {} /\ found'[q] \subseteq dead'
    BY <1>1, <1>2 DEF Guarded
  <1>4. ASSUME ~raced', NEW q \in Proc, Alive(q)' PROVE Owned(q)'
    <2>1. Owned(q) /\ file.by = {p}
      BY <1>1, <1>4 DEF Guarded, Owned, Alive
    <2>2. file'.by = {p} /\ file'.written
      BY <1>1, <2>1, LockFileShape DEF CallersTypeOK, LockTypeOK
    <2>3. QED
      BY <1>2, <2>1, <2>2 DEF Owned
  <1>5. QED
    BY <1>3, <1>4 DEF Guarded

LEMMA OwnTokenKeeps ==
  ASSUME CallersTypeOK, Guarded, NEW p \in Proc, FindsOwnToken(p)
  PROVE  Guarded'
  <1>1. /\ Alive(p) /\ lockPc[p] = "held" /\ UNCHANGED <<file, dead, found, raced>>
    BY DEF FindsOwnToken, At
  <1>2. lockPc'[p] = "unlink" /\ \A q \in Proc : q # p => lockPc'[q] = lockPc[q]
    BY Went DEF FindsOwnToken, LockPc
  <1>3. \A q \in Proc : lockPc'[q] = "reap" => found'[q] # {} /\ found'[q] \subseteq dead'
    BY <1>1, <1>2 DEF Guarded
  <1>4. ASSUME ~raced', NEW q \in Proc, Alive(q)' PROVE Owned(q)'
    BY <1>1, <1>2, <1>4 DEF Guarded, Owned, Alive
  <1>5. QED
    BY <1>3, <1>4 DEF Guarded

LEMMA UnlinkKeeps ==
  ASSUME CallersTypeOK, Guarded, NEW p \in Proc, Unlink(p), GoTo(p, "out")
  PROVE  Guarded'
  <1>1. /\ Alive(p) /\ lockPc[p] = "unlink" /\ UNCHANGED <<dead, found, raced>>
    BY DEF Unlink, At
  <1>2. lockPc'[p] = "out" /\ \A q \in Proc : q # p => lockPc'[q] = lockPc[q]
    BY Went DEF LockPc
  <1>3. \A q \in Proc : lockPc'[q] = "reap" => found'[q] # {} /\ found'[q] \subseteq dead'
    BY <1>1, <1>2 DEF Guarded
  <1>4. ASSUME ~raced', NEW q \in Proc, Alive(q)' PROVE Owned(q)'
    <2>1. SUFFICES ASSUME lockPc[q] \in {"write", "held", "unlink"}, q # p PROVE FALSE
      BY <1>2 DEF Owned
    <2>2. QED
      BY <1>1, <1>4, <2>1, Sole DEF Alive
  <1>5. QED
    BY <1>3, <1>4 DEF Guarded

LEMMA LockingKeepsGuarded ==
  ASSUME CallersTypeOK, Guarded, NEW p \in Proc, Locking(p)
  PROVE  Guarded'
  <1>1. CASE Acquiring(p)
    BY <1>1, FindsLockKeeps, ReapKeeps, CreateKeeps DEF Acquiring
  <1>2. CASE Acquired(p)
    BY <1>2, WriteKeeps DEF Acquired
  <1>3. CASE Busy(p)
    BY <1>3, Unguarded DEF Busy
  <1>4. CASE Releasing(p)
    BY <1>4, OwnTokenKeeps DEF Releasing
  <1>5. CASE Released(p)
    BY <1>5, UnlinkKeeps, Unguarded DEF Released
  <1>6. QED
    BY <1>1, <1>2, <1>3, <1>4, <1>5 DEF Locking

LEMMA DieKeepsGuarded ==
  ASSUME CallersTypeOK, Guarded, NEW p \in Proc, Die(p)
  PROVE  Guarded'
  <1>1. dead \subseteq dead' /\ UNCHANGED <<file, lockPc, found, raced>>
    BY DEF Die, Crash
  <1>2. \A q \in Proc : lockPc'[q] = "reap" => found'[q] # {} /\ found'[q] \subseteq dead'
    BY <1>1 DEF Guarded
  <1>3. ASSUME ~raced', NEW q \in Proc, Alive(q)' PROVE Owned(q)'
    BY <1>1, <1>3 DEF Guarded, Owned, Alive
  <1>4. QED
    BY <1>2, <1>3 DEF Guarded

-----------------------------------------------------------------------------
(* Where a call of the lock takes a process and its job.                     *)

Moves(p) ==
    /\ \A q \in Proc : q # p => lockPc'[q] = lockPc[q] /\ jobAt'[q] = jobAt[q]
    /\ \/ lockPc[p] \in Asking /\ lockPc'[p] \in Asking /\ jobAt'[p] = jobAt[p]
       \/ lockPc[p] = "write" /\ lockPc'[p] = "held" /\ jobAt'[p] = "working"
       \/ lockPc[p] \in Asking /\ lockPc'[p] = "out" /\ jobAt'[p] = "done"
       \/ /\ lockPc'[p] \in {"unlink", "out"} /\ jobAt[p] = "done"
          /\ jobAt'[p] = "done" \/ (p = Watcher /\ jobAt'[p] = "start")

LEMMA LockingMoves ==
  ASSUME CallersTypeOK, NEW p \in Proc, Locking(p)
  PROVE  Moves(p)
  <1>1. CASE Acquiring(p)
    <2>1. jobAt' = jobAt
      BY <1>1 DEF Acquiring
    <2>2. PICK l \in {"reap", "create", "write"} : GoTo(p, l) /\ lockPc[p] \in {"inspect", "reap", "create"}
      BY <1>1 DEF Acquiring, FindsLock, Reap, Create, At
    <2>3. QED
      BY <2>1, <2>2, Went DEF Moves, LockPc, Asking
  <1>2. CASE Acquired(p)
    <2>1. GoTo(p, "held") /\ Step(p, "working") /\ lockPc[p] = "write"
      BY <1>2 DEF Acquired, Write, At
    <2>2. QED
      BY <2>1, Went, Stepped DEF Moves, LockPc, Steps
  <1>3. CASE Busy(p)
    <2>1. lockPc[p] \in {"inspect", "create"}
      BY <1>3 DEF Busy, IsBusy, At
    <2>2. CASE p = Watcher
      <3>1. GoTo(p, "inspect") /\ jobAt' = jobAt
        BY <1>3, <2>2 DEF Busy
      <3>2. QED
        BY <2>1, <3>1, Went DEF Moves, LockPc, Asking
    <2>3. CASE p # Watcher
      <3>1. GoTo(p, "out") /\ Step(p, "done")
        BY <1>3, <2>3 DEF Busy
      <3>2. QED
        BY <2>1, <3>1, Went, Stepped DEF Moves, LockPc, Steps, Asking
    <2>4. QED
      BY <2>2, <2>3
  <1>4. CASE Releasing(p)
    <2>1. GoTo(p, "unlink") /\ jobAt' = jobAt /\ jobAt[p] = "done"
      BY <1>4 DEF Releasing, FindsOwnToken
    <2>2. QED
      BY <2>1, Went DEF Moves, LockPc
  <1>5. CASE Released(p)
    <2>1. GoTo(p, "out") /\ jobAt[p] = "done"
      BY <1>5 DEF Released
    <2>2. lockPc'[p] = "out" /\ \A q \in Proc : q # p => lockPc'[q] = lockPc[q]
      BY <2>1, Went DEF LockPc
    <2>3. CASE p = Watcher
      <3>1. Step(p, "start")
        BY <1>5, <2>3 DEF Released
      <3>2. QED
        BY <2>1, <2>2, <2>3, <3>1, Stepped DEF Moves, Steps
    <2>4. CASE p # Watcher
      <3>1. jobAt' = jobAt
        BY <1>5, <2>4 DEF Released
      <3>2. QED
        BY <2>1, <2>2, <3>1 DEF Moves
    <2>5. QED
      BY <2>3, <2>4
  <1>6. QED
    BY <1>1, <1>2, <1>3, <1>4, <1>5 DEF Locking

LEMMA MovesKeepPlaced ==
  ASSUME Placed, NEW p \in Proc, Moves(p)
  PROVE  Placed'
  <1>1. SUFFICES ASSUME NEW q \in Proc
                 PROVE  /\ lockPc'[q] \in Asking => jobAt'[q] = "locking"
                        /\ jobAt'[q] = "working" => lockPc'[q] = "held"
    BY DEF Placed, Asking
  <1>2. CASE q = p
    BY <1>2 DEF Placed, Moves, Asking
  <1>3. CASE q # p
    BY <1>3 DEF Placed, Moves, Asking
  <1>4. QED
    BY <1>2, <1>3

LEMMA LockingIsRestful ==
  ASSUME CallersTypeOK, Placed, NEW p \in Proc, Locking(p)
  PROVE  Restful
  <1>1. /\ job' = job /\ profileJson' = profileJson /\ read' = read
        /\ commits' = commits /\ base' = base
    BY DEF Locking, Acquiring, Acquired, Busy, Releasing, Released, recordVars
  <1>2. Moves(p)
    BY LockingMoves
  <1>3. ASSUME NEW q \in Commands
        PROVE  /\ jobAt[q] = "done" => jobAt'[q] = "done"
               /\ Pending(q)' => Pending(q)
    <2>1. q \in Proc /\ q # Watcher
      BY DEF Commands
    <2>2. CASE q = p
      BY <1>2, <2>1, <2>2 DEF Moves, Placed, Pending, Asking
    <2>3. CASE q # p
      BY <1>2, <2>1, <2>3 DEF Moves, Pending
    <2>4. QED
      BY <2>2, <2>3
  <1>4. QED
    BY <1>1, <1>3 DEF Restful

LEMMA LockingKeepsCounted ==
  ASSUME CallersTypeOK, Placed, Counted, NEW p \in Proc, Locking(p)
  PROVE  Counted'
  <1>1. /\ job' = job /\ copy' = copy /\ revision' = revision /\ exports' = exports
        /\ dead' = dead /\ (raced => raced')
    <2>1. job' = job /\ copy' = copy /\ revision' = revision /\ exports' = exports
      BY DEF Locking, Acquiring, Acquired, Busy, Releasing, Released, lockfileVars
    <2>2. dead' = dead /\ (raced' = raced \/ Reap(p))
      BY DEF Locking, Acquiring, Acquired, Busy, Releasing, Released,
             FindsLock, Reap, Create, Write, FindsOwnToken, Unlink
    <2>3. Reap(p) => (raced => raced')
      BY Zenon DEF Reap
    <2>4. QED
      BY <2>1, <2>2, <2>3
  <1>2. \A q \in Proc : jobAt[q] = "working" => jobAt'[q] = "working"
    <2>1. SUFFICES ASSUME NEW q \in Proc, jobAt[q] = "working" PROVE jobAt'[q] = "working"
      OBVIOUS
    <2>2. lockPc[q] = "held"
      BY <2>1 DEF Placed
    <2>3. QED
      BY <2>1, <2>2, LockingMoves DEF Moves, Asking
  <1>3. QED
    BY <1>1, <1>2 DEF Counted, Alive

-----------------------------------------------------------------------------
(* The steps outside the lock's own calls. Those that leave the lock, the    *)
(* jobs' places and the written files alone are one case.                    *)

Aside ==
    /\ lockPc' = lockPc /\ file' = file /\ found' = found /\ raced' = raced
    /\ dead \subseteq dead'
    /\ job' = job /\ jobAt' = jobAt /\ profileJson' = profileJson /\ read' = read
    /\ commits' = commits /\ base' = base
    /\ revision' = revision /\ copy' = copy /\ exports' = exports

LEMMA AsideKeeps ==
  ASSUME CallersTypeOK, Placed, Counted, Overlapping, Aside
  PROVE  Placed' /\ Counted' /\ Overlapping'
  <1>1. Placed'
    BY DEF Aside, Placed
  <1>2. Counted'
    BY DEF Aside, Counted, Alive
  <1>3. Restful
    BY DEF Aside, Restful, Pending
  <1>4. QED
    BY <1>1, <1>2, <1>3, RestfulKeeps

LEMMA AreAside ==
  ASSUME CallersTypeOK,
         TriggerRecompile \/ Close \/ Change \/ Interrupt \/ (\E p \in Proc : Die(p))
  PROVE  Aside
  <1>1. CASE TriggerRecompile \/ Close \/ Change \/ Interrupt
    BY <1>1 DEF TriggerRecompile, Close, Change, Interrupt, Quiet, Aside, lockVars,
                recordVars, lockfileVars
  <1>2. CASE \E p \in Proc : Die(p)
    BY <1>2 DEF Die, Crash, Aside, recordVars, lockfileVars
  <1>3. QED
    BY <1>1, <1>2

(* A job that begins or ends: the lock file and the lock's owners stay.      *)
LEMMA SameLock ==
  ASSUME Guarded, UNCHANGED lockVars
  PROVE  Guarded'
  BY DEF Guarded, Owned, Alive, lockVars

LEMMA SkipKeeps ==
  ASSUME CallersTypeOK, Placed, Counted, Overlapping, NEW p \in Commands, Skip(p)
  PROVE  Placed' /\ Counted' /\ Overlapping'
  <1>1. /\ p \in Proc /\ jobAt[p] = "start" /\ jobAt'[p] = "done"
        /\ \A q \in Proc : q # p => jobAt'[q] = jobAt[q]
    BY Stepped DEF Skip, Commands, Steps
  <1>2. /\ lockPc' = lockPc /\ dead' = dead /\ raced' = raced /\ job' = job
        /\ copy' = copy /\ revision' = revision /\ exports' = exports
    BY DEF Skip, lockVars, lockfileVars
  <1>3. Placed'
    BY <1>1, <1>2 DEF Placed
  <1>4. Counted'
    BY <1>1, <1>2 DEF Counted, Alive
  <1>5. Restful
    BY <1>1, <1>2 DEF Skip, recordVars, Restful, Pending, Commands
  <1>6. QED
    BY <1>3, <1>4, <1>5, RestfulKeeps

LEMMA AskKeeps ==
  ASSUME CallersTypeOK, Placed, Counted, NEW p \in Commands, Ask(p)
  PROVE  Placed' /\ Counted'
  <1>1. /\ p \in Proc /\ jobAt[p] = "start" /\ jobAt'[p] = "locking"
        /\ \A q \in Proc : q # p => jobAt'[q] = jobAt[q]
    BY Stepped DEF Ask, Commands, Steps
  <1>2. lockPc'[p] = "inspect" /\ \A q \in Proc : q # p => lockPc'[q] = lockPc[q]
    BY <1>1, Went DEF Ask, LockPc
  <1>3. /\ dead' = dead /\ raced' = raced /\ job' = job
        /\ copy' = copy /\ revision' = revision /\ exports' = exports
    BY DEF Ask, lockfileVars
  <1>4. Placed'
    BY <1>1, <1>2 DEF Placed
  <1>5. Counted'
    BY <1>1, <1>3 DEF Counted, Alive
  <1>6. QED
    BY <1>4, <1>5

LEMMA ProcessQueueKeeps ==
  ASSUME CallersTypeOK, Placed, Guarded, Counted, Overlapping, ProcessQueue,
         jobAt[Watcher] # "working"
  PROVE  Placed' /\ Guarded' /\ Counted' /\ Overlapping'
  <1>1. Watcher \in Proc /\ Watcher \notin Commands
    BY CallersAssumption DEF Commands
  <1>2. jobAt'[Watcher] = "locking" /\ \A q \in Proc : q # Watcher => jobAt'[q] = jobAt[q]
    BY <1>1, Stepped DEF ProcessQueue, Steps
  <1>3. lockPc'[Watcher] = "inspect" /\ \A q \in Proc : q # Watcher => lockPc'[q] = lockPc[q]
    BY <1>1, Went DEF ProcessQueue, LockPc
  <1>4. /\ dead' = dead /\ raced' = raced /\ job' = job
        /\ copy' = copy /\ revision' = revision /\ exports' = exports
    BY DEF ProcessQueue, lockfileVars
  <1>5. Placed'
    BY <1>2, <1>3 DEF Placed
  <1>6. Guarded'
    BY <1>1, Unguarded DEF ProcessQueue
  <1>7. Counted'
    BY <1>2, <1>4 DEF Counted, Alive
  <1>8. Restful
    BY <1>1, <1>2 DEF ProcessQueue, recordVars, Restful, Pending, Commands
  <1>9. QED
    BY <1>5, <1>6, <1>7, <1>8, RestfulKeeps

LEMMA CommitProfileKeeps ==
  ASSUME CallersTypeOK, Placed, Counted, NEW p \in Commands, CommitProfile(p)
  PROVE  Placed' /\ Counted'
  <1>1. /\ p \in Proc /\ jobAt'[p] = "done" /\ job[p].kind # "export"
        /\ \A q \in Proc : q # p => jobAt'[q] = jobAt[q]
    BY Stepped DEF CommitProfile, Commands, Steps
  <1>2. /\ lockPc' = lockPc /\ dead' = dead /\ raced' = raced /\ job' = job
        /\ copy' = copy /\ revision' = revision /\ exports' = exports /\ jobAt[p] = "working"
    BY DEF CommitProfile, lockVars, lockfileVars
  <1>3. Placed'
    BY <1>1, <1>2 DEF Placed
  <1>4. copy[p] = 0
    BY <1>1 DEF Counted
  <1>5. Counted'
    BY <1>1, <1>2, <1>4 DEF Counted, Alive
  <1>6. QED
    BY <1>3, <1>5

LEMMA ReadRevisionKeeps ==
  ASSUME CallersTypeOK, Placed, Counted, Overlapping, NEW p \in Proc, ReadRevision(p)
  PROVE  Placed' /\ Counted' /\ Overlapping'
  <1>1. /\ lockPc' = lockPc /\ dead' = dead /\ raced' = raced /\ job' = job /\ jobAt' = jobAt
        /\ revision' = revision /\ exports' = exports
        /\ jobAt[p] = "working" /\ (p \in Commands => job[p].kind = "export")
    BY DEF ReadRevision, lockVars
  <1>2. copy'[p] = revision + 1 /\ \A q \in Proc : q # p => copy'[q] = copy[q]
    BY DEF ReadRevision, CallersTypeOK
  <1>3. Placed'
    BY <1>1 DEF Placed
  <1>4. \A q \in Proc : copy'[q] # 0 => /\ jobAt'[q] = "working"
                                        /\ q \in Commands => job'[q].kind = "export"
    BY <1>1, <1>2 DEF Counted
  <1>5. ~raced' => /\ revision' = exports'
                   /\ \A q \in Proc : Alive(q)' /\ copy'[q] # 0 => copy'[q] = revision' + 1
    BY <1>1, <1>2 DEF Counted, Alive
  <1>6. Restful
    BY <1>1 DEF ReadRevision, recordVars, Restful, Pending
  <1>7. QED
    BY <1>3, <1>4, <1>5, <1>6, RestfulKeeps DEF Counted

(* The end of an export, committed or not.                                   *)
LEMMA ExportEnds ==
  ASSUME CallersTypeOK, Placed, Overlapping, NEW p \in Proc,
         jobAt[p] = "working", Step(p, "done"), UNCHANGED <<lockVars, job, recordVars>>
  PROVE  Placed' /\ Overlapping'
  <1>1. jobAt'[p] = "done" /\ \A q \in Proc : q # p => jobAt'[q] = jobAt[q]
    BY Stepped DEF Steps
  <1>2. Placed'
    BY <1>1 DEF Placed, lockVars
  <1>3. Restful
    BY <1>1 DEF recordVars, Restful, Pending, Commands
  <1>4. QED
    BY <1>2, <1>3, RestfulKeeps

LEMMA CommitExportKeeps ==
  ASSUME CallersTypeOK, Placed, Guarded, Counted, NEW p \in Proc, CommitExport(p)
  PROVE  Counted'
  <1>1. /\ lockPc' = lockPc /\ dead' = dead /\ raced' = raced /\ job' = job
        /\ revision' = copy[p] /\ exports' = exports + 1 /\ copy[p] # 0
        /\ Alive(p) /\ jobAt[p] = "working"
    BY DEF CommitExport, lockVars
  <1>2. jobAt'[p] = "done" /\ \A q \in Proc : q # p => jobAt'[q] = jobAt[q]
    BY Stepped DEF CommitExport, Steps
  <1>3. copy'[p] = 0 /\ \A q \in Proc : q # p => copy'[q] = copy[q]
    BY DEF CommitExport, CallersTypeOK
  <1>4. \A q \in Proc : copy'[q] # 0 => /\ jobAt'[q] = "working"
                                        /\ q \in Commands => job'[q].kind = "export"
    BY <1>1, <1>2, <1>3 DEF Counted
  <1>5. ASSUME ~raced'
        PROVE  /\ revision' = exports'
               /\ \A q \in Proc : Alive(q)' /\ copy'[q] # 0 => copy'[q] = revision' + 1
    <2>1. revision' = exports'
      BY <1>1, <1>5 DEF Counted
    <2>2. ASSUME NEW q \in Proc, Alive(q)', copy'[q] # 0 PROVE FALSE
      <3>1. q # p /\ Alive(q) /\ jobAt[q] = "working"
        BY <1>1, <1>3, <2>2 DEF Counted, Alive
      <3>2. lockPc[q] = "held" /\ lockPc[p] = "held"
        BY <1>1, <3>1 DEF Placed
      <3>3. QED
        BY <1>1, <1>5, <3>1, <3>2, Sole
    <2>3. QED
      BY <2>1, <2>2
  <1>6. QED
    BY <1>4, <1>5 DEF Counted

LEMMA SyncFailsKeeps ==
  ASSUME CallersTypeOK, Counted, SyncFails
  PROVE  Counted'
  <1>1. /\ dead' = dead /\ raced' = raced /\ job' = job
        /\ revision' = revision /\ exports' = exports /\ Watcher \in Proc
    BY CallersAssumption DEF SyncFails, lockVars
  <1>2. copy'[Watcher] = 0 /\ \A q \in Proc : q # Watcher => copy'[q] = copy[q]
    BY <1>1 DEF SyncFails, CallersTypeOK
  <1>3. \A q \in Proc : q # Watcher => jobAt'[q] = jobAt[q]
    BY <1>1, Stepped DEF SyncFails, Steps
  <1>4. QED
    BY <1>1, <1>2, <1>3 DEF Counted, Alive

-----------------------------------------------------------------------------
(* The daemon's loop runs while it has a job.                                *)

Running == ~daemon.processing => jobAt[Watcher] = "start"

LEMMA LockingKeepsRunning ==
  ASSUME CallersTypeOK, Placed, Running, NEW p \in Proc, Locking(p)
  PROVE  Running'
  <1>1. Moves(p) /\ Watcher \in Proc
    BY LockingMoves, CallersAssumption
  <1>2. CASE Released(p) /\ p = Watcher
    BY <1>2, <1>1, Stepped DEF Released, Running, Steps
  <1>3. CASE ~(Released(p) /\ p = Watcher)
    <2>1. daemon' = daemon
      BY <1>3 DEF Locking, Acquiring, Acquired, Busy, Releasing, Released
    <2>2. ~(jobAt[Watcher] = "start" /\ jobAt'[Watcher] # "start")
      <3>1. SUFFICES ASSUME jobAt[Watcher] = "start", jobAt'[Watcher] # "start", p = Watcher
                     PROVE  FALSE
        BY <1>1 DEF Moves
      <3>2. lockPc[p] \notin Asking
        BY <3>1 DEF Placed, Asking
      <3>3. QED
        BY <1>1, <3>1, <3>2 DEF Moves, Asking
    <2>3. QED
      BY <2>1, <2>2 DEF Running
  <1>4. QED
    BY <1>2, <1>3

LEMMA OthersKeepRunning ==
  ASSUME CallersTypeOK, Running,
         \/ \E p \in Proc : Exporting(p) \/ Die(p)
         \/ \E p \in Commands : Command(p)
         \/ Daemon \/ Change \/ Interrupt
  PROVE  Running'
  <1>1. Watcher \in Proc /\ Watcher \notin Commands /\ Commands \subseteq Proc
    BY CallersAssumption DEF Commands
  <1>2. ASSUME NEW p \in Proc, Exporting(p) PROVE Running'
    <2>1. CASE ReadRevision(p)
      BY <2>1 DEF ReadRevision, Running
    <2>2. CASE CommitExport(p)
      <3>1. daemon'.processing = daemon.processing
        BY <2>2 DEF CommitExport, CallersTypeOK, DaemonState
      <3>2. jobAt[p] = "working" /\ Step(p, "done")
        BY <2>2 DEF CommitExport
      <3>3. \A q \in Proc : q # p => jobAt'[q] = jobAt[q]
        BY <3>2, Stepped DEF Steps
      <3>4. QED
        BY <1>1, <3>1, <3>2, <3>3 DEF Running
    <2>3. QED
      BY <1>2, <2>1, <2>2 DEF Exporting
  <1>3. ASSUME NEW p \in Commands, Command(p) PROVE Running'
    <2>1. daemon' = daemon /\ \E s \in Steps : Step(p, s)
      BY <1>3 DEF Command, Skip, Ask, CommitProfile, Steps
    <2>2. jobAt'[Watcher] = jobAt[Watcher]
      BY <1>1, <2>1, Stepped
    <2>3. QED
      BY <2>1, <2>2 DEF Running
  <1>4. CASE ProcessQueue
    BY <1>4 DEF ProcessQueue, Running, CallersTypeOK, DaemonState
  <1>5. CASE SyncFails
    <2>1. daemon'.processing = daemon.processing /\ jobAt[Watcher] = "working"
      BY <1>5 DEF SyncFails, CallersTypeOK, DaemonState
    <2>2. QED
      BY <2>1 DEF Running
  <1>6. CASE TriggerRecompile \/ Close \/ Change \/ Interrupt
    <2>1. daemon'.processing = daemon.processing /\ jobAt' = jobAt
      BY <1>6 DEF TriggerRecompile, Close, Change, Interrupt, Quiet, CallersTypeOK, DaemonState
    <2>2. QED
      BY <2>1 DEF Running
  <1>7. ASSUME NEW p \in Proc, Die(p) PROVE Running'
    BY <1>7 DEF Die, Running
  <1>8. QED
    BY <1>2, <1>3, <1>4, <1>5, <1>6, <1>7 DEF Daemon

-----------------------------------------------------------------------------
(* Types.                                                                    *)

LEMMA LockingTyped ==
  ASSUME CallersTypeOK, NEW p \in Proc, Locking(p)
  PROVE  CallersTypeOK'
  <1>1. lockPc' \in [Proc -> LockPc]
    <2>1. \E l \in LockPc : GoTo(p, l)
      BY DEF Locking, Acquiring, Acquired, Busy, Releasing, Released, FindsLock, Reap, Create,
             Write, FindsOwnToken, LockPc
    <2>2. QED
      BY <2>1, Went
  <1>2. jobAt' \in [Proc -> Steps]
    <2>1. jobAt' = jobAt \/ \E s \in Steps : Step(p, s)
      BY DEF Locking, Acquiring, Acquired, Busy, Releasing, Released, Steps
    <2>2. QED
      BY <2>1, Stepped DEF CallersTypeOK
  <1>3. file' \in LockFile
    <2>1. file' \in {file, Absent, [by |-> {p}, written |-> FALSE]}
          \/ (file.by = {p} /\ file' = [file EXCEPT !.written = TRUE])
      BY DEF Locking, Acquiring, Acquired, Busy, Releasing, Released, FindsLock, Reap, Create,
             Write, FindsOwnToken, Unlink
    <2>2. file \in LockFile
      BY DEF CallersTypeOK, LockTypeOK
    <2>3. CASE file.by = {p} /\ file' = [file EXCEPT !.written = TRUE]
      BY <2>2, <2>3 DEF LockFile, Absent
    <2>4. Absent \in LockFile /\ [by |-> {p}, written |-> FALSE] \in LockFile
      BY DEF LockFile
    <2>5. QED
      BY <2>1, <2>2, <2>3, <2>4
  <1>4. dead' = dead /\ found' \in [Proc -> SUBSET Proc]
    <2>1. dead' = dead
      BY DEF Locking, Acquiring, Acquired, Busy, Releasing, Released, FindsLock, Reap, Create,
             Write, FindsOwnToken, Unlink
    <2>2. found' = found \/ found' = [found EXCEPT ![p] = Inspect]
      BY DEF Locking, Acquiring, Acquired, Busy, Releasing, Released, FindsLock, Reap, Create,
             Write, FindsOwnToken, Unlink
    <2>3. Inspect \subseteq Proc
      BY DEF Inspect, CallersTypeOK, LockTypeOK, LockFile, Absent
    <2>4. QED
      BY <2>1, <2>2, <2>3 DEF CallersTypeOK, LockTypeOK
  <1>5. raced' \in BOOLEAN
    BY DEF Locking, Acquiring, Acquired, Busy, Releasing, Released, FindsLock, Reap, Create,
           Write, FindsOwnToken, Unlink, CallersTypeOK, LockTypeOK
  <1>6. daemon' \in DaemonState
    BY DEF Locking, Acquiring, Acquired, Busy, Releasing, Released, CallersTypeOK, DaemonState
  <1>7. UNCHANGED <<job, recordVars, lockfileVars>>
    BY DEF Locking, Acquiring, Acquired, Busy, Releasing, Released
  <1>8. QED
    BY <1>1, <1>2, <1>3, <1>4, <1>5, <1>6, <1>7
    DEF CallersTypeOK, LockTypeOK, recordVars, lockfileVars

LEMMA CommandTyped ==
  ASSUME CallersTypeOK, NEW p \in Commands, Command(p)
  PROVE  CallersTypeOK'
  <1>1. p \in Proc
    BY DEF Commands
  <1>2. jobAt' \in [Proc -> Steps]
    <2>1. \E s \in Steps : Step(p, s)
      BY DEF Command, Skip, Ask, CommitProfile, Steps
    <2>2. QED
      BY <1>1, <2>1, Stepped
  <1>3. CASE Skip(p)
    BY <1>2, <1>3 DEF Skip, CallersTypeOK, LockTypeOK, lockVars, recordVars, lockfileVars
  <1>4. CASE Ask(p)
    <2>1. lockPc' \in [Proc -> LockPc]
      BY <1>1, <1>4, Went DEF Ask, LockPc
    <2>2. read' \in [Commands -> Profiles] /\ base' \in [Commands -> Nat]
      BY <1>4 DEF Ask, CallersTypeOK, Profiles
    <2>3. QED
      BY <1>2, <1>4, <2>1, <2>2 DEF Ask, CallersTypeOK, LockTypeOK, lockfileVars, Profiles
  <1>5. CASE CommitProfile(p)
    <2>1. profileJson' \in Profiles
      BY <1>5, NewProfileTyped DEF CommitProfile
    <2>2. commits' \in Seq(Commands)
      BY <1>5 DEF CommitProfile, CallersTypeOK
    <2>3. QED
      BY <1>2, <1>5, <2>1, <2>2
      DEF CommitProfile, CallersTypeOK, LockTypeOK, lockVars, lockfileVars, Profiles
  <1>6. QED
    BY <1>3, <1>4, <1>5 DEF Command

LEMMA ExportingTyped ==
  ASSUME CallersTypeOK, NEW p \in Proc, Exporting(p)
  PROVE  CallersTypeOK'
  <1>1. copy' \in [Proc -> Nat] /\ revision' \in Nat /\ exports' \in Nat
    <2>1. copy \in [Proc -> Nat] /\ revision \in Nat /\ exports \in Nat
      BY DEF CallersTypeOK
    <2>2. CASE ReadRevision(p)
      BY <2>1, <2>2 DEF ReadRevision
    <2>3. CASE CommitExport(p)
      <3>1. copy' = [copy EXCEPT ![p] = 0] /\ revision' = copy[p] /\ exports' = exports + 1
        BY <2>3 DEF CommitExport
      <3>2. QED
        BY <2>1, <3>1
    <2>4. QED
      BY <2>2, <2>3 DEF Exporting
  <1>2. jobAt' \in [Proc -> Steps]
    <2>1. jobAt' = jobAt \/ Step(p, "done")
      BY DEF Exporting, ReadRevision, CommitExport
    <2>2. QED
      BY <2>1, Stepped DEF CallersTypeOK, Steps
  <1>3. daemon' \in DaemonState
    BY DEF Exporting, ReadRevision, CommitExport, CallersTypeOK, DaemonState
  <1>4. UNCHANGED <<lockVars, job, recordVars>>
    BY DEF Exporting, ReadRevision, CommitExport
  <1>5. QED
    BY <1>1, <1>2, <1>3, <1>4 DEF CallersTypeOK, LockTypeOK, lockVars, recordVars

LEMMA DaemonTyped ==
  ASSUME CallersTypeOK, Daemon \/ Change \/ Interrupt
  PROVE  CallersTypeOK'
  <1>1. daemon' \in DaemonState
    <2>1. daemon \in DaemonState
      BY DEF CallersTypeOK
    <2>2. CASE Change
      <3>1. daemon.changes + 1 \in 0 .. MaxChanges
        BY <2>1, <2>2, CallersAssumption DEF Change, DaemonState
      <3>2. daemon' = [daemon EXCEPT !.dirty = TRUE, !.event = TRUE, !.changes = daemon.changes + 1]
        BY <2>2 DEF Change
      <3>3. QED
        BY <2>1, <3>1, <3>2 DEF DaemonState
    <2>3. CASE Interrupt \/ TriggerRecompile
      BY <2>1, <2>3 DEF Interrupt, TriggerRecompile, DaemonState
    <2>4. CASE ProcessQueue \/ Close \/ SyncFails
      BY <2>1, <2>4 DEF ProcessQueue, Close, SyncFails, DaemonState
    <2>5. QED
      BY <2>2, <2>3, <2>4 DEF Daemon
  <1>2. Watcher \in Proc
    BY CallersAssumption
  <1>3. CASE TriggerRecompile \/ Close \/ Change \/ Interrupt
    <2>1. Quiet
      BY <1>3 DEF TriggerRecompile, Close, Change, Interrupt
    <2>2. QED
      BY <1>1, <2>1 DEF Quiet, CallersTypeOK, LockTypeOK, lockVars, recordVars, lockfileVars
  <1>4. CASE ProcessQueue
    <2>1. lockPc' \in [Proc -> LockPc] /\ jobAt' \in [Proc -> Steps]
      BY <1>2, <1>4, Went, Stepped DEF ProcessQueue, LockPc, Steps
    <2>2. QED
      BY <1>1, <1>4, <2>1 DEF ProcessQueue, CallersTypeOK, LockTypeOK, recordVars, lockfileVars
  <1>5. CASE SyncFails
    <2>1. jobAt' \in [Proc -> Steps]
      BY <1>2, <1>5, Stepped DEF SyncFails, Steps
    <2>2. QED
      BY <1>1, <1>5, <2>1 DEF SyncFails, CallersTypeOK, LockTypeOK, lockVars, recordVars
  <1>6. QED
    BY <1>3, <1>4, <1>5 DEF Daemon

LEMMA DieTyped ==
  ASSUME CallersTypeOK, NEW p \in Proc, Die(p)
  PROVE  CallersTypeOK'
  BY DEF Die, Crash, CallersTypeOK, LockTypeOK, recordVars, lockfileVars

-----------------------------------------------------------------------------
(* The invariant.                                                            *)

LockInv == CallersTypeOK /\ Placed /\ Guarded /\ Counted /\ Overlapping /\ Running

LEMMA Begins == CallersInit(Plans, {NoFile, Initially}) => LockInv
  <1>1. SUFFICES ASSUME CallersInit(Plans, {NoFile, Initially}) PROVE LockInv
    OBVIOUS
  <1>2. LockTypeOK
    BY <1>1 DEF CallersInit, LockInit, LockTypeOK, LockFile, LockPc
  <1>3. NoFile \in Profiles /\ Initially \in Profiles
    <2>1. {} \in Ids /\ {"initial"} \in Ids
      BY DEF Ids
    <2>2. QED
      BY <2>1 DEF NoFile, Initially, Profiles
  <1>4. profileJson \in Profiles /\ read \in [Commands -> Profiles]
    BY <1>1, <1>3 DEF CallersInit
  <1>5. commits \in Seq(Commands) /\ Len(commits) = 0
    BY <1>1 DEF CallersInit
  <1>6. daemon \in DaemonState
    BY <1>1, CallersAssumption DEF CallersInit, DaemonState
  <1>7. /\ job \in Plans /\ jobAt \in [Proc -> Steps] /\ base \in [Commands -> Nat]
        /\ revision \in Nat /\ exports \in Nat /\ copy \in [Proc -> Nat]
    BY <1>1 DEF CallersInit, Steps
  <1>8. CallersTypeOK
    BY <1>2, <1>4, <1>5, <1>6, <1>7 DEF CallersTypeOK, Profiles
  <1>9. /\ \A p \in Proc : lockPc[p] = "out" /\ jobAt[p] = "start" /\ copy[p] = 0
        /\ \A p \in Commands : p \in Proc /\ base[p] = 0
        /\ revision = 0 /\ exports = 0 /\ Watcher \in Proc
    BY <1>1, CallersAssumption DEF CallersInit, LockInit, Commands
  <1>10. Placed /\ Guarded
    BY <1>9 DEF Placed, Guarded, Owned
  <1>11. Counted /\ Running
    BY <1>9 DEF Counted, Running
  <1>12. Overlapping
    BY <1>5, <1>9 DEF Overlapping
  <1>13. QED
    BY <1>8, <1>10, <1>11, <1>12 DEF LockInv

LEMMA Inductive == LockInv /\ [CallersNext]_callersVars => LockInv'
  <1> SUFFICES ASSUME LockInv, [CallersNext]_callersVars PROVE LockInv'
    OBVIOUS
  <1> USE DEF LockInv
  <1>1. ASSUME NEW p \in Proc, Locking(p) PROVE LockInv'
    BY <1>1, LockingTyped, LockingMoves, MovesKeepPlaced, LockingKeepsGuarded, LockingKeepsCounted,
       LockingIsRestful, RestfulKeeps, LockingKeepsRunning
  <1>2. ASSUME NEW p \in Proc, Exporting(p) PROVE LockInv'
    <2>1. CallersTypeOK' /\ Running'
      BY <1>2, ExportingTyped, OthersKeepRunning
    <2>2. UNCHANGED lockVars
      BY <1>2 DEF Exporting, ReadRevision, CommitExport
    <2>3. Placed' /\ Counted' /\ Overlapping'
      <3>1. CASE ReadRevision(p)
        BY <3>1, ReadRevisionKeeps
      <3>2. CASE CommitExport(p)
        BY <3>2, CommitExportKeeps, ExportEnds DEF CommitExport
      <3>3. QED
        BY <1>2, <3>1, <3>2 DEF Exporting
    <2>4. QED
      BY <2>1, <2>2, <2>3, SameLock
  <1>3. ASSUME NEW p \in Proc, Die(p) PROVE LockInv'
    BY <1>3, DieTyped, AreAside, AsideKeeps, DieKeepsGuarded, OthersKeepRunning
  <1>4. ASSUME NEW p \in Commands, Command(p) PROVE LockInv'
    <2>1. CallersTypeOK' /\ Running'
      BY <1>4, CommandTyped, OthersKeepRunning
    <2>2. CASE Skip(p)
      BY <2>1, <2>2, SkipKeeps, SameLock DEF Skip
    <2>3. CASE Ask(p)
      <3>1. Guarded'
        BY <2>3, Unguarded DEF Ask, Commands
      <3>2. QED
        BY <2>1, <2>3, <3>1, AskKeeps, AskKeepsHistory
    <2>4. CASE CommitProfile(p)
      BY <2>1, <2>4, CommitProfileKeeps, CommitKeepsHistory, SameLock DEF CommitProfile
    <2>5. QED
      BY <1>4, <2>2, <2>3, <2>4 DEF Command
  <1>5. CASE Daemon \/ Change \/ Interrupt
    <2>1. CallersTypeOK' /\ Running'
      BY <1>5, DaemonTyped, OthersKeepRunning
    <2>2. CASE TriggerRecompile \/ Close \/ Change \/ Interrupt
      <3>1. UNCHANGED lockVars
        BY <2>2 DEF TriggerRecompile, Close, Change, Interrupt, Quiet
      <3>2. QED
        BY <2>1, <2>2, <3>1, AreAside, AsideKeeps, SameLock
    <2>3. CASE ProcessQueue
      BY <2>1, <2>3, ProcessQueueKeeps DEF ProcessQueue, Turn, Running
    <2>4. CASE SyncFails
      BY <2>1, <2>4, SyncFailsKeeps, ExportEnds, SameLock, CallersAssumption DEF SyncFails
    <2>5. QED
      BY <1>5, <2>2, <2>3, <2>4 DEF Daemon
  <1>6. CASE UNCHANGED callersVars
    <2>1. Aside /\ UNCHANGED lockVars /\ daemon' = daemon
      BY <1>6 DEF callersVars, lockVars, Aside
    <2>2. CallersTypeOK' /\ Running'
      BY <2>1 DEF Aside, lockVars, CallersTypeOK, LockTypeOK, Running
    <2>3. QED
      BY <2>1, <2>2, AsideKeeps, SameLock
  <1>7. QED
    BY <1>1, <1>2, <1>3, <1>4, <1>5, <1>6 DEF CallersNext

LEMMA Invariance == CallersSpec => []LockInv
  BY Begins, Inductive, PTL DEF CallersSpec

(* The lock file, the processes and what they write are well formed.         *)
THEOREM LockTypes == CallersSpec => []CallersTypeOK
  BY Invariance, PTL DEF LockInv

(* For any number of commands beside the daemon and any crashes: until a     *)
(* reaper removes a lock it has not read, at most one process acts under the *)
(* lock and no revision of the lockfile is lost (project-lock.js:5, 110).    *)
THEOREM LockIsExclusive == CallersSpec => []ExclusionUnlessRaced
  <1>1. LockInv /\ ~raced => Cardinality(Holders) <= 1 /\ revision = exports
    <2>1. SUFFICES ASSUME LockInv, ~raced PROVE Cardinality(Holders) <= 1 /\ revision = exports
      OBVIOUS
    <2>2. revision = exports
      BY <2>1 DEF LockInv, Counted
    <2>3. \A p, q \in Holders : p = q
      BY <2>1, Sole DEF LockInv, Holders, At
    <2>4. CASE Holders = {}
      BY <2>4, FS_EmptySet, <2>2
    <2>5. CASE Holders # {}
      <3>1. PICK p \in Holders : Holders = {p}
        BY <2>3, <2>5
      <3>2. QED
        BY <2>2, <3>1, FS_Singleton
    <2>6. QED
      BY <2>4, <2>5
  <1>2. LockInv => ExclusionUnlessRaced
    BY <1>1 DEF ExclusionUnlessRaced
  <1>3. QED
    BY <1>2, Invariance, PTL

(* Whatever the lock does, even when two processes hold it: an override that *)
(* was committed is gone only by a later command on its scope, by a removal  *)
(* of the profile, or by a command that read the file before it was there    *)
(* (profiles.js:431, 524).                                                   *)
THEOREM OverridesAreKept == CallersSpec => []LostToOverlapOnly
  <1>1. LockInv => LostToOverlapOnly
    BY SameLost DEF LockInv, Overlapping
  <1>2. QED
    BY <1>1, Invariance, PTL

-----------------------------------------------------------------------------
(* A record of natural numbers, and one that can have been written by now.   *)
NatRecord == [token : Nat, fencing : Nat, expires : Nat, torn : BOOLEAN]
Bounded(r) == r.token <= takes /\ r.fencing <= takes /\ r.expires <= clock + Ttl

Types ==
    /\ clock \in 0 .. MaxClock /\ takes \in 0 .. MaxTakes
    /\ lease \in NatRecord
    /\ at \in [Instance -> {"idle", "rename", "verify", "truncate", "rewrite", "unlink"}]
    /\ seen \in [Instance -> NatRecord]
    /\ held \in [Instance -> BOOLEAN]
    /\ mine \in [Instance -> NatRecord]
    /\ own \in [Instance -> NatRecord]
    /\ mixed \in BOOLEAN

Bounds ==
    /\ Bounded(lease)
    /\ \A i \in Instance : Bounded(seen[i]) /\ Bounded(mine[i]) /\ Bounded(own[i])

(* A token belongs to the instance that generated it.                        *)
TokenOwners ==
    \A i, j \in Instance : i # j =>
        /\ own[i].token # 0 => own[i].token \notin {own[j].token, mine[j].token}
        /\ mine[i].token # 0 => mine[i].token \notin {own[j].token, mine[j].token}

(* How far an instance is, and what it knows there.                          *)
Knows(i) ==
    /\ ~seen[i].torn /\ ~mine[i].torn
    /\ held[i] => own[i].token # 0 /\ at[i] \notin {"rename", "verify"}
    /\ at[i] \in {"rename", "verify"} => mine[i].token # 0
    /\ at[i] = "rename" => seen[i].token = 0 \/ clock > seen[i].expires
    /\ at[i] = "verify" /\ lease.token = mine[i].token => lease = mine[i]
    /\ at[i] \in {"truncate", "rewrite", "unlink"} => own[i].token # 0
    /\ at[i] \in {"truncate", "unlink"} => seen[i].token = own[i].token
    /\ at[i] = "rewrite" => mine[i].token = own[i].token

(* Until calls have mixed, a lease that its holder trusts is in the file, and*)
(* the file gives it at least as long; what a heartbeat has truncated stays  *)
(* truncated until it is rewritten.                                          *)
Trusted ==
    /\ \A i \in Instance : held[i] /\ clock <= own[i].expires =>
          lease.token = own[i].token /\ own[i].expires <= lease.expires
    /\ \A i \in Instance : at[i] = "rewrite" =>
          lease.torn /\ lease.token = mine[i].token /\ lease.expires = mine[i].expires

LeaseInv ==
    /\ Types /\ Bounds /\ TokenOwners
    /\ \A i \in Instance : Knows(i)
    /\ mixed \/ Trusted

LEMMA LeaseInitially == LeaseInit => LeaseInv
  <1>1. SUFFICES ASSUME LeaseInit PROVE LeaseInv
    OBVIOUS
  <1>2. NoLease \in NatRecord /\ NoLease.token = 0 /\ ~NoLease.torn
    BY DEF NatRecord, NoLease
  <1>3. Types
    <2>1. clock \in 0 .. MaxClock /\ takes \in 0 .. MaxTakes
      BY <1>1, LeaseAssumption DEF LeaseInit
    <2>2. QED
      BY <1>1, <1>2, <2>1 DEF LeaseInit, Types
  <1>4. Bounds
    BY <1>1, LeaseAssumption DEF LeaseInit, Bounds, Bounded, NoLease
  <1>5. TokenOwners
    BY <1>1, <1>2 DEF LeaseInit, TokenOwners
  <1>6. \A i \in Instance : Knows(i)
    BY <1>1, <1>2 DEF LeaseInit, Knows
  <1>7. Trusted
    BY <1>1 DEF LeaseInit, Trusted
  <1>8. QED
    BY <1>3, <1>4, <1>5, <1>6, <1>7 DEF LeaseInv

(* What readLock returns is the file or nothing.                             *)
LEMMA ReadRecord ==
  ASSUME Types, Bounds
  PROVE  /\ ReadLease \in NatRecord /\ Bounded(ReadLease) /\ ~ReadLease.torn
         /\ ReadLease.token # 0 => ReadLease = lease
  <1>1. NoLease \in NatRecord /\ Bounded(NoLease) /\ ~NoLease.torn /\ NoLease.token = 0
    BY LeaseAssumption DEF NatRecord, NoLease, Bounded, Types
  <1>2. QED
    BY <1>1 DEF ReadLease, Types, Bounds

LEMMA Numbers ==
  ASSUME Types
  PROVE  Ttl \in Nat /\ MaxClock \in Nat /\ MaxTakes \in Nat /\ clock \in Nat /\ takes \in Nat
  BY LeaseAssumption DEF Types

LEMMA TryAcquireKeeps ==
  ASSUME LeaseInv, NEW i \in Instance, TryAcquire(i)
  PROVE  LeaseInv'
  <1> USE Numbers DEF LeaseInv
  <1>1. /\ at[i] = "idle" /\ ~held[i] /\ takes < MaxTakes
        /\ ReadLease.token = 0 \/ clock > ReadLease.expires
        /\ lease' = lease /\ clock' = clock /\ held' = held /\ own' = own
        /\ mixed' = mixed /\ takes' = takes + 1
    BY DEF TryAcquire
  <1>2. /\ at' = [at EXCEPT ![i] = "rename"]
        /\ seen' = [seen EXCEPT ![i] = ReadLease]
        /\ mine' = [mine EXCEPT ![i] = NewLease(i)]
    BY DEF TryAcquire, Move
  <1>3. ReadLease \in NatRecord /\ Bounded(ReadLease) /\ ~ReadLease.torn
    BY ReadRecord
  <1>4. /\ at'[i] = "rename" /\ seen'[i] = ReadLease /\ mine'[i] = NewLease(i)
        /\ \A j \in Instance \ {i} :
              at'[j] = at[j] /\ seen'[j] = seen[j] /\ mine'[j] = mine[j]
    BY <1>2 DEF Types
  <1>5. /\ NewLease(i) \in NatRecord /\ ~NewLease(i).torn
        /\ NewLease(i).token = takes + 1 /\ NewLease(i).expires = clock + Ttl
        /\ NewLease(i).fencing = ReadLease.fencing + 1
    BY <1>3 DEF NatRecord, NewLease
  <1>6. Types'
    BY <1>1, <1>2, <1>3, <1>5 DEF Types
  <1>7. Bounds'
    <2>1. ASSUME NEW r \in NatRecord, Bounded(r)
          PROVE  r.token <= takes' /\ r.fencing <= takes' /\ r.expires <= clock' + Ttl
      BY <1>1, <2>1 DEF Bounded, NatRecord
    <2>2. /\ NewLease(i).token <= takes' /\ NewLease(i).fencing <= takes'
          /\ NewLease(i).expires <= clock' + Ttl
      BY <1>1, <1>3, <1>5 DEF Bounded, NatRecord
    <2>3. QED
      BY <1>1, <1>3, <1>4, <2>1, <2>2 DEF Bounds, Bounded, Types
  <1>8. TokenOwners'
    <2>1. \A j \in Instance : /\ own[j].token <= takes /\ mine[j].token <= takes
                              /\ own[j].token \in Nat /\ mine[j].token \in Nat
      BY DEF Bounds, Bounded, Types, NatRecord
    <2>2. QED
      BY <1>1, <1>4, <1>5, <2>1 DEF TokenOwners
  <1>9. ASSUME NEW j \in Instance
        PROVE  Knows(j)'
    <2>1. CASE j = i
      BY <1>1, <1>3, <1>4, <1>5, <2>1 DEF Knows
    <2>2. CASE j # i
      BY <1>1, <1>4, <2>2 DEF Knows
    <2>3. QED
      BY <2>1, <2>2
  <1>10. mixed' \/ Trusted'
    <2>1. ASSUME NEW j \in Instance, at'[j] = "rewrite"
          PROVE  j # i
      BY <1>4, <2>1
    <2>2. QED
      BY <1>1, <1>4, <2>1 DEF Trusted
  <1>11. QED
    BY <1>6, <1>7, <1>8, <1>9, <1>10

(* A step that leaves the lease file, the clock and the tokens alone, and    *)
(* changes of one instance what it was before to what it is now.             *)
LEMMA QuietKeeps ==
  ASSUME LeaseInv, NEW i \in Instance, Types', Knows(i)',
         lease' = lease, clock' = clock, takes' = takes, mixed' = mixed, mine' = mine,
         \A j \in Instance \ {i} : /\ at'[j] = at[j] /\ seen'[j] = seen[j]
                                   /\ held'[j] = held[j] /\ own'[j] = own[j],
         seen'[i] \in {seen[i], ReadLease},
         own'[i] \in {own[i], mine[i], NoLease}, at'[i] # "rewrite",
         held'[i] => held[i] /\ own'[i] = own[i]
  PROVE  LeaseInv'
  <1> USE Numbers DEF LeaseInv
  <1>1. NoLease.token = 0 /\ Bounded(NoLease)
    BY LeaseAssumption DEF NoLease, Bounded, Types
  <1>2. Bounds'
    BY <1>1, ReadRecord DEF Bounds, Bounded
  <1>3. TokenOwners'
    BY <1>1 DEF TokenOwners
  <1>4. \A j \in Instance : Knows(j)'
    BY DEF Knows
  <1>5. mixed' \/ Trusted'
    BY DEF Trusted
  <1>6. QED
    BY <1>2, <1>3, <1>4, <1>5

LEMMA HeartbeatKeeps ==
  ASSUME LeaseInv, NEW i \in Instance, Heartbeat(i)
  PROVE  LeaseInv'
  <1> USE DEF LeaseInv
  <1>1. /\ at[i] = "idle" /\ held[i]
        /\ lease' = lease /\ clock' = clock /\ takes' = takes /\ mixed' = mixed
        /\ mine' = mine /\ own' = own
    BY DEF Heartbeat
  <1>2. ReadLease \in NatRecord /\ ~ReadLease.torn
    BY ReadRecord
  <1>3. CASE OwnsFile(i)
    <2>1. /\ seen' = [seen EXCEPT ![i] = ReadLease]
          /\ at' = [at EXCEPT ![i] = "truncate"] /\ held' = held
          /\ own[i].token # 0 /\ ReadLease.token = own[i].token
      BY <1>3 DEF Heartbeat, Move, OwnsFile
    <2>2. Types'
      BY <1>1, <1>2, <2>1 DEF Types
    <2>3. /\ seen'[i] = ReadLease /\ at'[i] = "truncate"
          /\ \A j \in Instance \ {i} : at'[j] = at[j] /\ seen'[j] = seen[j]
      BY <2>1 DEF Types
    <2>4. Knows(i)'
      BY <1>1, <1>2, <2>1, <2>3 DEF Knows
    <2>5. QED
      BY <1>1, <2>1, <2>2, <2>3, <2>4, QuietKeeps
  <1>4. CASE ~OwnsFile(i)
    <2>1. seen' = seen /\ at' = at /\ held' = [held EXCEPT ![i] = FALSE]
      BY <1>4 DEF Heartbeat
    <2>2. Types'
      BY <1>1, <2>1 DEF Types
    <2>3. ~held'[i] /\ \A j \in Instance \ {i} : held'[j] = held[j]
      BY <2>1 DEF Types
    <2>4. Knows(i)'
      BY <1>1, <2>1, <2>3 DEF Knows
    <2>5. QED
      BY <1>1, <2>1, <2>2, <2>3, <2>4, QuietKeeps
  <1>5. QED
    BY <1>3, <1>4

LEMMA ReleaseKeeps ==
  ASSUME LeaseInv, NEW i \in Instance, Release(i)
  PROVE  LeaseInv'
  <1> USE DEF LeaseInv
  <1>1. /\ at[i] = "idle" /\ own[i].token # 0
        /\ lease' = lease /\ clock' = clock /\ takes' = takes /\ mixed' = mixed
        /\ mine' = mine
    BY DEF Release
  <1>2. ReadLease \in NatRecord /\ ~ReadLease.torn
    BY ReadRecord
  <1>3. CASE OwnsFile(i)
    <2>1. /\ seen' = [seen EXCEPT ![i] = ReadLease]
          /\ at' = [at EXCEPT ![i] = "unlink"] /\ held' = held /\ own' = own
          /\ ReadLease.token = own[i].token
      BY <1>3 DEF Release, Move, OwnsFile
    <2>2. Types'
      BY <1>1, <1>2, <2>1 DEF Types
    <2>3. /\ seen'[i] = ReadLease /\ at'[i] = "unlink"
          /\ \A j \in Instance \ {i} : at'[j] = at[j] /\ seen'[j] = seen[j]
      BY <2>1 DEF Types
    <2>4. Knows(i)'
      BY <1>1, <1>2, <2>1, <2>3 DEF Knows
    <2>5. QED
      BY <1>1, <2>1, <2>2, <2>3, <2>4, QuietKeeps
  <1>4. CASE ~OwnsFile(i)
    <2>1. /\ seen' = seen /\ at' = at /\ held' = [held EXCEPT ![i] = FALSE]
          /\ own' = [own EXCEPT ![i] = NoLease]
      BY <1>4 DEF Release
    <2>2. Types'
      BY <1>1, <2>1 DEF Types, NatRecord, NoLease
    <2>3. /\ ~held'[i] /\ own'[i] = NoLease
          /\ \A j \in Instance \ {i} : held'[j] = held[j] /\ own'[j] = own[j]
      BY <2>1 DEF Types
    <2>4. Knows(i)'
      BY <1>1, <2>1, <2>3 DEF Knows
    <2>5. QED
      BY <1>1, <2>1, <2>2, <2>3, <2>4, QuietKeeps
  <1>5. QED
    BY <1>3, <1>4

LEMMA AssertKeeps ==
  ASSUME LeaseInv, NEW i \in Instance, AssertFails(i)
  PROVE  LeaseInv'
  <1> USE DEF LeaseInv
  <1>1. /\ at[i] = "idle" /\ held' = [held EXCEPT ![i] = FALSE]
        /\ lease' = lease /\ clock' = clock /\ takes' = takes /\ mixed' = mixed
        /\ mine' = mine /\ own' = own /\ seen' = seen /\ at' = at
    BY DEF AssertFails
  <1>2. Types'
    BY <1>1 DEF Types
  <1>3. ~held'[i] /\ \A j \in Instance \ {i} : held'[j] = held[j]
    BY <1>1 DEF Types
  <1>4. Knows(i)'
    BY <1>1, <1>3 DEF Knows
  <1>5. QED
    BY <1>1, <1>2, <1>3, <1>4, QuietKeeps

LEMMA TickKeeps == LeaseInv /\ Tick => LeaseInv'
  <1>1. SUFFICES ASSUME LeaseInv, Tick PROVE LeaseInv'
    OBVIOUS
  <1> USE <1>1, Numbers DEF LeaseInv
  <1>2. /\ clock < MaxClock /\ clock' = clock + 1
        /\ lease' = lease /\ takes' = takes /\ mixed' = mixed /\ mine' = mine
        /\ own' = own /\ seen' = seen /\ at' = at /\ held' = held
    BY DEF Tick
  <1>3. Types'
    BY <1>2 DEF Types
  <1>4. Bounds'
    BY <1>2 DEF Bounds, Bounded, Types, NatRecord
  <1>5. TokenOwners'
    BY <1>2 DEF TokenOwners
  <1>6. \A i \in Instance : Knows(i)'
    BY <1>2 DEF Knows, Types, NatRecord
  <1>7. mixed' \/ Trusted'
    BY <1>2 DEF Trusted, Types, NatRecord
  <1>8. QED
    BY <1>3, <1>4, <1>5, <1>6, <1>7

LEMMA TakeKeeps ==
  ASSUME LeaseInv, NEW i \in Instance, TakeLease(i)
  PROVE  LeaseInv'
  <1> USE Numbers DEF LeaseInv
  <1>1. /\ at[i] = "rename" /\ lease' = mine[i] /\ at' = [at EXCEPT ![i] = "verify"]
        /\ clock' = clock /\ takes' = takes /\ mine' = mine /\ own' = own
        /\ seen' = seen /\ held' = held
    BY DEF TakeLease, Move
  <1>2. mixed' = (mixed \/ lease # seen[i])
    BY DEF TakeLease
  <1>3. at'[i] = "verify" /\ \A j \in Instance \ {i} : at'[j] = at[j]
    BY <1>1 DEF Types
  <1>4. Types'
    BY <1>1, <1>2 DEF Types
  <1>5. Bounds' /\ TokenOwners'
    BY <1>1 DEF Bounds, Bounded, TokenOwners
  <1>6. ASSUME NEW j \in Instance
        PROVE  Knows(j)'
    <2>1. CASE j = i
      BY <1>1, <1>3, <2>1 DEF Knows
    <2>2. CASE j # i
      <3>1. at[j] = "verify" => mine[j].token # mine[i].token
        BY <2>2 DEF TokenOwners, Knows
      <3>2. QED
        BY <1>1, <1>3, <2>2, <3>1 DEF Knows
    <2>3. QED
      BY <2>1, <2>2
  <1>7. ASSUME ~mixed'
        PROVE  Trusted'
    <2>1. Trusted /\ lease = seen[i]
      BY <1>2, <1>7 DEF Types
    <2>2. ASSUME NEW j \in Instance, held[j], clock <= own[j].expires
          PROVE  FALSE
      <3>1. seen[i].token # 0 /\ own[j].expires <= seen[i].expires
        BY <2>1, <2>2 DEF Trusted, Knows
      <3>2. clock > seen[i].expires
        BY <1>1, <3>1 DEF Knows
      <3>3. seen[i].expires \in Nat /\ own[j].expires \in Nat
        BY DEF Types, NatRecord
      <3>4. QED
        BY <2>2, <3>1, <3>2, <3>3
    <2>3. ASSUME NEW j \in Instance, at'[j] = "rewrite"
          PROVE  FALSE
      BY <1>1, <1>3, <2>1, <2>3 DEF Trusted, Knows
    <2>4. QED
      BY <1>1, <2>2, <2>3 DEF Trusted
  <1>8. QED
    BY <1>4, <1>5, <1>6, <1>7

LEMMA VerifyKeeps ==
  ASSUME LeaseInv, NEW i \in Instance, VerifyLease(i)
  PROVE  LeaseInv'
  <1> USE DEF LeaseInv
  <1> DEFINE won == ReadLease.token = mine[i].token
  <1>1. /\ at[i] = "verify" /\ at' = [at EXCEPT ![i] = "idle"]
        /\ held' = [held EXCEPT ![i] = won]
        /\ own' = IF won THEN [own EXCEPT ![i] = mine[i]] ELSE own
        /\ lease' = lease /\ clock' = clock /\ takes' = takes /\ mine' = mine
        /\ seen' = seen /\ mixed' = mixed
    BY DEF VerifyLease, Move
  <1>2. /\ at'[i] = "idle" /\ held'[i] = won
        /\ own'[i] = IF won THEN mine[i] ELSE own[i]
        /\ \A j \in Instance \ {i} : at'[j] = at[j] /\ held'[j] = held[j] /\ own'[j] = own[j]
    BY <1>1 DEF Types
  <1>3. won => lease = mine[i]
    <2>1. mine[i].token # 0
      BY <1>1 DEF Knows
    <2>2. QED
      BY <1>1, <2>1, ReadRecord DEF Knows
  <1> HIDE DEF won
  <1>4. Types'
    <2>1. won \in BOOLEAN
      BY DEF won
    <2>2. QED
      BY <1>1, <2>1 DEF Types
  <1>5. Bounds'
    BY <1>1, <1>2 DEF Bounds, Bounded
  <1>6. TokenOwners'
    BY <1>1, <1>2 DEF TokenOwners
  <1>7. ASSUME NEW j \in Instance
        PROVE  Knows(j)'
    <2>1. CASE j = i
      BY <1>1, <1>2, <2>1 DEF Knows
    <2>2. CASE j # i
      BY <1>1, <1>2, <2>2 DEF Knows
    <2>3. QED
      BY <2>1, <2>2
  <1>8. ASSUME ~mixed'
        PROVE  Trusted'
    <2>1. Trusted
      BY <1>1, <1>8
    <2>2. ASSUME NEW j \in Instance, held'[j], clock <= own'[j].expires
          PROVE  lease.token = own'[j].token /\ own'[j].expires <= lease.expires
      <3>1. CASE j = i
        <4>1. own'[i] = lease
          BY <1>2, <1>3, <2>2, <3>1
        <4>2. QED
          BY <3>1, <4>1 DEF Types, NatRecord
      <3>2. CASE j # i
        BY <1>2, <2>1, <2>2, <3>2 DEF Trusted
      <3>3. QED
        BY <3>1, <3>2
    <2>3. \A j \in Instance : at'[j] = "rewrite" => at[j] = "rewrite"
      BY <1>2
    <2>4. QED
      BY <1>1, <2>1, <2>2, <2>3 DEF Trusted
  <1>9. QED
    BY <1>4, <1>5, <1>6, <1>7, <1>8

LEMMA TruncateKeeps ==
  ASSUME LeaseInv, NEW i \in Instance, Truncate(i)
  PROVE  LeaseInv'
  <1> USE Numbers DEF LeaseInv
  <1> DEFINE renewed == [seen[i] EXCEPT !.expires = clock + Ttl]
  <1>1. /\ at[i] = "truncate" /\ at' = [at EXCEPT ![i] = "rewrite"]
        /\ lease' = [renewed EXCEPT !.torn = TRUE]
        /\ mine' = [mine EXCEPT ![i] = renewed]
        /\ mixed' = (mixed \/ lease # seen[i])
        /\ clock' = clock /\ takes' = takes /\ own' = own /\ seen' = seen /\ held' = held
    BY DEF Truncate, Move
  <1>2. seen[i] \in NatRecord /\ ~seen[i].torn /\ seen[i].token = own[i].token
        /\ own[i].token # 0
    BY <1>1 DEF Types, Knows
  <1>3. /\ renewed \in NatRecord /\ renewed.token = own[i].token /\ ~renewed.torn
        /\ renewed.expires = clock + Ttl /\ renewed.fencing = seen[i].fencing
    BY <1>2 DEF NatRecord
  <1>4. /\ lease' \in NatRecord /\ lease'.token = own[i].token /\ lease'.torn
        /\ lease'.expires = clock + Ttl /\ lease'.fencing = seen[i].fencing
    BY <1>1, <1>3 DEF NatRecord
  <1> HIDE DEF renewed
  <1>5. /\ at'[i] = "rewrite" /\ mine'[i] = renewed
        /\ \A j \in Instance \ {i} : at'[j] = at[j] /\ mine'[j] = mine[j]
    BY <1>1 DEF Types
  <1>6. Types'
    BY <1>1, <1>3, <1>4 DEF Types
  <1>7. Bounds'
    <2>1. renewed.token <= takes /\ renewed.fencing <= takes /\ renewed.expires <= clock + Ttl
      BY <1>2, <1>3 DEF Bounds, Bounded, Types
    <2>2. QED
      BY <1>1, <1>2, <1>3, <1>4, <1>5, <2>1 DEF Bounds, Bounded
  <1>8. TokenOwners'
    BY <1>1, <1>3, <1>5 DEF TokenOwners
  <1>9. ASSUME NEW j \in Instance
        PROVE  Knows(j)'
    <2>1. CASE j = i
      BY <1>1, <1>2, <1>3, <1>5, <2>1 DEF Knows
    <2>2. CASE j # i
      <3>1. lease'.token # mine[j].token
        BY <1>2, <1>4, <2>2 DEF TokenOwners
      <3>2. QED
        BY <1>1, <1>5, <2>2, <3>1 DEF Knows
    <2>3. QED
      BY <2>1, <2>2
  <1>10. ASSUME ~mixed'
         PROVE  Trusted'
    <2>1. Trusted /\ lease = seen[i]
      BY <1>1, <1>10 DEF Types
    <2>2. ASSUME NEW j \in Instance, held[j], clock <= own[j].expires
          PROVE  j = i
      BY <1>2, <2>1, <2>2 DEF Trusted, TokenOwners
    <2>3. own[i].expires <= clock + Ttl
      BY DEF Bounds, Bounded
    <2>4. ASSUME NEW j \in Instance, at'[j] = "rewrite"
          PROVE  j = i
      BY <1>2, <1>5, <2>1, <2>4 DEF Trusted
    <2>5. QED
      BY <1>1, <1>3, <1>4, <1>5, <2>2, <2>3, <2>4 DEF Trusted
  <1>11. QED
    BY <1>6, <1>7, <1>8, <1>9, <1>10

LEMMA RewriteKeeps ==
  ASSUME LeaseInv, NEW i \in Instance, Rewrite(i)
  PROVE  LeaseInv'
  <1> USE DEF LeaseInv
  <1>1. /\ at[i] = "rewrite" /\ at' = [at EXCEPT ![i] = "idle"]
        /\ lease' = IF lease.torn /\ lease.token = mine[i].token THEN mine[i] ELSE lease
        /\ own' = [own EXCEPT ![i] = mine[i]]
        /\ clock' = clock /\ takes' = takes /\ mine' = mine /\ seen' = seen
        /\ held' = held /\ mixed' = mixed
    BY DEF Rewrite, Move
  <1>2. mine[i].token = own[i].token /\ own[i].token # 0 /\ ~mine[i].torn
    BY <1>1 DEF Knows
  <1>3. /\ at'[i] = "idle" /\ own'[i] = mine[i]
        /\ \A j \in Instance \ {i} : at'[j] = at[j] /\ own'[j] = own[j]
    BY <1>1 DEF Types
  <1>4. Types'
    BY <1>1 DEF Types
  <1>5. Bounds'
    BY <1>1, <1>3 DEF Bounds, Bounded
  <1>6. TokenOwners'
    BY <1>1, <1>2, <1>3 DEF TokenOwners
  <1>7. ASSUME NEW j \in Instance
        PROVE  Knows(j)'
    <2>1. CASE j = i
      BY <1>1, <1>2, <1>3, <2>1 DEF Knows
    <2>2. CASE j # i
      <3>1. mine[j].token # mine[i].token
        BY <1>2, <2>2 DEF TokenOwners
      <3>2. QED
        BY <1>1, <1>3, <2>2, <3>1 DEF Knows
    <2>3. QED
      BY <2>1, <2>2
  <1>8. ASSUME ~mixed'
        PROVE  Trusted'
    <2>1. Trusted
      BY <1>1, <1>8
    <2>2. lease.torn /\ lease.token = mine[i].token /\ lease' = mine[i]
      BY <1>1, <2>1 DEF Trusted
    <2>3. ASSUME NEW j \in Instance, held[j], clock <= own[j].expires, j # i
          PROVE  FALSE
      BY <1>2, <2>1, <2>2, <2>3 DEF Trusted, TokenOwners
    <2>4. ASSUME NEW j \in Instance, at'[j] = "rewrite"
          PROVE  FALSE
      <3>1. j # i /\ lease.token = mine[j].token
        BY <1>3, <2>1, <2>4 DEF Trusted
      <3>2. QED
        BY <1>2, <2>2, <3>1 DEF TokenOwners
    <2>5. mine[i].expires <= mine[i].expires
      BY DEF Types, NatRecord
    <2>6. QED
      BY <1>1, <1>3, <2>2, <2>3, <2>4, <2>5 DEF Trusted
  <1>9. QED
    BY <1>4, <1>5, <1>6, <1>7, <1>8

LEMMA LeaseUnlinkKeeps ==
  ASSUME LeaseInv, NEW i \in Instance, UnlinkLease(i)
  PROVE  LeaseInv'
  <1> USE DEF LeaseInv
  <1>1. /\ at[i] = "unlink" /\ at' = [at EXCEPT ![i] = "idle"]
        /\ lease' = NoLease
        /\ mixed' = (mixed \/ lease \notin {seen[i], NoLease})
        /\ held' = [held EXCEPT ![i] = FALSE]
        /\ own' = [own EXCEPT ![i] = NoLease]
        /\ clock' = clock /\ takes' = takes /\ mine' = mine /\ seen' = seen
    BY DEF UnlinkLease, Move
  <1>2. /\ at'[i] = "idle" /\ own'[i] = NoLease /\ ~held'[i]
        /\ \A j \in Instance \ {i} : at'[j] = at[j] /\ own'[j] = own[j] /\ held'[j] = held[j]
    BY <1>1 DEF Types
  <1>3. /\ NoLease \in NatRecord /\ NoLease.token = 0 /\ ~NoLease.torn /\ Bounded(NoLease)
    BY Numbers DEF NoLease, NatRecord, Bounded
  <1>4. Types'
    BY <1>1, <1>3 DEF Types
  <1>5. Bounds'
    BY <1>1, <1>2, <1>3 DEF Bounds, Bounded
  <1>6. TokenOwners'
    BY <1>1, <1>2, <1>3 DEF TokenOwners
  <1>7. ASSUME NEW j \in Instance
        PROVE  Knows(j)'
    BY <1>1, <1>2, <1>3 DEF Knows
  <1>8. ASSUME ~mixed'
        PROVE  Trusted'
    <2>1. Trusted /\ lease \in {seen[i], NoLease}
      BY <1>1, <1>8 DEF Types
    <2>2. seen[i].token = own[i].token /\ own[i].token # 0 /\ ~seen[i].torn
      BY <1>1 DEF Knows
    <2>3. ASSUME NEW j \in Instance, held'[j], clock <= own'[j].expires
          PROVE  FALSE
      <3>1. j # i /\ held[j] /\ own[j].token # 0 /\ lease.token = own[j].token
        BY <1>2, <2>1, <2>3 DEF Trusted, Knows
      <3>2. QED
        BY <1>3, <2>1, <2>2, <3>1 DEF TokenOwners
    <2>4. ASSUME NEW j \in Instance, at'[j] = "rewrite"
          PROVE  FALSE
      BY <1>2, <1>3, <2>1, <2>2, <2>4 DEF Trusted
    <2>5. QED
      BY <1>1, <2>3, <2>4 DEF Trusted
  <1>9. QED
    BY <1>4, <1>5, <1>6, <1>7, <1>8

LEMMA LeaseInductive ==
  ASSUME LeaseInv, [LeaseNext]_leaseVars
  PROVE  LeaseInv'
  <1>1. CASE UNCHANGED leaseVars
    <2>1. /\ lease' = lease /\ clock' = clock /\ takes' = takes /\ at' = at
          /\ seen' = seen /\ held' = held /\ mine' = mine /\ own' = own /\ mixed' = mixed
      BY <1>1 DEF leaseVars
    <2>2. QED
      BY <2>1 DEF LeaseInv, Types, Bounds, Bounded, TokenOwners, Knows, Trusted
  <1>2. CASE Tick
    BY <1>2, TickKeeps
  <1>3. CASE \E i \in Instance : \/ Acquisition(i) \/ Beat(i)
                                 \/ Release(i) \/ UnlinkLease(i) \/ AssertFails(i)
    BY <1>3, TryAcquireKeeps, TakeKeeps, VerifyKeeps, HeartbeatKeeps, TruncateKeeps,
       RewriteKeeps, ReleaseKeeps, LeaseUnlinkKeeps, AssertKeeps DEF Acquisition, Beat
  <1>4. QED
    BY <1>1, <1>2, <1>3 DEF LeaseNext

LEMMA LeaseInvariance == LeaseSpec => []LeaseInv
  BY LeaseInitially, LeaseInductive, PTL DEF LeaseSpec

(* Lease records, tokens and expiries are well typed: no fencing token is    *)
(* ever above the number of owner tokens generated, and no record expires    *)
(* later than one time to live from now (ipc-lock.js:86, 227).               *)
THEOREM LeaseTypes == LeaseSpec => []LeaseTypeOK
  <1>1. ASSUME Types, NEW r \in NatRecord, Bounded(r)
        PROVE  r \in LeaseRecord
    <2>1. clock + Ttl <= MaxClock + Ttl /\ takes <= MaxTakes
      BY <1>1, Numbers DEF Types
    <2>2. QED
      BY <1>1, <2>1, Numbers DEF NatRecord, LeaseRecord, Bounded
  <1>2. LeaseInv => LeaseTypeOK
    BY <1>1 DEF LeaseInv, Types, Bounds, LeaseTypeOK
  <1>3. QED
    BY <1>2, LeaseInvariance, PTL

(* For any number of instances and any time to live: as long as no call      *)
(* changed another lease than the one it had read, at most one instance      *)
(* trusts its lease (ipc-lock.js:70, 215, 245).                              *)
THEOREM LeaseIsExclusive == LeaseSpec => []LeaseExclusive
  <1>1. ASSUME LeaseInv, ~mixed
        PROVE  Cardinality(Trusting) <= 1
    <2>1. \A i, j \in Trusting : i = j
      <3>1. SUFFICES ASSUME NEW i \in Trusting, NEW j \in Trusting, i # j
                     PROVE  FALSE
        OBVIOUS
      <3>2. i \in Instance /\ j \in Instance /\ own[i].token = own[j].token
        BY <1>1 DEF LeaseInv, Trusted, Trusting
      <3>3. own[i].token # 0
        BY <1>1 DEF LeaseInv, Knows, Trusting
      <3>4. QED
        BY <1>1, <3>1, <3>2, <3>3 DEF LeaseInv, TokenOwners
    <2>2. CASE Trusting = {}
      BY <2>2, FS_EmptySet
    <2>3. CASE Trusting # {}
      <3>1. PICK i \in Trusting : Trusting = {i}
        BY <2>1, <2>3
      <3>2. QED
        BY <3>1, FS_Singleton
    <2>4. QED
      BY <2>2, <2>3
  <1>2. LeaseInv => LeaseExclusive
    BY <1>1 DEF LeaseExclusive
  <1>3. QED
    BY <1>2, LeaseInvariance, PTL
=============================================================================
