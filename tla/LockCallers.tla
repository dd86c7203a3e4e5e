---------------------------- MODULE LockCallers ----------------------------
(* Who takes the project lock and what is done under it: `profile apply` and *)
(* `profile remove` of .agents/profiles.js, the adapter export of            *)
(* .agents/adapters/pure-compiler.js and the watch daemon of                 *)
(* .agents/watch.js, which calls that export under its own lock.             *)
(*                                                                           *)
(* A command is a process that runs one job and exits. The daemon is one     *)
(* node process: its queue loop awaits a function that awaits nothing, so    *)
(* timers, file events and signals are handled only when the loop is over.   *)
EXTENDS ProjectLock, Sequences

CONSTANTS Watcher,      \* the process of the watch daemon
          Scope,        \* the package scopes a profile can be overridden for
          Plans,        \* the jobs the commands are given
          MaxChanges    \* how often a watched source file changes

Commands == Proc \ {Watcher}
Job == [kind : {"apply", "override", "unset", "clear", "export"}, scope : Scope]

ASSUME CallersAssumption ==
    /\ Watcher \in Proc
    /\ Plans \subseteq [Commands -> Job]
    /\ MaxChanges \in Nat

VARIABLES job,      \* what a command does: its kind and the scope it is given
          jobAt,    \* how far the job is
          profileJson, \* .agents/profile.json
          read,     \* the profile a command read before it took the lock
          commits,  \* history: the commands whose transaction committed, in order
          base,     \* history: how many had when the command read the profile
          revision, \* the revision of lockfile.v2.json
          copy,     \* the revision a process read under the lock
          exports,  \* history: how many exports committed
          daemon    \* the watch daemon: see DaemonState

callersVars == <<lockVars, job, jobAt, profileJson, read, commits, base, revision,
                 copy, exports, daemon>>
recordVars == <<profileJson, read, commits, base>>
lockfileVars == <<revision, copy, exports>>

(* profile.json: none, or the root profile and the override of each scope;   *)
(* {} is no override, {p} the profile that p applies.                        *)
NoFile == [root |-> {}, over |-> [s \in Scope |-> {}]]
Initially == [root |-> {"initial"}, over |-> [s \in Scope |-> {"initial"}]]
Ids == {{}, {"initial"}} \cup {{p} : p \in Proc}

(* pending: pendingReasons is not empty (the reasons themselves only label   *)
(* messages); timer: the debounce timer is set; event: the kernel has a      *)
(* change to report; signal: SIGINT is pending; dirty: a source changed since*)
(* the last render; failed: watch-error.json is there.                       *)
DaemonState == [pending : BOOLEAN, timer : BOOLEAN, event : BOOLEAN, signal : BOOLEAN,
                dirty : BOOLEAN, failed : BOOLEAN, processing : BOOLEAN,
                closed : BOOLEAN, changes : 0 .. MaxChanges]

Steps == {"start", "locking", "working", "done"}

CallersInit(plans, profiles) ==
    /\ LockInit
    /\ job \in plans
    /\ jobAt = [p \in Proc |-> "start"]
    /\ profileJson \in profiles
    /\ read = [p \in Commands |-> NoFile]
    /\ commits = <<>>
    /\ base = [p \in Commands |-> 0]
    /\ revision = 0 /\ exports = 0
    /\ copy = [p \in Proc |-> 0]
    /\ daemon = [pending |-> FALSE, timer |-> FALSE, event |-> FALSE, signal |-> FALSE,
                 dirty |-> FALSE, failed |-> FALSE, processing |-> FALSE,
                 closed |-> FALSE, changes |-> 0]

Step(p, s) == jobAt' = [jobAt EXCEPT ![p] = s]
Exists == profileJson.root # {}

-----------------------------------------------------------------------------
(* What a command does before it asks for the lock.                          *)

NothingToRemove(p) ==
    \/ job[p].kind \in {"unset", "clear"} /\ ~Exists
    \/ job[p].kind = "unset" /\ profileJson.over[job[p].scope] = {}

(* removeActiveProfile returns false without taking the lock.                *)
Skip(p) ==
    /\ Alive(p) /\ jobAt[p] = "start" /\ NothingToRemove(p)
    /\ Step(p, "done")
    /\ UNCHANGED <<lockVars, job, recordVars, lockfileVars, daemon>>

(* applyProfile and the removal of an override read profile.json here.       *)
Ask(p) ==
    /\ Alive(p) /\ jobAt[p] = "start" /\ ~NothingToRemove(p)
    /\ Step(p, "locking")
    /\ GoTo(p, "inspect")
    /\ read' = [read EXCEPT ![p] = profileJson]
    /\ base' = [base EXCEPT ![p] = Len(commits)]
    /\ UNCHANGED <<file, dead, found, raced, job, profileJson, commits, lockfileVars, daemon>>

-----------------------------------------------------------------------------
(* The calls of the lock, by a command or by the daemon.                     *)

Acquiring(p) ==
    /\ FindsLock(p) \/ Reap(p) \/ Create(p)
    /\ UNCHANGED <<job, jobAt, recordVars, lockfileVars, daemon>>

Acquired(p) ==
    /\ Write(p)
    /\ Step(p, "working")
    /\ UNCHANGED <<job, recordVars, lockfileVars, daemon>>

(* Mutant: the daemon leaves its loop without putting the reasons back.      *)
BusyDropsReasons(p) ==
    /\ IsBusy(p)
    /\ GoTo(p, "out")
    /\ Step(p, IF p = Watcher THEN "start" ELSE "done")
    /\ daemon' = IF p = Watcher THEN [daemon EXCEPT !.processing = FALSE] ELSE daemon
    /\ UNCHANGED <<file, dead, found, raced, job, recordVars, lockfileVars>>

(* The command fails with CTX_PROJECT_BUSY (the removal of an override       *)
(* catches it and returns false). The daemon puts its reasons back and its   *)
(* loop takes them again at once: not a step it can be interrupted in.        *)
Busy(p) ==
    /\ IsBusy(p)
    /\ IF p = Watcher THEN GoTo(p, "inspect") /\ UNCHANGED jobAt
                      ELSE GoTo(p, "out") /\ Step(p, "done")
    /\ UNCHANGED <<file, dead, found, raced, job, recordVars, lockfileVars, daemon>>

Releasing(p) ==
    /\ jobAt[p] = "done"
    /\ FindsOwnToken(p)
    /\ UNCHANGED <<job, jobAt, recordVars, lockfileVars, daemon>>

(* The daemon's loop ends when nothing is pending; no event can have come.   *)
Released(p) ==
    /\ jobAt[p] = "done"
    /\ \/ LostToken(p) /\ UNCHANGED <<file, dead, found, raced>>
       \/ Unlink(p)
    /\ GoTo(p, "out")
    /\ IF p = Watcher THEN /\ Step(p, "start")
                           /\ daemon' = [daemon EXCEPT !.processing = FALSE]
                      ELSE UNCHANGED <<jobAt, daemon>>
    /\ UNCHANGED <<job, recordVars, lockfileVars>>

-----------------------------------------------------------------------------
(* The work under the lock.                                                  *)

(* Mutant: the other scopes' overrides are not carried over.                 *)
NewProfileOneScope(p) ==
    [root |-> {p}, over |-> [NoFile.over EXCEPT ![job[p].scope] = {p}]]

(* The lockData of each job, built from what was read before the lock.       *)
NewProfile(p) ==
    LET old == read[p]
    IN CASE job[p].kind = "apply" -> [old EXCEPT !.root = {p}]
         [] job[p].kind = "override" ->
                [root |-> IF old.root = {} THEN {p} ELSE old.root,
                 over |-> [old.over EXCEPT ![job[p].scope] = {p}]]
         [] job[p].kind = "unset" -> [old EXCEPT !.over[job[p].scope] = {}]
         [] job[p].kind = "clear" -> NoFile

CommitProfile(p) ==
    /\ Alive(p) /\ jobAt[p] = "working" /\ job[p].kind # "export"
    /\ profileJson' = NewProfile(p)
    /\ commits' = Append(commits, p)
    /\ Step(p, "done")
    /\ UNCHANGED <<lockVars, job, read, base, lockfileVars, daemon>>

(* applyArtifacts reads the lockfile under the lock, its own or the daemon's *)
ReadRevision(p) ==
    /\ Alive(p) /\ jobAt[p] = "working" /\ copy[p] = 0
    /\ p \in Commands => job[p].kind = "export"
    /\ copy' = [copy EXCEPT ![p] = revision + 1]
    /\ UNCHANGED <<lockVars, job, jobAt, recordVars, revision, exports, daemon>>

(* and commits the next revision with the files in one transaction.          *)
CommitExport(p) ==
    /\ Alive(p) /\ jobAt[p] = "working" /\ copy[p] # 0
    /\ revision' = copy[p]
    /\ copy' = [copy EXCEPT ![p] = 0]
    /\ exports' = exports + 1
    /\ Step(p, "done")
    /\ daemon' = IF p = Watcher THEN [daemon EXCEPT !.dirty = FALSE, !.failed = FALSE]
                                ELSE daemon
    /\ UNCHANGED <<lockVars, job, recordVars>>

(* Rendering or the transaction throws: the daemon saves the diagnostics and *)
(* keeps nothing of the reasons it was working on.                           *)
SyncFails ==
    /\ Alive(Watcher) /\ jobAt[Watcher] = "working"
    /\ copy' = [copy EXCEPT ![Watcher] = 0]
    /\ daemon' = [daemon EXCEPT !.failed = TRUE]
    /\ Step(Watcher, "done")
    /\ UNCHANGED <<lockVars, job, recordVars, revision, exports>>

-----------------------------------------------------------------------------
(* The daemon's event loop.                                                  *)

Turn == Alive(Watcher) /\ ~daemon.processing /\ ~daemon.closed
Quiet == UNCHANGED <<lockVars, job, jobAt, recordVars, lockfileVars>>

(* A watched file changes; the kernel keeps the event.                       *)
Change ==
    /\ daemon.changes < MaxChanges
    /\ daemon' = [daemon EXCEPT !.dirty = TRUE, !.event = TRUE, !.changes = @ + 1]
    /\ Quiet

Interrupt == ~daemon.signal /\ daemon' = [daemon EXCEPT !.signal = TRUE] /\ Quiet

(* triggerRecompile: the reason is pending, the timer starts again.          *)
TriggerRecompile ==
    /\ Turn /\ daemon.event
    /\ daemon' = [daemon EXCEPT !.event = FALSE, !.pending = TRUE, !.timer = TRUE]
    /\ Quiet

(* The timer fires: processQueue takes the reasons and executeSync asks for  *)
(* the lock.                                                                 *)
ProcessQueue ==
    /\ Turn /\ daemon.timer
    /\ daemon' = [daemon EXCEPT !.timer = FALSE, !.pending = FALSE, !.processing = TRUE]
    /\ Step(Watcher, "locking")
    /\ GoTo(Watcher, "inspect")
    /\ UNCHANGED <<file, dead, found, raced, job, recordVars, lockfileVars>>

(* SIGINT: close() drops the timer and the pending reasons with it.          *)
Close ==
    /\ Turn /\ daemon.signal
    /\ daemon' = [daemon EXCEPT !.closed = TRUE, !.timer = FALSE]
    /\ Quiet

Die(p) == Crash(p) /\ UNCHANGED <<job, jobAt, recordVars, lockfileVars, daemon>>

-----------------------------------------------------------------------------

Locking(p) == Acquiring(p) \/ Acquired(p) \/ Busy(p) \/ Releasing(p) \/ Released(p)
Command(p) == Skip(p) \/ Ask(p) \/ CommitProfile(p)
Exporting(p) == ReadRevision(p) \/ CommitExport(p)
Daemon == TriggerRecompile \/ ProcessQueue \/ Close \/ SyncFails

CallersNext ==
    \/ \E p \in Proc : Locking(p) \/ Exporting(p) \/ Die(p)
    \/ \E p \in Commands : Command(p)
    \/ Daemon \/ Change \/ Interrupt

(* A process that has started runs on; nobody has to start one. A failing    *)
(* render is no progress, but Working has the steps of one process, which    *)
(* takes one of them as long as one is possible.                             *)
Working(p) == Locking(p) \/ Exporting(p) \/ (p \in Commands /\ CommitProfile(p))
CallersFairness ==
    /\ \A p \in Proc : WF_callersVars(Working(p))
    /\ WF_callersVars(TriggerRecompile) /\ WF_callersVars(ProcessQueue) /\ WF_callersVars(Close)

CallersSpec ==
    CallersInit(Plans, {NoFile, Initially}) /\ [][CallersNext]_callersVars /\ CallersFairness

-----------------------------------------------------------------------------

CallersTypeOK ==
    /\ LockTypeOK
    /\ job \in Plans
    /\ jobAt \in [Proc -> Steps]
    /\ profileJson \in [root : Ids, over : [Scope -> Ids]]
    /\ read \in [Commands -> [root : Ids, over : [Scope -> Ids]]]
    /\ commits \in Seq(Commands)
    /\ base \in [Commands -> Nat]
    /\ revision \in Nat /\ exports \in Nat
    /\ copy \in [Proc -> Nat]
    /\ daemon \in DaemonState

(* "Single-writer mutual exclusion" (project-lock.js:5): two processes act   *)
(* under the lock only after a reaper, whose inspection was out of date, has *)
(* removed a lock it had not read. Crashes, the payload written after the    *)
(* creation and the check-then-unlink of release do not break it alone.      *)
(* So no export is lost either: the revision of lockfile.v2.json, read       *)
(* and written under the lock, counts them.                                  *)
ExclusionUnlessRaced == raced \/ (Cardinality(Holders) <= 1 /\ revision = exports)

(* The profile is read before the lock is taken. An override that was        *)
(* committed is gone only by a later command on the same scope, by a removal *)
(* of the profile, or by a command that read the file before the override    *)
(* was in it: commands that do not overlap never undo each other.            *)
LostToOverlapOnly ==
    \A i \in 1 .. Len(commits) :
        LET p == commits[i]
        IN job[p].kind = "override" /\ profileJson.over[job[p].scope] # {p}
           => \E j \in i + 1 .. Len(commits) :
                 LET q == commits[j]
                 IN \/ job[q].kind \in {"override", "unset"} /\ job[q].scope = job[p].scope
                    \/ job[q].kind = "clear"
                    \/ base[q] < i

(* A change of a source file is followed by a render that reads it or by a   *)
(* saved diagnostic, although another process may hold the lock meanwhile or *)
(* die with it: the loop re-queues and the dead holder is reaped. What ends  *)
(* it is a stop of the daemon or a lock file whose creator died before       *)
(* writing it.                                                               *)
ChangeIsAnswered ==
    daemon.dirty ~> (~daemon.dirty \/ daemon.failed \/ daemon.signal
                     \/ Watcher \in dead \/ Orphaned)

(* SIGINT is handled: the queue loop, which yields to nothing while the lock *)
(* is taken, ends. The same lock file is what makes it spin for ever.        *)
InterruptIsHeeded ==
    daemon.signal ~> (daemon.closed \/ Watcher \in dead \/ Orphaned)
=============================================================================
