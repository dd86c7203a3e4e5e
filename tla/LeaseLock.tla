----------------------------- MODULE LeaseLock -----------------------------
(* The lease of .agents/transaction-core/ipc-lock.js: a lock file that names *)
(* its owner and the time it expires, taken over when it has, renewed by a   *)
(* heartbeat and removed by release. Every file-system call is a step; only  *)
(* the calls of one instance are in order.                                   *)
EXTENDS Naturals, FiniteSets

CONSTANTS Instance,     \* the LeaseLock objects, each in a process of its own
          Ttl,          \* ttlMs
          MaxClock,     \* bound on the clock
          MaxTakes      \* bound on the acquisitions

ASSUME LeaseAssumption == Ttl \in Nat /\ MaxClock \in Nat /\ MaxTakes \in Nat

VARIABLES lease,    \* the lock file, NoLease when there is none
          clock,    \* Date.now()
          takes,    \* how many owner tokens have been generated
          at,       \* where an instance is in tryAcquire, heartbeat or release
          seen,     \* what its last readLock returned
          held,     \* isHeld
          mine,     \* the payload it is about to write
          own,      \* ownerToken, fencingToken and the expiry it last wrote
          mixed     \* history: a call changed another lease than it had read

leaseVars == <<lease, clock, takes, at, seen, held, mine, own, mixed>>

(* token: the owner's UUID, 0 for none; torn: the in-place rewrite of the    *)
(* heartbeat has truncated the file and not yet written it.                  *)
NoLease == [token |-> 0, fencing |-> 0, expires |-> 0, torn |-> FALSE]
LeaseRecord == [token : 0 .. MaxTakes, fencing : 0 .. MaxTakes,
                expires : 0 .. MaxClock + Ttl, torn : BOOLEAN]

LeaseInit ==
    /\ lease = NoLease
    /\ clock = 0 /\ takes = 0
    /\ at = [i \in Instance |-> "idle"]
    /\ seen = [i \in Instance |-> NoLease]
    /\ held = [i \in Instance |-> FALSE]
    /\ mine = [i \in Instance |-> NoLease]
    /\ own = [i \in Instance |-> NoLease]
    /\ mixed = FALSE

(* readLock(): null when there is no file or it does not parse.              *)
ReadLease == IF lease.torn THEN NoLease ELSE lease
OwnsFile(i) == own[i].token # 0 /\ ReadLease.token = own[i].token
Move(i, l) == at' = [at EXCEPT ![i] = l]

NewLease(i) == [token |-> takes + 1, fencing |-> ReadLease.fencing + 1,
               expires |-> clock + Ttl, torn |-> FALSE]

(* Mutant: a lease counts as expired in its last millisecond.                *)
TryAcquireAtDeadline(i) ==
    /\ at[i] = "idle" /\ ~held[i] /\ takes < MaxTakes
    /\ ReadLease.token # 0 => clock >= ReadLease.expires
    /\ seen' = [seen EXCEPT ![i] = ReadLease]
    /\ mine' = [mine EXCEPT ![i] = NewLease(i)]
    /\ takes' = takes + 1
    /\ Move(i, "rename")
    /\ UNCHANGED <<lease, clock, held, own, mixed>>

(* tryAcquire(): an unexpired lease ends it, otherwise the payload is made.  *)
TryAcquire(i) ==
    /\ at[i] = "idle" /\ ~held[i] /\ takes < MaxTakes
    /\ ReadLease.token # 0 => clock > ReadLease.expires
    /\ seen' = [seen EXCEPT ![i] = ReadLease]
    /\ mine' = [mine EXCEPT ![i] = NewLease(i)]
    /\ takes' = takes + 1
    /\ Move(i, "rename")
    /\ UNCHANGED <<lease, clock, held, own, mixed>>

(* The rename replaces whatever lease is there by now.                       *)
TakeLease(i) ==
    /\ at[i] = "rename"
    /\ lease' = mine[i]
    /\ mixed' = (mixed \/ lease # seen[i])
    /\ Move(i, "verify")
    /\ UNCHANGED <<clock, takes, seen, held, mine, own>>

(* The file is read again: whoever renamed last has it; the other one keeps  *)
(* the token it had before.                                                  *)
VerifyLease(i) ==
    LET won == ReadLease.token = mine[i].token
    IN /\ at[i] = "verify"
       /\ held' = [held EXCEPT ![i] = won]
       /\ own' = IF won THEN [own EXCEPT ![i] = mine[i]] ELSE own
       /\ Move(i, "idle")
       /\ UNCHANGED <<lease, clock, takes, seen, mine, mixed>>

(* Mutant: a heartbeat that does not find its token leaves isHeld as it was. *)
HeartbeatKeepsHeld(i) ==
    /\ at[i] = "idle" /\ held[i] /\ OwnsFile(i)
    /\ seen' = [seen EXCEPT ![i] = ReadLease]
    /\ Move(i, "truncate")
    /\ UNCHANGED <<lease, clock, takes, held, mine, own, mixed>>

(* heartbeat(): the token is checked, then the record that was read is       *)
(* written back with a new expiry, in place.                                 *)
Heartbeat(i) ==
    /\ at[i] = "idle" /\ held[i]
    /\ IF OwnsFile(i)
       THEN /\ seen' = [seen EXCEPT ![i] = ReadLease]
            /\ Move(i, "truncate")
            /\ UNCHANGED held
       ELSE /\ held' = [held EXCEPT ![i] = FALSE]
            /\ UNCHANGED <<seen, at>>
    /\ UNCHANGED <<lease, clock, takes, mine, own, mixed>>

Truncate(i) ==
    LET renewed == [seen[i] EXCEPT !.expires = clock + Ttl]
    IN /\ at[i] = "truncate"
       /\ lease' = [renewed EXCEPT !.torn = TRUE]
       /\ mine' = [mine EXCEPT ![i] = renewed]
       /\ mixed' = (mixed \/ lease # seen[i])
       /\ Move(i, "rewrite")
       /\ UNCHANGED <<clock, takes, seen, held, own>>

(* When another instance has renamed its lease over the truncated file, the  *)
(* record goes to a file that has no name any more.                          *)
Rewrite(i) ==
    /\ at[i] = "rewrite"
    /\ lease' = IF lease.torn /\ lease.token = mine[i].token THEN mine[i] ELSE lease
    /\ own' = [own EXCEPT ![i] = mine[i]]
    /\ Move(i, "idle")
    /\ UNCHANGED <<clock, takes, seen, held, mine, mixed>>

(* release(): the token is checked, then the file is unlinked.               *)
Release(i) ==
    /\ at[i] = "idle" /\ own[i].token # 0
    /\ IF OwnsFile(i)
       THEN /\ seen' = [seen EXCEPT ![i] = ReadLease]
            /\ Move(i, "unlink")
            /\ UNCHANGED <<held, own>>
       ELSE /\ held' = [held EXCEPT ![i] = FALSE]
            /\ own' = [own EXCEPT ![i] = NoLease]
            /\ UNCHANGED <<seen, at>>
    /\ UNCHANGED <<lease, clock, takes, mine, mixed>>

UnlinkLease(i) ==
    /\ at[i] = "unlink"
    /\ lease' = NoLease
    /\ mixed' = (mixed \/ lease \notin {seen[i], NoLease})
    /\ held' = [held EXCEPT ![i] = FALSE]
    /\ own' = [own EXCEPT ![i] = NoLease]
    /\ Move(i, "idle")
    /\ UNCHANGED <<clock, takes, seen, mine>>

(* assertValid() before a write: the lease is lost, or has run out.          *)
AssertFails(i) ==
    /\ at[i] = "idle" /\ held[i]
    /\ ~OwnsFile(i) \/ clock > ReadLease.expires
    /\ held' = [held EXCEPT ![i] = FALSE]
    /\ UNCHANGED <<lease, clock, takes, at, seen, mine, own, mixed>>

Tick == clock < MaxClock /\ clock' = clock + 1
        /\ UNCHANGED <<lease, takes, at, seen, held, mine, own, mixed>>

Beat(i) == Heartbeat(i) \/ Truncate(i) \/ Rewrite(i)
Acquisition(i) == TryAcquire(i) \/ TakeLease(i) \/ VerifyLease(i)

LeaseNext ==
    \/ \E i \in Instance : \/ Acquisition(i) \/ Beat(i)
                           \/ Release(i) \/ UnlinkLease(i) \/ AssertFails(i)
    \/ Tick

(* The heartbeat timer fires as long as the instance believes it holds.      *)
LeaseFairness == \A i \in Instance : WF_leaseVars(Beat(i) \/ VerifyLease(i) \/ UnlinkLease(i))

LeaseSpec == LeaseInit /\ [][LeaseNext]_leaseVars /\ LeaseFairness

-----------------------------------------------------------------------------

LeaseTypeOK ==
    /\ lease \in LeaseRecord
    /\ clock \in 0 .. MaxClock /\ takes \in 0 .. MaxTakes
    /\ at \in [Instance -> {"idle", "rename", "verify", "truncate", "rewrite", "unlink"}]
    /\ seen \in [Instance -> LeaseRecord]
    /\ held \in [Instance -> BOOLEAN]
    /\ mine \in [Instance -> LeaseRecord]
    /\ own \in [Instance -> LeaseRecord]
    /\ mixed \in BOOLEAN

Trusting == {i \in Instance : held[i] /\ clock <= own[i].expires}

(* Two instances trust their leases at the same time only after calls of     *)
(* theirs have interleaved so that one changed a lease other than the one it *)
(* had read; expiry, takeover, renewal and release alone never double it.    *)
LeaseExclusive == mixed \/ Cardinality(Trusting) <= 1

(* An instance whose lease was taken over finds out: the next heartbeat that *)
(* does not find its token stops it.                                         *)
LoserLearns ==
    \A i \in Instance : held[i] /\ ~OwnsFile(i) ~> (~held[i] \/ OwnsFile(i))
=============================================================================
