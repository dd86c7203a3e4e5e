----------------------------- MODULE EventStore ----------------------------
(* The event log of .agents/transaction-core/event-store.js, one stream: an  *)
(* event is a file named by its revision and a random id; snapshots hold the *)
(* state up to a revision. Appending lists the directory and later renames a *)
(* file into it; replay quarantines what it cannot verify.                   *)
EXTENDS Naturals, Sequences, FiniteSets, SequencesExt

CONSTANTS Writer,           \* the processes that append
          MaxEvents,        \* bound on the events appended
          MaxDamage         \* bound on the files damaged by a crash of the disk

ASSUME EventAssumption == MaxEvents \in Nat /\ MaxDamage \in Nat

VARIABLES events,       \* the files of the stream: records [revision, id]
          snapshots,    \* the files of the snapshot directory
          damaged,      \* the event ids and the snapshot revisions that do not
                        \* verify
          next,         \* the revision a writer computed, 0 when it is idle
          acked,        \* history: the ids of appends that returned, in order
          overlapped,   \* history: an append renamed after another one's listing
          replayed      \* what the last replay returned

eventVars == <<events, snapshots, damaged, next, acked, overlapped, replayed>>

EventInit ==
    /\ events = {} /\ snapshots = {}
    /\ damaged = [event |-> {}, snapshot |-> {}]
    /\ next = [w \in Writer |-> 0]
    /\ acked = <<>>
    /\ overlapped = FALSE
    /\ replayed = [state |-> <<>>, revision |-> 0, quarantined |-> 0]

(* _listEventFiles: by revision, then by id, which is random.                *)
ListedBefore(e, f) == e.revision < f.revision \/ (e.revision = f.revision /\ e.id < f.id)
Listed ==
    CHOOSE files \in SetToSeqs(events) :
        \A i, j \in DOMAIN files : i < j => ListedBefore(files[i], files[j])
LastRevision == IF events = {} THEN 0 ELSE Last(Listed).revision

(* append(): the listing, with the optimistic check of expectedRevision; a   *)
(* caller whose expectation is wrong gets an error and nothing happens.      *)
List(w) ==
    /\ next[w] = 0
    /\ next' = [next EXCEPT ![w] = LastRevision + 1]
    /\ UNCHANGED <<events, snapshots, damaged, acked, overlapped, replayed>>

(* The event file is renamed into place.                                     *)
Put(w) ==
    \E id \in 1 .. MaxEvents :
        /\ next[w] # 0
        /\ \A e \in events : e.id # id
        /\ id \notin ToSet(acked)
        /\ events' = events \cup {[revision |-> next[w], id |-> id]}
        /\ acked' = Append(acked, id)
        /\ overlapped' = (overlapped \/ next[w] # LastRevision + 1)
        /\ next' = [next EXCEPT ![w] = 0]
        /\ UNCHANGED <<snapshots, damaged, replayed>>

(* getLatestSnapshot(): only the newest file is looked at.                   *)
Newest == CHOOSE s \in snapshots : \A t \in snapshots : t.revision <= s.revision
NewestIsBad == snapshots # {} /\ Newest.revision \in damaged.snapshot
Start == IF snapshots = {} \/ NewestIsBad THEN [state |-> <<>>, revision |-> 0]
                                          ELSE [state |-> Newest.state, revision |-> Newest.revision]

(* Mutant: the event a snapshot ends with is replayed again.                 *)
ApplyAgain(acc, e) ==
    IF acc.bad # {} \/ e.revision < acc.revision THEN acc
    ELSE IF e.id \in damaged.event THEN [acc EXCEPT !.bad = {e}]
    ELSE [acc EXCEPT !.state = Append(@, e.id), !.revision = e.revision]

(* The loop of replay(): files at or below the last revision are skipped, a  *)
(* file that does not verify ends it.                                        *)
Apply(acc, e) ==
    IF acc.bad # {} \/ e.revision <= acc.revision THEN acc
    ELSE IF e.id \in damaged.event THEN [acc EXCEPT !.bad = {e}]
    ELSE [acc EXCEPT !.state = Append(@, e.id), !.revision = e.revision]

ReplayResult ==
    LET after[n \in 0 .. Len(Listed)] ==
            IF n = 0 THEN [state |-> Start.state, revision |-> Start.revision, bad |-> {}]
                     ELSE Apply(after[n - 1], Listed[n])
    IN after[Len(Listed)]

(* replay(): what does not verify is moved to quarantine.                    *)
Replay ==
    LET r == ReplayResult
    IN /\ replayed' = [state |-> r.state, revision |-> r.revision,
                       quarantined |-> Cardinality(r.bad)]
       /\ events' = events \ r.bad
       /\ snapshots' = IF NewestIsBad THEN snapshots \ {Newest} ELSE snapshots
       /\ UNCHANGED <<damaged, next, acked, overlapped>>

(* createSnapshot() of what was just replayed; a file of that revision is    *)
(* replaced.                                                                 *)
CreateSnapshot ==
    /\ replayed.revision > 0
    /\ snapshots' = {s \in snapshots : s.revision # replayed.revision}
                    \cup {[state |-> replayed.state, revision |-> replayed.revision]}
    /\ damaged' = [damaged EXCEPT !.snapshot = @ \ {replayed.revision}]
    /\ UNCHANGED <<events, next, acked, overlapped, replayed>>

(* A file is torn or rots.                                                   *)
Damage ==
    /\ Cardinality(damaged.event) + Cardinality(damaged.snapshot) < MaxDamage
    /\ \/ \E e \in events : damaged' = [damaged EXCEPT !.event = @ \cup {e.id}]
       \/ \E s \in snapshots : damaged' = [damaged EXCEPT !.snapshot = @ \cup {s.revision}]
    /\ UNCHANGED <<events, snapshots, next, acked, overlapped, replayed>>

EventNext ==
    \/ \E w \in Writer : List(w) \/ Put(w)
    \/ Replay \/ CreateSnapshot \/ Damage

EventSpec == EventInit /\ [][EventNext]_eventVars

-----------------------------------------------------------------------------

(* Replay gives back what was appended: every append that returned, in the   *)
(* order of the appends, unless two appends overlapped (they get the same    *)
(* revision, and replay skips the second file of a revision) or an event file*)
(* was damaged. Snapshots, replayed from, replaced or damaged in between,    *)
(* change nothing.                                                           *)
ReplayIsComplete ==
    overlapped \/ damaged.event # {} \/ ReplayResult.state = acked

(* What a replay returns is a sequence of events that were appended, each    *)
(* once, in the order of their appends, whatever was damaged: nothing is     *)
(* applied twice, also when a damaged snapshot sends it back to the start.   *)
ReplayAppliesOnce ==
    LET state == ReplayResult.state
    IN \/ overlapped
       \/ \A i, j \in DOMAIN state :
             i < j => \E k, l \in DOMAIN acked :
                         k < l /\ acked[k] = state[i] /\ acked[l] = state[j]

(* What a replay may be relied on for: both of the above.                    *)
ReplayRestores == ReplayIsComplete /\ ReplayAppliesOnce
=============================================================================
