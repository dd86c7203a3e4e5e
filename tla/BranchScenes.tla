----------------------------- MODULE BranchScenes -----------------------------
(***************************************************************************)
(* The scene revisions of one fanfic branch (writing/branch_service.py     *)
(* over the branch_scenes table) and the narrative memory replayed from    *)
(* them.  Every operation is an HTTP request with a database session of    *)
(* its own: it reads, decides, and commits; two requests interleave        *)
(* between those two moments.                                              *)
(*                                                                         *)
(* A text stands for the prose of a scene together with its plan and the   *)
(* state delta extracted from it.  What a snapshot remembers is the set of *)
(* facts (an item held, a status suffered, a secret known) that are true.  *)
(***************************************************************************)
EXTENDS Integers

CONSTANTS
  Sessions,     \* database sessions, one per request in flight
  Facts,        \* facts a delta can set or clear
  Baseline,     \* the facts true at the branch's cutoff in the book
  Texts,        \* scene texts with their deltas
  Effect,       \* what each text says and needs
  Healing,      \* the text rollback_injury writes for a fact
  Written,      \* the texts that authors and providers write
  MaxOrdinal,   \* bound on scene_ordinal
  MaxRevision,  \* bound on revision_num
  Forcing       \* values of force_override that requests use

Ordinals == 1..MaxOrdinal
Revisions == 1..MaxRevision

ASSUME BoundsAssumption == MaxOrdinal \in Nat \ {0} /\ MaxRevision \in Nat \ {0}

ASSUME TextAssumption ==
  /\ Texts # {}
  /\ Baseline \subseteq Facts
  /\ Effect \in [Texts -> [sets : SUBSET Facts, clears : SUBSET Facts,
                           needs : SUBSET Facts,   \* secrets it acts on
                           sound : BOOLEAN,        \* POV and beats pass
                           cited : BOOLEAN]]       \* delta quotes found
  /\ Written \subseteq Texts
  /\ Healing \in [Facts -> Texts]
  /\ \A f \in Facts : Effect[Healing[f]].clears = {f} /\ Effect[Healing[f]].sets = {}
  /\ Forcing \subseteq BOOLEAN

VARIABLES
  scene,  \* scene[o][r]: the committed row of revision r of ordinal o
  job     \* job[s]: what session s has read and is about to commit

vars == <<scene, job>>

Status == {"NONE", "DRAFT", "ACCEPTED", "REJECTED", "SUPERSEDED"}
Verdict == {"VALIDATED", "ACCEPTED", "REJECTED"}  \* kept with the delta
Row == [status : Status, text : Texts, verdict : Verdict, override : BOOLEAN]
Op == {"idle", "draft", "accept", "reject", "revise", "rollback"}
Job == [op : Op, ord : Ordinals, rev : Nat, loaded : Row, new : Row,
        others : SUBSET Revisions,
        snapshot : SUBSET Facts]  \* the memory a validation looked at

AnyText == CHOOSE t \in Texts : TRUE
Scene(t, st) ==
  [status |-> st, text |-> t, verdict |-> "VALIDATED", override |-> FALSE]
NoRow == Scene(AnyText, "NONE")
Request(op, o, r, old, new, others, memory) ==
  [op |-> op, ord |-> o, rev |-> r, loaded |-> old, new |-> new,
   others |-> others, snapshot |-> memory]
NoJob == Request("idle", 1, 0, NoRow, NoRow, {}, {})

Exists(o, r) == scene[o][r].status # "NONE"

(* The revisions of an ordinal that are stored, and the highest number.    *)
Stored(o) == {r \in Revisions : Exists(o, r)}
LatestFromOne(o) ==  \* slip: max(..., default=1)
  IF Stored(o) = {} THEN 1
  ELSE CHOOSE r \in Stored(o) : \A q \in Stored(o) : q <= r
Latest(o) == IF Stored(o) = {} THEN 0
             ELSE CHOOSE r \in Stored(o) : \A q \in Stored(o) : q <= r

-----------------------------------------------------------------------------
(* get_branch_snapshot.                                                    *)

Accepted(o) == {r \in Revisions : scene[o][r].status = "ACCEPTED"}

FirstAccepted(o) ==  \* slip: ascending order, the oldest revision kept
  CHOOSE r \in Accepted(o) : \A q \in Accepted(o) : r <= q

(* Of several accepted revisions of an ordinal the highest is replayed.    *)
Effective(o) == CHOOSE r \in Accepted(o) : \A q \in Accepted(o) : q <= r

SetsLast(held, e) == held \union (e.sets \ e.clears)  \* slip: cancel ignored
Replay(held, e) == (held \ e.clears) \union e.sets

(* Memory[o]: the snapshot through scene ordinal o, accepted deltas        *)
(* replayed in order over the baseline.                                    *)
Memory[o \in 0..MaxOrdinal] ==
  IF o = 0 THEN Baseline
  ELSE IF Accepted(o) = {} THEN Memory[o - 1]
  ELSE Replay(Memory[o - 1], Effect[scene[o][Effective(o)].text])

PassesWithOwn(t, o) ==  \* slip: through_scene_ordinal=scene.scene_ordinal
  Effect[t].sound /\ Effect[t].needs \subseteq Memory[o]
(* SceneValidator.validate_scene against the snapshot before ordinal o.    *)
Passes(t, o) == Effect[t].sound /\ Effect[t].needs \subseteq Memory[o - 1]

-----------------------------------------------------------------------------
(* Commits.                                                                *)

Idle(s) == job[s].op = "idle"
Done(s) == job' = [job EXCEPT ![s] = NoJob]

Begin(s, j) == Idle(s) /\ job' = [job EXCEPT ![s] = j] /\ UNCHANGED scene

(* INSERT under the unique key (branch, ordinal, revision).                *)
Free(o, r) == r \in Revisions /\ ~Exists(o, r)

(* UPDATE of the columns that differ from the loaded ones; the others keep *)
(* what another session committed.  The delta is one JSON column.          *)
Delta(row) == <<row.verdict, row.override>>
Flushed(row, old, new) ==
  LET kept == Delta(new) = Delta(old) IN
  [status   |-> IF new.status = old.status THEN row.status ELSE new.status,
   text     |-> row.text,
   verdict  |-> IF kept THEN row.verdict ELSE new.verdict,
   override |-> IF kept THEN row.override ELSE new.override]

Init ==
  /\ scene = [o \in Ordinals |-> [r \in Revisions |-> NoRow]]
  /\ job = [s \in Sessions |-> NoJob]

-----------------------------------------------------------------------------
(* draft_scene: the provider's text becomes the next revision.             *)

ReadForDraft(s, o, t) ==
  /\ Latest(o) < MaxRevision
  /\ Begin(s, Request("draft", o, Latest(o) + 1, NoRow, Scene(t, "DRAFT"), {}, {}))

Insert(s) ==
  LET j == job[s] IN
  /\ Free(j.ord, j.rev)
  /\ scene' = [scene EXCEPT ![j.ord][j.rev] = j.new]
  /\ Done(s)

InsertDraft(s) == job[s].op = "draft" /\ Insert(s)

-----------------------------------------------------------------------------
(* accept_scene: whatever the row's status, a scene that validates with    *)
(* cited quotes, or is forced, is accepted and its accepted siblings are   *)
(* superseded.                                                             *)

BeginAccept(s, o, r, new) ==
  Begin(s, Request("accept", o, r, scene[o][r], new, Accepted(o) \ {r},
                   Memory[o - 1]))

AcceptUnchecked(s, o, r, force) ==  \* slip: validation computed, not used
  /\ Exists(o, r)
  /\ BeginAccept(s, o, r, [scene[o][r] EXCEPT !.status = "ACCEPTED",
                                              !.verdict = "ACCEPTED"])

ReadForAccept(s, o, r, force) ==
  LET row == scene[o][r]
      passed == Passes(row.text, o)
  IN
  /\ Exists(o, r)
  /\ force \/ (passed /\ Effect[row.text].cited)
  /\ BeginAccept(s, o, r, [row EXCEPT !.status = "ACCEPTED",
                                      !.verdict = "ACCEPTED",
                                      !.override = @ \/ ~passed])

Accept(s) ==
  LET j == job[s] IN
  /\ j.op = "accept"
  /\ scene' = [scene EXCEPT ![j.ord] = [r \in Revisions |->
       IF r = j.rev THEN Flushed(@[r], j.loaded, j.new)
       ELSE IF r \in j.others THEN [@[r] EXCEPT !.status = "SUPERSEDED"]
       ELSE @[r]]]
  /\ Done(s)

-----------------------------------------------------------------------------
(* reject_scene: also whatever the row's status.                           *)

ReadForReject(s, o, r) ==
  /\ Exists(o, r)
  /\ Begin(s, Request("reject", o, r, scene[o][r],
                      [scene[o][r] EXCEPT !.status = "REJECTED",
                                          !.verdict = "REJECTED"], {}, {}))

Reject(s) ==
  LET j == job[s] IN
  /\ j.op = "reject"
  /\ scene' = [scene EXCEPT ![j.ord][j.rev] = Flushed(@, j.loaded, j.new)]
  /\ Done(s)

-----------------------------------------------------------------------------
(* revise_scene: a text that passes becomes the accepted next revision and *)
(* an accepted old one is superseded; one that fails is kept as a draft.   *)

ReadForRevise(s, o, r, t) ==
  /\ Exists(o, r)
  /\ Latest(o) < MaxRevision
  /\ Begin(s, Request("revise", o, r, scene[o][r],
                      Scene(t, IF Passes(t, o) THEN "ACCEPTED" ELSE "DRAFT"),
                      {}, Memory[o - 1]))

Supersedes(j) == j.new.status = "ACCEPTED" /\ j.loaded.status = "ACCEPTED"

Revise(s) ==
  LET j == job[s] IN
  /\ j.op = "revise"
  /\ Free(j.ord, j.rev + 1)
  /\ scene' = [scene EXCEPT
       ![j.ord][j.rev].status = IF Supersedes(j) THEN "SUPERSEDED" ELSE @,
       ![j.ord][j.rev + 1] = j.new]
  /\ Done(s)

-----------------------------------------------------------------------------
(* rollback_injury: an accepted scene that cancels the status, after every *)
(* ordinal in use.  Nothing validates it.                                  *)

Used == {o \in Ordinals : Stored(o) # {}}
NextOrdinal == IF Used = {} THEN 1
               ELSE 1 + CHOOSE o \in Used : \A p \in Used : p <= o

ReadForRollback(s, f) ==
  /\ NextOrdinal \in Ordinals
  /\ Begin(s, Request("rollback", NextOrdinal, 1, NoRow,
                      [Scene(Healing[f], "ACCEPTED") EXCEPT
                         !.verdict = "ACCEPTED"], {}, {}))

Rollback(s) == job[s].op = "rollback" /\ Insert(s)

-----------------------------------------------------------------------------
(* The INSERT breaks the unique key: the transaction is rolled back and    *)
(* the request fails.                                                      *)
Collide(s) ==
  LET j == job[s] IN
  /\ \/ j.op \in {"draft", "rollback"} /\ Exists(j.ord, j.rev)
     \/ j.op = "revise" /\ Exists(j.ord, j.rev + 1)
  /\ Done(s)
  /\ UNCHANGED scene

Commit(s) ==
  \/ InsertDraft(s) \/ Accept(s) \/ Reject(s) \/ Revise(s) \/ Rollback(s)

Next ==
  \E s \in Sessions :
    \/ \E o \in Ordinals, t \in Written : ReadForDraft(s, o, t)
    \/ \E o \in Ordinals, r \in Revisions, force \in Forcing :
         ReadForAccept(s, o, r, force)
    \/ \E o \in Ordinals, r \in Revisions : ReadForReject(s, o, r)
    \/ \E o \in Ordinals, r \in Revisions, t \in Written :
         ReadForRevise(s, o, r, t)
    \/ \E f \in Facts : ReadForRollback(s, f)
    \/ Commit(s)
    \/ Collide(s)

Spec == Init /\ [][Next]_vars

-----------------------------------------------------------------------------
(* Properties.                                                             *)

(* Rows and jobs have their types, and a session that is about to change a *)
(* row has read one that exists.                                           *)
TypeOK ==
  /\ scene \in [Ordinals -> [Revisions -> Row]]
  /\ job \in [Sessions -> Job]
  /\ \A s \in Sessions :
       job[s].op \in {"accept", "reject", "revise"} =>
         job[s].rev \in Revisions /\ Exists(job[s].ord, job[s].rev)

(* The revisions of a scene are numbered 1, 2, 3 ... without a gap, though *)
(* each request computes its number from a read that may be stale          *)
(* (branch_service.py:115, 265 and the unique key).                        *)
RevisionsContiguous ==
  \A o \in Ordinals : Stored(o) = 1..Latest(o)

(* No request ever replaces the text of a stored revision: the history of  *)
(* a scene only grows.                                                     *)
HistoryKept ==
  [][\A o \in Ordinals, r \in Revisions :
       Exists(o, r) => /\ scene'[o][r].status # "NONE"
                       /\ scene'[o][r].text = scene[o][r].text]_vars

(* The text of an INSERT by rollback_injury.                               *)
Heals(o, r) ==
  ~Exists(o, r) /\ \E f \in Facts : scene'[o][r].text = Healing[f]

(* Where no request forces, a scene that leaks thoughts or skips its plan  *)
(* comes to be accepted in one way only, whatever requests interleave:     *)
(* rollback_injury inserts it so (branch_service.py:333), and once         *)
(* rejected it does not come back.  The checks of accept_scene (:161) and  *)
(* of revise_scene (:255) that do not read the memory cannot go stale.     *)
AcceptedSound ==
  [][\A o \in Ordinals : \A r \in Accepted(o)' \ Accepted(o) :
       Effect[scene'[o][r].text].sound \/ Heals(o, r)]_vars

(* A revision that passes is what the snapshot replays from then on, even  *)
(* when other requests accept older revisions at the same time.            *)
RevisionTakesEffect ==
  [][\A s \in Sessions, o \in Ordinals, r \in Revisions :
       /\ job[s].op = "revise" /\ job'[s].op = "idle"
       /\ o = job[s].ord /\ r = job[s].rev + 1
       /\ ~Exists(o, r) /\ scene'[o][r].status = "ACCEPTED"
       => Effective(o)' = r]_vars

(* The replay of the accepted deltas remembers, of every fact, what the    *)
(* last scene that speaks of it says; of two accepted revisions of one     *)
(* ordinal only the higher speaks.                                         *)
Speaks(o, r, f) ==
  /\ scene[o][r].status = "ACCEPTED"
  /\ \A q \in Revisions : q > r => scene[o][q].status # "ACCEPTED"
  /\ f \in Effect[scene[o][r].text].sets \union Effect[scene[o][r].text].clears
Speakers(n, f) ==
  {o \in 1..n : \E r \in Revisions : Speaks(o, r, f)}
ReplayIsLastWord ==
  \A n \in 0..MaxOrdinal, f \in Facts :
    LET speakers == Speakers(n, f) IN
    f \in Memory[n] <=>
      \/ speakers = {} /\ f \in Baseline
      \/ \E o \in speakers, r \in Revisions :
           /\ \A p \in speakers : p <= o
           /\ Speaks(o, r, f)
           /\ f \in Effect[scene[o][r].text].sets

(* An accepted scene whose text does not stand on the memory before it.    *)
Unsupported(o, r) ==
  /\ scene[o][r].status = "ACCEPTED"
  /\ ~(Effect[scene[o][r].text].sound
       /\ Effect[scene[o][r].text].needs \subseteq Memory[o - 1])

(* The session commits what it validated on a memory that is no longer the *)
(* memory, or what its request forced.                                     *)
Unchecked(s, o) ==
  /\ job[s].op \in {"accept", "revise"} /\ job'[s].op = "idle"
  /\ o = job[s].ord
  /\ job[s].new.override \/ job[s].snapshot # Memory[o - 1]

(* Validation happens once, on a snapshot read before the commit           *)
(* (branch_service.py:146, 245), and nothing repeats it.  An accepted      *)
(* scene comes to stand on a memory that its text fails for four reasons   *)
(* and no other: an earlier scene changed, it was forced, it was validated *)
(* on a memory another request has changed since, or it heals.             *)
SupportLost ==
  [][\A o \in Ordinals, r \in Revisions :
       Unsupported(o, r)' /\ ~Unsupported(o, r)
       => \/ Memory[o - 1]' # Memory[o - 1]
          \/ \E s \in Sessions : Unchecked(s, o)
          \/ Heals(o, r)]_vars

(* At most one revision of a scene is accepted (branch_service.py:138).    *)
OneAcceptedPerScene ==
  \A o \in Ordinals : \A r, q \in Accepted(o) : r = q

(* The delta of a rejected scene "will NEVER alter branch memory"          *)
(* (branch_service.py:208).                                                *)
RejectedStaysOut ==
  [][\A o \in Ordinals, r \in Revisions :
       scene[o][r].status = "REJECTED" => scene'[o][r].status # "ACCEPTED"]_vars
=============================================================================
