-------------------------- MODULE BranchScenesProofs --------------------------
(***************************************************************************)
(* What holds of a branch for any number of sessions, scenes, revisions    *)
(* and texts, and for every interleaving of their reads and commits.       *)
(***************************************************************************)
EXTENDS BranchScenes, WellFoundedInduction, TLAPS

(* A non-empty set of revision numbers has a greatest one: the least       *)
(* distance to the bound exists.                                           *)
LEMMA GreatestExists ==
  ASSUME NEW S \in SUBSET Revisions, S # {}
  PROVE  \E m \in S : \A q \in S : q <= m
  <1> DEFINE T == {MaxRevision - r : r \in S}
  <1>1. T \subseteq Nat /\ T # {}
    <2>1. \A r \in S : MaxRevision - r \in Nat
      BY BoundsAssumption DEF Revisions
    <2>2. QED
      BY <2>1
  <1> DEFINE R == OpToRel(<, Nat)
  <1>2. PICK x \in T : \A y \in T : ~(<<y, x>> \in R)
    <2> HIDE DEF T
    <2>1. QED
      BY <1>1, WFMin, NatLessThanWellFounded
  <1>3. PICK m \in S : x = MaxRevision - m
    BY <1>2
  <1>4. ASSUME NEW q \in S
        PROVE  q <= m
    <2>1. MaxRevision - q \in T
      OBVIOUS
    <2>2. ~(MaxRevision - q < MaxRevision - m)
      BY <1>1, <1>2, <1>3, <2>1 DEF OpToRel
    <2>3. QED
      BY <2>2, BoundsAssumption DEF Revisions
  <1>5. QED
    BY <1>4

LEMMA LatestIsGreatest ==
  ASSUME NEW o \in Ordinals
  PROVE  /\ Latest(o) \in 0..MaxRevision
         /\ Stored(o) = {} => Latest(o) = 0
         /\ Stored(o) # {} => Latest(o) \in Stored(o)
         /\ \A q \in Stored(o) : q <= Latest(o)
  <1>1. CASE Stored(o) = {}
    BY <1>1, BoundsAssumption DEF Latest
  <1>2. CASE Stored(o) # {}
    <2>1. Stored(o) \in SUBSET Revisions
      BY DEF Stored
    <2>2. \E m \in Stored(o) : \A q \in Stored(o) : q <= m
      BY <1>2, <2>1, GreatestExists
    <2>3. Latest(o) \in Stored(o) /\ \A q \in Stored(o) : q <= Latest(o)
      BY <1>2, <2>2 DEF Latest
    <2>4. QED
      BY <1>2, <2>1, <2>3 DEF Revisions
  <1>3. QED
    BY <1>1, <1>2

-----------------------------------------------------------------------------
(* What the snapshot remembers.  Memory is a recursive function: that it   *)
(* satisfies its equation, and what follows for every ordinal, is shown by *)
(* the least ordinal for which it fails.                                   *)

LEMMA LeastExists ==
  ASSUME NEW S \in SUBSET Nat, S # {}
  PROVE  \E m \in S : \A q \in S : m <= q
  <1> DEFINE R == OpToRel(<, Nat)
  <1>1. PICK x \in S : \A y \in S : ~(<<y, x>> \in R)
    <2>1. QED
      BY WFMin, NatLessThanWellFounded
  <1>2. \A y \in S : ~(y < x)
    BY <1>1 DEF OpToRel
  <1>3. QED
    BY <1>2

(* One step of the recursion; Remembers says that g obeys it up to n.      *)
Remembered(before, o) ==
  IF Accepted(o) = {} THEN before
  ELSE Replay(before, Effect[scene[o][Effective(o)].text])
Remembers(g, n) ==
  g = [o \in 0..n |-> IF o = 0 THEN Baseline ELSE Remembered(g[o - 1], o)]

LEMMA RemembersFurther ==
  ASSUME NEW n \in Nat, NEW g, Remembers(g, n)
  PROVE  \E h : Remembers(h, n + 1)
  <1> DEFINE h == [o \in 0..n + 1 |-> IF o = n + 1 THEN Remembered(g[n], n + 1)
                                                   ELSE g[o]]
  <1>1. \A o \in 0..n : g[o] = IF o = 0 THEN Baseline ELSE Remembered(g[o - 1], o)
    BY DEF Remembers
  <1>2. ASSUME NEW o \in 0..n + 1
        PROVE  h[o] = IF o = 0 THEN Baseline ELSE Remembered(h[o - 1], o)
    <2>1. CASE o = n + 1
      <3>1. h[o - 1] = g[n]
        BY <2>1
      <3>2. QED
        BY <2>1, <3>1
    <2>2. CASE o # n + 1 /\ o # 0
      <3>1. o - 1 \in 0..n /\ o \in 0..n
        BY <2>2
      <3>2. h[o - 1] = g[o - 1]
        BY <3>1
      <3>3. QED
        BY <1>1, <2>2, <3>1, <3>2
    <2>3. CASE o = 0
      BY <1>1, <2>3
    <2>4. QED
      BY <2>1, <2>2, <2>3
  <1>3. Remembers(h, n + 1)
    BY <1>2 DEF Remembers
  <1>4. QED
    BY <1>3

LEMMA RemembersUpTo ==
  ASSUME NEW n \in Nat
  PROVE  \E g : Remembers(g, n)
  <1> DEFINE Bad == {k \in Nat : ~\E g : Remembers(g, k)}
  <1>1. SUFFICES ASSUME Bad # {} PROVE FALSE
    OBVIOUS
  <1>2. PICK k \in Bad : \A q \in Bad : k <= q
    <2>1. Bad \in SUBSET Nat
      OBVIOUS
    <2> HIDE DEF Bad
    <2>2. QED
      BY <1>1, <2>1, LeastExists
  <1>3. k # 0
    <2>1. Remembers([o \in 0..0 |-> Baseline], 0)
      BY DEF Remembers
    <2>2. QED
      BY <2>1
  <1>4. k - 1 \in Nat /\ k - 1 \notin Bad /\ (k - 1) + 1 = k
    BY <1>2, <1>3
  <1>5. PICK g : Remembers(g, k - 1)
    BY <1>4
  <1>6. QED
    BY <1>4, <1>5, RemembersFurther

LEMMA MemoryUnfolds ==
  /\ Memory[0] = Baseline
  /\ \A o \in Ordinals : Memory[o] = Remembered(Memory[o - 1], o)
  <1>1. \E g : Remembers(g, MaxOrdinal)
    BY RemembersUpTo, BoundsAssumption
  <1>2. \E g : g = [o \in 0..MaxOrdinal |->
                      IF o = 0 THEN Baseline
                      ELSE IF Accepted(o) = {} THEN g[o - 1]
                      ELSE Replay(g[o - 1], Effect[scene[o][Effective(o)].text])]
    BY <1>1 DEF Remembers, Remembered
  <1>3. Memory = [o \in 0..MaxOrdinal |->
                    IF o = 0 THEN Baseline
                    ELSE IF Accepted(o) = {} THEN Memory[o - 1]
                    ELSE Replay(Memory[o - 1], Effect[scene[o][Effective(o)].text])]
    BY <1>2, Zenon DEF Memory
  <1>4. \A o \in 0..MaxOrdinal :
          Memory[o] = IF o = 0 THEN Baseline ELSE Remembered(Memory[o - 1], o)
    BY <1>3 DEF Remembered
  <1>5. QED
    BY <1>4, BoundsAssumption DEF Ordinals

(* Of the accepted revisions of an ordinal one is the highest.             *)
LEMMA EffectiveIsGreatest ==
  ASSUME NEW o \in Ordinals, Accepted(o) # {}
  PROVE  /\ Effective(o) \in Accepted(o) /\ Effective(o) \in Revisions
         /\ \A q \in Accepted(o) : q <= Effective(o)
  <1>1. Accepted(o) \in SUBSET Revisions
    BY DEF Accepted
  <1>2. \E m \in Accepted(o) : \A q \in Accepted(o) : q <= m
    BY <1>1, GreatestExists
  <1>3. QED
    BY <1>1, <1>2 DEF Effective

(* What is remembered are facts.                                           *)
LEMMA MemoryType ==
  ASSUME scene \in [Ordinals -> [Revisions -> Row]], NEW n \in 0..MaxOrdinal
  PROVE  Memory[n] \in SUBSET Facts
  <1> DEFINE Bad == {k \in 0..MaxOrdinal : Memory[k] \notin SUBSET Facts}
  <1>1. SUFFICES ASSUME Bad # {} PROVE FALSE
    OBVIOUS
  <1>2. PICK k \in Bad : \A q \in Bad : k <= q
    <2>1. Bad \in SUBSET Nat
      BY BoundsAssumption
    <2> HIDE DEF Bad
    <2>2. QED
      BY <1>1, <2>1, LeastExists
  <1>3. k # 0
    BY <1>2, MemoryUnfolds, TextAssumption
  <1>4. k \in Ordinals /\ Memory[k - 1] \in SUBSET Facts
    BY <1>2, <1>3, BoundsAssumption DEF Ordinals
  <1>5. Memory[k] = Remembered(Memory[k - 1], k)
    BY <1>4, MemoryUnfolds
  <1>6. CASE Accepted(k) = {}
    BY <1>2, <1>4, <1>5, <1>6 DEF Remembered
  <1>7. CASE Accepted(k) # {}
    <2> DEFINE t == scene[k][Effective(k)].text
    <2>1. t \in Texts
      BY <1>4, <1>7, EffectiveIsGreatest DEF Row
    <2>2. Effect[t].sets \in SUBSET Facts
      BY <2>1, TextAssumption
    <2>3. Memory[k] = (Memory[k - 1] \ Effect[t].clears) \union Effect[t].sets
      BY <1>5, <1>7 DEF Remembered, Replay
    <2> HIDE DEF t
    <2>4. QED
      BY <1>2, <1>4, <2>2, <2>3
  <1>8. QED
    BY <1>6, <1>7

LEMMA MemoryBefore ==
  ASSUME TypeOK, NEW o \in Ordinals
  PROVE  Memory[o - 1] \in SUBSET Facts
  <1>1. o - 1 \in 0..MaxOrdinal
    BY BoundsAssumption DEF Ordinals
  <1>2. QED
    BY <1>1, MemoryType DEF TypeOK

-----------------------------------------------------------------------------
(* The constructors of rows and requests are well typed.                   *)
LEMMA SceneType ==
  ASSUME NEW t \in Texts, NEW st \in Status
  PROVE  Scene(t, st) \in Row
  BY DEF Scene, Row, Verdict

LEMMA NoRowType == NoRow \in Row /\ NoJob \in Job
  <1>1. AnyText \in Texts
    BY TextAssumption DEF AnyText
  <1>2. NoRow \in Row
    BY <1>1, SceneType DEF NoRow, Status
  <1>3. QED
    BY <1>2, BoundsAssumption DEF NoJob, Request, Job, Op, Ordinals

LEMMA RequestType ==
  ASSUME NEW op \in Op, NEW o \in Ordinals, NEW r \in Nat, NEW old \in Row,
         NEW new \in Row, NEW others \in SUBSET Revisions,
         NEW memory \in SUBSET Facts
  PROVE  Request(op, o, r, old, new, others, memory) \in Job
  BY DEF Request, Job

LEMMA FlushedType ==
  ASSUME NEW row \in Row, NEW old \in Row, NEW new \in Row
  PROVE  /\ Flushed(row, old, new) \in Row
         /\ Flushed(row, old, new).text = row.text
         /\ Flushed(row, old, new).status \in {row.status, new.status}
  <1>1. Flushed(row, old, new) =
          [status |-> Flushed(row, old, new).status, text |-> row.text,
           verdict |-> Flushed(row, old, new).verdict,
           override |-> Flushed(row, old, new).override]
    BY DEF Flushed
  <1>2. Flushed(row, old, new).status \in {row.status, new.status}
    BY DEF Flushed
  <1>3. Flushed(row, old, new).verdict \in {row.verdict, new.verdict}
    BY DEF Flushed
  <1>4. Flushed(row, old, new).override \in {row.override, new.override}
    BY DEF Flushed
  <1>5. QED
    BY <1>1, <1>2, <1>3, <1>4 DEF Row

-----------------------------------------------------------------------------
(* The inductive invariant.  The numbers of a scene have no gap, and a     *)
(* session that is about to insert does so next to a stored revision.      *)

Gapless ==
  \A o \in Ordinals, r, q \in Revisions :
    q <= r /\ Exists(o, r) => Exists(o, q)

JobsReady ==
  \A s \in Sessions :
    /\ job[s].op # "idle" => job[s].new.status # "NONE"
    /\ \A q \in job[s].others : Exists(job[s].ord, q)
    /\ job[s].op \in {"draft", "rollback"} =>
         /\ job[s].rev \in Revisions
         /\ job[s].rev = 1 \/ Exists(job[s].ord, job[s].rev - 1)

IInv == TypeOK /\ Gapless /\ JobsReady

(* Every step either reads, ends without effect, or commits; a read        *)
(* prepares a well-formed job on a stored revision or next to one.         *)
Prepared(j) ==
  /\ j \in Job
  /\ j.op # "idle" /\ j.new.status # "NONE"
  /\ \A q \in j.others : Exists(j.ord, q)
  /\ j.op \in {"accept", "reject", "revise"} =>
       j.rev \in Revisions /\ Exists(j.ord, j.rev)
  /\ j.op \in {"draft", "rollback"} =>
       /\ j.rev \in Revisions
       /\ j.rev = 1 \/ Exists(j.ord, j.rev - 1)

Reading(s) == \E j \in Job : Prepared(j) /\ Begin(s, j)

LEMMA DraftReads ==
  ASSUME TypeOK, NEW s \in Sessions, NEW o \in Ordinals, NEW t \in Written,
         ReadForDraft(s, o, t)
  PROVE  Reading(s)
  <1> DEFINE j == Request("draft", o, Latest(o) + 1, NoRow,
                          Scene(t, "DRAFT"), {}, {})
  <1>1. Scene(t, "DRAFT") \in Row /\ Scene(t, "DRAFT").status = "DRAFT"
    BY SceneType, TextAssumption DEF Status, Scene
  <1>2. /\ Latest(o) + 1 \in Revisions
        /\ Latest(o) + 1 = 1 \/ Exists(o, Latest(o))
    BY LatestIsGreatest, BoundsAssumption DEF ReadForDraft, Revisions, Stored
  <1>3. (Latest(o) + 1) - 1 = Latest(o)
    BY LatestIsGreatest
  <1>4. j \in Job
    BY <1>1, <1>2, RequestType, NoRowType DEF Op, Revisions
  <1>5. Prepared(j)
    BY <1>1, <1>2, <1>3, <1>4 DEF Prepared, Request
  <1>6. QED
    BY <1>4, <1>5 DEF Reading, ReadForDraft

LEMMA AcceptReads ==
  ASSUME TypeOK, NEW s \in Sessions, NEW o \in Ordinals, NEW r \in Revisions,
         NEW force \in Forcing, ReadForAccept(s, o, r, force)
  PROVE  Reading(s)
  <1> DEFINE row == scene[o][r]
             new == [row EXCEPT !.status = "ACCEPTED", !.verdict = "ACCEPTED",
                                !.override = @ \/ ~Passes(row.text, o)]
             j == Request("accept", o, r, row, new, Accepted(o) \ {r},
                          Memory[o - 1])
  <1>1. row \in Row /\ Exists(o, r)
    BY DEF TypeOK, ReadForAccept
  <1>2. new \in Row /\ new.status = "ACCEPTED"
    <2>1. (row.override \/ ~Passes(row.text, o)) \in BOOLEAN
      OBVIOUS
    <2> HIDE DEF row
    <2>2. QED
      BY <1>1, <2>1 DEF Row, Status, Verdict
  <1>3. /\ Accepted(o) \ {r} \subseteq Revisions
        /\ \A q \in Accepted(o) \ {r} : Exists(o, q)
    BY DEF Accepted, Exists
  <1> HIDE DEF new, row
  <1>4. j \in Job
    BY <1>1, <1>2, <1>3, RequestType, MemoryBefore DEF Op, Revisions
  <1>5. Prepared(j)
    BY <1>1, <1>2, <1>3, <1>4 DEF Prepared, Request
  <1>6. QED
    BY <1>4, <1>5 DEF Reading, ReadForAccept, BeginAccept, new, row

LEMMA RejectReads ==
  ASSUME TypeOK, NEW s \in Sessions, NEW o \in Ordinals, NEW r \in Revisions,
         ReadForReject(s, o, r)
  PROVE  Reading(s)
  <1> DEFINE row == scene[o][r]
             new == [row EXCEPT !.status = "REJECTED", !.verdict = "REJECTED"]
             j == Request("reject", o, r, row, new, {}, {})
  <1>1. row \in Row /\ Exists(o, r)
    BY DEF TypeOK, ReadForReject
  <1>2. new \in Row /\ new.status = "REJECTED"
    BY <1>1 DEF Row, Status, Verdict
  <1> HIDE DEF new, row
  <1>3. j \in Job
    BY <1>1, <1>2, RequestType DEF Op, Revisions
  <1>4. Prepared(j)
    BY <1>1, <1>2, <1>3 DEF Prepared, Request
  <1>5. QED
    BY <1>3, <1>4 DEF Reading, ReadForReject, new, row

LEMMA ReviseReads ==
  ASSUME TypeOK, NEW s \in Sessions, NEW o \in Ordinals, NEW r \in Revisions,
         NEW t \in Written, ReadForRevise(s, o, r, t)
  PROVE  Reading(s)
  <1> DEFINE row == scene[o][r]
             st == IF Passes(t, o) THEN "ACCEPTED" ELSE "DRAFT"
             j == Request("revise", o, r, row, Scene(t, st), {}, Memory[o - 1])
  <1>1. row \in Row /\ Exists(o, r)
    BY DEF TypeOK, ReadForRevise
  <1>2. st \in Status /\ st # "NONE"
    BY DEF Status
  <1> HIDE DEF st, row
  <1>3. Scene(t, st) \in Row /\ Scene(t, st).status = st
    BY <1>2, SceneType, TextAssumption DEF Scene
  <1>4. j \in Job
    BY <1>1, <1>3, RequestType, MemoryBefore DEF Op, Revisions
  <1>5. Prepared(j)
    BY <1>1, <1>2, <1>3, <1>4 DEF Prepared, Request
  <1>6. QED
    BY <1>4, <1>5 DEF Reading, ReadForRevise, st, row

LEMMA RollbackReads ==
  ASSUME NEW s \in Sessions, NEW f \in Facts, ReadForRollback(s, f)
  PROVE  Reading(s)
  <1> DEFINE new == [Scene(Healing[f], "ACCEPTED") EXCEPT !.verdict = "ACCEPTED"]
             j == Request("rollback", NextOrdinal, 1, NoRow, new, {}, {})
  <1>1. NextOrdinal \in Ordinals
    BY DEF ReadForRollback
  <1>2. new \in Row /\ new.status = "ACCEPTED"
    BY SceneType, TextAssumption DEF Scene, Row, Status, Verdict
  <1>3. 1 \in Revisions
    BY BoundsAssumption DEF Revisions
  <1> HIDE DEF new
  <1>4. j \in Job
    BY <1>1, <1>2, NoRowType, RequestType DEF Op
  <1>5. Prepared(j)
    BY <1>2, <1>3, <1>4 DEF Prepared, Request
  <1>6. QED
    BY <1>4, <1>5 DEF Reading, ReadForRollback, new

LEMMA ReadStep ==
  ASSUME TypeOK, NEW s \in Sessions,
         \/ \E o \in Ordinals, t \in Written : ReadForDraft(s, o, t)
         \/ \E o \in Ordinals, r \in Revisions, force \in Forcing :
              ReadForAccept(s, o, r, force)
         \/ \E o \in Ordinals, r \in Revisions : ReadForReject(s, o, r)
         \/ \E o \in Ordinals, r \in Revisions, t \in Written :
              ReadForRevise(s, o, r, t)
         \/ \E f \in Facts : ReadForRollback(s, f)
  PROVE  Reading(s)
  BY DraftReads, AcceptReads, RejectReads, ReviseReads, RollbackReads

-----------------------------------------------------------------------------
(* What a commit does to the rows: a stored revision keeps its text and    *)
(* stays stored, a new one follows a stored one or is the first.           *)
Kept(o, r) ==
  Exists(o, r) => /\ scene'[o][r].status # "NONE"
                  /\ scene'[o][r].text = scene[o][r].text
Grown(o, r) ==
  ~Exists(o, r) /\ scene'[o][r].status # "NONE"
  => r = 1 \/ Exists(o, r - 1)

RowsEvolve ==
  /\ scene' \in [Ordinals -> [Revisions -> Row]]
  /\ \A o \in Ordinals, r \in Revisions : Kept(o, r) /\ Grown(o, r)

LEMMA InsertEvolves ==
  ASSUME IInv, NEW s \in Sessions, job[s].op \in {"draft", "rollback"}, Insert(s)
  PROVE  RowsEvolve
  <1> PICK o \in Ordinals, r \in Revisions, row \in Row :
        o = job[s].ord /\ r = job[s].rev /\ row = job[s].new
    BY DEF Insert, Free, IInv, TypeOK, Job
  <1>1. ~Exists(o, r) /\ scene' = [scene EXCEPT ![o][r] = row]
    BY DEF Insert, Free
  <1>2. r = 1 \/ Exists(o, r - 1)
    BY DEF IInv, JobsReady
  <1>3. scene' \in [Ordinals -> [Revisions -> Row]]
    BY <1>1 DEF IInv, TypeOK
  <1>4. \A p \in Ordinals, q \in Revisions :
          p # o \/ q # r => scene'[p][q] = scene[p][q]
    BY <1>1 DEF IInv, TypeOK
  <1>5. ASSUME NEW p \in Ordinals, NEW q \in Revisions
        PROVE  Kept(p, q) /\ Grown(p, q)
    <2>1. CASE p = o /\ q = r
      BY <1>1, <1>2, <2>1 DEF Kept, Grown
    <2>2. CASE ~(p = o /\ q = r)
      <3>1. scene'[p][q] = scene[p][q]
        BY <1>4, <2>2
      <3>2. QED
        BY <3>1 DEF Kept, Grown, Exists
    <2>3. QED
      BY <2>1, <2>2
  <1>6. QED
    BY <1>3, <1>5 DEF RowsEvolve

LEMMA AcceptEvolves ==
  ASSUME IInv, NEW s \in Sessions, Accept(s)
  PROVE  RowsEvolve
  <1> PICK o \in Ordinals, r \in Revisions, old \in Row, new \in Row,
           others \in SUBSET Revisions :
        /\ o = job[s].ord /\ r = job[s].rev /\ old = job[s].loaded
        /\ new = job[s].new /\ others = job[s].others
    BY DEF Accept, IInv, TypeOK, Job
  <1> DEFINE Updated(q) ==
        IF q = r THEN Flushed(scene[o][q], old, new)
        ELSE IF q \in others THEN [scene[o][q] EXCEPT !.status = "SUPERSEDED"]
        ELSE scene[o][q]
  <1>1. scene' = [scene EXCEPT ![o] = [q \in Revisions |-> Updated(q)]]
    BY DEF Accept, IInv, TypeOK
  <1>2. Exists(o, r) /\ new.status # "NONE"
    BY DEF IInv, TypeOK, JobsReady, Accept
  <1>3. ASSUME NEW q \in Revisions
        PROVE  /\ Updated(q) \in Row
               /\ Updated(q).text = scene[o][q].text
               /\ Exists(o, q) => Updated(q).status # "NONE"
    <2>1. scene[o][q] \in Row
      BY DEF IInv, TypeOK
    <2>2. CASE q = r
      BY <1>2, <2>1, <2>2, FlushedType DEF Exists
    <2>3. CASE q # r
      BY <2>1, <2>3 DEF Row, Status, Exists
    <2>4. QED
      BY <2>2, <2>3
  <1>4. ASSUME NEW q \in Revisions, ~Exists(o, q)
        PROVE  Updated(q) = scene[o][q]
    <2>1. q \notin others
      BY <1>4 DEF IInv, JobsReady
    <2>2. QED
      BY <1>2, <1>4, <2>1
  <1> HIDE DEF Updated
  <1>5. scene' \in [Ordinals -> [Revisions -> Row]]
    BY <1>1, <1>3 DEF IInv, TypeOK
  <1>6. \A q \in Revisions : scene'[o][q] = Updated(q)
    BY <1>1 DEF IInv, TypeOK
  <1>7. \A p \in Ordinals : p # o => scene'[p] = scene[p]
    BY <1>1 DEF IInv, TypeOK
  <1>8. ASSUME NEW p \in Ordinals, NEW q \in Revisions
        PROVE  Kept(p, q) /\ Grown(p, q)
    <2>1. CASE p = o
      BY <1>3, <1>4, <1>6, <2>1 DEF Kept, Grown, Exists
    <2>2. CASE p # o
      BY <1>7, <2>2 DEF Kept, Grown, Exists
    <2>3. QED
      BY <2>1, <2>2
  <1>9. QED
    BY <1>5, <1>8 DEF RowsEvolve

LEMMA RejectEvolves ==
  ASSUME IInv, NEW s \in Sessions, Reject(s)
  PROVE  RowsEvolve
  <1> PICK o \in Ordinals, r \in Revisions, old \in Row, new \in Row :
        /\ o = job[s].ord /\ r = job[s].rev /\ old = job[s].loaded
        /\ new = job[s].new
    BY DEF Reject, IInv, TypeOK, Job
  <1> DEFINE row == Flushed(scene[o][r], old, new)
  <1>1. scene' = [scene EXCEPT ![o][r] = row]
    BY DEF Reject, IInv, TypeOK
  <1>2. Exists(o, r) /\ new.status # "NONE"
    BY DEF IInv, TypeOK, JobsReady, Reject
  <1>3. /\ row \in Row /\ row.text = scene[o][r].text
        /\ row.status # "NONE"
    BY <1>2, FlushedType DEF IInv, TypeOK, Exists
  <1> HIDE DEF row
  <1>4. scene' \in [Ordinals -> [Revisions -> Row]]
    BY <1>1, <1>3 DEF IInv, TypeOK
  <1>5. \A p \in Ordinals, q \in Revisions :
          scene'[p][q] = IF p = o /\ q = r THEN row ELSE scene[p][q]
    BY <1>1 DEF IInv, TypeOK
  <1>6. ASSUME NEW p \in Ordinals, NEW q \in Revisions
        PROVE  Kept(p, q) /\ Grown(p, q)
    <2>1. CASE p = o /\ q = r
      BY <1>2, <1>3, <1>5, <2>1 DEF Kept, Grown, Exists
    <2>2. CASE ~(p = o /\ q = r)
      BY <1>5, <2>2 DEF Kept, Grown, Exists
    <2>3. QED
      BY <2>1, <2>2
  <1>7. QED
    BY <1>4, <1>6 DEF RowsEvolve

LEMMA ReviseEvolves ==
  ASSUME IInv, NEW s \in Sessions, Revise(s)
  PROVE  RowsEvolve
  <1> PICK o \in Ordinals, r \in Revisions, new \in Row :
        o = job[s].ord /\ r = job[s].rev /\ new = job[s].new
    BY DEF Revise, IInv, TypeOK, Job
  <1> DEFINE st == IF Supersedes(job[s]) THEN "SUPERSEDED" ELSE scene[o][r].status
  <1>1. /\ r + 1 \in Revisions /\ ~Exists(o, r + 1) /\ Exists(o, r)
        /\ scene' = [scene EXCEPT ![o][r].status = st, ![o][r + 1] = new]
    BY DEF Revise, Free, IInv, TypeOK
  <1>2. st \in Status /\ st # "NONE"
    BY <1>1 DEF IInv, TypeOK, Row, Status, Exists
  <1> HIDE DEF st
  <1>3. r # r + 1
    BY DEF Revisions
  <1>4. \A p \in Ordinals, q \in Revisions :
          scene'[p][q] = IF p = o /\ q = r + 1 THEN new
                         ELSE IF p = o /\ q = r
                           THEN [scene[o][r] EXCEPT !.status = st]
                         ELSE scene[p][q]
    BY <1>1, <1>3 DEF IInv, TypeOK
  <1>5. scene[o][r] \in Row /\ [scene[o][r] EXCEPT !.status = st] \in Row
    <2>1. scene[o][r] \in Row
      BY DEF IInv, TypeOK
    <2>2. QED
      BY <1>2, <2>1 DEF Row
  <1>6. scene' \in [Ordinals -> [Revisions -> Row]]
    BY <1>1, <1>2, <1>3, <1>5 DEF IInv, TypeOK
  <1>7. (r + 1) - 1 = r
    BY DEF Revisions
  <1>8. /\ [scene[o][r] EXCEPT !.status = st].status # "NONE"
        /\ [scene[o][r] EXCEPT !.status = st].text = scene[o][r].text
    BY <1>2, <1>5 DEF Row
  <1>9. ASSUME NEW p \in Ordinals, NEW q \in Revisions
        PROVE  Kept(p, q) /\ Grown(p, q)
    <2>1. CASE p = o /\ q = r + 1
      BY <1>1, <1>4, <1>7, <2>1 DEF Kept, Grown
    <2>2. CASE p = o /\ q = r
      <3>1. scene'[p][q] = [scene[o][r] EXCEPT !.status = st]
        BY <1>3, <1>4, <2>2
      <3> HIDE <1>4
      <3>2. QED
        BY <1>1, <1>8, <2>2, <3>1 DEF Kept, Grown
    <2>3. CASE ~(p = o /\ q \in {r, r + 1})
      <3>1. scene'[p][q] = scene[p][q]
        BY <1>4, <2>3
      <3>2. QED
        BY <3>1 DEF Kept, Grown, Exists
    <2>4. QED
      BY <2>1, <2>2, <2>3
  <1>10. QED
    BY <1>6, <1>9 DEF RowsEvolve

-----------------------------------------------------------------------------
(* What a step does to the sessions: each keeps its job, drops it, or has  *)
(* just read, and a read changes no row.                                   *)
JobsEvolve ==
  /\ job' \in [Sessions -> Job]
  /\ \A s \in Sessions :
       \/ job'[s] \in {job[s], NoJob}
       \/ Prepared(job'[s]) /\ UNCHANGED scene

LEMMA Stutters ==
  ASSUME IInv, UNCHANGED scene
  PROVE  RowsEvolve
  BY DEF IInv, TypeOK, RowsEvolve, Kept, Grown, Exists

LEMMA DoneEvolves ==
  ASSUME IInv, NEW s \in Sessions, Done(s)
  PROVE  JobsEvolve
  BY NoRowType DEF Done, JobsEvolve, IInv, TypeOK

LEMMA StepEvolves ==
  ASSUME IInv, [Next]_vars
  PROVE  RowsEvolve /\ JobsEvolve
  <1>1. ASSUME NEW s \in Sessions, Reading(s)
        PROVE  RowsEvolve /\ JobsEvolve
    <2>1. PICK j \in Job : Prepared(j) /\ Begin(s, j)
      BY <1>1 DEF Reading
    <2>2. JobsEvolve
      BY <2>1 DEF Begin, JobsEvolve, IInv, TypeOK
    <2>3. QED
      BY <2>1, <2>2, Stutters DEF Begin
  <1>2. ASSUME NEW s \in Sessions, Commit(s)
        PROVE  RowsEvolve /\ JobsEvolve
    <2>1. RowsEvolve
      BY <1>2, InsertEvolves, AcceptEvolves, RejectEvolves, ReviseEvolves
      DEF Commit, InsertDraft, Rollback
    <2>2. Done(s)
      BY <1>2 DEF Commit, InsertDraft, Accept, Reject, Revise, Rollback, Insert
    <2>3. QED
      BY <2>1, <2>2, DoneEvolves
  <1>3. ASSUME NEW s \in Sessions, Collide(s)
        PROVE  RowsEvolve /\ JobsEvolve
    BY <1>3, Stutters, DoneEvolves DEF Collide
  <1>4. CASE UNCHANGED vars
    BY <1>4, Stutters DEF vars, JobsEvolve, IInv, TypeOK
  <1>5. CASE Next
    <2>1. IInv => TypeOK
      BY DEF IInv
    <2>2. QED
      BY <1>1, <1>2, <1>3, <1>5, <2>1, ReadStep DEF Next
  <1>6. QED
    BY <1>4, <1>5

LEMMA Inductive ==
  ASSUME IInv, [Next]_vars
  PROVE  IInv'
  <1>1. RowsEvolve /\ JobsEvolve
    BY StepEvolves
  <1>2. ASSUME NEW o \in Ordinals, NEW r \in Revisions, Exists(o, r)
        PROVE  Exists(o, r)'
    BY <1>1, <1>2 DEF RowsEvolve, Kept, Exists
  <1>3. ASSUME NEW s \in Sessions
        PROVE  /\ job'[s].op \in {"accept", "reject", "revise"} =>
                    job'[s].rev \in Revisions /\ Exists(job[s].ord, job[s].rev)'
               /\ job'[s].op # "idle" => job'[s].new.status # "NONE"
               /\ \A q \in job'[s].others : Exists(job[s].ord, q)'
               /\ job'[s].op \in {"draft", "rollback"} =>
                    /\ job'[s].rev \in Revisions
                    /\ job'[s].rev = 1 \/ Exists(job[s].ord, job[s].rev - 1)'
    <2>0. job[s] \in Job /\ job[s].ord \in Ordinals
          /\ job[s].others \subseteq Revisions
      BY DEF IInv, TypeOK, Job
    <2>1. CASE job'[s] = job[s]
      <3>1. PICK j \in Job : j = job[s] /\ j = job'[s]
        BY <2>0, <2>1
      <3>2. j.rev \in Revisions /\ j.rev # 1 => j.rev - 1 \in Revisions
        BY BoundsAssumption DEF Revisions
      <3>3. \A r \in Revisions : Exists(j.ord, r) => Exists(j.ord, r)'
        BY <1>2, <2>0, <3>1
      <3>4. QED
        BY <2>0, <3>1, <3>2, <3>3 DEF IInv, TypeOK, JobsReady, Exists
    <2>2. CASE job'[s] = NoJob
      BY <2>2 DEF NoJob, Request
    <2>3. CASE Prepared(job'[s]) /\ UNCHANGED scene
      BY <2>3 DEF Prepared, Exists
    <2>4. QED
      BY <1>1, <2>1, <2>2, <2>3 DEF JobsEvolve
  <1>4. TypeOK'
    BY <1>1, <1>3 DEF TypeOK, RowsEvolve, JobsEvolve
  <1>5. JobsReady'
    BY <1>3 DEF JobsReady
  <1>6. ASSUME NEW o \in Ordinals, NEW r \in Revisions, NEW q \in Revisions,
               q <= r, Exists(o, r)'
        PROVE  Exists(o, q)'
    <2>1. CASE Exists(o, r)
      BY <1>2, <1>6, <2>1 DEF IInv, Gapless
    <2>2. CASE ~Exists(o, r)
      <3>1. r = 1 \/ Exists(o, r - 1)
        BY <1>1, <1>6, <2>2 DEF RowsEvolve, Grown, Exists
      <3>2. CASE q = r
        BY <1>6, <3>2
      <3>3. CASE q # r
        <4>1. r - 1 \in Revisions /\ q <= r - 1 /\ r # 1
          BY <1>6, <3>3, BoundsAssumption DEF Revisions
        <4>2. QED
          BY <1>2, <3>1, <4>1 DEF IInv, Gapless
      <3>4. QED
        BY <3>2, <3>3
    <2>3. QED
      BY <2>1, <2>2
  <1>7. QED
    BY <1>4, <1>5, <1>6 DEF IInv, Gapless

LEMMA Initially ==
  ASSUME Init
  PROVE  IInv
  <1>1. NoRow.status = "NONE" /\ NoJob.op = "idle" /\ NoJob.others = {}
    BY DEF NoRow, NoJob, Request, Scene
  <1>2. \A o \in Ordinals, r \in Revisions : ~Exists(o, r)
    BY <1>1 DEF Init, Exists
  <1>3. TypeOK
    BY <1>1, NoRowType DEF Init, TypeOK
  <1>4. QED
    BY <1>1, <1>2, <1>3 DEF Init, IInv, Gapless, JobsReady

LEMMA Invariance == Spec => []IInv
  BY Initially, Inductive, PTL DEF Spec

-----------------------------------------------------------------------------
(* Every row and every request in flight is well formed (models.py:170).   *)
THEOREM TypeCorrect == Spec => []TypeOK
  BY Invariance, PTL DEF IInv

(* The revisions of a scene are numbered without a gap, whatever stale     *)
(* numbers concurrent requests compute (branch_service.py:115, 265).       *)
THEOREM NumberingContiguous == Spec => []RevisionsContiguous
  <1>1. ASSUME IInv
        PROVE  RevisionsContiguous
    <2>1. SUFFICES ASSUME NEW o \in Ordinals
                   PROVE  Stored(o) = 1..Latest(o)
      BY DEF RevisionsContiguous
    <2>2. /\ Latest(o) \in 0..MaxRevision
          /\ Stored(o) = {} => Latest(o) = 0
          /\ Stored(o) # {} => Latest(o) \in Stored(o)
          /\ \A q \in Stored(o) : q <= Latest(o)
      BY LatestIsGreatest
    <2>3. Stored(o) \subseteq 1..Latest(o)
      BY <2>2 DEF Stored, Revisions
    <2>4. ASSUME NEW q \in 1..Latest(o)
          PROVE  q \in Stored(o)
      <3>1. Latest(o) \in Revisions /\ Exists(o, Latest(o)) /\ q <= Latest(o)
        BY <2>2 DEF Stored
      <3>2. q \in Revisions
        BY <2>2, BoundsAssumption DEF Revisions
      <3>3. QED
        BY <1>1, <3>1, <3>2 DEF IInv, Gapless, Stored
    <2>5. QED
      BY <2>3, <2>4
  <1>2. QED
    BY <1>1, Invariance, PTL

(* No request rewrites the text of a stored revision or removes it.        *)
THEOREM HistoryOnlyGrows == Spec => HistoryKept
  <1>1. ASSUME IInv, [Next]_vars
        PROVE  [\A o \in Ordinals, r \in Revisions :
                  Exists(o, r) => /\ scene'[o][r].status # "NONE"
                                  /\ scene'[o][r].text = scene[o][r].text]_vars
    BY <1>1, StepEvolves DEF RowsEvolve, Kept
  <1>2. QED
    BY <1>1, Invariance, PTL DEF Spec, HistoryKept

-----------------------------------------------------------------------------
(* A revision that passes is the one replayed from then on: the numbers    *)
(* have no gap, so the free number it takes is above every stored one.     *)
THEOREM RevisionIsReplayed == Spec => RevisionTakesEffect
  <1>1. ASSUME IInv, [Next]_vars, NEW s \in Sessions, NEW o \in Ordinals,
               NEW r \in Revisions,
               job[s].op = "revise", job'[s].op = "idle",
               o = job[s].ord, r = job[s].rev + 1,
               ~Exists(o, r), scene'[o][r].status = "ACCEPTED"
        PROVE  Effective(o)' = r
    <2>1. IInv' /\ RowsEvolve
      BY <1>1, Inductive, StepEvolves
    <2>2. ASSUME NEW q \in Revisions, q > r
          PROVE  scene'[o][q].status = "NONE"
      <3>1. ~Exists(o, q)
        BY <1>1, <2>2 DEF IInv, Gapless, Revisions
      <3>2. q # 1 /\ q - 1 \in Revisions /\ q - 1 >= r
        BY <2>2, BoundsAssumption DEF Revisions
      <3>3. ~Exists(o, q - 1)
        BY <1>1, <3>2 DEF IInv, Gapless, Revisions
      <3>4. QED
        BY <2>1, <3>1, <3>2, <3>3 DEF RowsEvolve, Grown
    <2>3. r \in Accepted(o)' /\ \A q \in Accepted(o)' : q <= r
      BY <1>1, <2>2 DEF Accepted, Revisions
    <2>4. \A m \in Accepted(o)' : (\A q \in Accepted(o)' : q <= m) => m = r
      BY <2>3 DEF Accepted, Revisions
    <2>5. QED
      BY <2>3, <2>4 DEF Effective
  <1>2. ASSUME IInv, [Next]_vars
        PROVE  [\A s \in Sessions, o \in Ordinals, r \in Revisions :
                  /\ job[s].op = "revise" /\ job'[s].op = "idle"
                  /\ o = job[s].ord /\ r = job[s].rev + 1
                  /\ ~Exists(o, r) /\ scene'[o][r].status = "ACCEPTED"
                  => Effective(o)' = r]_vars
    BY <1>1, <1>2
  <1>3. QED
    BY <1>2, Invariance, PTL DEF Spec, RevisionTakesEffect

-----------------------------------------------------------------------------
(* How a row comes to be accepted.  The invariant carries what a request   *)
(* checked from its read to its commit: the memory it looked at, whether   *)
(* it was forced, and that its copy of a stored text is the stored text.   *)

Stands(t, memory) == Effect[t].sound /\ Effect[t].needs \subseteq memory

CheckedJob(j) ==
  /\ j.op \in {"draft", "reject"} => j.new.status # "ACCEPTED"
  /\ j.op \in {"accept", "reject"} => j.new.text = scene[j.ord][j.rev].text
  /\ j.op \in {"accept", "revise"} /\ j.new.status = "ACCEPTED" =>
       /\ j.new.override \/ Stands(j.new.text, j.snapshot)
       /\ TRUE \notin Forcing => Effect[j.new.text].sound
  /\ j.op = "rollback" => \E f \in Facts : j.new.text = Healing[f]

CheckedInv == IInv /\ \A s \in Sessions : CheckedJob(job[s])

LEMMA CheckedReads ==
  ASSUME IInv, NEW s \in Sessions,
         \/ \E o \in Ordinals, t \in Written : ReadForDraft(s, o, t)
         \/ \E o \in Ordinals, r \in Revisions, force \in Forcing :
              ReadForAccept(s, o, r, force)
         \/ \E o \in Ordinals, r \in Revisions : ReadForReject(s, o, r)
         \/ \E o \in Ordinals, r \in Revisions, t \in Written :
              ReadForRevise(s, o, r, t)
         \/ \E f \in Facts : ReadForRollback(s, f)
  PROVE  CheckedJob(job'[s]) /\ UNCHANGED scene
  <1> USE DEF Begin, Request, IInv, TypeOK
  <1>1. ASSUME NEW o \in Ordinals, NEW t \in Written, ReadForDraft(s, o, t)
        PROVE  CheckedJob(job'[s]) /\ UNCHANGED scene
    BY <1>1 DEF ReadForDraft, CheckedJob, Scene
  <1>2. ASSUME NEW o \in Ordinals, NEW r \in Revisions, NEW force \in Forcing,
               ReadForAccept(s, o, r, force)
        PROVE  CheckedJob(job'[s]) /\ UNCHANGED scene
    <2> DEFINE row == scene[o][r]
               passed == Passes(row.text, o)
               n == [row EXCEPT !.status = "ACCEPTED", !.verdict = "ACCEPTED",
                                !.override = @ \/ ~passed]
    <2>1. row \in Row /\ row.override \in BOOLEAN /\ passed \in BOOLEAN
      BY DEF Row, Passes
    <2>2. /\ job'[s] = Request("accept", o, r, row, n, Accepted(o) \ {r},
                               Memory[o - 1])
          /\ UNCHANGED scene
      BY <1>2 DEF ReadForAccept, BeginAccept
    <2>3. force \/ passed
      BY <1>2 DEF ReadForAccept
    <2>4. passed <=> Stands(row.text, Memory[o - 1])
      BY DEF Passes, Stands
    <2> HIDE DEF row, passed
    <2>5. n.text = row.text /\ n.override = (row.override \/ ~passed)
      BY <2>1 DEF Row
    <2> HIDE DEF n
    <2>6. n.override \/ Stands(n.text, Memory[o - 1])
      BY <2>1, <2>4, <2>5
    <2>7. TRUE \notin Forcing => Effect[n.text].sound
      BY <2>3, <2>4, <2>5, TextAssumption DEF Stands
    <2>8. /\ job'[s].op = "accept" /\ job'[s].new = n
          /\ job'[s].ord = o /\ job'[s].rev = r
          /\ job'[s].snapshot = Memory[o - 1]
      BY <2>2
    <2>9. QED
      BY <2>2, <2>5, <2>6, <2>7, <2>8 DEF CheckedJob, row
  <1>3. ASSUME NEW o \in Ordinals, NEW r \in Revisions, ReadForReject(s, o, r)
        PROVE  CheckedJob(job'[s]) /\ UNCHANGED scene
    <2>1. /\ job'[s].new.text = scene[o][r].text
          /\ job'[s].new.status = "REJECTED"
          /\ job'[s].op = "reject"
          /\ job'[s].ord = o /\ job'[s].rev = r /\ UNCHANGED scene
      <3> DEFINE n == [scene[o][r] EXCEPT !.status = "REJECTED",
                                          !.verdict = "REJECTED"]
      <3>1. scene[o][r] \in Row
        OBVIOUS
      <3>2. n.text = scene[o][r].text /\ n.status = "REJECTED"
        BY <3>1 DEF Row
      <3> HIDE DEF n
      <3>3. job'[s] = Request("reject", o, r, scene[o][r], n, {}, {})
        BY <1>3 DEF ReadForReject, n
      <3>4. QED
        BY <1>3, <3>2, <3>3 DEF ReadForReject
    <2>2. QED
      BY <2>1 DEF CheckedJob
  <1>4. ASSUME NEW o \in Ordinals, NEW r \in Revisions, NEW t \in Written,
               ReadForRevise(s, o, r, t)
        PROVE  CheckedJob(job'[s]) /\ UNCHANGED scene
    <2>1. /\ job'[s].op = "revise" /\ job'[s].new.text = t
          /\ job'[s].snapshot = Memory[o - 1] /\ UNCHANGED scene
          /\ job'[s].new.status = "ACCEPTED" => Passes(t, o)
      BY <1>4 DEF ReadForRevise, Scene
    <2>2. Passes(t, o) <=> Stands(t, Memory[o - 1])
      BY DEF Passes, Stands
    <2>3. QED
      BY <2>1, <2>2 DEF CheckedJob, Stands
  <1>5. ASSUME NEW f \in Facts, ReadForRollback(s, f)
        PROVE  CheckedJob(job'[s]) /\ UNCHANGED scene
    <2>1. /\ job'[s].new.text = Healing[f] /\ job'[s].op = "rollback"
          /\ UNCHANGED scene
      BY <1>5 DEF ReadForRollback, Scene
    <2>2. QED
      BY <2>1 DEF CheckedJob
  <1>6. QED
    BY <1>1, <1>2, <1>3, <1>4, <1>5

(* A row a commit leaves accepted was accepted before with the same text,  *)
(* or it is the row that the request was about to accept or to insert.     *)
LEMMA AcceptedOrigin ==
  ASSUME CheckedInv, NEW s \in Sessions, Commit(s),
         NEW o \in Ordinals, NEW r \in Revisions,
         scene'[o][r].status = "ACCEPTED"
  PROVE  \/ scene[o][r].status = "ACCEPTED" /\ scene'[o][r].text = scene[o][r].text
         \/ /\ job[s].new.status = "ACCEPTED"
            /\ scene'[o][r].text = job[s].new.text
            /\ o = job[s].ord
            /\ \/ job[s].op \in {"accept", "revise"}
               \/ job[s].op = "rollback" /\ ~Exists(o, r)
  <1> USE DEF CheckedInv, IInv
  <1>1. PICK j \in Job : j = job[s]
    BY DEF TypeOK
  <1>2. /\ scene[o][r] \in Row /\ j.loaded \in Row /\ j.new \in Row
        /\ scene \in [Ordinals -> [Revisions -> Row]] /\ j.ord \in Ordinals
    BY DEF TypeOK, Job
  <1>0. CheckedJob(j)
    BY <1>1
  <1>3. CASE InsertDraft(s) \/ Rollback(s)
    <2>1. /\ scene'[o][r] = IF o = j.ord /\ r = j.rev THEN j.new ELSE scene[o][r]
          /\ ~Exists(j.ord, j.rev)
          /\ j.op \in {"draft", "rollback"}
      BY <1>1, <1>2, <1>3 DEF InsertDraft, Rollback, Insert, Free
    <2>2. QED
      BY <1>0, <1>1, <2>1 DEF CheckedJob
  <1>4. CASE Accept(s)
    <2>1. scene'[o][r] =
            IF o # j.ord THEN scene[o][r]
            ELSE IF r = j.rev THEN Flushed(scene[o][r], j.loaded, j.new)
            ELSE IF r \in j.others THEN [scene[o][r] EXCEPT !.status = "SUPERSEDED"]
            ELSE scene[o][r]
      BY <1>1, <1>2, <1>4 DEF Accept
    <2>2. CASE o = j.ord /\ r = j.rev
      <3>1. scene'[o][r] = Flushed(scene[o][r], j.loaded, j.new)
        BY <2>1, <2>2
      <3>2. /\ scene'[o][r].text = scene[o][r].text
            /\ scene'[o][r].status \in {scene[o][r].status, j.new.status}
        BY <1>2, <3>1, FlushedType
      <3>3. j.op = "accept"
        BY <1>1, <1>4 DEF Accept
      <3>4. j.new.text = scene[o][r].text
        BY <1>0, <2>2, <3>3 DEF CheckedJob
      <3>5. QED
        BY <1>1, <2>2, <3>2, <3>3, <3>4
    <2>3. CASE o = j.ord /\ r # j.rev /\ r \in j.others
      BY <1>2, <2>1, <2>3 DEF Row
    <2>4. CASE o # j.ord \/ (r # j.rev /\ r \notin j.others)
      BY <2>1, <2>4
    <2>5. QED
      BY <2>2, <2>3, <2>4
  <1>5. CASE Reject(s)
    <2>1. /\ scene'[o][r] = IF o = j.ord /\ r = j.rev
                            THEN Flushed(scene[o][r], j.loaded, j.new)
                            ELSE scene[o][r]
          /\ j.op = "reject"
      BY <1>1, <1>2, <1>5 DEF Reject
    <2>2. CASE o = j.ord /\ r = j.rev
      <3>1. scene'[o][r] = Flushed(scene[o][r], j.loaded, j.new)
        BY <2>1, <2>2
      <3>2. /\ scene'[o][r].text = scene[o][r].text
            /\ scene'[o][r].status \in {scene[o][r].status, j.new.status}
        BY <1>2, <3>1, FlushedType
      <3>3. j.new.status # "ACCEPTED"
        BY <1>0, <2>1 DEF CheckedJob
      <3>4. QED
        BY <3>2, <3>3
    <2>3. CASE ~(o = j.ord /\ r = j.rev)
      BY <2>1, <2>3
    <2>4. QED
      BY <2>2, <2>3
  <1>6. CASE Revise(s)
    <2>1. /\ j.rev \in Revisions /\ j.rev + 1 \in Revisions /\ j.rev # j.rev + 1
          /\ j.op = "revise"
      BY <1>1, <1>6 DEF Revise, Free, TypeOK, Revisions
    <2>2. CASE o = j.ord /\ r = j.rev + 1
      <3>1. scene'[o][r] = j.new
        BY <1>1, <1>2, <1>6, <2>1, <2>2 DEF Revise
      <3>2. QED
        BY <1>1, <2>1, <2>2, <3>1
    <2>3. CASE ~(o = j.ord /\ r = j.rev + 1)
      <3>1. /\ scene'[o][r].text = scene[o][r].text
            /\ scene'[o][r].status \in {scene[o][r].status, "SUPERSEDED"}
        BY <1>1, <1>2, <1>6, <2>1, <2>3 DEF Revise, Row
      <3>2. QED
        BY <3>1
    <2>4. QED
      BY <2>2, <2>3
  <1>7. QED
    BY <1>3, <1>4, <1>5, <1>6 DEF Commit

(* A step reads for one session, or it commits or gives up.                *)
LEMMA StepKinds ==
  ASSUME Next
  PROVE  \E s \in Sessions :
           \/ \/ \E o \in Ordinals, t \in Written : ReadForDraft(s, o, t)
              \/ \E o \in Ordinals, r \in Revisions, force \in Forcing :
                   ReadForAccept(s, o, r, force)
              \/ \E o \in Ordinals, r \in Revisions : ReadForReject(s, o, r)
              \/ \E o \in Ordinals, r \in Revisions, t \in Written :
                   ReadForRevise(s, o, r, t)
              \/ \E f \in Facts : ReadForRollback(s, f)
           \/ Commit(s)
           \/ Collide(s)
  BY DEF Next

LEMMA CheckedInductive ==
  ASSUME CheckedInv, [Next]_vars
  PROVE  CheckedInv'
  <1>0. IInv' /\ RowsEvolve
    BY Inductive, StepEvolves DEF CheckedInv
  <1>1. ASSUME NEW s \in Sessions, CheckedJob(job'[s]), UNCHANGED scene,
               \A q \in Sessions : q # s => job'[q] = job[q]
        PROVE  CheckedInv'
    <2>1. ASSUME NEW q \in Sessions PROVE CheckedJob(job'[q])
      BY <1>1 DEF CheckedInv
    <2>2. ASSUME NEW q \in Sessions PROVE CheckedJob(job[q])'
      <3>1. PICK j : j = job'[q]
        OBVIOUS
      <3>2. CheckedJob(j) /\ scene' = scene
        BY <1>1, <2>1, <3>1
      <3>3. QED
        BY <3>1, <3>2 DEF CheckedJob
    <2>3. QED
      BY <1>0, <2>2 DEF CheckedInv
  <1>2. ASSUME NEW s \in Sessions, Commit(s)
        PROVE  CheckedInv'
    <2>1. job' = [job EXCEPT ![s] = NoJob]
      BY <1>2 DEF Commit, InsertDraft, Accept, Reject, Revise, Rollback, Insert,
                  Done
    <2>2. ASSUME NEW q \in Sessions
          PROVE  CheckedJob(job[q])'
      <3>1. CASE q = s
        BY <2>1, <3>1 DEF CheckedInv, IInv, TypeOK, CheckedJob, NoJob, Request
      <3>2. CASE q # s
        <4>1. job'[q] = job[q]
          BY <2>1, <3>2 DEF CheckedInv, IInv, TypeOK
        <4>2. CheckedJob(job[q])
          BY DEF CheckedInv
        <4>3. ASSUME job[q].op \in {"accept", "reject"}
              PROVE  scene'[job[q].ord][job[q].rev].text
                       = scene[job[q].ord][job[q].rev].text
          <5>1. job[q].ord \in Ordinals /\ job[q].rev \in Revisions
                /\ Exists(job[q].ord, job[q].rev)
            BY <4>3 DEF CheckedInv, IInv, TypeOK, Job
          <5>2. QED
            BY <1>0, <5>1 DEF RowsEvolve, Kept
        <4>4. QED
          BY <4>1, <4>2, <4>3 DEF CheckedJob
      <3>3. QED
        BY <3>1, <3>2
    <2>3. QED
      BY <1>0, <2>2 DEF CheckedInv
  <1>3. ASSUME NEW s \in Sessions, Collide(s)
        PROVE  CheckedInv'
    <2>1. /\ job'[s] = NoJob /\ UNCHANGED scene
          /\ \A q \in Sessions : q # s => job'[q] = job[q]
      BY <1>3 DEF Collide, Done, CheckedInv, IInv, TypeOK
    <2>2. CheckedJob(job'[s])
      BY <2>1 DEF CheckedJob, NoJob, Request
    <2>3. QED
      BY <1>1, <2>1, <2>2
  <1>4. CASE UNCHANGED vars
    BY <1>0, <1>4 DEF vars, CheckedInv, CheckedJob
  <1>5. CASE Next
    <2>1. PICK s \in Sessions :
            \/ \/ \E o \in Ordinals, t \in Written : ReadForDraft(s, o, t)
               \/ \E o \in Ordinals, r \in Revisions, force \in Forcing :
                    ReadForAccept(s, o, r, force)
               \/ \E o \in Ordinals, r \in Revisions : ReadForReject(s, o, r)
               \/ \E o \in Ordinals, r \in Revisions, t \in Written :
                    ReadForRevise(s, o, r, t)
               \/ \E f \in Facts : ReadForRollback(s, f)
            \/ Commit(s)
            \/ Collide(s)
      BY <1>5, StepKinds
    <2>2. CASE Commit(s) \/ Collide(s)
      BY <1>2, <1>3, <2>2
    <2>3. CASE ~(Commit(s) \/ Collide(s))
      <3>1. CheckedJob(job'[s]) /\ UNCHANGED scene
        BY <2>1, <2>3, CheckedReads DEF CheckedInv
      <3>2. Reading(s)
        BY <2>1, <2>3, ReadStep DEF CheckedInv, IInv
      <3>3. \A q \in Sessions : q # s => job'[q] = job[q]
        BY <3>2 DEF Reading, Begin, CheckedInv, IInv, TypeOK
      <3>4. QED
        BY <1>1, <3>1, <3>3
    <2>4. QED
      BY <2>2, <2>3
  <1>6. QED
    BY <1>4, <1>5

LEMMA CheckedInvariance == Spec => []CheckedInv
  <1>1. Init => CheckedInv
    <2>1. SUFFICES ASSUME Init PROVE CheckedInv
      OBVIOUS
    <2>2. \A s \in Sessions : job[s].op = "idle"
      BY <2>1 DEF Init, NoJob, Request
    <2>3. QED
      BY <2>1, <2>2, Initially DEF CheckedInv, CheckedJob
  <1>2. CheckedInv /\ [Next]_vars => CheckedInv'
    BY CheckedInductive
  <1>3. QED
    BY <1>1, <1>2, PTL DEF Spec

(* What a step that newly accepts a row is: the commit of a request that   *)
(* checked it, or the INSERT of a healing scene.                           *)
LEMMA NewlyAccepted ==
  ASSUME CheckedInv, [Next]_vars, NEW o \in Ordinals, NEW r \in Revisions,
         scene'[o][r].status = "ACCEPTED",
         ~(scene[o][r].status = "ACCEPTED" /\ scene'[o][r].text = scene[o][r].text)
  PROVE  \/ Heals(o, r)
         \/ \E s \in Sessions :
              /\ job[s].op \in {"accept", "revise"} /\ job'[s].op = "idle"
              /\ o = job[s].ord
              /\ scene'[o][r].text = job[s].new.text
              /\ job[s].new.override
                 \/ Stands(scene'[o][r].text, job[s].snapshot)
              /\ TRUE \notin Forcing => Effect[scene'[o][r].text].sound
  <1>1. scene' # scene
    OBVIOUS
  <1>2. PICK s \in Sessions : Commit(s)
    <2>1. Next
      BY <1>1 DEF vars
    <2>2. ASSUME NEW s \in Sessions, Collide(s) \/ Reading(s)
          PROVE  FALSE
      BY <1>1, <2>2 DEF Collide, Reading, Begin
    <2>3. QED
      BY <2>1, <2>2, StepKinds, ReadStep DEF CheckedInv, IInv
  <1>3. /\ job[s].new.status = "ACCEPTED"
        /\ scene'[o][r].text = job[s].new.text
        /\ o = job[s].ord
        /\ \/ job[s].op \in {"accept", "revise"}
           \/ job[s].op = "rollback" /\ ~Exists(o, r)
    BY <1>2, AcceptedOrigin
  <1>4. CheckedJob(job[s])
    BY DEF CheckedInv
  <1>5. job'[s].op = "idle"
    <2>1. job'[s] = NoJob
      BY <1>2 DEF Commit, InsertDraft, Accept, Reject, Revise, Rollback, Insert,
                  Done, CheckedInv, IInv, TypeOK
    <2>2. QED
      BY <2>1 DEF NoJob, Request
  <1>6. CASE job[s].op \in {"accept", "revise"}
    BY <1>3, <1>4, <1>5, <1>6 DEF CheckedJob
  <1>7. CASE job[s].op = "rollback" /\ ~Exists(o, r)
    BY <1>3, <1>4, <1>7 DEF CheckedJob, Heals
  <1>8. QED
    BY <1>3, <1>6, <1>7

(* Where no request forces, no unsound text comes to be accepted but the   *)
(* one rollback_injury inserts unvalidated (branch_service.py:161, 255,    *)
(* 333).                                                                   *)
THEOREM NeverUnsoundUnforced ==
  ASSUME TRUE \notin Forcing
  PROVE  Spec => AcceptedSound
  <1>1. ASSUME CheckedInv, [Next]_vars
        PROVE  [\A o \in Ordinals : \A r \in Accepted(o)' \ Accepted(o) :
                  Effect[scene'[o][r].text].sound \/ Heals(o, r)]_vars
    <2>1. SUFFICES ASSUME NEW o \in Ordinals, NEW r \in Accepted(o)' \ Accepted(o)
                   PROVE  Effect[scene'[o][r].text].sound \/ Heals(o, r)
      OBVIOUS
    <2>2. /\ r \in Revisions /\ scene'[o][r].status = "ACCEPTED"
          /\ scene[o][r].status # "ACCEPTED"
      BY <2>1 DEF Accepted
    <2>3. QED
      BY <1>1, <2>2, NewlyAccepted
  <1>2. QED
    BY <1>1, CheckedInvariance, PTL DEF Spec, AcceptedSound

(* For any scenes and concurrent requests: an accepted scene comes to      *)
(* stand on a memory its text fails only because an earlier scene changed, *)
(* it was forced, its validation was stale, or it heals                    *)
(* (branch_service.py:146, 245, 333).                                      *)
THEOREM SupportLostOnlyByCause == Spec => SupportLost
  <1>1. ASSUME CheckedInv, [Next]_vars, NEW o \in Ordinals, NEW r \in Revisions,
               Unsupported(o, r)', ~Unsupported(o, r),
               Memory[o - 1]' = Memory[o - 1], ~Heals(o, r)
        PROVE  \E s \in Sessions : Unchecked(s, o)
    <2>1. /\ scene'[o][r].status = "ACCEPTED"
          /\ ~Stands(scene'[o][r].text, Memory[o - 1])
      BY <1>1 DEF Unsupported, Stands
    <2>2. ~(scene[o][r].status = "ACCEPTED" /\ scene'[o][r].text = scene[o][r].text)
      BY <1>1, <2>1 DEF Unsupported, Stands
    <2>3. PICK s \in Sessions :
            /\ job[s].op \in {"accept", "revise"} /\ job'[s].op = "idle"
            /\ o = job[s].ord
            /\ job[s].new.override
               \/ Stands(scene'[o][r].text, job[s].snapshot)
      BY <1>1, <2>1, <2>2, NewlyAccepted
    <2>4. QED
      BY <2>1, <2>3 DEF Unchecked
  <1>2. ASSUME CheckedInv, [Next]_vars
        PROVE  [\A o \in Ordinals, r \in Revisions :
                  Unsupported(o, r)' /\ ~Unsupported(o, r)
                  => \/ Memory[o - 1]' # Memory[o - 1]
                     \/ \E s \in Sessions : Unchecked(s, o)
                     \/ Heals(o, r)]_vars
    BY <1>1, <1>2
  <1>3. QED
    BY <1>2, CheckedInvariance, PTL DEF Spec, SupportLost

-----------------------------------------------------------------------------
(* The replay says of every fact what its last speaker says.               *)

(* Of the revisions of an ordinal only the effective one speaks.           *)
LEMMA OnlyEffectiveSpeaks ==
  ASSUME NEW o \in Ordinals, NEW f \in Facts
  PROVE  /\ Accepted(o) = {} => \A r \in Revisions : ~Speaks(o, r, f)
         /\ Accepted(o) # {} =>
              LET e == Effect[scene[o][Effective(o)].text] IN
              /\ Effective(o) \in Revisions
              /\ \A r \in Revisions :
                   Speaks(o, r, f) <=> r = Effective(o) /\ f \in e.sets \union e.clears
  <1>1. CASE Accepted(o) = {}
    BY <1>1 DEF Accepted, Speaks
  <1>2. CASE Accepted(o) # {}
    <2>1. Accepted(o) \in SUBSET Revisions
      BY DEF Accepted
    <2>3. Effective(o) \in Accepted(o) /\ \A q \in Accepted(o) : q <= Effective(o)
      BY <1>2, EffectiveIsGreatest
    <2>4. ASSUME NEW r \in Revisions
          PROVE  (/\ scene[o][r].status = "ACCEPTED"
                  /\ \A q \in Revisions : q > r => scene[o][q].status # "ACCEPTED")
                 <=> r = Effective(o)
      <3>1. \A q \in Revisions : q \in Accepted(o) <=> scene[o][q].status = "ACCEPTED"
        BY DEF Accepted
      <3> HIDE DEF Accepted
      <3>2. QED
        BY <2>1, <2>3, <3>1 DEF Revisions
    <2>5. QED
      BY <1>2, <2>1, <2>3, <2>4 DEF Speaks
  <1>3. QED
    BY <1>1, <1>2

(* What the last scene up to n that speaks of f says.                      *)
LastWord(n, f) ==
  \/ Speakers(n, f) = {} /\ f \in Baseline
  \/ \E o \in Speakers(n, f), r \in Revisions :
       /\ \A p \in Speakers(n, f) : p <= o
       /\ Speaks(o, r, f)
       /\ f \in Effect[scene[o][r].text].sets

LEMMA NextWord ==
  ASSUME NEW n \in Ordinals, NEW f \in Facts
  PROVE  /\ (\A r \in Revisions : ~Speaks(n, r, f)) =>
              (LastWord(n, f) <=> LastWord(n - 1, f))
         /\ \A r \in Revisions :
              (\A q \in Revisions : Speaks(n, q, f) <=> q = r) =>
                (LastWord(n, f) <=> f \in Effect[scene[n][r].text].sets)
  <1>1. n \in Nat /\ n - 1 \in Nat
    BY BoundsAssumption DEF Ordinals
  <1>2. ASSUME \A r \in Revisions : ~Speaks(n, r, f)
        PROVE  Speakers(n, f) = Speakers(n - 1, f)
    BY <1>1, <1>2 DEF Speakers
  <1>3. ASSUME NEW r \in Revisions, \A q \in Revisions : Speaks(n, q, f) <=> q = r
        PROVE  LastWord(n, f) <=> f \in Effect[scene[n][r].text].sets
    <2>1. n \in Speakers(n, f) /\ \A p \in Speakers(n, f) : p <= n /\ p \in Int
      BY <1>1, <1>3 DEF Speakers
    <2>2. \A o \in Speakers(n, f) : (\A p \in Speakers(n, f) : p <= o) <=> o = n
      BY <1>1, <2>1
    <2>3. QED
      BY <1>3, <2>1, <2>2 DEF LastWord
  <1>4. QED
    BY <1>2, <1>3 DEF LastWord

LEMMA MemoryIsLastWord ==
  ASSUME NEW n \in 0..MaxOrdinal, NEW f \in Facts
  PROVE  f \in Memory[n] <=> LastWord(n, f)
  <1> DEFINE Bad == {k \in 0..MaxOrdinal : ~(f \in Memory[k] <=> LastWord(k, f))}
  <1>1. SUFFICES ASSUME Bad # {} PROVE FALSE
    OBVIOUS
  <1>2. PICK k \in Bad : \A q \in Bad : k <= q
    <2>1. Bad \in SUBSET Nat
      BY BoundsAssumption
    <2> HIDE DEF Bad
    <2>2. QED
      BY <1>1, <2>1, LeastExists
  <1>3. k # 0
    <2>1. Speakers(0, f) = {}
      BY DEF Speakers
    <2>2. f \in Memory[0] <=> LastWord(0, f)
      BY <2>1, MemoryUnfolds DEF LastWord
    <2>3. QED
      BY <2>2
  <1>4. /\ k \in Ordinals /\ k - 1 \in 0..MaxOrdinal
        /\ f \in Memory[k - 1] <=> LastWord(k - 1, f)
    BY <1>2, <1>3, BoundsAssumption DEF Ordinals
  <1>5. Memory[k] = Remembered(Memory[k - 1], k)
    BY <1>4, MemoryUnfolds
  <1>6. ~(f \in Memory[k] <=> LastWord(k, f))
    BY <1>2
  <1> HIDE DEF Bad
  <1>7. CASE Accepted(k) = {}
    BY <1>4, <1>5, <1>6, <1>7, OnlyEffectiveSpeaks, NextWord DEF Remembered
  <1>8. CASE Accepted(k) # {}
    <2> DEFINE e == Effect[scene[k][Effective(k)].text]
    <2>1. /\ Effective(k) \in Revisions
          /\ \A r \in Revisions :
               Speaks(k, r, f) <=> r = Effective(k) /\ f \in e.sets \union e.clears
      BY <1>4, <1>8, OnlyEffectiveSpeaks
    <2>2. f \in Memory[k] <=> f \in e.sets \/ (f \in Memory[k - 1] /\ f \notin e.clears)
      BY <1>5, <1>8 DEF Remembered, Replay
    <2>3. CASE f \in e.sets \union e.clears
      <3>1. LastWord(k, f) <=> f \in e.sets
        BY <1>4, <2>1, <2>3, NextWord
      <3>2. QED
        BY <1>6, <2>2, <2>3, <3>1
    <2>4. CASE f \notin e.sets \union e.clears
      <3>1. LastWord(k, f) <=> LastWord(k - 1, f)
        BY <1>4, <2>1, <2>4, NextWord
      <3>2. QED
        BY <1>4, <1>6, <2>2, <2>4, <3>1
    <2>5. QED
      BY <2>3, <2>4
  <1>9. QED
    BY <1>7, <1>8

(* The snapshot remembers, of every fact, what the last scene that speaks  *)
(* of it says, for any number of scenes, revisions and facts               *)
(* (branch_service.py:381).                                                *)
THEOREM SnapshotIsLastWord == Spec => []ReplayIsLastWord
  <1>1. ReplayIsLastWord
    BY MemoryIsLastWord DEF ReplayIsLastWord, LastWord
  <1>2. QED
    BY <1>1, PTL
=============================================================================
