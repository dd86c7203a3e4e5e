--------------------------- MODULE LibraryProofs ----------------------------
(* What holds of the skill library, for any skills, profiles, scopes and     *)
(* files: the profiles of the lockfile, the export to the adapters, the      *)
(* compilation of the skills to a registry, and the walk that finds the      *)
(* packages of a repository.                                                 *)
EXTENDS Profiles, AdapterExport, ManifestCompiler, WorkspaceGraph, SequenceTheorems,
        FiniteSetTheorems, WellFoundedInduction, TLAPS

(* Every set of natural numbers that is not empty has a least element: the   *)
(* form of induction that these proofs use.                                  *)
LEMMA LeastOf ==
  ASSUME NEW S \in SUBSET Nat, S # {}
  PROVE  \E m \in S : \A k \in S : m <= k
  <1>1. PICK m \in S : \A y \in S : ~(<<y, m>> \in OpToRel(<, Nat))
    BY NatLessThanWellFounded, WFMin
  <1>2. \A y \in S : ~(y < m)
    BY <1>1 DEF OpToRel
  <1>3. QED
    BY <1>2

(* The profile that the lockfile records is one of the library, stored as it *)
(* parses, and valid.                                                        *)
StoredInv ==
    /\ library \in Libraries
    /\ lock # <<>> =>
          /\ lock = <<[profile |-> lock[1].profile, stored |-> lock[1].stored,
                       overrides |-> lock[1].overrides]>>
          /\ lock[1].profile \in DOMAIN library
          /\ lock[1].stored = Parsed(library[lock[1].profile])
          /\ Valid(lock[1].stored)

(* Every command keeps that.                                                 *)
LEMMA StoredKeeps ==
  ASSUME StoredInv, [ProfileNext]_profileVars
  PROVE  StoredInv'
  <1>1. ASSUME NEW id \in DOMAIN library, ApplyToProject(id) PROVE StoredInv'
    BY <1>1 DEF ApplyToProject, StoredInv
  <1>2. ASSUME NEW id \in DOMAIN library, NEW s \in Scopes, ApplyToScope(id, s) PROVE StoredInv'
    BY <1>2 DEF ApplyToScope, StoredInv
  <1>3. ASSUME NEW s \in Scopes, RemoveScope(s) PROVE StoredInv'
    <2>1. PICK o : lock' = <<[lock[1] EXCEPT !.overrides = o]>>
      BY <1>3 DEF RemoveScope
    <2>2. lock # <<>> /\ library' = library
      BY <1>3 DEF RemoveScope
    <2>3. lock'[1] = [profile |-> lock[1].profile, stored |-> lock[1].stored, overrides |-> o]
      BY <2>1, <2>2 DEF StoredInv
    <2>4. QED
      BY <2>1, <2>2, <2>3 DEF StoredInv
  <1>4. ASSUME RemoveProfile PROVE StoredInv'
    BY <1>4 DEF RemoveProfile, StoredInv
  <1>5. CASE UNCHANGED profileVars
    BY <1>5 DEF profileVars, StoredInv
  <1>6. QED
    BY <1>1, <1>2, <1>3, <1>4, <1>5 DEF ProfileNext

(* What a policy key says is what enforces it, and each enforces one key but *)
(* testing, which enforces two.                                              *)
LEMMA EnforcedOnce ==
  /\ \A e \in Enforceable : EnforcedBy[e] \subseteq Policies /\ EnforcedBy[e] # {}
  /\ \A e, f \in Enforceable : \A k \in EnforcedBy[e] \cap EnforcedBy[f] : e = f
  BY DEF EnforcedBy, Enforceable, Policies

(* A valid profile enforces what the policy of its own demands.              *)
LEMMA PolicyEnforced ==
  ASSUME NEW d, DocumentOK(d), NEW e \in Enforceable
  PROVE  (e \in DOMAIN Enforce(d) /\ Enforce(d)[e]) <=> \E k \in EnforcedBy[e] : Policy(d)[k] = "required"
  <1>1. CASE d.policy # <<>>
    BY <1>1 DEF Enforce
  <1>2. CASE d.policy = <<>>
    <2>1. Enforce(d) = d.enforce
      BY <1>2 DEF Enforce
    <2>2. \A k : k \notin DOMAIN d.policy
      BY <1>2
    <2>3. CASE e \in DOMAIN d.enforce
      <3>1. ASSUME NEW k \in EnforcedBy[e]
            PROVE  Policy(d)[k] = IF d.enforce[e] THEN "required" ELSE "off"
        <4>1. \A f \in DOMAIN d.enforce : k \in EnforcedBy[f] => f = e
          BY <3>1, EnforcedOnce DEF DocumentOK
        <4>2. (CHOOSE f \in DOMAIN d.enforce : k \in EnforcedBy[f]) = e
          BY <2>3, <3>1, <4>1
        <4>3. k \in Policies
          BY <3>1, EnforcedOnce
        <4>4. Policy(d)[k] = IF d.enforce[CHOOSE f \in DOMAIN d.enforce : k \in EnforcedBy[f]]
                             THEN "required" ELSE "off"
          BY <1>2, <2>2, <2>3, <3>1, <4>3 DEF Policy
        <4>5. QED
          BY <4>2, <4>4
      <3>2. d.enforce[e] \in BOOLEAN
        BY <2>3 DEF DocumentOK, Range
      <3>3. "off" # "required"
        OBVIOUS
      <3>4. QED
        BY <2>1, <2>3, <3>1, <3>2, <3>3, EnforcedOnce
    <2>4. CASE e \notin DOMAIN d.enforce
      <3>1. ASSUME NEW k \in EnforcedBy[e] PROVE Policy(d)[k] # "required"
        <4>1. k \in Policies
          BY <3>1, EnforcedOnce
        <4>2. ~\E f \in DOMAIN d.enforce : k \in EnforcedBy[f]
          BY <2>4, <3>1, EnforcedOnce DEF DocumentOK
        <4>3. Policy(d)[k] = DefaultPolicy[k]
          BY <1>2, <2>2, <4>1, <4>2 DEF Policy
        <4>4. QED
          BY <4>1, <4>3 DEF DefaultPolicy
      <3>2. QED
        BY <2>1, <2>4, <3>1
    <2>5. QED
      BY <2>3, <2>4
  <1>3. QED
    BY <1>1, <1>2

(* What is stored is consistent by what its validation has checked.          *)
LEMMA StoredConsistent ==
  ASSUME StoredInv
  PROVE  StoredIsConsistent
  <1>1. SUFFICES ASSUME lock # <<>>
                 PROVE  LET p == lock[1].stored
                            d == library[lock[1].profile]
                            both == {g \in Groups : d.v1[g] # {} /\ d.v2[g] # {}}
                        IN /\ \A g \in Groups \ both : p.legacy[g] = p.skills[g]
                           /\ both = {} => (p.legacy["required"] \cup p.legacy["preferred"]) \cap p.legacy["excluded"] = {}
                           /\ \A e \in Enforceable :
                                 (e \in DOMAIN p.enforce /\ p.enforce[e]) <=> \E k \in EnforcedBy[e] : p.policy[k] = "required"
    BY DEF StoredIsConsistent
  <1> DEFINE p == lock[1].stored
             d == library[lock[1].profile]
             both == {g \in Groups : d.v1[g] # {} /\ d.v2[g] # {}}
  <1>2. DocumentOK(d) /\ p = Parsed(d) /\ Valid(p)
    BY <1>1, ProfileAssumption DEF StoredInv
  <1>3. p.skills = Sync(d).skills /\ p.legacy = Sync(d).legacy /\ p.policy = Policy(d) /\ p.enforce = Enforce(d)
    BY <1>2 DEF Parsed
  <1> HIDE DEF p, d
  <1>4. \A g \in Groups : /\ p.skills[g] = Filled(d.v2[g], d.v1[g])
                          /\ p.legacy[g] = Filled(d.v1[g], d.v2[g])
    BY <1>3 DEF Sync
  <1>5. \A g \in Groups \ both : p.legacy[g] = p.skills[g]
    BY <1>4 DEF Filled
  <1>6. both = {} => (p.legacy["required"] \cup p.legacy["preferred"]) \cap p.legacy["excluded"] = {}
    <2>1. SUFFICES ASSUME both = {}
                   PROVE  (p.legacy["required"] \cup p.legacy["preferred"]) \cap p.legacy["excluded"] = {}
      OBVIOUS
    <2>2. \A g \in Groups : p.legacy[g] = p.skills[g]
      BY <1>5, <2>1
    <2>3. /\ p.legacy["required"] = p.skills["required"] /\ p.legacy["preferred"] = p.skills["preferred"]
          /\ p.legacy["excluded"] = p.skills["excluded"]
      BY <2>2 DEF Groups
    <2>4. p.skills["required"] \cap p.skills["excluded"] = {} /\ p.skills["preferred"] \cap p.skills["excluded"] = {}
      BY <1>2, Zenon DEF Valid
    <2>5. QED
      BY <2>3, <2>4
  <1>7. \A e \in Enforceable :
           (e \in DOMAIN p.enforce /\ p.enforce[e]) <=> \E k \in EnforcedBy[e] : p.policy[k] = "required"
    BY <1>2, <1>3, PolicyEnforced
  <1>8. QED
    BY <1>5, <1>6, <1>7 DEF p, d

(* The profile in lockfile.v2.json is one of the library, as it was          *)
(* validated, after any sequence of commands (profiles.js:471).              *)
THEOREM StoredInvariance == ProfileSpec => []StoredInv
  <1>1. ProfileInit(Libraries) => StoredInv
    BY DEF ProfileInit, StoredInv
  <1>2. StoredInv /\ [ProfileNext]_profileVars => StoredInv'
    BY StoredKeeps
  <1>3. QED
    BY <1>1, <1>2, PTL DEF ProfileSpec

(* For every library, project and scope: the stored profile does not         *)
(* contradict itself, and its requirements are in force (profiles.js:206,    *)
(* 471).                                                                     *)
THEOREM StoredProfileIsConsistent == ProfileSpec => []StoredIsConsistent
  <1>1. StoredInv => StoredIsConsistent
    BY StoredConsistent
  <1>2. QED
    BY <1>1, StoredInvariance, PTL

-----------------------------------------------------------------------------

(* The overrides of the lockfile: one per scope, in the order they were      *)
(* made.                                                                     *)
Distinct(o) == \A i, j \in DOMAIN o : o[i][1] = o[j][1] => i = j
Listed(o) == o \in Seq(Scopes \X DOMAIN library) /\ Distinct(o)

(* The overrides that are in both lists are in the same order.               *)
OrderKept(o, p) ==
    \A i, j \in DOMAIN o, a, b \in DOMAIN p : o[i] = p[a] /\ o[j] = p[b] /\ i <= j => a <= b


(* A list kept as it is keeps its order.                                     *)
LEMMA SameOrder ==
  ASSUME NEW o, NEW p, Len(o) \in Nat, Distinct(o),
         DOMAIN o \subseteq DOMAIN p, \A i \in DOMAIN p : i \notin DOMAIN o => \A j \in DOMAIN o : p[i][1] # o[j][1],
         \A i \in DOMAIN o : o[i][1] = p[i][1]
  PROVE  OrderKept(o, p)
  BY DEF Distinct, OrderKept

(* The list without its i-th override.                                       *)
LEMMA RemovedAt ==
  ASSUME NEW S, NEW o \in Seq(S), NEW r \in 1 .. Len(o)
  PROVE  /\ RemoveAt(o, r) \in Seq(S) /\ Len(RemoveAt(o, r)) = Len(o) - 1
         /\ \A a \in 1 .. Len(o) - 1 : RemoveAt(o, r)[a] = IF a < r THEN o[a] ELSE o[a + 1]
  <1>1. Len(o) \in Nat /\ r \in Nat /\ r # 0 /\ r <= Len(o) /\ \A i \in 1 .. Len(o) : o[i] \in S
    OBVIOUS
  <1> DEFINE left == SubSeq(o, 1, r - 1)
             right == SubSeq(o, r + 1, Len(o))
  <1>2. /\ left \in Seq(S) /\ Len(left) = r - 1
        /\ \A i \in 1 .. r - 1 : left[i] = o[i]
    <2>1. /\ \A i \in 1 .. r - 1 : o[i] \in S
          /\ r - 1 \in Int /\ 1 \in Int
      BY <1>1
    <2>2. /\ left \in Seq(S)
          /\ Len(left) = IF 1 <= r - 1 THEN (r - 1) - 1 + 1 ELSE 0
          /\ \A i \in 1 .. (r - 1) - 1 + 1 : left[i] = o[1 + i - 1]
      BY <2>1, SubSeqProperties
    <2> HIDE DEF left
    <2>3. (r - 1) - 1 + 1 = r - 1 /\ (~(1 <= r - 1) => r - 1 = 0) /\ \A i \in 1 .. r - 1 : 1 + i - 1 = i
      BY <1>1
    <2>4. QED
      BY <2>2, <2>3
  <1>3. /\ right \in Seq(S) /\ Len(right) = Len(o) - r
        /\ \A i \in 1 .. Len(o) - r : right[i] = o[r + i]
    <2>1. /\ \A i \in r + 1 .. Len(o) : o[i] \in S
          /\ r + 1 \in Int /\ Len(o) \in Int
      BY <1>1
    <2>2. /\ right \in Seq(S)
          /\ Len(right) = IF r + 1 <= Len(o) THEN Len(o) - (r + 1) + 1 ELSE 0
          /\ \A i \in 1 .. Len(o) - (r + 1) + 1 : right[i] = o[(r + 1) + i - 1]
      BY <2>1, SubSeqProperties
    <2> HIDE DEF right
    <2>3. /\ Len(o) - (r + 1) + 1 = Len(o) - r /\ (~(r + 1 <= Len(o)) => Len(o) - r = 0)
          /\ \A i \in 1 .. Len(o) - r : (r + 1) + i - 1 = r + i
      BY <1>1
    <2>4. QED
      BY <2>2, <2>3
  <1>4. RemoveAt(o, r) = left \o right
    BY DEF RemoveAt
  <1> HIDE DEF left, right
  <1>5. left \o right \in Seq(S) /\ Len(left \o right) = Len(o) - 1
    <2>1. left \o right \in Seq(S) /\ Len(left \o right) = Len(left) + Len(right)
      BY <1>2, <1>3, ConcatProperties
    <2>2. QED
      BY <1>1, <1>2, <1>3, <2>1
  <1>6. ASSUME NEW a \in 1 .. Len(o) - 1
        PROVE  (left \o right)[a] = IF a < r THEN o[a] ELSE o[a + 1]
    <2>1. CASE a < r
      <3>1. (left \o right)[a] = left[a]
        BY <1>2, <1>3, <2>1
      <3>2. QED
        BY <1>1, <1>2, <2>1, <3>1
    <2>2. CASE ~(a < r)
      <3>1. (left \o right)[a] = right[a - (r - 1)]
        BY <1>1, <1>2, <1>3, <2>2
      <3>2. a - (r - 1) \in 1 .. Len(o) - r /\ r + (a - (r - 1)) = a + 1
        BY <1>1, <2>2
      <3>3. QED
        BY <1>3, <2>2, <3>1, <3>2
    <2>3. QED
      BY <2>1, <2>2
  <1>7. QED
    BY <1>4, <1>5, <1>6


(* Removing an override keeps the order of the others, ...                   *)
LEMMA RemovalKept ==
  ASSUME NEW o, Listed(o), NEW r \in DOMAIN o
  PROVE  Listed(RemoveAt(o, r)) /\ OrderKept(o, RemoveAt(o, r))
  <1> DEFINE p == RemoveAt(o, r)
  <1>1. o \in Seq(Scopes \X DOMAIN library) /\ r \in 1 .. Len(o) /\ Len(o) \in Nat /\ DOMAIN o = 1 .. Len(o)
    BY DEF Listed
  <1>2. /\ p \in Seq(Scopes \X DOMAIN library) /\ Len(p) = Len(o) - 1
        /\ \A a \in 1 .. Len(o) - 1 : p[a] = IF a < r THEN o[a] ELSE o[a + 1]
    BY <1>1, RemovedAt
  <1>3. DOMAIN p = 1 .. Len(o) - 1
    BY <1>2
  <1> HIDE DEF p
  <1>4. PICK was \in [1 .. Len(o) - 1 -> 1 .. Len(o)] :
          \A a \in 1 .. Len(o) - 1 : was[a] = IF a < r THEN a ELSE a + 1
    <2>1. \A a \in 1 .. Len(o) - 1 : (IF a < r THEN a ELSE a + 1) \in 1 .. Len(o)
      BY <1>1
    <2> DEFINE w == [a \in 1 .. Len(o) - 1 |-> IF a < r THEN a ELSE a + 1]
    <2>2. w \in [1 .. Len(o) - 1 -> 1 .. Len(o)]
      BY <2>1
    <2>3. QED
      BY <2>2
  <1>5. \A a \in 1 .. Len(o) - 1 : p[a] = o[was[a]]
    BY <1>1, <1>2, <1>4
  <1>6. \A a, b \in 1 .. Len(o) - 1 : /\ was[a] = was[b] => a = b
                                      /\ was[a] <= was[b] => a <= b
    BY <1>1, <1>4
  <1>7. \A i, j \in 1 .. Len(o) : o[i][1] = o[j][1] => i = j
    BY <1>1 DEF Listed, Distinct
  <1>8. \A a \in 1 .. Len(o) - 1 : was[a] \in 1 .. Len(o)
    BY <1>4
  <1>9. Distinct(p)
    <2>1. SUFFICES ASSUME NEW a \in 1 .. Len(o) - 1, NEW b \in 1 .. Len(o) - 1, p[a][1] = p[b][1]
                   PROVE  a = b
      BY <1>3 DEF Distinct
    <2>2. was[a] = was[b]
      BY <1>5, <1>7, <1>8, <2>1
    <2>3. QED
      BY <1>6, <2>2
  <1>10. OrderKept(o, p)
    <2>1. SUFFICES ASSUME NEW i \in 1 .. Len(o), NEW j \in 1 .. Len(o), NEW a \in 1 .. Len(o) - 1,
                          NEW b \in 1 .. Len(o) - 1, o[i] = p[a], o[j] = p[b], i <= j
                   PROVE  a <= b
      BY <1>1, <1>3 DEF OrderKept
    <2>2. i = was[a] /\ j = was[b]
      <3>1. o[i] = o[was[a]] /\ o[j] = o[was[b]]
        BY <1>5, <2>1
      <3>2. QED
        BY <1>7, <1>8, <3>1
    <2>3. QED
      BY <1>6, <2>1, <2>2
  <1>11. QED
    BY <1>2, <1>9, <1>10 DEF Listed, p

(* ... and so does adding or replacing one.                                  *)
LEMMA AdditionKept ==
  ASSUME NEW s \in Scopes, NEW id \in DOMAIN library, Listed(Overrides)
  PROVE  Listed(WithOverride(s, id)) /\ OrderKept(Overrides, WithOverride(s, id))
  <1> DEFINE o == Overrides
             p == WithOverride(s, id)
  <1>1. /\ o \in Seq(Scopes \X DOMAIN library) /\ Len(o) \in Nat /\ DOMAIN o = 1 .. Len(o)
        /\ <<s, id>> \in Scopes \X DOMAIN library /\ Distinct(o)
    BY DEF Listed
  <1>2. CASE Scoped(s) = {}
    <2>1. p = Append(o, <<s, id>>)
      BY <1>2 DEF WithOverride
    <2>2. \A i \in DOMAIN o : o[i][1] # s
      BY <1>2 DEF Scoped
    <2> HIDE DEF o, p
    <2>3. /\ p \in Seq(Scopes \X DOMAIN library) /\ DOMAIN p = 1 .. Len(o) + 1
          /\ p[Len(o) + 1] = <<s, id>> /\ \A i \in 1 .. Len(o) : p[i] = o[i]
      BY <1>1, <2>1
    <2>4. Distinct(p)
      BY <1>1, <2>2, <2>3 DEF Distinct
    <2>5. OrderKept(o, p)
      <3>1. DOMAIN o \subseteq DOMAIN p /\ \A i \in DOMAIN o : o[i][1] = p[i][1]
        BY <1>1, <2>3
      <3>2. \A i \in DOMAIN p : i \notin DOMAIN o => i = Len(o) + 1
        BY <1>1, <2>3
      <3>3. \A i \in DOMAIN p : i \notin DOMAIN o => p[i][1] = s
        BY <2>3, <3>2
      <3>4. \A i \in DOMAIN p : i \notin DOMAIN o => \A j \in DOMAIN o : p[i][1] # o[j][1]
        BY <2>2, <3>3
      <3>5. QED
        BY <1>1, <3>1, <3>4, SameOrder
    <2>6. QED
      BY <2>3, <2>4, <2>5 DEF Listed, o, p
  <1>3. CASE Scoped(s) # {}
    <2>1. p = [i \in DOMAIN o |-> IF i \in Scoped(s) THEN <<s, id>> ELSE o[i]]
      BY <1>3 DEF WithOverride
    <2>2. \A i \in DOMAIN o : i \in Scoped(s) => o[i][1] = s
      BY DEF Scoped
    <2> HIDE DEF o, p
    <2>3. DOMAIN p = DOMAIN o /\ \A i \in DOMAIN o : p[i] \in Scopes \X DOMAIN library /\ p[i][1] = o[i][1]
      BY <1>1, <2>1, <2>2
    <2>4. p \in Seq(Scopes \X DOMAIN library)
      BY <1>1, <2>1, <2>3, SeqDef
    <2>5. Distinct(p)
      BY <1>1, <2>3 DEF Distinct
    <2>6. OrderKept(o, p)
      BY <1>1, <2>3, SameOrder
    <2>7. QED
      BY <2>4, <2>5, <2>6 DEF Listed, o, p
  <1>4. QED
    BY <1>2, <1>3

(* The inductive invariant.                                                  *)
ProfileInv == StoredInv /\ Listed(Overrides)

(* No override is moved by a command, but for the one it names.              *)
LEMMA ListKeeps ==
  ASSUME ProfileInv, [ProfileNext]_profileVars
  PROVE  Listed(Overrides)' /\ (lock' # <<>> => OrderKept(Overrides, Overrides'))
  <1>1. library' = library
    BY DEF ProfileNext, profileVars, ApplyToProject, ApplyToScope, RemoveScope, RemoveProfile
  <1>2. Listed(Overrides)' <=> Listed(Overrides')
    BY <1>1 DEF Listed, Distinct
  <1>3. Listed(Overrides) /\ OrderKept(Overrides, Overrides)
    BY DEF ProfileInv, Listed, Distinct, OrderKept
  <1>4. CASE Overrides' = Overrides
    BY <1>2, <1>3, <1>4
  <1>5. ASSUME NEW id \in DOMAIN library, ApplyToProject(id) PROVE Overrides' = Overrides
    BY <1>5 DEF ApplyToProject, Overrides
  <1>6. ASSUME NEW id \in DOMAIN library, NEW s \in Scopes, ApplyToScope(id, s)
        PROVE  Overrides' = WithOverride(s, id)
    BY <1>6 DEF ApplyToScope, Overrides
  <1>7. ASSUME NEW s \in Scopes, RemoveScope(s)
        PROVE  \E r \in DOMAIN Overrides : Overrides' = RemoveAt(Overrides, r)
    <2>1. PICK r : r = CHOOSE i \in Scoped(s) : TRUE
      OBVIOUS
    <2>2. r \in DOMAIN Overrides
      BY <1>7, <2>1 DEF RemoveScope, Scoped
    <2>3. lock' = <<[lock[1] EXCEPT !.overrides = RemoveAt(@, r)]>> /\ lock # <<>>
      BY <1>7, <2>1 DEF RemoveScope
    <2>4. lock'[1].overrides = RemoveAt(lock[1].overrides, r)
      BY <2>3 DEF ProfileInv, StoredInv
    <2>5. QED
      BY <2>2, <2>3, <2>4 DEF Overrides
  <1>8. ASSUME RemoveProfile PROVE Overrides' = <<>> /\ lock' = <<>>
    BY <1>8 DEF RemoveProfile, Overrides
  <1>9. Listed(<<>>)
    BY DEF Listed, Distinct
  <1>10. CASE UNCHANGED profileVars
    BY <1>4, <1>10 DEF profileVars, Overrides
  <1>11. QED
    BY <1>2, <1>3, <1>4, <1>5, <1>6, <1>7, <1>8, <1>9, <1>10, AdditionKept, RemovalKept DEF ProfileNext


-----------------------------------------------------------------------------

(* When a scope covers a path.                                               *)
LEMMA PrefixIsPlain ==
  ASSUME NEW t \in Places, NEW p \in Places \cup Packages, NEW q \in Places \cup Packages,
         IsPrefix(p, t), IsPrefix(q, t), Len(p) = Len(q)
  PROVE  p = q
  <1>1. p \in Seq(STRING) /\ q \in Seq(STRING)
    BY ProfileAssumption
  <1>2. SubSeq(p, 1, Len(p)) = SubSeq(q, 1, Len(q))
    BY DEF IsPrefix
  <1>3. p = SubSeq(p, 1, Len(p)) /\ q = SubSeq(q, 1, Len(q))
    BY <1>1, SubSeqFull
  <1>4. QED
    BY <1>2, <1>3

(* A scope covers itself.                                                    *)
LEMMA PrefixOfItself ==
  ASSUME NEW t \in Places
  PROVE  IsPrefix(t, t)
  <1>1. Len(t) \in Nat
    BY ProfileAssumption
  <1>2. QED
    BY <1>1 DEF IsPrefix


(* The overrides that Matching finds, in any list.                           *)
ScopedIn(o, s) == {i \in DOMAIN o : o[i][1] = s}
(* The overrides of a list that cover a path, and the one that applies to    *)
(* it.                                                                       *)
CoveringIn(o, t) == {i \in DOMAIN o : Covers(o[i][1], t)}
MatchingIn(o, t) ==
    IF ScopedIn(o, t) # {} THEN ScopedIn(o, t)
    ELSE IF CoveringIn(o, t) # {}
         THEN {i \in CoveringIn(o, t) : \A j \in CoveringIn(o, t) : i <= j}
         ELSE {i \in DOMAIN o : o[i][1] \in Nearest(t)}

(* What reaches t in one list is in the other.                               *)
Shared(o, p, t) == \A i \in DOMAIN o : IsPrefix(o[i][1], t) => \E a \in DOMAIN p : p[a] = o[i]

(* An override that matches in one list and is in the other, in its order,   *)
(* matches there.                                                            *)
LEMMA SharedMatch ==
  ASSUME NEW o, NEW p, NEW t \in Places, Shared(o, p, t)
  PROVE  /\ ScopedIn(o, t) # {} => ScopedIn(p, t) # {}
         /\ CoveringIn(o, t) # {} => CoveringIn(p, t) # {}
         /\ (\E i \in DOMAIN o : o[i][1] \in Nearest(t)) => \E i \in DOMAIN p : p[i][1] \in Nearest(t)
  BY PrefixOfItself DEF Shared, ScopedIn, CoveringIn, Covers, Nearest

(* A sequence of overrides has a first.                                      *)
LEMMA FirstExists ==
  ASSUME NEW o, NEW t, Len(o) \in Nat, DOMAIN o = 1 .. Len(o), CoveringIn(o, t) # {}
  PROVE  \E i \in CoveringIn(o, t) : \A j \in CoveringIn(o, t) : i <= j
  <1>1. CoveringIn(o, t) \in SUBSET Nat
    BY DEF CoveringIn
  <1> HIDE DEF CoveringIn
  <1>2. QED
    BY <1>1, LeastOf

(* Two lists in the same order, but for a scope that does not cover the      *)
(* path, give it the same profile.                                           *)
LEMMA MatchKept ==
  ASSUME NEW o, NEW p, Listed(o), Listed(p), OrderKept(o, p), NEW t \in Places,
         Shared(o, p, t), Shared(p, o, t)
  PROVE  /\ MatchingIn(o, t) = {} <=> MatchingIn(p, t) = {}
         /\ \A i \in MatchingIn(o, t), j \in MatchingIn(p, t) : o[i] = p[j]
  <1>1. /\ Len(o) \in Nat /\ DOMAIN o = 1 .. Len(o) /\ Len(p) \in Nat /\ DOMAIN p = 1 .. Len(p)
        /\ \A i \in DOMAIN o : o[i][1] \in Scopes
        /\ \A i \in DOMAIN p : p[i][1] \in Scopes
    BY DEF Listed
  <1>2. /\ ScopedIn(o, t) = {} <=> ScopedIn(p, t) = {}
        /\ CoveringIn(o, t) = {} <=> CoveringIn(p, t) = {}
        /\ (\E i \in DOMAIN o : o[i][1] \in Nearest(t)) <=> \E i \in DOMAIN p : p[i][1] \in Nearest(t)
    BY SharedMatch
  <1>3. MatchingIn(o, t) = {} <=> MatchingIn(p, t) = {}
    <2>1. CASE ScopedIn(o, t) # {}
      BY <1>2, <2>1 DEF MatchingIn
    <2>2. CASE ScopedIn(o, t) = {} /\ CoveringIn(o, t) # {}
      BY <1>1, <1>2, <2>2, FirstExists DEF MatchingIn
    <2>3. CASE ScopedIn(o, t) = {} /\ CoveringIn(o, t) = {}
      BY <1>2, <2>3 DEF MatchingIn
    <2>4. QED
      BY <2>1, <2>2, <2>3
  <1>4. ASSUME NEW i \in MatchingIn(o, t), NEW j \in MatchingIn(p, t)
        PROVE  o[i] = p[j]
    <2>1. ASSUME o[i][1] = p[j][1], i \in DOMAIN o, j \in DOMAIN p, IsPrefix(o[i][1], t)
          PROVE  o[i] = p[j]
      <3>1. PICK a \in DOMAIN p : p[a] = o[i]
        BY <2>1 DEF Shared
      <3>2. a = j
        BY <2>1, <3>1 DEF Listed, Distinct
      <3>3. QED
        BY <3>1, <3>2
    <2>2. CASE ScopedIn(o, t) # {}
      <3>1. i \in DOMAIN o /\ o[i][1] = t /\ j \in DOMAIN p /\ p[j][1] = t
        BY <1>2, <2>2 DEF MatchingIn, ScopedIn
      <3>2. QED
        BY <2>1, <3>1, PrefixOfItself
    <2>3. CASE ScopedIn(o, t) = {} /\ CoveringIn(o, t) # {}
      <3>1. /\ i \in CoveringIn(o, t) /\ \A b \in CoveringIn(o, t) : i <= b
            /\ j \in CoveringIn(p, t) /\ \A a \in CoveringIn(p, t) : j <= a
        BY <1>2, <2>3 DEF MatchingIn
      <3>2. PICK a \in DOMAIN p : p[a] = o[i]
        BY <3>1 DEF Shared, CoveringIn, Covers
      <3>3. PICK b \in DOMAIN o : o[b] = p[j]
        BY <3>1 DEF Shared, CoveringIn, Covers
      <3>4. a \in CoveringIn(p, t) /\ b \in CoveringIn(o, t)
        BY <3>1, <3>2, <3>3 DEF CoveringIn
      <3>5. i \in DOMAIN o /\ j \in DOMAIN p /\ i <= b /\ j <= a
        BY <3>1, <3>4 DEF CoveringIn
      <3>6. a <= j
        BY <3>2, <3>3, <3>5 DEF OrderKept
      <3>7. a = j
        BY <1>1, <3>5, <3>6
      <3>8. QED
        BY <3>2, <3>7
    <2>4. CASE ScopedIn(o, t) = {} /\ CoveringIn(o, t) = {}
      <3>1. i \in DOMAIN o /\ o[i][1] \in Nearest(t) /\ j \in DOMAIN p /\ p[j][1] \in Nearest(t)
        BY <1>2, <2>4 DEF MatchingIn
      <3>2. /\ o[i][1] \in Packages /\ p[j][1] \in Packages /\ IsPrefix(o[i][1], t) /\ IsPrefix(p[j][1], t)
            /\ Len(o[i][1]) <= Len(p[j][1]) /\ Len(p[j][1]) <= Len(o[i][1])
        BY <3>1 DEF Nearest
      <3>3. Len(o[i][1]) \in Nat /\ Len(p[j][1]) \in Nat
        BY <3>2, ProfileAssumption
      <3>4. o[i][1] = p[j][1]
        BY <3>2, <3>3, PrefixIsPlain
      <3>5. QED
        BY <2>1, <3>1, <3>2, <3>4
    <2>5. QED
      BY <2>2, <2>3, <2>4
  <1>5. QED
    BY <1>3, <1>4

(* The override that applies, as profiles.js computes it.                    *)
LEMMA MatchingUnfolds ==
  ASSUME NEW t
  PROVE  Matching(t) = MatchingIn(Overrides, t) /\ Matching(t)' = MatchingIn(Overrides', t)
  BY DEF Matching, MatchingIn, Scoped, ScopedIn, CoveringIn, Nearest

(* What t has changes only with an override whose scope reaches it.          *)
LEMMA ActiveKept ==
  ASSUME Listed(Overrides), Listed(Overrides'), OrderKept(Overrides, Overrides'),
         lock # <<>>, lock' # <<>>, lock'[1].profile = lock[1].profile, NEW t \in Places,
         \A s \in Scopes : IsPrefix(s, t) => ~Changed(s)
  PROVE  Active(t)' = Active(t)
  <1>1. /\ \A i \in DOMAIN Overrides : Overrides[i][1] \in Scopes
        /\ \A i \in DOMAIN Overrides' : Overrides'[i][1] \in Scopes
    BY DEF Listed
  <1>2. Shared(Overrides, Overrides', t) /\ Shared(Overrides', Overrides, t)
    BY <1>1 DEF Shared, Changed, Range
  <1>3. /\ Matching(t) = {} <=> Matching(t)' = {}
        /\ \A i \in Matching(t), j \in Matching(t)' : Overrides[i] = Overrides'[j]
    BY <1>2, MatchKept, MatchingUnfolds
  <1>4. CASE Matching(t) = {}
    BY <1>3, <1>4 DEF Active
  <1>5. CASE Matching(t) # {}
    <2>1. PICK i : i = CHOOSE a \in Matching(t) : TRUE
      OBVIOUS
    <2>2. PICK j : j = CHOOSE a \in Matching(t)' : TRUE
      OBVIOUS
    <2>3. i \in Matching(t) /\ j \in Matching(t)'
      BY <1>3, <1>5, <2>1, <2>2
    <2>4. Active(t) = <<Overrides[i][2]>> /\ Active(t)' = <<Overrides'[j][2]>>
      BY <1>3, <1>5, <2>1, <2>2 DEF Active
    <2>5. QED
      BY <1>3, <2>3, <2>4
  <1>6. QED
    BY <1>4, <1>5

(* A scope with an override of its own has the profile of that override.     *)
LEMMA OwnOverride ==
  ASSUME Listed(Overrides'), lock' # <<>>, NEW t, NEW i \in DOMAIN Overrides', Overrides'[i][1] = t
  PROVE  Active(t)' = <<Overrides'[i][2]>>
  <1>1. Matching(t)' = {i}
    <2>1. ScopedIn(Overrides', t) = {i}
      BY DEF Listed, Distinct, ScopedIn
    <2>2. QED
      BY <2>1, MatchingUnfolds DEF MatchingIn
  <1>2. (CHOOSE a \in Matching(t)' : TRUE) = i
    BY <1>1
  <1>3. QED
    BY <1>1, <1>2 DEF Active

(* At most one override per scope, for scopes and profiles that there are,   *)
(* after any sequence of commands (profiles.js:449, 522).                    *)
THEOREM ProfileInvariance == ProfileSpec => []ProfileInv
  <1>1. ProfileInit(Libraries) => ProfileInv
    BY DEF ProfileInit, ProfileInv, StoredInv, Listed, Distinct, Overrides
  <1>2. ProfileInv /\ [ProfileNext]_profileVars => ProfileInv'
    BY ListKeeps, StoredKeeps DEF ProfileInv
  <1>3. QED
    BY <1>1, <1>2, PTL DEF ProfileSpec

(* What a command on one scope leaves alone.                                 *)
ScopeStandsAlone ==
    lock # <<>> /\ lock' # <<>> /\ lock[1].profile = lock'[1].profile =>
       \A t \in Places :
          /\ Active(t)' # Active(t) => \E s \in Scopes : Changed(s) /\ IsPrefix(s, t)
          /\ \A i \in DOMAIN Overrides' : Overrides'[i][1] = t => Active(t)' = <<Overrides'[i][2]>>

(* A command on a scope does not change the profile of a scope that it       *)
(* neither names nor covers, whatever overrides there are (profiles.js:359,  *)
(* 449).                                                                     *)
THEOREM EveryScopeStandsAlone == ProfileSpec => ScopesStandAlone
  <1>1. ProfileInv /\ [ProfileNext]_profileVars => [ScopeStandsAlone]_profileVars
    <2>1. SUFFICES ASSUME ProfileInv, [ProfileNext]_profileVars, lock # <<>>, lock' # <<>>,
                          lock[1].profile = lock'[1].profile, NEW t \in Places
                   PROVE  /\ Active(t)' # Active(t) => \E s \in Scopes : Changed(s) /\ IsPrefix(s, t)
                          /\ \A i \in DOMAIN Overrides' : Overrides'[i][1] = t => Active(t)' = <<Overrides'[i][2]>>
      BY DEF ScopeStandsAlone
    <2>2. Listed(Overrides) /\ Listed(Overrides') /\ OrderKept(Overrides, Overrides')
      <3>1. library' = library
        BY <2>1 DEF ProfileNext, profileVars, ApplyToProject, ApplyToScope, RemoveScope, RemoveProfile
      <3>2. Listed(Overrides)' <=> Listed(Overrides')
        BY <3>1 DEF Listed, Distinct
      <3>3. QED
        BY <2>1, <3>2, ListKeeps DEF ProfileInv
    <2>3. Active(t)' # Active(t) => \E s \in Scopes : Changed(s) /\ IsPrefix(s, t)
      BY <2>1, <2>2, ActiveKept
    <2>4. QED
      BY <2>1, <2>2, <2>3, OwnOverride
  <1>2. ProfileSpec => [][ScopeStandsAlone]_profileVars
    BY <1>1, ProfileInvariance, PTL DEF ProfileSpec
  <1>3. QED
    BY <1>2 DEF ScopesStandAlone, ScopeStandsAlone

-----------------------------------------------------------------------------
(* The directories that an adapter writes to: no two share one.              *)
DirsOf(a) ==
    {d \in {"generated/gemini", "skills", "generated/claude", "cursor/rules", "zed/prompts", "zed", ".", "github"} :
        \/ a = "gemini" /\ d \in {"generated/gemini", "skills"}
        \/ a = "claude" /\ d = "generated/claude"
        \/ a = "cursor" /\ d = "cursor/rules"
        \/ a = "zed" /\ d \in {"zed/prompts", "zed"}
        \/ a = "aider" /\ d = "."
        \/ a = "copilot" /\ d = "github"}

(* What an artifact of adapter a is like.                                    *)
Proper(art, a) ==
    /\ art.gen = a
    /\ \E d \in DirsOf(a), n \in Skill \cup Index : art.path = <<d, n>>
    /\ Semantic(art.text) = art.text /\ art.text # <<>>

(* What the helpers of the rendering build.                                  *)
LEMMA ArtifactProper ==
  ASSUME NEW a, NEW d \in DirsOf(a), NEW n \in Skill \cup Index, NEW X, NEW h, NEW m
  PROVE  Proper(Artifact(a, d, n, Text(X, h, m)), a)
  <1> DEFINE art == Artifact(a, d, n, Text(X, h, m))
  <1>1. art.gen = a /\ art.path = <<d, n>> /\ art.text = Text(X, h, m)
    BY DEF Artifact
  <1>2. Semantic(Text(X, h, m)) = Text(X, h, m)
    <2>1. PICK b : b = [s \in X |-> version[s]]
      OBVIOUS
    <2>2. Text(X, h, m) = [body |-> b, head |-> h, crlf |-> FALSE, mark |-> m]
      BY <2>1, Zenon DEF Text
    <2> DEFINE r == [body |-> b, head |-> h, crlf |-> FALSE, mark |-> m]
    <2>3. r \in [body : {b}, head : {h}, crlf : {FALSE}, mark : {m}]
      OBVIOUS
    <2>4. [r EXCEPT !.crlf = FALSE] \in [body : {b}, head : {h}, crlf : {FALSE}, mark : {m}]
      BY <2>3
    <2>5. [r EXCEPT !.crlf = FALSE] = r
      BY <2>3, <2>4
    <2>6. QED
      BY <2>2, <2>5, Zenon DEF Semantic
  <1>3. Text(X, h, m) # <<>>
    BY DEF Text
  <1> HIDE DEF art
  <1>4. QED
    BY <1>1, <1>2, <1>3 DEF Proper, art

(* Every artifact of an adapter is in a directory of its own and is its own  *)
(* semantic form.                                                            *)
LEMMA RenderProper ==
  ASSUME NEW a \in Adapter, NEW art \in Render(a)
  PROVE  Proper(art, a)
  <1>1. Described \subseteq Selected /\ Selected \subseteq Skill
    BY DEF Described, Selected
  <1>2. /\ {"00", "contextos", "rules", "conf", "CONVENTIONS", "instructions"} \subseteq Skill \cup Index
        /\ Skill \subseteq Skill \cup Index
    BY DEF Index
  <1>3. ASSUME NEW dir \in DirsOf(a), NEW head, NEW sign, art \in PerSkill(a, dir, head, sign)
        PROVE  Proper(art, a)
    <2>1. PICK s \in Described : art = Artifact(a, dir, s, Text({s}, head, sign))
      BY <1>3 DEF PerSkill
    <2>2. s \in Skill \cup Index
      BY <1>1
    <2>3. QED
      BY <2>1, <2>2, ArtifactProper
  <1>4. CASE a = "gemini"
    <2>1. art \in RenderGemini
      BY <1>4 DEF Render
    <2>2. PICK d \in {"generated/gemini", "skills"}, s \in Selected :
            art = Artifact("gemini", d, s, Text({s}, <<>>, FALSE))
      BY <2>1, Zenon DEF RenderGemini
    <2>3. d \in DirsOf(a) /\ s \in Skill \cup Index
      BY <1>1, <1>4 DEF DirsOf
    <2>4. QED
      BY <1>4, <2>2, <2>3, ArtifactProper
  <1>5. CASE a = "claude"
    <2>1. art \in PerSkill(a, "generated/claude", <<>>, FALSE)
      BY <1>5 DEF Render, RenderClaude
    <2>2. "generated/claude" \in DirsOf(a)
      BY <1>5 DEF DirsOf
    <2>3. QED
      BY <1>3, <2>1, <2>2
  <1>6. CASE a = "cursor"
    <2>1. \/ art = Artifact(a, "cursor/rules", "00", Text({}, Provenance, TRUE))
          \/ art \in PerSkill(a, "cursor/rules", <<>>, FALSE)
      BY <1>6 DEF Render, RenderCursor
    <2>2. "cursor/rules" \in DirsOf(a)
      BY <1>6 DEF DirsOf
    <2>3. QED
      BY <1>2, <1>3, <2>1, <2>2, ArtifactProper
  <1>7. CASE a = "zed"
    <2>1. \/ art = Artifact(a, "zed/prompts", "contextos", Text({}, Provenance, TRUE))
          \/ art = Artifact(a, "zed", "rules", Text(Described, Provenance, TRUE))
          \/ art \in PerSkill(a, "zed/prompts", Provenance, TRUE)
      BY <1>7 DEF Render, RenderZed
    <2>2. "zed/prompts" \in DirsOf(a) /\ "zed" \in DirsOf(a)
      BY <1>7 DEF DirsOf
    <2>3. QED
      BY <1>2, <1>3, <2>1, <2>2, ArtifactProper
  <1>8. CASE a = "aider"
    <2>1. \/ art = Artifact(a, ".", "conf", Text({}, Provenance, FALSE))
          \/ art = Artifact(a, ".", "CONVENTIONS", Text(Described, Provenance, TRUE))
      BY <1>8 DEF Render, RenderAider
    <2>2. "." \in DirsOf(a)
      BY <1>8 DEF DirsOf
    <2>3. QED
      BY <1>2, <2>1, <2>2, ArtifactProper
  <1>9. CASE a = "copilot"
    <2>1. art = Artifact(a, "github", "instructions", Text(Selected, Provenance, TRUE))
      BY <1>9 DEF Render, RenderCopilot
    <2>2. "github" \in DirsOf(a)
      BY <1>9 DEF DirsOf
    <2>3. QED
      BY <1>2, <2>1, <2>2, ArtifactProper
  <1>10. QED
    BY <1>4, <1>5, <1>6, <1>7, <1>8, <1>9 DEF Adapter

(* An adapter renders a path once; it takes that no skill is called as an    *)
(* index is.                                                                 *)
LEMMA RenderOnce ==
  ASSUME NEW a \in Adapter, NEW art \in Render(a), NEW brt \in Render(a), art.path = brt.path
  PROVE  art = brt
  <1>1. \A s \in Described : s \in Selected /\ s \notin Index
    BY ExportAssumption DEF Described, Selected
  <1>4. CASE a = "gemini"
    <2>1. art \in RenderGemini /\ brt \in RenderGemini
      BY <1>4 DEF Render
    <2>2. PICK d \in {"generated/gemini", "skills"}, s \in Selected :
            art = Artifact("gemini", d, s, Text({s}, <<>>, FALSE))
      BY <2>1, Zenon DEF RenderGemini
    <2>3. PICK d2 \in {"generated/gemini", "skills"}, s2 \in Selected :
            brt = Artifact("gemini", d2, s2, Text({s2}, <<>>, FALSE))
      BY <2>1, Zenon DEF RenderGemini
    <2>4. d = d2 /\ s = s2
      BY <2>2, <2>3 DEF Artifact
    <2>5. QED
      BY <2>2, <2>3, <2>4
  <1>5. CASE a = "claude"
    <2> DEFINE rest(s) == Artifact(a, "generated/claude", s, Text({s}, <<>>, FALSE))
    <2>1. \A x \in Render(a) : \E s \in Described : x = rest(s)
      BY <1>5, Zenon DEF Render, RenderClaude, PerSkill
    <2>2. \A s, s2 \in Described : rest(s).path = rest(s2).path => s = s2
      BY DEF Artifact
    <2> HIDE DEF rest
    <2>3. QED
      BY <2>1, <2>2
  <1>6. CASE a = "cursor"
    <2> DEFINE first == Artifact(a, "cursor/rules", "00", Text({}, Provenance, TRUE))
               rest(s) == Artifact(a, "cursor/rules", s, Text({s}, <<>>, FALSE))
    <2>1. \A x \in Render(a) : x = first \/ \E s \in Described : x = rest(s)
      BY <1>6, Zenon DEF Render, RenderCursor, PerSkill
    <2>2. \A s \in Described : first.path # rest(s).path
      BY <1>1 DEF Index, Artifact
    <2>3. \A s, s2 \in Described : rest(s).path = rest(s2).path => s = s2
      BY DEF Artifact
    <2> HIDE DEF first, rest
    <2>4. QED
      BY <2>1, <2>2, <2>3
  <1>7. CASE a = "zed"
    <2> DEFINE first == Artifact(a, "zed/prompts", "contextos", Text({}, Provenance, TRUE))
               second == Artifact(a, "zed", "rules", Text(Described, Provenance, TRUE))
               rest(s) == Artifact(a, "zed/prompts", s, Text({s}, Provenance, TRUE))
    <2>1. \A x \in Render(a) : x = first \/ x = second \/ \E s \in Described : x = rest(s)
      BY <1>7, Zenon DEF Render, RenderZed, PerSkill
    <2>2. /\ \A s \in Described : first.path # rest(s).path /\ second.path # rest(s).path
          /\ first.path # second.path
      BY <1>1 DEF Index, Artifact
    <2>3. \A s, s2 \in Described : rest(s).path = rest(s2).path => s = s2
      BY DEF Artifact
    <2> HIDE DEF first, second, rest
    <2>4. QED
      BY <2>1, <2>2, <2>3
  <1>8. CASE a = "aider"
    <2> DEFINE first == Artifact(a, ".", "conf", Text({}, Provenance, FALSE))
               second == Artifact(a, ".", "CONVENTIONS", Text(Described, Provenance, TRUE))
    <2>1. \A x \in Render(a) : x = first \/ x = second
      BY <1>8, Zenon DEF Render, RenderAider
    <2>2. first.path # second.path
      BY DEF Artifact
    <2> HIDE DEF first, second
    <2>3. QED
      BY <2>1, <2>2
  <1>9. CASE a = "copilot"
    BY <1>9, Zenon DEF Render, RenderCopilot
  <1>10. QED
    BY <1>4, <1>5, <1>6, <1>7, <1>8, <1>9 DEF Adapter

(* So is what a set of adapters renders, and a path in it has one artifact.  *)
LEMMA RenderedOnce ==
  ASSUME NEW S \in SUBSET Adapter, NEW art \in Rendered(S)
  PROVE  /\ art.gen \in S /\ Proper(art, art.gen)
         /\ \A brt \in Rendered(S) : art.path = brt.path => art = brt
         /\ art.path \in Paths(S) /\ ArtifactAt(S, art.path) = art
  <1>1. PICK a \in S : art \in Render(a)
    BY Zenon DEF Rendered
  <1>2. Proper(art, a) /\ art.gen = a
    BY <1>1, RenderProper DEF Proper
  <1>3. ASSUME NEW brt \in Rendered(S), art.path = brt.path PROVE art = brt
    <2>1. PICK b \in S : brt \in Render(b)
      BY Zenon DEF Rendered
    <2>2. Proper(brt, b)
      BY <2>1, RenderProper
    <2>3. a = b
      <3>1. PICK d \in DirsOf(a), n \in Skill \cup Index : art.path = <<d, n>>
        BY <1>2 DEF Proper
      <3>2. PICK e \in DirsOf(b), m \in Skill \cup Index : brt.path = <<e, m>>
        BY <2>2 DEF Proper
      <3>3. d = e
        <4>1. <<d, n>> = <<e, m>>
          BY <1>3, <3>1, <3>2, Zenon
        <4>2. QED
          BY <4>1
      <3>4. a \in Adapter /\ b \in Adapter
        OBVIOUS
      <3>5. QED
        BY <3>3, <3>4 DEF DirsOf, Adapter
    <2>4. QED
      BY <1>1, <1>3, <2>1, <2>3, RenderOnce
  <1>4. art.path \in Paths(S)
    BY DEF Paths
  <1>5. ArtifactAt(S, art.path) = art
    BY <1>3 DEF ArtifactAt
  <1>6. QED
    BY <1>2, <1>3, <1>4, <1>5

(* An adapter writes at its outputs.                                         *)
LEMMA RenderPlaced ==
  ASSUME profile \in Profile, NEW a \in Adapter, NEW art \in Render(a)
  PROVE  art.path \in Outputs(a)
  <1>0. PICK offered : offered = {s \in Skill : \E f \in Profile : s \notin Excluded[f]}
    OBVIOUS
  <1>10. PICK described : described = offered \cap Documented
    OBVIOUS
  <1>1. Selected \subseteq offered /\ Described \subseteq described
    BY <1>0, <1>10 DEF Selected, Described
  <1>11. \A g, d, n, t : Artifact(g, d, n, t).path = <<d, n>>
    BY DEF Artifact
  <1>2. ASSUME NEW dir, NEW head, NEW sign, art \in PerSkill(a, dir, head, sign)
        PROVE  \E n \in described : art.path = <<dir, n>>
    <2>1. PICK n \in Described : art = Artifact(a, dir, n, Text({n}, head, sign))
      BY <1>2, Zenon DEF PerSkill
    <2>2. art.path = <<dir, n>> /\ n \in described
      BY <1>1, <1>11, <2>1, Zenon
    <2>3. QED
      BY <2>2
  <1>3. CASE a = "gemini"
    <2>1. art \in RenderGemini
      BY <1>3 DEF Render
    <2>2. PICK d \in {"generated/gemini", "skills"}, s \in Selected :
            art = Artifact("gemini", d, s, Text({s}, <<>>, FALSE))
      BY <2>1, Zenon DEF RenderGemini
    <2>5. art.path = <<d, s>>
      BY <1>11, <2>2, Zenon
    <2>3. Outputs(a) = {"generated/gemini", "skills"} \X offered
      BY <1>0, <1>10, <1>3 DEF Outputs
    <2>4. QED
      BY <1>1, <2>2, <2>3, <2>5
  <1>4. CASE a = "claude"
    <2>1. art \in PerSkill(a, "generated/claude", <<>>, FALSE)
      BY <1>4 DEF Render, RenderClaude
    <2>2. PICK n \in described : art.path = <<"generated/claude", n>>
      BY <1>2, <2>1
    <2>3. Outputs(a) = {"generated/claude"} \X described
      BY <1>0, <1>10, <1>4 DEF Outputs
    <2>4. QED
      BY <2>2, <2>3
  <1>5. CASE a = "cursor"
    <2>1. \/ art = Artifact(a, "cursor/rules", "00", Text({}, Provenance, TRUE))
          \/ art \in PerSkill(a, "cursor/rules", <<>>, FALSE)
      BY <1>5 DEF Render, RenderCursor
    <2>2. PICK n \in described \cup {"00"} : art.path = <<"cursor/rules", n>>
      <3>1. CASE art = Artifact(a, "cursor/rules", "00", Text({}, Provenance, TRUE))
        <4>1. art.path = <<"cursor/rules", "00">>
          BY <1>11, <3>1, Zenon
        <4>2. QED
          BY <4>1
      <3>2. CASE art \in PerSkill(a, "cursor/rules", <<>>, FALSE)
        <4>1. PICK n \in described : art.path = <<"cursor/rules", n>>
          BY <1>2, <3>2, Zenon
        <4>2. QED
          BY <4>1
      <3>3. QED
        BY <2>1, <3>1, <3>2, Zenon
    <2>3. Outputs(a) = {"cursor/rules"} \X (described \cup {"00"})
      BY <1>0, <1>10, <1>5 DEF Outputs
    <2>4. QED
      BY <2>2, <2>3
  <1>6. CASE a = "zed"
    <2>1. \/ art = Artifact(a, "zed/prompts", "contextos", Text({}, Provenance, TRUE))
          \/ art = Artifact(a, "zed", "rules", Text(Described, Provenance, TRUE))
          \/ art \in PerSkill(a, "zed/prompts", Provenance, TRUE)
      BY <1>6 DEF Render, RenderZed
    <2>2. \/ art.path = <<"zed", "rules">>
          \/ \E n \in described \cup {"contextos"} : art.path = <<"zed/prompts", n>>
      <3>1. CASE art = Artifact(a, "zed/prompts", "contextos", Text({}, Provenance, TRUE))
        <4>1. art.path = <<"zed/prompts", "contextos">>
          BY <1>11, <3>1, Zenon
        <4>2. QED
          BY <4>1
      <3>2. CASE art = Artifact(a, "zed", "rules", Text(Described, Provenance, TRUE))
        BY <1>11, <3>2, Zenon
      <3>3. CASE art \in PerSkill(a, "zed/prompts", Provenance, TRUE)
        <4>1. PICK n \in described : art.path = <<"zed/prompts", n>>
          BY <1>2, <3>3, Zenon
        <4>2. QED
          BY <4>1
      <3>4. QED
        BY <2>1, <3>1, <3>2, <3>3, Zenon
    <2>3. Outputs(a) = ({"zed/prompts"} \X (described \cup {"contextos"})) \cup {<<"zed", "rules">>}
      BY <1>0, <1>10, <1>6 DEF Outputs
    <2>4. QED
      BY <2>2, <2>3
  <1>7. CASE a = "aider"
    <2>1. art.path \in {<<".", "conf">>, <<".", "CONVENTIONS">>}
      <3>1. art \in {Artifact("aider", ".", "conf", Text({}, Provenance, FALSE)),
                    Artifact("aider", ".", "CONVENTIONS", Text(Described, Provenance, TRUE))}
        BY <1>7 DEF Render, RenderAider
      <3>2. QED
        BY <1>11, <3>1
    <2>2. QED
      BY <1>7, <2>1 DEF Outputs
  <1>8. CASE a = "copilot"
    <2>1. art.path = <<"github", "instructions">>
      <3>1. art = Artifact("copilot", "github", "instructions", Text(Selected, Provenance, TRUE))
        BY <1>8 DEF Render, RenderCopilot
      <3>2. QED
        BY <1>11, <3>1, Zenon
    <2>2. QED
      BY <1>8, <2>1 DEF Outputs
  <1>9. QED
    BY <1>3, <1>4, <1>5, <1>6, <1>7, <1>8 DEF Adapter

(* Rendering reads sources only.                                             *)
LEMMA RenderedSame ==
  ASSUME UNCHANGED sources, NEW S
  PROVE  Rendered(S)' = Rendered(S) /\ Paths(S)' = Paths(S) /\ Generators(S)' = Generators(S)
  <1>1. version' = version /\ graph' = graph /\ profile' = profile /\ adapters' = adapters
    BY DEF sources
  <1>2. Selected' = Selected /\ Described' = Described /\ Provenance' = Provenance
    BY <1>1 DEF Selected, Described, Provenance
  <1>3. \A X, h, m : Text(X, h, m)' = Text(X, h, m)
    BY <1>1 DEF Text
  <1>4. \A a : Render(a)' = Render(a)
    <2>1. RenderGemini' = RenderGemini
      BY <1>1, <1>2 DEF RenderGemini, Artifact, Text
    <2>2. RenderClaude' = RenderClaude
      BY <1>1, <1>2 DEF RenderClaude, PerSkill, Artifact, Text
    <2>3. RenderCursor' = RenderCursor
      BY <1>1, <1>2 DEF RenderCursor, PerSkill, Artifact, Text
    <2>4. RenderZed' = RenderZed
      BY <1>1, <1>2 DEF RenderZed, PerSkill, Artifact, Text
    <2>5. RenderAider' = RenderAider
      BY <1>1, <1>2 DEF RenderAider, Artifact, Text
    <2>6. RenderCopilot' = RenderCopilot
      BY <1>1, <1>2 DEF RenderCopilot, Artifact, Text
    <2>7. QED
      BY <2>1, <2>2, <2>3, <2>4, <2>5, <2>6, Zenon DEF Render
  <1>5. Rendered(S)' = Rendered(S)
    BY <1>4 DEF Rendered
  <1>6. QED
    BY <1>5 DEF Paths, Generators

-----------------------------------------------------------------------------
(* The inductive invariant. The records' generators are registered: that is  *)
(* what lets an export of all adapters prune every record of a file it no    *)
(* longer renders, without which the drift check would find an orphan.       *)
OneRecord == lockfile # <<>> =>
    lockfile = <<[profile |-> lockfile[1].profile, graph |-> lockfile[1].graph,
                  files |-> lockfile[1].files]>>
(* The parts of the invariant: ...                                           *)
KnownGenerators == \A p \in DOMAIN Recorded : Recorded[p].gen \in adapters
Mirrors ==
    \A p \in DOMAIN Recorded :
        \/ Exact(p) = Recorded[p].text
        \/ p \in touched
        \/ p \notin DOMAIN disk /\ p[1] \in {"generated/gemini", "generated/claude"}
Settled == fresh # {} => ~Modifies(fresh)
Placed == \A p \in DOMAIN Recorded : \E a \in adapters : p \in Outputs(a)

ExportInv ==
    /\ adapters \subseteq Adapter /\ fresh \subseteq adapters /\ profile \in Profile
    /\ OneRecord /\ KnownGenerators /\ Mirrors /\ Settled
    /\ Placed /\ v1 \subseteq Managed /\ UserFilesSurvive

(* What a commit does to the two halves of what is managed.                  *)
Written(S) ==
    \A art \in Rendered(S) :
        /\ art.path \in DOMAIN disk' /\ disk'[art.path] = art.text
        /\ art.path \in DOMAIN Recorded'
        /\ Recorded'[art.path].text = art.text /\ Recorded'[art.path].inputs = graph
KeptRecords(S) ==
    \A p \in DOMAIN Recorded' \ Paths(S) :
        p \in DOMAIN Recorded /\ Recorded'[p] = Recorded[p] /\ p \notin StaleRecords(S) \cup Marked(S)
KeptFiles(S) ==
    /\ \A p \in DOMAIN disk' \ Paths(S) : p \in DOMAIN disk \ Removed(S) /\ disk'[p] = disk[p]
    /\ \A p \in DOMAIN disk \ Removed(S) : p \in DOMAIN disk'

(* The commit writes one record, whose files are as computed.                *)
LEMMA RecordedHas ==
  ASSUME OneRecord, NEW F, lockfile' = <<[Opened EXCEPT !.files = F]>>
  PROVE  Recorded' = F /\ OneRecord'
  <1>1. PICK x, y, z : Opened = [profile |-> x, graph |-> y, files |-> z]
    <2>1. CASE lockfile = <<>>
      BY <2>1, Zenon DEF Opened
    <2>2. CASE lockfile # <<>>
      <3>1. PICK r : r = [profile |-> lockfile[1].profile, graph |-> lockfile[1].graph,
                          files |-> lockfile[1].files]
        OBVIOUS
      <3>2. lockfile[1] = r
        <4>1. lockfile = <<r>>
          BY <2>2, <3>1, Zenon DEF OneRecord
        <4>2. QED
          BY <4>1
      <3>3. QED
        BY <2>2, <3>1, <3>2, Zenon DEF Opened
    <2>3. QED
      BY <2>1, <2>2
  <1>2. [Opened EXCEPT !.files = F] = [profile |-> x, graph |-> y, files |-> F]
    BY <1>1
  <1>3. lockfile' = <<[profile |-> x, graph |-> y, files |-> F]>>
    BY <1>2
  <1>4. lockfile' # <<>> /\ lockfile'[1] = [profile |-> x, graph |-> y, files |-> F]
    BY <1>3
  <1>5. QED
    BY <1>3, <1>4 DEF Recorded, OneRecord

(* What an export writes and what it keeps, whether or not there is anything *)
(* to commit.                                                                *)
LEMMA ExportWrites ==
  ASSUME ExportInv, NEW S \in SUBSET adapters, Export(S)
  PROVE  /\ Written(S) /\ KeptRecords(S) /\ KeptFiles(S)
         /\ OneRecord' /\ KnownGenerators' /\ v1' \subseteq v1
  <1>1. S \in SUBSET Adapter /\ OneRecord /\ KnownGenerators
    BY DEF ExportInv
  <1>2. adapters' = adapters
    BY DEF Export, sources
  <1>3. CASE ~Modifies(S)
    <2>1. disk' = disk /\ lockfile' = lockfile /\ v1' = v1
      BY <1>3 DEF Export
    <2>2. Recorded' = Recorded
      BY <2>1 DEF Recorded
    <2>3. StaleRecords(S) = {} /\ Removed(S) = {} /\ Marked(S) = {}
      BY <1>3 DEF Modifies, Removed
    <2>4. ASSUME NEW art \in Rendered(S)
          PROVE  /\ art.path \in DOMAIN disk /\ disk[art.path] = art.text
                 /\ art.path \in DOMAIN Recorded
                 /\ Recorded[art.path].text = art.text /\ Recorded[art.path].inputs = graph
      <3>1. ~NeedsWrite(art) /\ ~NeedsRecord(art)
        BY <1>3 DEF Modifies
      <3>2. art.text # <<>>
        BY <1>1, RenderedOnce DEF Proper
      <3>3. QED
        BY <3>1, <3>2 DEF NeedsWrite, NeedsRecord, Exact
    <2>5. Written(S)
      BY <2>1, <2>2, <2>4 DEF Written
    <2>6. KeptRecords(S) /\ KeptFiles(S)
      BY <2>1, <2>2, <2>3 DEF KeptRecords, KeptFiles
    <2>7. OneRecord' /\ KnownGenerators'
      BY <1>1, <1>2, <2>1, <2>2 DEF OneRecord, KnownGenerators
    <2>8. QED
      BY <2>1, <2>5, <2>6, <2>7
  <1>4. CASE Modifies(S)
    <2>1. disk' = NewDisk(S) /\ lockfile' = <<[Opened EXCEPT !.files = NewRecords(S)]>>
          /\ v1' = v1 \ Marked(S)
      BY <1>4 DEF Export
    <2>2. Recorded' = NewRecords(S) /\ OneRecord'
      BY <1>1, <2>1, RecordedHas
    <2>3. /\ DOMAIN disk' = (DOMAIN disk \ Removed(S)) \cup Paths(S)
          /\ \A p \in Paths(S) : disk'[p] = ArtifactAt(S, p).text
          /\ \A p \in DOMAIN disk' \ Paths(S) : disk'[p] = disk[p]
      BY <2>1 DEF NewDisk
    <2>4. /\ DOMAIN Recorded' = (DOMAIN Recorded \ (StaleRecords(S) \cup Marked(S))) \cup Paths(S)
          /\ \A p \in Paths(S) : Recorded'[p] = Record(ArtifactAt(S, p))
          /\ \A p \in DOMAIN Recorded' \ Paths(S) : Recorded'[p] = Recorded[p]
      BY <2>2 DEF NewRecords
    <2>5. Written(S)
      <3> SUFFICES ASSUME NEW art \in Rendered(S)
                   PROVE  /\ art.path \in DOMAIN disk' /\ disk'[art.path] = art.text
                          /\ art.path \in DOMAIN Recorded'
                          /\ Recorded'[art.path].text = art.text
                          /\ Recorded'[art.path].inputs = graph
        BY DEF Written
      <3>1. art.path \in Paths(S) /\ ArtifactAt(S, art.path) = art
        BY <1>1, RenderedOnce
      <3>2. QED
        BY <2>3, <2>4, <3>1 DEF Record
    <2>6. KeptRecords(S) /\ KeptFiles(S)
      BY <2>3, <2>4 DEF KeptRecords, KeptFiles
    <2>7. KnownGenerators'
      <3> SUFFICES ASSUME NEW p \in DOMAIN Recorded' PROVE Recorded'[p].gen \in adapters
        BY <1>2 DEF KnownGenerators
      <3>1. CASE p \in Paths(S)
        <4>1. PICK art \in Rendered(S) : art.path = p
          BY <3>1 DEF Paths
        <4>2. ArtifactAt(S, p) = art /\ art.gen \in S
          BY <1>1, <4>1, RenderedOnce
        <4>3. QED
          BY <2>4, <3>1, <4>2 DEF Record
      <3>2. CASE p \notin Paths(S)
        BY <1>1, <2>4, <3>2 DEF KnownGenerators
      <3>3. QED
        BY <3>1, <3>2
    <2>8. QED
      BY <2>1, <2>2, <2>5, <2>6, <2>7
  <1>5. QED
    BY <1>3, <1>4

(* Repeating an export finds nothing to commit.                              *)
LEMMA ExportSettles ==
  ASSUME ExportInv, NEW S \in SUBSET adapters, Export(S)
  PROVE  ~Modifies(S)'
  <1>1. Written(S) /\ KeptRecords(S) /\ KeptFiles(S) /\ v1' \subseteq v1
    BY ExportWrites
  <1>2. UNCHANGED sources /\ graph' = graph
    BY DEF Export, sources
  <1>3. Rendered(S)' = Rendered(S) /\ Paths(S)' = Paths(S) /\ Generators(S)' = Generators(S)
    BY <1>2, RenderedSame
  <1>4. ASSUME NEW art \in Rendered(S) PROVE ~NeedsWrite(art)' /\ ~NeedsRecord(art)'
    BY <1>1, <1>2 DEF Written, NeedsWrite, NeedsRecord, Exact
  <1>5. StaleRecords(S)' = {}
    <2> SUFFICES ASSUME NEW p, p \in DOMAIN Recorded' \ Paths(S), Recorded'[p].gen \in Generators(S)
                 PROVE  FALSE
      BY <1>3 DEF StaleRecords
    <2>1. p \in DOMAIN Recorded /\ Recorded'[p] = Recorded[p] /\ p \notin StaleRecords(S)
      BY <1>1 DEF KeptRecords
    <2>2. QED
      BY <2>1 DEF StaleRecords
  <1>6. Marked(S)' = {}
    <2> SUFFICES ASSUME NEW p, p \in Marked(S)' PROVE FALSE
      OBVIOUS
    <2>1. /\ p \in DOMAIN disk' \ Paths(S)
          /\ \/ p[1] = "cursor/rules" /\ "cursor" \in Generators(S)
             \/ p[1] = "zed/prompts" /\ "zed" \in Generators(S)
          /\ p \in v1' \/ disk'[p].mark
      BY <1>3 DEF Marked
    <2>2. p \in DOMAIN disk \ Removed(S) /\ disk'[p] = disk[p]
      BY <1>1, <2>1 DEF KeptFiles
    <2>3. p \in Marked(S)
      BY <1>1, <2>1, <2>2 DEF Marked
    <2>4. QED
      BY <2>2, <2>3 DEF Removed
  <1>7. Swept(S)' = {}
    <2> SUFFICES ASSUME NEW p, p \in Swept(S)' PROVE FALSE
      OBVIOUS
    <2>1. /\ p \in DOMAIN disk' \ Paths(S)
          /\ p[1] \in {"generated/gemini", "generated/claude"}
      BY <1>3 DEF Swept
    <2>2. p \in DOMAIN disk \ Removed(S)
      BY <1>1, <2>1 DEF KeptFiles
    <2>3. p \in Swept(S)
      BY <2>1, <2>2 DEF Swept
    <2>4. QED
      BY <2>2, <2>3 DEF Removed
  <1>8. Removed(S)' = {}
    BY <1>5, <1>6, <1>7 DEF Removed
  <1>9. QED
    BY <1>3, <1>4, <1>5, <1>8 DEF Modifies

(* An export keeps the invariant.                                            *)
LEMMA ExportKeeps ==
  ASSUME ExportInv, NEW S \in SUBSET adapters, Export(S)
  PROVE  ExportInv'
  <1>1. /\ Written(S) /\ KeptRecords(S) /\ KeptFiles(S)
        /\ OneRecord' /\ KnownGenerators' /\ v1' \subseteq v1
    BY ExportWrites
  <1>2. /\ adapters' = adapters /\ profile' = profile /\ fresh' = S
        /\ touched' = touched \ (Paths(S) \cup Removed(S))
    BY DEF Export, sources
  <1>3. /\ S \in SUBSET Adapter /\ profile \in Profile
        /\ Mirrors /\ Placed /\ v1 \subseteq Managed /\ UserFilesSurvive
    BY DEF ExportInv
  <1>4. Mirrors'
    <2> SUFFICES ASSUME NEW p \in DOMAIN Recorded'
                 PROVE  \/ Exact(p)' = Recorded'[p].text
                        \/ p \in touched'
                        \/ p \notin DOMAIN disk' /\ p[1] \in {"generated/gemini", "generated/claude"}
      BY DEF Mirrors
    <2>1. CASE p \in Paths(S)
      <3>1. PICK art \in Rendered(S) : art.path = p
        BY <2>1 DEF Paths
      <3>2. QED
        BY <1>1, <3>1 DEF Written, Exact
    <2>2. CASE p \notin Paths(S)
      <3>1. p \in DOMAIN Recorded /\ Recorded'[p] = Recorded[p]
            /\ p \notin StaleRecords(S) /\ p \notin Marked(S)
        BY <1>1, <2>2 DEF KeptRecords
      <3>2. CASE p \in Removed(S)
        <4>1. p \in Swept(S)
          BY <3>1, <3>2 DEF Removed
        <4>2. p \notin DOMAIN disk'
          BY <1>1, <2>2, <3>2 DEF KeptFiles
        <4>3. QED
          BY <4>1, <4>2 DEF Swept
      <3>3. CASE p \notin Removed(S)
        <4>1. (p \in DOMAIN disk' <=> p \in DOMAIN disk) /\ (p \in DOMAIN disk => disk'[p] = disk[p])
          BY <1>1, <2>2, <3>3 DEF KeptFiles
        <4>2. p \in touched => p \in touched'
          BY <1>2, <2>2, <3>3
        <4>3. QED
          BY <1>3, <3>1, <4>1, <4>2 DEF Mirrors, Exact
      <3>4. QED
        BY <3>2, <3>3
    <2>3. QED
      BY <2>1, <2>2
  <1>5. Settled'
    BY <1>2, ExportSettles DEF Settled
  <1>6. ASSUME NEW p \in Paths(S) PROVE \E a \in adapters : p \in Outputs(a)
    <2>1. PICK a \in S : \E art \in Render(a) : art.path = p
      BY DEF Paths, Rendered
    <2>2. QED
      BY <1>3, <2>1, RenderPlaced
  <1>7. Placed'
    <2> SUFFICES ASSUME NEW p \in DOMAIN Recorded' PROVE \E a \in adapters : p \in Outputs(a)
      BY <1>2 DEF Placed, Outputs
    <2>1. CASE p \in Paths(S)
      BY <1>6, <2>1
    <2>2. CASE p \notin Paths(S)
      BY <1>1, <1>3, <2>2 DEF KeptRecords, Placed
    <2>3. QED
      BY <2>1, <2>2
  <1>8. UserFilesSurvive'
    <2> SUFFICES ASSUME NEW p \in Mine \ Editable, ~Claimed(p)
                 PROVE  p \in DOMAIN disk' /\ disk'[p] = MineText(p \in Phrased)
      BY <1>2 DEF UserFilesSurvive, Claimed, Outputs, MineText
    <2>1. p \in DOMAIN disk /\ disk[p] = MineText(p \in Phrased)
      BY <1>3 DEF UserFilesSurvive
    <2>2. p \notin Swept(S)
      BY DEF Swept, Claimed
    <2>3. p \notin Marked(S)
      <3>1. SUFFICES ASSUME p \in Marked(S) PROVE FALSE
        OBVIOUS
      <3>2. disk[p].mark => p \in Phrased
        <4>1. \A m : MineText(m).mark = m
          BY DEF MineText
        <4>2. disk[p].mark = (p \in Phrased)
          BY <2>1, <4>1, Zenon
        <4>3. QED
          BY <4>2, Zenon
      <3>3. Generators(S) \subseteq adapters
        BY <1>3, RenderedOnce DEF Generators
      <3>4. QED
        BY <1>3, <3>1, <3>2, <3>3 DEF Marked, Claimed
    <2>4. p \notin StaleRecords(S)
      BY <1>3 DEF Placed, StaleRecords, Claimed
    <2>5. p \in DOMAIN disk \ Removed(S) /\ p \notin Paths(S)
      BY <1>6, <2>1, <2>2, <2>3, <2>4 DEF Removed, Claimed
    <2>6. QED
      BY <1>1, <2>1, <2>5 DEF KeptFiles
  <1>9. QED
    BY <1>1, <1>2, <1>3, <1>4, <1>5, <1>7, <1>8 DEF ExportInv

(* A change of a source leaves files and records alone, and nothing settled. *)
LEMMA SourceEdited ==
  ASSUME ExportInv, adapters' = adapters, profile' \in Profile, disk' = disk,
         lockfile' = lockfile, v1' = v1, touched' = touched, fresh' = {}
  PROVE  ExportInv'
  <1>1. Recorded' = Recorded
    BY DEF Recorded
  <1>2. OneRecord' /\ KnownGenerators'
    BY <1>1 DEF ExportInv, OneRecord, KnownGenerators
  <1>3. Mirrors'
    BY <1>1 DEF ExportInv, Mirrors, Exact
  <1>4. Settled'
    BY DEF Settled
  <1>5. Placed'
    BY <1>1 DEF ExportInv, Placed, Outputs
  <1>6. UserFilesSurvive'
    BY DEF ExportInv, UserFilesSurvive, Claimed, Outputs, MineText
  <1>7. QED
    BY <1>2, <1>3, <1>4, <1>5, <1>6 DEF ExportInv

(* An edit of an output is remembered as touched.                            *)
LEMMA OutputEdited ==
  ASSUME ExportInv, NEW p \in Editable, EditOutput(p)
  PROVE  ExportInv'
  <1>1. adapters' = adapters /\ profile' = profile /\ lockfile' = lockfile /\ v1' = v1
        /\ fresh' = {} /\ touched' = touched \cup {p}
    BY DEF EditOutput, Edit, sources
  <1>2. \A q : q # p => (q \in DOMAIN disk' <=> q \in DOMAIN disk)
                        /\ (q \in DOMAIN disk => disk'[q] = disk[q])
    <2>1. \/ \E m \in BOOLEAN :
                disk' = [q \in DOMAIN disk \cup {p} |-> IF q = p THEN MineText(m) ELSE disk[q]]
          \/ disk' = [disk EXCEPT ![p].crlf = ~@]
          \/ disk' = Restrict(disk, DOMAIN disk \ {p})
      BY DEF EditOutput
    <2>2. QED
      BY <2>1 DEF Restrict
  <1>3. Recorded' = Recorded
    BY <1>1 DEF Recorded
  <1>4. OneRecord' /\ KnownGenerators'
    BY <1>1, <1>3 DEF ExportInv, OneRecord, KnownGenerators
  <1>5. Mirrors'
    <2> SUFFICES ASSUME NEW q \in DOMAIN Recorded, q # p
                 PROVE  \/ Exact(q)' = Recorded[q].text
                        \/ q \in touched
                        \/ q \notin DOMAIN disk' /\ q[1] \in {"generated/gemini", "generated/claude"}
      BY <1>1, <1>3 DEF Mirrors
    <2>1. Exact(q)' = Exact(q) /\ (q \in DOMAIN disk' <=> q \in DOMAIN disk)
      BY <1>2 DEF Exact
    <2>2. QED
      BY <2>1 DEF ExportInv, Mirrors
  <1>6. Settled'
    BY <1>1 DEF Settled
  <1>7. Placed'
    BY <1>1, <1>3 DEF ExportInv, Placed, Outputs
  <1>8. UserFilesSurvive'
    <2>1. \A q \in Mine \ Editable : q # p
      OBVIOUS
    <2>2. QED
      BY <1>1, <1>2, <2>1 DEF ExportInv, UserFilesSurvive, Claimed, Outputs, MineText
  <1>9. QED
    BY <1>1, <1>4, <1>5, <1>6, <1>7, <1>8 DEF ExportInv

(* A step of something else.                                                 *)
LEMMA NothingDone ==
  ASSUME ExportInv, UNCHANGED exportVars
  PROVE  ExportInv'
  <1>1. /\ adapters' = adapters /\ disk' = disk /\ lockfile' = lockfile /\ v1' = v1
        /\ touched' = touched /\ fresh' = fresh /\ graph' = graph /\ profile' = profile
        /\ UNCHANGED sources
    BY DEF exportVars, sources
  <1>2. CASE fresh = {}
    BY <1>1, <1>2, SourceEdited DEF ExportInv
  <1>3. CASE fresh # {}
    <2>1. /\ Rendered(fresh)' = Rendered(fresh) /\ Paths(fresh)' = Paths(fresh)
          /\ Generators(fresh)' = Generators(fresh)
      BY <1>1, RenderedSame
    <2>2. Recorded' = Recorded
      BY <1>1 DEF Recorded
    <2>3. \A art : NeedsWrite(art)' = NeedsWrite(art) /\ NeedsRecord(art)' = NeedsRecord(art)
      BY <1>1, <2>2 DEF NeedsWrite, NeedsRecord, Exact
    <2>4. StaleRecords(fresh)' = StaleRecords(fresh)
      BY <1>1, <2>1, <2>2 DEF StaleRecords
    <2>5. Removed(fresh)' = Removed(fresh)
      BY <1>1, <2>1, <2>4 DEF Removed, Marked, Swept
    <2>6. Settled'
      BY <1>1, <2>1, <2>3, <2>4, <2>5 DEF ExportInv, Settled, Modifies
    <2>7. OneRecord' /\ KnownGenerators' /\ Placed' /\ Mirrors'
      BY <1>1, <2>2 DEF ExportInv, OneRecord, KnownGenerators, Placed, Outputs, Mirrors, Exact
    <2>8. UserFilesSurvive'
      BY <1>1 DEF ExportInv, UserFilesSurvive, Claimed, Outputs, MineText
    <2>9. QED
      BY <1>1, <2>6, <2>7, <2>8 DEF ExportInv
  <1>4. QED
    BY <1>2, <1>3

(* After any edits, profile switches and exports: records have registered    *)
(* generators, files match records unless touched or swept, an export is     *)
(* settled until the next change, and what is on record is an output of a    *)
(* registered adapter (pure-compiler.js:222).                                *)
THEOREM ExportInvariance == ExportSpec => []ExportInv
  <1>1. ExportInit => ExportInv
    <2> SUFFICES ASSUME ExportInit PROVE ExportInv
      OBVIOUS
    <2>1. adapters \subseteq Adapter /\ fresh = {} /\ lockfile = <<>> /\ profile \in Profile
          /\ v1 = Managed
      BY ExportAssumption DEF ExportInit
    <2>2. Recorded = <<>>
      BY <2>1 DEF Recorded
    <2>3. OneRecord /\ KnownGenerators /\ Mirrors /\ Settled /\ Placed
      BY <2>1, <2>2 DEF OneRecord, KnownGenerators, Mirrors, Settled, Placed
    <2>4. UserFilesSurvive
      <3>1. disk = [p \in Mine |-> MineText(p \in Phrased)]
        BY DEF ExportInit
      <3>2. \A p \in Mine : p \in DOMAIN disk /\ disk[p] = MineText(p \in Phrased)
        BY <3>1
      <3>3. QED
        BY <3>2 DEF UserFilesSurvive
    <2>5. QED
      BY <2>1, <2>3, <2>4 DEF ExportInv
  <1>2. ExportInv /\ [ExportNext]_exportVars => ExportInv'
    <2> SUFFICES ASSUME ExportInv, [ExportNext]_exportVars PROVE ExportInv'
      OBVIOUS
    <2>1. ASSUME NEW S \in Targets, Export(S) PROVE ExportInv'
      BY <2>1, ExportKeeps DEF Targets
    <2>2. ASSUME NEW s \in Skill, EditSkill(s) PROVE ExportInv'
      BY <2>2, SourceEdited DEF EditSkill, Edit, ExportInv
    <2>3. CASE Compile
      BY <2>3, SourceEdited DEF Compile, Edit, ExportInv
    <2>4. ASSUME NEW f \in Profile, SwitchProfile(f) PROVE ExportInv'
      BY <2>4, SourceEdited DEF SwitchProfile, Edit
    <2>5. ASSUME NEW p \in Editable, EditOutput(p) PROVE ExportInv'
      BY <2>5, OutputEdited
    <2>6. CASE UNCHANGED exportVars
      BY <2>6, NothingDone
    <2>7. QED
      BY <2>1, <2>2, <2>3, <2>4, <2>5, <2>6 DEF ExportNext
  <1>3. QED
    BY <1>1, <1>2, PTL DEF ExportSpec

(* For any adapters, skills, profiles and edits: a managed file is as its    *)
(* record says unless the user changed it or the sweep took it, an export    *)
(* repeated has nothing to commit, and after an export of all adapters the   *)
(* drift check is silent (pure-compiler.js:239, drift-detector.js:67).       *)
THEOREM ExportedRecordsMatchDisk == ExportSpec => []RecordsMatchDisk
  <1>1. ExportInv => RecordsMatchDisk
    <2> SUFFICES ASSUME ExportInv PROVE RecordsMatchDisk
      OBVIOUS
    <2>1. Mirrors
      BY DEF ExportInv
    <2>2. ASSUME fresh # {} PROVE ~Modifies(fresh)
      BY <2>2 DEF ExportInv, Settled
    <2>3. ASSUME fresh # {}, fresh = adapters, Generators(adapters) = adapters
          PROVE  ~HasDrift(adapters)
      <3>1. ~Modifies(adapters) /\ adapters \in SUBSET Adapter
        BY <2>2, <2>3 DEF ExportInv
      <3>2. ASSUME NEW art \in Rendered(adapters)
            PROVE  /\ art.path \in DOMAIN disk /\ disk[art.path] = art.text
                   /\ Semantic(art.text) = art.text
        <4>1. ~NeedsWrite(art)
          BY <3>1 DEF Modifies
        <4>2. art.text # <<>> /\ Semantic(art.text) = art.text
          BY <3>1, RenderedOnce DEF Proper
        <4>3. QED
          BY <4>1, <4>2 DEF NeedsWrite, Exact
      <3>3. Missing(adapters) = {}
        BY <3>2 DEF Missing, Paths
      <3>4. Differing(adapters) = {}
        BY <3>2 DEF Differing
      <3>5. Orphans(adapters) = {}
        <4>1. StaleRecords(adapters) = {}
          BY <3>1 DEF Modifies
        <4>2. \A p \in DOMAIN Recorded : Recorded[p].gen \in Generators(adapters)
          BY <2>3 DEF ExportInv, KnownGenerators
        <4>3. QED
          BY <4>1, <4>2 DEF Orphans, StaleRecords
      <3>6. QED
        BY <3>3, <3>4, <3>5 DEF HasDrift
    <2>4. QED
      BY <2>1, <2>2, <2>3 DEF RecordsMatchDisk, Mirrors
  <1>2. QED
    BY <1>1, ExportInvariance, PTL

(* For any adapters, skills, profiles, user files and edits: a file of the   *)
(* user's is lost only at the path of an output of a registered adapter, in  *)
(* the generated directories, or as a rule or prompt that has a phrase or is *)
(* in the old lockfile (pure-compiler.js:310).                               *)
THEOREM ExportSparesUserFiles == ExportSpec => []UserFilesSurvive
  <1>1. ExportInv => UserFilesSurvive
    BY DEF ExportInv
  <1>2. QED
    BY <1>1, ExportInvariance, PTL

-----------------------------------------------------------------------------
(* The requirements that are skills, and a chain of them back to its start.  *)
Deps(id) == Requires(id) \cap Known
Loops(chain, n) == chain[1] = chain[n + 1] /\ \A i \in 1 .. n : chain[i + 1] \in Requires(chain[i])

(* What the depth-first search keeps: a mark for each skill, and a stack.    *)
Marks == {"unvisited", "visiting", "visited"}
Frames == [id : Known, left : SUBSET Known]
SearchTypes == mark \in [Known -> Marks] /\ stack \in Seq(Frames)

(* The stack: the skills that are being visited, each a requirement of the   *)
(* one below it.                                                             *)
Nested ==
    /\ \A i \in DOMAIN stack : mark[stack[i].id] = "visiting" /\ stack[i].left \subseteq Deps(stack[i].id)
    /\ \A i, j \in DOMAIN stack : stack[i].id = stack[j].id => i = j
    /\ \A id \in Known : mark[id] = "visiting" => \E i \in DOMAIN stack : stack[i].id = id
    /\ \A i \in DOMAIN stack : i + 1 \in DOMAIN stack => stack[i + 1].id \in Deps(stack[i].id)

(* A report is of a cycle that there is.                                     *)
Quiet == \A id : <<"CYCLE_DETECTED", id>> \notin diagnostics
Reported ==
    ~Quiet => /\ \E id \in Known : OnCycle(id)
              /\ \E id \in Known : <<"CYCLE_DETECTED", id>> \in diagnostics

(* Without a report: what a call has seen is visited, but for the call it is *)
(* waiting for; the requirements of what is visited are; and no chain leads  *)
(* from there back to its start.                                             *)
Seen ==
    \A i \in DOMAIN stack : \A dep \in Deps(stack[i].id) :
        dep \in stack[i].left \/ mark[dep] = "visited" \/ (i + 1 \in DOMAIN stack /\ stack[i + 1].id = dep)
VisitedClosed == \A id \in Known : mark[id] = "visited" => \A dep \in Deps(id) : mark[dep] = "visited"
Unlooped ==
    \A n \in Nat \ {0} : \A chain \in [1 .. n + 1 -> Known] :
        Loops(chain, n) => mark[chain[1]] # "visited"
Explored == Quiet => Seen /\ VisitedClosed /\ Unlooped

(* The invariant of the search.                                              *)
Search == SearchTypes /\ Nested /\ Reported /\ Explored /\ Pairwise \subseteq diagnostics

(* What was compiled, and what the file was compiled from.                   *)
Compiled == registry # <<>> /\ registry[1].skills = [id \in Known |-> Hash(id)]
MadeFrom ==
    \A id \in DOMAIN written[1].skills :
        \/ written[1].skills[id] = <<>>
        \/ \E i : written[1].skills[id] = <<i, compiled[i]>>

(* The inductive invariant of the compiler: the search while it runs, the    *)
(* registry once it is made, the file once it is written, and what the run   *)
(* checks of the graph.                                                      *)
CompilerInv ==
    /\ IsFiniteSet(Known) /\ ids \in Seq(Known)
    /\ at[1] = "scan" => Quiet
    /\ at = <<"search">> => Search
    /\ at[1] = "write" => Compiled
    /\ written # <<>> => MadeFrom
    /\ GraphIsSound

(* The operators of the graph are about the directories and the manifests    *)
(* only.                                                                     *)
LEMMA GraphSame ==
  ASSUME dirs' = dirs, manifests' = manifests
  PROVE  /\ Known' = Known
         /\ \A id : /\ Requires(id)' = Requires(id) /\ Conflicts(id)' = Conflicts(id)
                    /\ OnCycle(id)' = OnCycle(id) /\ Deps(id)' = Deps(id)
         /\ \A chain, n : Loops(chain, n)' = Loops(chain, n)
         /\ Pairwise' = Pairwise /\ Frames' = Frames
  <1>1. Known' = Known
    BY DEF Known
  <1>2. \A id : Requires(id)' = Requires(id) /\ Conflicts(id)' = Conflicts(id)
    BY DEF Requires, Conflicts, Manifest
  <1>3. \A id : OnCycle(id)' = OnCycle(id)
    BY <1>1, <1>2 DEF OnCycle
  <1>4. \A id : Deps(id)' = Deps(id)
    BY <1>1, <1>2 DEF Deps
  <1>5. \A chain, n : Loops(chain, n)' = Loops(chain, n)
    BY <1>2 DEF Loops
  <1>6. Pairwise' = Pairwise
    BY <1>1, <1>2 DEF Pairwise
  <1>7. Frames' = Frames
    BY <1>1 DEF Frames
  <1>8. QED
    BY <1>1, <1>2, <1>3, <1>4, <1>5, <1>6, <1>7

(* The ids on the stack from the j-th on are a chain; a requirement of the   *)
(* last that is the j-th closes a cycle, of at most as many as there are.    *)
LEMMA CycleFound ==
  ASSUME IsFiniteSet(Known), SearchTypes, Nested, stack # <<>>,
         NEW dep \in Deps(stack[Len(stack)].id), mark[dep] = "visiting"
  PROVE  \E id \in Known : OnCycle(id)
  <1>1. dep \in Known
    BY DEF Deps
  <1>2. PICK j \in DOMAIN stack : stack[j].id = dep
    BY <1>1 DEF Nested
  <1>3. /\ stack \in Seq(Frames) /\ DOMAIN stack = 1 .. Len(stack) /\ Len(stack) \in Nat \ {0}
        /\ \A i \in DOMAIN stack : stack[i].id \in Known
    <2>1. stack \in Seq(Frames)
      BY DEF SearchTypes
    <2>2. DOMAIN stack = 1 .. Len(stack) /\ Len(stack) \in Nat /\ Len(stack) # 0
      BY <2>1
    <2>3. \A i \in 1 .. Len(stack) : stack[i] \in Frames
      BY <2>1
    <2>4. QED
      BY <2>1, <2>2, <2>3 DEF Frames
  <1> DEFINE n == Len(stack) - j + 1
             chain == [k \in 1 .. n + 1 |-> IF k <= n THEN stack[j + k - 1].id ELSE dep]
  <1>4. j \in 1 .. Len(stack) /\ n \in Nat \ {0} /\ n <= Len(stack)
    BY <1>2, <1>3
  <1>5. \A k \in 1 .. n : j + k - 1 \in DOMAIN stack
    BY <1>3, <1>4
  <1>6. chain \in [1 .. n + 1 -> Known]
    BY <1>1, <1>3, <1>5
  <1>7. chain[1] = dep /\ chain[n + 1] = dep
    <2>1. 1 \in 1 .. n + 1 /\ n + 1 \in 1 .. n + 1 /\ 1 <= n /\ ~(n + 1 <= n) /\ j + 1 - 1 = j
      BY <1>4
    <2> HIDE DEF n
    <2>2. QED
      BY <1>2, <2>1
  <1>8. ASSUME NEW i \in 1 .. n PROVE chain[i + 1] \in Requires(chain[i])
    <2>1. chain[i] = stack[j + i - 1].id
      BY <1>4
    <2>2. CASE i = n
      <3>1. j + i - 1 = Len(stack)
        BY <1>3, <1>4, <2>2
      <3>0. chain[i + 1] = dep
        BY <1>7, <2>2
      <3>2. QED
        BY <2>1, <3>0, <3>1 DEF Deps
    <2>3. CASE i # n
      <3>1. i + 1 \in 1 .. n /\ (j + i - 1) + 1 = j + (i + 1) - 1
        BY <1>4, <2>3
      <3>2. chain[i + 1] = stack[(j + i - 1) + 1].id
        BY <1>4, <3>1
      <3>3. stack[(j + i - 1) + 1].id \in Deps(stack[j + i - 1].id)
        <4>1. j + i - 1 \in DOMAIN stack /\ (j + i - 1) + 1 \in DOMAIN stack
          BY <1>5, <3>1
        <4>2. QED
          BY <4>1 DEF Nested
      <3>4. QED
        BY <2>1, <3>2, <3>3 DEF Deps
    <2>4. QED
      BY <2>2, <2>3
  <1>9. n <= Cardinality(Known)
    <2>1. SUFFICES ASSUME Cardinality(Known) < n PROVE FALSE
      BY <1>4, FS_CardinalityType
    <2> DEFINE f == [k \in 1 .. n |-> stack[j + k - 1].id]
    <2>2. IsFiniteSet(1 .. n) /\ Cardinality(1 .. n) = n
      BY <1>4, FS_Interval
    <2>3. f \in [1 .. n -> Known]
      BY <1>3, <1>5
    <2>4. PICK x, y \in 1 .. n : x # y /\ f[x] = f[y]
      <3> HIDE DEF f, n
      <3>1. QED
        BY <2>1, <2>2, <2>3, FS_PigeonHole
    <2>5. stack[j + x - 1].id = stack[j + y - 1].id
      BY <2>4
    <2>6. j + x - 1 = j + y - 1
      <3>1. j + x - 1 \in DOMAIN stack /\ j + y - 1 \in DOMAIN stack
        BY <1>5
      <3>2. QED
        BY <2>5, <3>1 DEF Nested
    <2>7. QED
      BY <1>4, <2>4, <2>6
  <1>10. n \in 1 .. Cardinality(Known)
    BY <1>4, <1>9, FS_CardinalityType
  <1> HIDE DEF n, chain
  <1>11. OnCycle(dep)
    BY <1>6, <1>7, <1>8, <1>10 DEF OnCycle
  <1>12. QED
    BY <1>1, <1>11

(* A chain from a visited skill stays among the visited ones.                *)
LEMMA ChainStays ==
  ASSUME SearchTypes, VisitedClosed, NEW n \in Nat \ {0}, NEW chain \in [1 .. n + 1 -> Known],
         \A i \in 1 .. n : chain[i + 1] \in Requires(chain[i]),
         mark[chain[2]] = "visited"
  PROVE  mark[chain[n + 1]] = "visited"
  <1> DEFINE Bad == {k \in 2 .. n + 1 : mark[chain[k]] # "visited"}
  <1>1. SUFFICES ASSUME Bad # {} PROVE FALSE
    <2>1. n + 1 \in 2 .. n + 1
      OBVIOUS
    <2>2. QED
      BY <2>1
  <1>2. PICK k \in Bad : \A q \in Bad : k <= q
    <2>1. Bad \in SUBSET Nat
      OBVIOUS
    <2> HIDE DEF Bad
    <2>2. QED
      BY <1>1, <2>1, LeastOf
  <1>3. k # 2
    OBVIOUS
  <1>4. k - 1 \in 2 .. n + 1 /\ k - 1 \in 1 .. n /\ (k - 1) + 1 = k
    BY <1>3
  <1>5. mark[chain[k - 1]] = "visited"
    <2>1. k - 1 \notin Bad
      BY <1>2, <1>4
    <2>2. QED
      BY <1>4, <2>1
  <1>6. chain[k] \in Deps(chain[k - 1]) /\ chain[k - 1] \in Known
    <2>1. chain[(k - 1) + 1] \in Requires(chain[k - 1])
      BY <1>4
    <2>2. chain[k] \in Known /\ chain[k - 1] \in Known
      BY <1>4
    <2>3. QED
      BY <1>4, <2>1, <2>2 DEF Deps
  <1>7. mark[chain[k]] = "visited"
    BY <1>5, <1>6 DEF VisitedClosed
  <1>8. QED
    BY <1>7

(* Nothing is visited when the search starts.                                *)
LEMMA SearchStarts ==
  ASSUME CompilerInv, StartSearch
  PROVE  Search'
  <1>1. at[1] = "scan" /\ Quiet
    BY DEF StartSearch, CompilerInv
  <1>2. /\ diagnostics' = diagnostics \cup Pairwise
        /\ mark' = [id \in Known |-> "unvisited"] /\ stack' = <<>>
        /\ dirs' = dirs /\ manifests' = manifests
    BY DEF StartSearch
  <1>3. Known' = Known /\ Pairwise' = Pairwise
    BY <1>2, GraphSame
  <1>4. SearchTypes'
    <2>1. mark' \in [Known -> Marks]
      BY <1>2 DEF Marks
    <2>2. stack' \in Seq(Frames')
      BY <1>2
    <2>3. Marks' = Marks
      BY DEF Marks
    <2>4. QED
      BY <1>3, <2>1, <2>2, <2>3 DEF SearchTypes
  <1>5. Nested'
    BY <1>2, <1>3 DEF Nested
  <1>6. Quiet'
    <2>1. \A id : <<"CYCLE_DETECTED", id>> \notin Pairwise
      BY DEF Pairwise
    <2>2. QED
      BY <1>1, <1>2, <2>1 DEF Quiet
  <1>7. Explored'
    <2>1. Seen'
      BY <1>2 DEF Seen
    <2>2. VisitedClosed'
      BY <1>2, <1>3 DEF VisitedClosed
    <2>3. Unlooped'
      <3>1. \A n \in Nat \ {0} : \A chain \in [1 .. n + 1 -> Known] : mark'[chain[1]] # "visited"
        BY <1>2
      <3>2. QED
        BY <1>3, <3>1 DEF Unlooped
    <2>4. QED
      BY <2>1, <2>2, <2>3 DEF Explored
  <1>8. QED
    BY <1>2, <1>3, <1>4, <1>5, <1>6, <1>7 DEF Search, Reported

(* A call of checkCycle is a frame.                                          *)
LEMMA CallType ==
  ASSUME NEW id \in Known
  PROVE  Call(id) \in Frames /\ Call(id).id = id /\ Call(id).left = Deps(id)
  BY DEF Call, Frames, Deps

(* The loop over knownIds calls checkCycle on an unvisited skill.            *)
LEMMA SearchFromKeeps ==
  ASSUME CompilerInv, SearchFrom
  PROVE  Search'
  <1>1. Search /\ ids \in Seq(Known)
    BY DEF CompilerInv, SearchFrom
  <1>2. PICK i \in DOMAIN ids :
          /\ mark[ids[i]] = "unvisited"
          /\ mark' = [mark EXCEPT ![ids[i]] = "visiting"]
          /\ stack' = <<Call(ids[i])>>
    BY DEF SearchFrom
  <1> DEFINE id == ids[i]
  <1>3. id \in Known
    BY <1>1
  <1>4. stack = <<>> /\ diagnostics' = diagnostics /\ dirs' = dirs /\ manifests' = manifests
    BY DEF SearchFrom
  <1>5. /\ Known' = Known /\ Pairwise' = Pairwise /\ Frames' = Frames
        /\ \A k : Deps(k)' = Deps(k) /\ OnCycle(k)' = OnCycle(k)
        /\ \A chain, n : Loops(chain, n)' = Loops(chain, n)
    BY <1>4, GraphSame
  <1>6. /\ mark' \in [Known -> Marks] /\ mark'[id] = "visiting"
        /\ \A k \in Known : k # id => mark'[k] = mark[k]
    BY <1>1, <1>2, <1>3 DEF Search, SearchTypes, Marks
  <1>7. /\ stack' \in Seq(Frames) /\ DOMAIN stack' = {1}
        /\ stack'[1].id = id /\ stack'[1].left = Deps(id)
    <2>1. Call(id) \in Frames /\ Call(id).id = id /\ Call(id).left = Deps(id)
      BY <1>3, CallType
    <2> HIDE DEF id
    <2>2. stack' = <<Call(id)>>
      BY <1>2 DEF id
    <2>3. QED
      BY <2>1, <2>2
  <1>8. SearchTypes'
    BY <1>5, <1>6, <1>7 DEF SearchTypes, Marks
  <1>9. Nested'
    <2>1. \A k \in Known : mark[k] # "visiting"
      BY <1>1, <1>4 DEF Search, Nested
    <2>2. QED
      BY <1>5, <1>6, <1>7, <2>1 DEF Nested
  <1>10. Reported' /\ Pairwise' \subseteq diagnostics'
    BY <1>1, <1>4, <1>5 DEF Search, Reported, Quiet
  <1>11. ASSUME Quiet PROVE Seen' /\ VisitedClosed' /\ Unlooped'
    <2>1. VisitedClosed /\ Unlooped
      BY <1>1, <1>11 DEF Search, Explored
    <2>2. \A k \in Known : mark'[k] = "visited" <=> mark[k] = "visited"
      BY <1>2, <1>6
    <2>3. Seen'
      BY <1>5, <1>7 DEF Seen
    <2>4. VisitedClosed'
      <3>1. \A k \in Known : Deps(k) \subseteq Known
        BY DEF Deps
      <3>2. QED
        BY <1>5, <2>1, <2>2, <3>1 DEF VisitedClosed
    <2>5. Unlooped'
      <3>1. \A n \in Nat \ {0} : \A chain \in [1 .. n + 1 -> Known] : chain[1] \in Known
        OBVIOUS
      <3>2. QED
        BY <1>5, <2>1, <2>2, <3>1 DEF Unlooped
    <2>6. QED
      BY <2>3, <2>4, <2>5
  <1>12. Explored'
    BY <1>4, <1>11 DEF Explored, Quiet
  <1>13. QED
    BY <1>8, <1>9, <1>10, <1>12 DEF Search

(* A dependency is taken from the call on top of the stack; it is passed, or *)
(* visited.                                                                  *)
Taken(rest, dep) == rest = [stack EXCEPT ![Len(stack)].left = @ \ {dep}]
Pass(dep) ==
    /\ mark' = mark /\ Taken(stack', dep)
    /\ \/ /\ mark[dep] = "visiting"
          /\ diagnostics' = diagnostics \cup {<<"CYCLE_DETECTED", Last(stack).id>>}
       \/ mark[dep] = "visited" /\ diagnostics' = diagnostics
Enter(dep) ==
    /\ mark[dep] = "unvisited" /\ mark' = [mark EXCEPT ![dep] = "visiting"]
    /\ \E rest : Taken(rest, dep) /\ stack' = Append(rest, Call(dep))
    /\ diagnostics' = diagnostics

(* The stack without the dependency that was taken.                          *)
LEMMA RestOf ==
  ASSUME SearchTypes, stack # <<>>, NEW dep, NEW rest, Taken(rest, dep)
  PROVE  /\ rest \in Seq(Frames) /\ Len(rest) = Len(stack) /\ Len(stack) \in Nat \ {0}
         /\ DOMAIN rest = 1 .. Len(stack) /\ DOMAIN stack = 1 .. Len(stack)
         /\ \A i \in 1 .. Len(stack) : rest[i].id = stack[i].id /\ stack[i].id \in Known
         /\ \A i \in 1 .. Len(stack) : i # Len(stack) => rest[i].left = stack[i].left
         /\ rest[Len(stack)].left = stack[Len(stack)].left \ {dep}
         /\ Last(stack) = stack[Len(stack)]
  <1>1. stack \in Seq(Frames) /\ Len(stack) \in Nat \ {0} /\ DOMAIN stack = 1 .. Len(stack)
    <2>1. stack \in Seq(Frames)
      BY DEF SearchTypes
    <2>2. QED
      BY <2>1
  <1>2. \A i \in 1 .. Len(stack) : stack[i] \in Frames
    BY <1>1
  <1>3. /\ DOMAIN rest = 1 .. Len(stack)
        /\ rest[Len(stack)] = [stack[Len(stack)] EXCEPT !.left = @ \ {dep}]
        /\ \A i \in 1 .. Len(stack) : i # Len(stack) => rest[i] = stack[i]
    <2>1. Len(stack) \in DOMAIN stack
      BY <1>1
    <2>2. QED
      BY <1>1, <2>1 DEF Taken
  <1>4. stack[Len(stack)] \in Frames
    BY <1>1, <1>2
  <1>5. /\ rest[Len(stack)] \in Frames
        /\ rest[Len(stack)].id = stack[Len(stack)].id
        /\ rest[Len(stack)].left = stack[Len(stack)].left \ {dep}
    BY <1>3, <1>4 DEF Frames
  <1>6. \A i \in 1 .. Len(stack) : rest[i] \in Frames
    BY <1>2, <1>3, <1>5
  <1>7. rest \in [1 .. Len(stack) -> Frames]
    <2>1. rest \in [DOMAIN stack -> Frames]
      <3>1. rest = [i \in DOMAIN stack |-> rest[i]]
        BY DEF Taken
      <3>2. QED
        BY <1>1, <1>6, <3>1
    <2>2. QED
      BY <1>1, <2>1
  <1>8. rest \in Seq(Frames) /\ Len(rest) = Len(stack)
    <2>1. PICK n \in Nat : n = Len(stack)
      BY <1>1
    <2>2. rest \in [1 .. n -> Frames]
      BY <1>7, <2>1
    <2>3. rest \in Seq(Frames)
      BY <2>2, SeqDef
    <2>4. Len(rest) = n
      <3>1. DOMAIN rest = 1 .. n
        BY <2>2
      <3>2. QED
        BY <2>3, <3>1, LenProperties
    <2>5. QED
      BY <2>1, <2>3, <2>4
  <1>9. \A i \in 1 .. Len(stack) : stack[i].id \in Known
    BY <1>2 DEF Frames
  <1>10. Last(stack) = stack[Len(stack)]
    BY DEF Last
  <1>11. QED
    BY <1>1, <1>3, <1>5, <1>8, <1>9, <1>10

(* A dependency that is being visited is reported, one that was is passed.   *)
LEMMA Passes ==
  ASSUME Search, IsFiniteSet(Known), stack # <<>>, NEW dep \in Last(stack).left,
         dirs' = dirs, manifests' = manifests, Pass(dep)
  PROVE  Search'
  <1>1. /\ Known' = Known /\ Pairwise' = Pairwise /\ Frames' = Frames
        /\ \A k : Deps(k)' = Deps(k) /\ OnCycle(k)' = OnCycle(k)
        /\ \A chain, n : Loops(chain, n)' = Loops(chain, n)
    BY GraphSame
  <1>2. SearchTypes /\ Nested /\ Reported /\ Explored /\ Pairwise \subseteq diagnostics
    BY DEF Search
  <1> DEFINE n == Len(stack)
  <1>3. /\ stack' \in Seq(Frames) /\ n \in Nat \ {0}
        /\ DOMAIN stack' = 1 .. n /\ DOMAIN stack = 1 .. n
        /\ \A i \in 1 .. n : stack'[i].id = stack[i].id /\ stack[i].id \in Known
        /\ \A i \in 1 .. n : i # n => stack'[i].left = stack[i].left
        /\ stack'[n].left = stack[n].left \ {dep}
        /\ Last(stack) = stack[n]
    BY <1>2, RestOf DEF Pass
  <1>0. mark' = mark
    BY DEF Pass
  <1> HIDE DEF n
  <1>4. SearchTypes'
    BY <1>0, <1>1, <1>2, <1>3 DEF SearchTypes, Marks
  <1>5. Nested'
    <2>1. \A i \in 1 .. n : mark[stack[i].id] = "visiting" /\ stack'[i].left \subseteq Deps(stack[i].id)
      BY <1>2, <1>3 DEF Nested
    <2>2. QED
      BY <1>0, <1>1, <1>2, <1>3, <2>1 DEF Nested
  <1>6. dep \in Deps(stack[n].id)
    BY <1>2, <1>3 DEF Nested
  <1>7. CASE mark[dep] = "visiting" /\ diagnostics' = diagnostics \cup {<<"CYCLE_DETECTED", Last(stack).id>>}
    <2>1. \E id \in Known : OnCycle(id)
      BY <1>2, <1>6, <1>7, CycleFound DEF n
    <2>2. ~Quiet' /\ \E id \in Known : <<"CYCLE_DETECTED", id>> \in diagnostics'
      <3>1. Last(stack).id \in Known
        BY <1>3
      <3>2. QED
        BY <1>7, <3>1 DEF Quiet
    <2>3. QED
      BY <1>1, <1>2, <1>4, <1>5, <1>7, <2>1, <2>2 DEF Search, Reported, Explored
  <1>8. CASE mark[dep] = "visited" /\ diagnostics' = diagnostics
    <2>1. Reported'
      BY <1>1, <1>2, <1>8 DEF Reported, Quiet
    <2>2. ASSUME Quiet PROVE Seen' /\ VisitedClosed' /\ Unlooped'
      <3>1. Seen /\ VisitedClosed /\ Unlooped
        BY <1>2, <2>2 DEF Explored
      <3>2. Seen'
        <4> SUFFICES ASSUME NEW i \in 1 .. n, NEW d \in Deps(stack[i].id)
                     PROVE  d \in stack'[i].left \/ mark[d] = "visited"
                            \/ (i + 1 \in 1 .. n /\ stack[i + 1].id = d)
          BY <1>0, <1>1, <1>3 DEF Seen
        <4>1. d \in stack[i].left \/ mark[d] = "visited" \/ (i + 1 \in 1 .. n /\ stack[i + 1].id = d)
          BY <1>3, <3>1 DEF Seen
        <4>2. d \in stack[i].left => d \in stack'[i].left \/ d = dep
          BY <1>3
        <4>3. QED
          BY <1>8, <4>1, <4>2
      <3>3. VisitedClosed' /\ Unlooped'
        BY <1>0, <1>1, <3>1 DEF VisitedClosed, Unlooped
      <3>4. QED
        BY <3>2, <3>3
    <2>3. Explored'
      BY <1>8, <2>2 DEF Explored, Quiet
    <2>4. QED
      BY <1>1, <1>2, <1>4, <1>5, <1>8, <2>1, <2>3 DEF Search
  <1>9. QED
    BY <1>7, <1>8 DEF Pass

(* One that was not is visited now.                                          *)
LEMMA Enters ==
  ASSUME Search, stack # <<>>, NEW dep \in Last(stack).left,
         dirs' = dirs, manifests' = manifests, Enter(dep)
  PROVE  Search'
  <1>1. /\ Known' = Known /\ Pairwise' = Pairwise /\ Frames' = Frames
        /\ \A k : Deps(k)' = Deps(k) /\ OnCycle(k)' = OnCycle(k)
        /\ \A chain, n : Loops(chain, n)' = Loops(chain, n)
    BY GraphSame
  <1>2. SearchTypes /\ Nested /\ Reported /\ Explored /\ Pairwise \subseteq diagnostics
    BY DEF Search
  <1>3. PICK rest : Taken(rest, dep) /\ stack' = Append(rest, Call(dep))
    BY Zenon DEF Enter
  <1>0. mark[dep] = "unvisited" /\ mark' = [mark EXCEPT ![dep] = "visiting"] /\ diagnostics' = diagnostics
    BY DEF Enter
  <1>4. PICK n \in Nat \ {0} : n = Len(stack)
    <2>1. stack \in Seq(Frames)
      BY <1>2 DEF SearchTypes
    <2>2. QED
      BY <2>1
  <1>5. /\ rest \in Seq(Frames) /\ Len(rest) = n
        /\ DOMAIN stack = 1 .. n
        /\ \A i \in 1 .. n : rest[i].id = stack[i].id /\ stack[i].id \in Known
        /\ \A i \in 1 .. n : i # n => rest[i].left = stack[i].left
        /\ rest[n].left = stack[n].left \ {dep}
        /\ Last(stack) = stack[n]
    BY <1>2, <1>3, <1>4, RestOf
  <1>6. dep \in Deps(stack[n].id)
    BY <1>2, <1>5 DEF Nested
  <1>7. dep \in Known
    BY <1>6 DEF Deps
  <1>8. Call(dep) \in Frames /\ Call(dep).id = dep /\ Call(dep).left = Deps(dep)
    BY <1>7, CallType
  <1>9. /\ stack' \in Seq(Frames) /\ DOMAIN stack' = 1 .. n + 1
        /\ \A i \in 1 .. n : stack'[i] = rest[i]
        /\ stack'[n + 1] = Call(dep)
    <2>1. stack' = Append(rest, Call(dep))
      BY <1>3
    <2>2. \A c \in Frames : /\ Append(rest, c) \in Seq(Frames) /\ DOMAIN Append(rest, c) = 1 .. n + 1
                           /\ \A i \in 1 .. n : Append(rest, c)[i] = rest[i]
                           /\ Append(rest, c)[n + 1] = c
      BY <1>5, AppendProperties
    <2>3. QED
      BY <1>8, <2>1, <2>2
  <1>a. /\ \A i \in 1 .. n + 1 : i # n + 1 => i \in 1 .. n
        /\ \A i \in 1 .. n : i \in 1 .. n + 1 /\ i + 1 \in 1 .. n + 1 /\ (i # n => i + 1 \in 1 .. n)
        /\ n + 1 \in 1 .. n + 1 /\ n \in 1 .. n /\ n + 1 + 1 \notin 1 .. n + 1
    OBVIOUS
  <1>10. /\ mark' \in [Known -> Marks] /\ mark'[dep] = "visiting"
         /\ \A k \in Known : k # dep => mark'[k] = mark[k]
    BY <1>0, <1>2, <1>7 DEF SearchTypes, Marks
  <1>11. /\ \A i \in 1 .. n : stack'[i].id = stack[i].id /\ stack[i].id \in Known
         /\ stack'[n + 1].id = dep /\ stack'[n + 1].left = Deps(dep)
         /\ \A i \in 1 .. n : i # n => stack'[i].left = stack[i].left
         /\ stack'[n].left = stack[n].left \ {dep}
    <2>1. \A i \in 1 .. n : stack'[i] = rest[i] /\ rest[i].id = stack[i].id /\ stack[i].id \in Known
      BY <1>5, <1>9, Zenon
    <2>2. n \in 1 .. n
      BY <1>a, Zenon
    <2>3. stack'[n + 1] = Call(dep)
      BY <1>9, Zenon
    <2>4. stack'[n + 1].id = dep /\ stack'[n + 1].left = Deps(dep)
      BY <1>8, <2>3, Zenon
    <2>5. \A i \in 1 .. n : i # n => rest[i].left = stack[i].left
      BY <1>5, Zenon
    <2>6. rest[n].left = stack[n].left \ {dep}
      BY <1>5, Zenon
    <2>7. stack'[n].left = stack[n].left \ {dep}
      BY <2>1, <2>2, <2>6, Zenon
    <2>8. \A i \in 1 .. n : i # n => stack'[i].left = stack[i].left
      BY <2>1, <2>5, Zenon
    <2>9. \A i \in 1 .. n : stack'[i].id = stack[i].id /\ stack[i].id \in Known
      BY <2>1, Zenon
    <2>10. QED
      BY <2>4, <2>7, <2>8, <2>9, Zenon
  <1>12. \A i \in 1 .. n : stack[i].id # dep
    BY <1>0, <1>2, <1>5 DEF Nested
  <1>13. SearchTypes'
    BY <1>1, <1>9, <1>10 DEF SearchTypes, Marks
  <1>14. Nested'
    <2>1. ASSUME NEW i \in 1 .. n + 1
          PROVE  mark'[stack'[i].id] = "visiting" /\ stack'[i].left \subseteq Deps(stack'[i].id)
      <3>1. CASE i = n + 1
        BY <1>10, <1>11, <3>1
      <3>2. CASE i # n + 1
        <4>1. i \in 1 .. n
          BY <3>2
        <4>2. mark[stack[i].id] = "visiting" /\ stack[i].left \subseteq Deps(stack[i].id)
          BY <1>2, <1>5, <4>1 DEF Nested
        <4>3. mark'[stack[i].id] = "visiting"
          BY <1>10, <1>11, <1>12, <4>1, <4>2, Zenon
        <4>4. stack'[i].left \subseteq stack[i].left
          BY <1>11, <4>1
        <4>5. QED
          BY <1>11, <4>1, <4>2, <4>3, <4>4
      <3>3. QED
        BY <3>1, <3>2
    <2>2. ASSUME NEW i \in 1 .. n + 1, NEW j \in 1 .. n + 1, stack'[i].id = stack'[j].id
          PROVE  i = j
      <3>1. CASE i \in 1 .. n /\ j \in 1 .. n
        <4>1. stack[i].id = stack[j].id
          BY <1>11, <2>2, <3>1
        <4>2. QED
          BY <1>2, <1>5, <3>1, <4>1 DEF Nested
      <3>2. CASE i = n + 1 /\ j # n + 1
        BY <1>11, <1>12, <1>a, <2>2, <3>2, Zenon
      <3>3. CASE i # n + 1 /\ j = n + 1
        BY <1>11, <1>12, <1>a, <2>2, <3>3, Zenon
      <3>4. QED
        BY <1>a, <2>2, <3>1, <3>2, <3>3, Zenon
    <2>3. ASSUME NEW id \in Known, mark'[id] = "visiting"
          PROVE  \E i \in 1 .. n + 1 : stack'[i].id = id
      <3>1. CASE id = dep
        BY <1>11, <1>a, <3>1, Zenon
      <3>2. CASE id # dep
        <4>1. PICK i \in 1 .. n : stack[i].id = id
          BY <1>2, <1>5, <1>10, <2>3, <3>2 DEF Nested
        <4>2. i \in 1 .. n + 1 /\ stack'[i].id = id
          BY <1>11, <1>a, <4>1, Zenon
        <4>3. QED
          BY <4>2
      <3>3. QED
        BY <3>1, <3>2
    <2>4. ASSUME NEW i \in 1 .. n + 1, i + 1 \in 1 .. n + 1
          PROVE  stack'[i + 1].id \in Deps(stack'[i].id)
      <3>1. CASE i = n
        BY <1>6, <1>11, <1>a, <3>1, Zenon
      <3>2. CASE i # n
        <4>1. i \in 1 .. n /\ i + 1 \in 1 .. n
          BY <2>4, <3>2
        <4>2. stack[i + 1].id \in Deps(stack[i].id)
          BY <1>2, <1>5, <4>1 DEF Nested
        <4>3. QED
          BY <1>11, <4>1, <4>2
      <3>3. QED
        BY <3>1, <3>2
    <2>5. QED
      BY <1>1, <1>9, <2>1, <2>2, <2>3, <2>4 DEF Nested
  <1>15. ASSUME Quiet PROVE Seen' /\ VisitedClosed' /\ Unlooped'
    <2>1. Seen /\ VisitedClosed /\ Unlooped
      BY <1>2, <1>15 DEF Explored
    <2>2. \A k \in Known : mark'[k] = "visited" <=> mark[k] = "visited"
      BY <1>0, <1>7, <1>10
    <2>3. Seen'
      <3> SUFFICES ASSUME NEW i \in 1 .. n + 1, NEW d \in Deps(stack'[i].id)
                   PROVE  d \in stack'[i].left \/ mark'[d] = "visited"
                          \/ (i + 1 \in 1 .. n + 1 /\ stack'[i + 1].id = d)
        BY <1>1, <1>9 DEF Seen
      <3>1. CASE i = n + 1
        BY <1>11, <3>1
      <3>2. CASE i # n + 1
        <4>1. i \in 1 .. n /\ i + 1 \in 1 .. n + 1 /\ d \in Known /\ d \in Deps(stack[i].id)
          BY <1>11, <1>a, <3>2 DEF Deps
        <4>2. d \in stack[i].left \/ mark[d] = "visited" \/ (i + 1 \in 1 .. n /\ stack[i + 1].id = d)
          BY <1>5, <2>1, <4>1 DEF Seen
        <4>3. d \in stack[i].left => d \in stack'[i].left \/ (i = n /\ d = dep)
          BY <1>11, <4>1
        <4>4. i = n => stack'[i + 1].id = dep
          BY <1>11, Zenon
        <4>5. i + 1 \in 1 .. n => stack'[i + 1].id = stack[i + 1].id
          BY <1>11, Zenon
        <4>6. QED
          BY <2>2, <4>1, <4>2, <4>3, <4>4, <4>5, Zenon
      <3>3. QED
        BY <3>1, <3>2
    <2>4. VisitedClosed'
      <3>1. \A k \in Known : Deps(k) \subseteq Known
        BY DEF Deps
      <3>2. QED
        BY <1>1, <2>1, <2>2, <3>1 DEF VisitedClosed
    <2>5. Unlooped'
      <3>1. \A m \in Nat \ {0} : \A chain \in [1 .. m + 1 -> Known] : chain[1] \in Known
        OBVIOUS
      <3>2. QED
        BY <1>1, <2>1, <2>2, <3>1 DEF Unlooped
    <2>6. QED
      BY <2>3, <2>4, <2>5
  <1>16. Reported' /\ Explored'
    BY <1>0, <1>1, <1>2, <1>15 DEF Reported, Explored, Quiet
  <1>17. QED
    BY <1>0, <1>1, <1>2, <1>13, <1>14, <1>16 DEF Search

(* A call that has seen everything ends: its skill is visited, and no chain  *)
(* leads from there back to it.                                              *)
LEMMA Leaves ==
  ASSUME CompilerInv, LeaveSkill
  PROVE  Search'
  <1>1. Search /\ stack # <<>> /\ Last(stack).left = {}
    BY DEF CompilerInv, LeaveSkill
  <1>2. SearchTypes /\ Nested /\ Reported /\ Explored /\ Pairwise \subseteq diagnostics
    BY <1>1 DEF Search
  <1>3. /\ mark' = [mark EXCEPT ![Last(stack).id] = "visited"] /\ stack' = Front(stack)
        /\ diagnostics' = diagnostics /\ dirs' = dirs /\ manifests' = manifests
    BY DEF LeaveSkill
  <1>4. /\ Known' = Known /\ Pairwise' = Pairwise /\ Frames' = Frames
        /\ \A k : Deps(k)' = Deps(k) /\ OnCycle(k)' = OnCycle(k)
        /\ \A chain, n : Loops(chain, n)' = Loops(chain, n)
    BY <1>3, GraphSame
  <1>5. PICK n \in Nat \ {0} : n = Len(stack) /\ DOMAIN stack = 1 .. n
    <2>1. stack \in Seq(Frames)
      BY <1>2 DEF SearchTypes
    <2>2. QED
      BY <1>1, <2>1
  <1>6. /\ stack \in Seq(Frames) /\ Last(stack) = stack[n]
        /\ \A i \in 1 .. n : stack[i].id \in Known
    <2>1. stack \in Seq(Frames)
      BY <1>2 DEF SearchTypes
    <2>2. \A i \in 1 .. n : stack[i] \in Frames
      BY <1>5, <2>1
    <2>3. \A i \in 1 .. n : stack[i].id \in Known
      BY <2>2 DEF Frames
    <2>4. QED
      BY <1>5, <2>1, <2>3 DEF Last
  <1>7. PICK v \in Known : v = stack[n].id
    BY <1>5, <1>6
  <1>8. stack' \in Seq(Frames) /\ DOMAIN stack' = 1 .. n - 1 /\ \A i \in 1 .. n - 1 : stack'[i] = stack[i]
    <2>1. stack' = SubSeq(stack, 1, n - 1)
      BY <1>3, <1>5 DEF Front
    <2>2. /\ SubSeq(stack, 1, n - 1) \in Seq(Frames) /\ Len(SubSeq(stack, 1, n - 1)) = n - 1
          /\ \A i \in 1 .. n - 1 : SubSeq(stack, 1, n - 1)[i] = stack[i]
      BY <1>5, <1>6, SubSeqProperties
    <2>3. QED
      BY <2>1, <2>2
  <1>9. /\ mark' \in [Known -> Marks] /\ mark'[v] = "visited" /\ mark[v] = "visiting"
        /\ \A k \in Known : k # v => mark'[k] = mark[k]
    <2>1. mark[v] = "visiting"
      BY <1>2, <1>5, <1>7 DEF Nested
    <2>2. mark' = [mark EXCEPT ![v] = "visited"]
      BY <1>3, <1>6, <1>7
    <2>3. mark \in [Known -> Marks] /\ "visited" \in Marks
      BY <1>2 DEF SearchTypes, Marks
    <2>4. QED
      BY <1>7, <2>1, <2>2, <2>3
  <1>a. /\ \A i \in 1 .. n - 1 : i \in 1 .. n /\ i # n /\ i + 1 \in 1 .. n
        /\ \A i \in 1 .. n : i # n => i \in 1 .. n - 1
        /\ \A i \in 1 .. n - 1 : i + 1 = n \/ i + 1 \in 1 .. n - 1
        /\ n \in 1 .. n /\ n + 1 \notin 1 .. n
    OBVIOUS
  <1>10. \A i \in 1 .. n - 1 : stack[i].id # v
    BY <1>2, <1>5, <1>7, <1>a, Zenon DEF Nested
  <1>11. SearchTypes'
    BY <1>4, <1>8, <1>9 DEF SearchTypes, Marks
  <1>12. Nested'
    <2>1. \A i \in 1 .. n - 1 : mark'[stack'[i].id] = "visiting" /\ stack'[i].left \subseteq Deps(stack'[i].id)
      <3> SUFFICES ASSUME NEW i \in 1 .. n - 1
                   PROVE  mark'[stack[i].id] = "visiting" /\ stack[i].left \subseteq Deps(stack[i].id)
        BY <1>8
      <3>1. i \in 1 .. n
        BY <1>a, Zenon
      <3>2. mark[stack[i].id] = "visiting" /\ stack[i].left \subseteq Deps(stack[i].id)
        BY <1>2, <1>5, <3>1 DEF Nested
      <3>3. QED
        BY <1>6, <1>9, <1>10, <3>1, <3>2
    <2>2. \A i, j \in 1 .. n - 1 : stack'[i].id = stack'[j].id => i = j
      <3> SUFFICES ASSUME NEW i \in 1 .. n - 1, NEW j \in 1 .. n - 1, stack'[i].id = stack'[j].id
                   PROVE  i = j
        OBVIOUS
      <3>1. i \in 1 .. n /\ j \in 1 .. n
        BY <1>a, Zenon
      <3>2. stack[i].id = stack[j].id
        BY <1>8
      <3>3. QED
        BY <1>2, <1>5, <3>1, <3>2 DEF Nested
    <2>3. \A id \in Known : mark'[id] = "visiting" => \E i \in 1 .. n - 1 : stack'[i].id = id
      <3> SUFFICES ASSUME NEW id \in Known, mark'[id] = "visiting"
                   PROVE  \E i \in 1 .. n - 1 : stack'[i].id = id
        OBVIOUS
      <3>1. id # v /\ mark[id] = "visiting"
        BY <1>9
      <3>2. PICK i \in 1 .. n : stack[i].id = id
        BY <1>2, <1>5, <3>1 DEF Nested
      <3>3. i \in 1 .. n - 1
        BY <1>7, <1>a, <3>1, <3>2, Zenon
      <3>4. QED
        BY <1>8, <3>2, <3>3
    <2>4. \A i \in 1 .. n - 1 : i + 1 \in 1 .. n - 1 => stack'[i + 1].id \in Deps(stack'[i].id)
      BY <1>2, <1>5, <1>8, <1>a, Zenon DEF Nested
    <2>5. QED
      BY <1>4, <1>8, <2>1, <2>2, <2>3, <2>4 DEF Nested
  <1>13. ASSUME Quiet PROVE Seen' /\ VisitedClosed' /\ Unlooped'
    <2>1. Seen /\ VisitedClosed /\ Unlooped
      BY <1>2, <1>13 DEF Explored
    <2>2. \A k \in Known : mark[k] = "visited" => mark'[k] = "visited"
      BY <1>9
    <2>3. \A dep \in Deps(v) : mark[dep] = "visited"
      <3>1. \A dep \in Deps(stack[n].id) :
              dep \in stack[n].left \/ mark[dep] = "visited" \/ (n + 1 \in 1 .. n /\ stack[n + 1].id = dep)
        BY <1>5, <1>a, <2>1, Zenon DEF Seen
      <3>2. stack[n].left = {}
        BY <1>1, <1>6
      <3>3. QED
        BY <1>7, <1>a, <3>1, <3>2
    <2>4. \A k : Deps(k) \subseteq Known
      BY DEF Deps
    <2>5. Seen'
      <3> SUFFICES ASSUME NEW i \in 1 .. n - 1, NEW d \in Deps(stack[i].id)
                   PROVE  d \in stack[i].left \/ mark'[d] = "visited"
                          \/ (i + 1 \in 1 .. n - 1 /\ stack'[i + 1].id = d)
        BY <1>4, <1>8 DEF Seen
      <3>1. d \in stack[i].left \/ mark[d] = "visited" \/ stack[i + 1].id = d
        BY <1>5, <1>a, <2>1, Zenon DEF Seen
      <3>2. d \in Known
        BY <2>4
      <3>3. i + 1 = n \/ (i + 1 \in 1 .. n - 1 /\ stack'[i + 1] = stack[i + 1])
        BY <1>8, <1>a, Zenon
      <3>4. stack[n].id = d => mark'[d] = "visited"
        BY <1>7, <1>9
      <3>5. QED
        BY <2>2, <3>1, <3>2, <3>3, <3>4
    <2>6. VisitedClosed'
      <3> SUFFICES ASSUME NEW k \in Known, mark'[k] = "visited", NEW d \in Deps(k)
                   PROVE  mark'[d] = "visited"
        BY <1>4 DEF VisitedClosed
      <3>1. mark[d] = "visited"
        <4>1. CASE k = v
          BY <2>3, <4>1
        <4>2. CASE k # v
          BY <1>9, <2>1, <4>2 DEF VisitedClosed
        <4>3. QED
          BY <4>1, <4>2
      <3>2. QED
        BY <2>2, <2>4, <3>1
    <2>7. Unlooped'
      <3> SUFFICES ASSUME NEW m \in Nat \ {0}, NEW chain \in [1 .. m + 1 -> Known], Loops(chain, m),
                          mark'[chain[1]] = "visited"
                   PROVE  FALSE
        BY <1>4 DEF Unlooped
      <3>1. 1 \in 1 .. m /\ 1 + 1 = 2 /\ 1 \in 1 .. m + 1 /\ 2 \in 1 .. m + 1
        OBVIOUS
      <3>2. chain[1] = v
        BY <1>9, <2>1, <3>1 DEF Unlooped
      <3>3. chain[1] = chain[m + 1] /\ \A i \in 1 .. m : chain[i + 1] \in Requires(chain[i])
        BY DEF Loops
      <3>4. chain[2] \in Deps(v)
        <4>1. chain[1 + 1] \in Requires(chain[1])
          BY <3>1, <3>3, Zenon
        <4>2. chain[2] \in Known
          BY <3>1
        <4>3. QED
          BY <3>1, <3>2, <4>1, <4>2 DEF Deps
      <3>5. mark[chain[m + 1]] = "visited"
        BY <1>2, <2>1, <2>3, <3>3, <3>4, ChainStays
      <3>6. QED
        BY <1>9, <3>2, <3>3, <3>5
    <2>8. QED
      BY <2>5, <2>6, <2>7
  <1>14. Reported' /\ Explored'
    BY <1>2, <1>3, <1>4, <1>13 DEF Reported, Explored, Quiet
  <1>15. QED
    BY <1>2, <1>3, <1>4, <1>11, <1>12, <1>14 DEF Search

(* The end of the search: a cycle is reported exactly when there is one, and *)
(* a compilation without a diagnostic has closed requirements.               *)
LEMMA Ended ==
  ASSUME CompilerInv, EndCompile
  PROVE  GraphIsSound'
  <1>1. Search
    BY DEF CompilerInv, EndCompile
  <1>2. /\ diagnostics' = diagnostics /\ dirs' = dirs /\ manifests' = manifests
        /\ \A id \in Known : mark[id] = "visited"
        /\ at' = <<"failed">> \/ (at' = <<"write">> /\ diagnostics = {})
    BY DEF EndCompile
  <1>3. /\ Known' = Known
        /\ \A k : Requires(k)' = Requires(k) /\ Conflicts(k)' = Conflicts(k) /\ OnCycle(k)' = OnCycle(k)
    BY <1>2, GraphSame
  <1>4. (\E id \in Known : <<"CYCLE_DETECTED", id>> \in diagnostics) <=> \E id \in Known : OnCycle(id)
    <2>1. CASE ~Quiet
      BY <1>1, <2>1 DEF Search, Reported
    <2>2. CASE Quiet
      <3>1. Unlooped
        BY <1>1, <2>2 DEF Search, Explored
      <3>2. ASSUME NEW id \in Known, OnCycle(id) PROVE FALSE
        <4>0. PICK n \in 1 .. Cardinality(Known) : \E chain \in [1 .. n + 1 -> Known] :
                chain[1] = id /\ chain[n + 1] = id /\ \A i \in 1 .. n : chain[i + 1] \in Requires(chain[i])
          BY <3>2, Zenon DEF OnCycle
        <4>1. PICK chain \in [1 .. n + 1 -> Known] :
                chain[1] = id /\ chain[n + 1] = id /\ \A i \in 1 .. n : chain[i + 1] \in Requires(chain[i])
          BY <4>0, Zenon
        <4>2. n \in Nat \ {0}
          BY FS_CardinalityType DEF CompilerInv
        <4>3. Loops(chain, n)
          BY <4>1 DEF Loops
        <4>4. QED
          BY <1>2, <3>1, <4>1, <4>2, <4>3 DEF Unlooped
      <3>3. QED
        BY <2>2, <3>2 DEF Quiet
    <2>3. QED
      BY <2>1, <2>2
  <1>5. ASSUME diagnostics = {}, NEW id \in Known, NEW r \in Requires(id)
        PROVE  r \in Known /\ r \notin Conflicts(id) /\ id \notin Conflicts(r)
    <2>1. Pairwise = {}
      BY <1>1, <1>5 DEF Search
    <2>2. Requires(id) \ Known = {}
      <3>1. <<"UNKNOWN_DEPENDENCY", id>> \notin Pairwise
        BY <2>1
      <3>2. QED
        BY <3>1 DEF Pairwise
    <2>3. r \notin Conflicts(id) /\ ~(r \in Known /\ id \in Conflicts(r))
      <3>1. <<"CONFLICT_VIOLATION", id>> \notin Pairwise
        BY <2>1
      <3>2. QED
        BY <3>1 DEF Pairwise
    <2>4. QED
      BY <2>2, <2>3
  <1>6. at'[1] = "write" => diagnostics = {}
    BY <1>2
  <1>7. QED
    BY <1>2, <1>3, <1>4, <1>5, <1>6 DEF GraphIsSound

(* A directory adds an id, and no report of a cycle.                         *)
LEMMA Scans ==
  ASSUME CompilerInv, ScanDirectory
  PROVE  IsFiniteSet(Known)' /\ ids' \in Seq(Known') /\ Quiet' /\ at'[1] = "scan" /\ at' # <<"search">>
  <1>1. at[1] = "scan" /\ at' = <<"scan", at[2] + 1>> /\ Quiet /\ IsFiniteSet(Known) /\ ids \in Seq(Known)
    BY DEF CompilerInv, ScanDirectory
  <1>2. ASSUME NEW id, NEW i, Keep(id, i) PROVE IsFiniteSet(Known)' /\ ids' \in Seq(Known')
    <2>1. Known' = Known \cup {id}
      BY <1>2 DEF Keep, Known
    <2>2. IsFiniteSet(Known \cup {id})
      BY <1>1, FS_AddElement
    <2>3. ids \in Seq(Known \cup {id})
      BY <1>1
    <2>4. ids' = ids \/ ids' = Append(ids, id)
      BY <1>2 DEF Keep
    <2>5. Append(ids, id) \in Seq(Known \cup {id})
      BY <2>3, AppendProperties
    <2>6. QED
      BY <2>1, <2>2, <2>3, <2>4, <2>5
  <1>3. \A d : "CYCLE_DETECTED" \notin Flaws(d)
    <2>1. \A r : "CYCLE_DETECTED" \notin RuleFlaws(r)
      BY DEF RuleFlaws
    <2>2. TAKE d
    <2>3. "CYCLE_DETECTED" \notin UNION {RuleFlaws(d.rules[i]) : i \in DOMAIN d.rules}
      BY <2>1
    <2>4. QED
      BY <2>3 DEF Flaws
  <1> DEFINE d == dirs[at[2]]
  <1>4. CASE d.manifest = None /\ Keep(d.dir, at[2]) /\ diagnostics' = diagnostics
    BY <1>1, <1>2, <1>4 DEF Quiet
  <1>5. CASE /\ diagnostics' = diagnostics \cup {<<"PARSE_ERROR", d.dir>>}
             /\ manifests' = manifests /\ ids' = ids
    BY <1>1, <1>5 DEF Quiet, Known
  <1>6. CASE /\ Keep(IdOf(d), at[2])
             /\ diagnostics' = diagnostics
                    \cup (IF IdOf(d) \in DOMAIN manifests THEN {<<"DUPLICATE_ID", IdOf(d)>>} ELSE {})
                    \cup {<<code, IdOf(d)>> : code \in Flaws(d)}
    <2>1. \A id : <<"CYCLE_DETECTED", id>> \notin {<<code, IdOf(d)>> : code \in Flaws(d)}
      BY <1>3
    <2>2. Quiet'
      BY <1>1, <1>6, <2>1 DEF Quiet
    <2>3. QED
      BY <1>1, <1>2, <1>6, <2>2
  <1>7. QED
    BY <1>4, <1>5, <1>6 DEF ScanDirectory

(* Away from the end of a compilation nothing is said of the graph.          *)
LEMMA Unended ==
  ASSUME at'[1] # "write", at'[1] # "failed"
  PROVE  GraphIsSound'
  BY DEF GraphIsSound

(* A tag tells a step from the search.                                       *)
LEMMA Unsearched ==
  ASSUME at'[1] # "search"
  PROVE  at' # <<"search">>
  OBVIOUS

(* A step inside the search.                                                 *)
LEMMA InSearch ==
  ASSUME CompilerInv, at = <<"search">>, at' = at, dirs' = dirs, manifests' = manifests, ids' = ids,
         written' = written, compiled' = compiled, Search'
  PROVE  CompilerInv'
  <1>1. at'[1] = "search"
    OBVIOUS
  <1>2. Known' = Known
    BY GraphSame
  <1>3. GraphIsSound'
    BY <1>1, Unended
  <1>4. (written # <<>> => MadeFrom)'
    BY DEF CompilerInv, MadeFrom
  <1>5. QED
    BY <1>1, <1>2, <1>3, <1>4 DEF CompilerInv

(* A dependency is passed or visited.                                        *)
LEMMA Takes ==
  ASSUME CompilerInv, NextDependency
  PROVE  Search'
  <1>1. Search /\ stack # <<>> /\ dirs' = dirs /\ manifests' = manifests
    BY DEF CompilerInv, NextDependency
  <1>2. PICK dep \in Last(stack).left : Pass(dep) \/ Enter(dep)
    BY DEF NextDependency, Pass, Enter, Taken
  <1>3. CASE Pass(dep)
    BY <1>1, <1>2, <1>3, Passes DEF CompilerInv
  <1>4. CASE Enter(dep)
    BY <1>1, <1>2, <1>4, Enters DEF CompilerInv
  <1>5. QED
    BY <1>2, <1>3, <1>4

(* A compilation starts with nothing known.                                  *)
LEMMA Starts ==
  ASSUME CompilerInv, StartCompile
  PROVE  CompilerInv'
  <1>1. /\ at' = <<"scan", 1>> /\ manifests' = <<>> /\ ids' = <<>> /\ diagnostics' = {}
        /\ written' = written /\ compiled' = compiled
    BY DEF StartCompile
  <1>2. Known' = {}
    BY <1>1 DEF Known
  <1>3. IsFiniteSet(Known)' /\ ids' \in Seq(Known')
    BY <1>1, <1>2, FS_EmptySet
  <1>4. at'[1] = "scan" /\ Quiet'
    BY <1>1 DEF Quiet
  <1>5. GraphIsSound' /\ at' # <<"search">>
    BY <1>4, Unended, Unsearched
  <1>6. (written # <<>> => MadeFrom)'
    BY <1>1 DEF CompilerInv, MadeFrom
  <1>7. QED
    BY <1>3, <1>4, <1>5, <1>6 DEF CompilerInv

(* What is compiled holds the hash of every known skill.                     *)
LEMMA Ends ==
  ASSUME CompilerInv, EndCompile
  PROVE  CompilerInv'
  <1>1. /\ dirs' = dirs /\ manifests' = manifests /\ ids' = ids /\ edition' = edition
        /\ written' = written /\ compiled' = compiled
        /\ \/ at' = <<"failed">>
           \/ at' = <<"write">> /\ registry' = <<[skills |-> [id \in Known |-> Hash(id)],
                              dependencyGraph |-> [id \in Known |-> Requires(id)],
                              rulesOf |-> [id \in Known |-> Rules(id)],
                              aliases |-> AliasTable, rules |-> RuleTable]>>
    BY DEF EndCompile
  <1>2. Known' = Known
    BY <1>1, GraphSame
  <1>3. (at[1] = "write" => Compiled)'
    <2>1. \A id : Hash(id)' = Hash(id)
      BY <1>1 DEF Hash, Manifest
    <2>2. CASE at' = <<"failed">>
      BY <2>2
    <2>3. CASE at' = <<"write">>
      <3>1. /\ registry' # <<>>
            /\ registry'[1].skills = [id \in Known |-> Hash(id)]
        BY <1>1, <2>3
      <3>2. QED
        BY <1>2, <2>1, <3>1 DEF Compiled
    <2>4. QED
      BY <1>1, <2>2, <2>3
  <1>4. at'[1] # "scan" /\ at' # <<"search">>
    BY <1>1
  <1>5. (written # <<>> => MadeFrom)'
    BY <1>1 DEF CompilerInv, MadeFrom
  <1>6. QED
    BY <1>1, <1>2, <1>3, <1>4, <1>5, Ended DEF CompilerInv

(* A file that is written holds the hashes of the skills as they are.        *)
LEMMA Writes ==
  ASSUME CompilerInv, WriteRegistry
  PROVE  CompilerInv'
  <1>1. /\ at = <<"write">> /\ at' = <<"idle">> /\ Compiled
        /\ dirs' = dirs /\ manifests' = manifests /\ ids' = ids
    BY DEF CompilerInv, WriteRegistry
  <1>2. Known' = Known
    BY <1>1, GraphSame
  <1>3. (written # <<>> => MadeFrom)'
    <2>1. CASE written' = written /\ compiled' = compiled
      BY <2>1 DEF CompilerInv, MadeFrom
    <2>2. CASE written' = registry /\ compiled' = edition
      <3>1. registry[1].skills = [id \in Known |-> Hash(id)]
        BY <1>1 DEF Compiled
      <3>2. SUFFICES ASSUME NEW id \in Known
                     PROVE  Hash(id) = <<>> \/ \E i : Hash(id) = <<i, edition[i]>>
        BY <2>2, <3>1 DEF MadeFrom
      <3>3. QED
        BY DEF Hash
    <2>3. QED
      BY <2>1, <2>2 DEF WriteRegistry
  <1>4. at'[1] = "idle"
    BY <1>1
  <1>5. GraphIsSound' /\ at' # <<"search">>
    BY <1>4, Unended, Unsearched
  <1>6. QED
    BY <1>1, <1>2, <1>3, <1>4, <1>5 DEF CompilerInv

(* The compiler before its first run.                                        *)
LEMMA CompilerStarts == CompilerInit(Trees) => CompilerInv
  <1> SUFFICES ASSUME CompilerInit(Trees) PROVE CompilerInv
    OBVIOUS
  <1>1. at = <<"idle">> /\ manifests = <<>> /\ ids = <<>> /\ written = <<>>
    BY DEF CompilerInit
  <1>2. Known = {}
    BY <1>1 DEF Known
  <1>3. IsFiniteSet(Known) /\ ids \in Seq(Known)
    BY <1>1, <1>2, FS_EmptySet
  <1>4. at[1] = "idle"
    BY <1>1
  <1>5. GraphIsSound /\ at # <<"search">>
    BY <1>4 DEF GraphIsSound
  <1>6. QED
    BY <1>1, <1>3, <1>4, <1>5 DEF CompilerInv

(* Between two steps of the compiler; the user edits a file, or nothing      *)
(* happens.                                                                  *)
LEMMA Resting ==
  ASSUME CompilerInv, at' = at, dirs' = dirs, manifests' = manifests, ids' = ids,
         diagnostics' = diagnostics, mark' = mark, stack' = stack, registry' = registry,
         written' = written, compiled' = compiled, edition' = edition \/ at[1] = "idle"
  PROVE  CompilerInv'
  <1>1. /\ Known' = Known /\ Pairwise' = Pairwise /\ Frames' = Frames
        /\ \A k : Deps(k)' = Deps(k) /\ OnCycle(k)' = OnCycle(k)
                 /\ Requires(k)' = Requires(k) /\ Conflicts(k)' = Conflicts(k)
        /\ \A chain, n : Loops(chain, n)' = Loops(chain, n)
    BY GraphSame
  <1>2. GraphIsSound'
    BY <1>1 DEF CompilerInv, GraphIsSound
  <1>3. (written # <<>> => MadeFrom)'
    BY DEF CompilerInv, MadeFrom
  <1>4. (at[1] = "write" => Compiled)'
    <2> SUFFICES ASSUME at[1] = "write" PROVE Compiled'
      OBVIOUS
    <2>1. edition' = edition /\ Compiled
      BY DEF CompilerInv
    <2>2. \A id : Hash(id)' = Hash(id)
      BY <2>1 DEF Hash, Manifest
    <2>3. QED
      BY <1>1, <2>1, <2>2 DEF Compiled
  <1>5. (at = <<"search">> => Search)'
    <2> SUFFICES ASSUME at = <<"search">> PROVE Search'
      OBVIOUS
    <2>1. Search
      BY DEF CompilerInv
    <2>2. SearchTypes'
      BY <1>1, <2>1 DEF Search, SearchTypes, Marks
    <2>3. Nested'
      BY <1>1, <2>1 DEF Search, Nested
    <2>4. Quiet' <=> Quiet
      BY DEF Quiet
    <2>5. Reported'
      BY <1>1, <2>1, <2>4 DEF Search, Reported
    <2>6. Explored'
      <3>1. Seen => Seen'
        BY <1>1 DEF Seen
      <3>2. VisitedClosed => VisitedClosed'
        BY <1>1 DEF VisitedClosed
      <3>3. Unlooped => Unlooped'
        BY <1>1 DEF Unlooped
      <3>4. QED
        BY <2>1, <2>4, <3>1, <3>2, <3>3 DEF Search, Explored
    <2>7. QED
      BY <1>1, <2>1, <2>2, <2>3, <2>5, <2>6 DEF Search
  <1>6. (at[1] = "scan" => Quiet)'
    BY DEF CompilerInv, Quiet
  <1>7. QED
    BY <1>1, <1>2, <1>3, <1>4, <1>5, <1>6 DEF CompilerInv

(* Every step keeps the invariant.                                           *)
LEMMA CompilerInductive == CompilerInv /\ [CompilerNext]_compilerVars => CompilerInv'
  <1> SUFFICES ASSUME CompilerInv, [CompilerNext]_compilerVars PROVE CompilerInv'
    OBVIOUS
  <1>1. CASE StartCompile
    BY <1>1, Starts
  <1>2. CASE ScanDirectory
    <2>1. /\ IsFiniteSet(Known)' /\ ids' \in Seq(Known') /\ Quiet' /\ at'[1] = "scan" /\ at' # <<"search">>
          /\ written' = written /\ compiled' = compiled
      BY <1>2, Scans DEF ScanDirectory
    <2>2. GraphIsSound'
      BY <2>1, Unended
    <2>3. (written # <<>> => MadeFrom)'
      BY <2>1 DEF CompilerInv, MadeFrom
    <2>4. QED
      BY <2>1, <2>2, <2>3 DEF CompilerInv
  <1>12. CASE ThrowAtDirectory
    <2>1. /\ at' = <<"thrown">> /\ dirs' = dirs /\ manifests' = manifests /\ ids' = ids
          /\ written' = written /\ compiled' = compiled
      BY <1>12 DEF ThrowAtDirectory
    <2>2. at'[1] = "thrown" /\ Known' = Known
      BY <2>1 DEF Known
    <2>3. GraphIsSound'
      BY <2>2, Unended
    <2>4. (written # <<>> => MadeFrom)'
      BY <2>1 DEF CompilerInv, MadeFrom
    <2>5. QED
      BY <2>1, <2>2, <2>3, <2>4, Unsearched DEF CompilerInv
  <1>3. CASE StartSearch
    <2>1. /\ Search' /\ at' = <<"search">> /\ dirs' = dirs /\ manifests' = manifests /\ ids' = ids
          /\ written' = written /\ compiled' = compiled
      BY <1>3, SearchStarts DEF StartSearch
    <2>2. at'[1] = "search" /\ Known' = Known
      BY <2>1, GraphSame
    <2>3. GraphIsSound'
      BY <2>2, Unended
    <2>4. (written # <<>> => MadeFrom)'
      BY <2>1 DEF CompilerInv, MadeFrom
    <2>5. QED
      BY <2>1, <2>2, <2>3, <2>4 DEF CompilerInv
  <1>4. CASE SearchFrom
    BY <1>4, SearchFromKeeps, InSearch DEF SearchFrom
  <1>5. CASE NextDependency
    BY <1>5, Takes, InSearch DEF NextDependency
  <1>6. CASE LeaveSkill
    BY <1>6, Leaves, InSearch DEF LeaveSkill
  <1>7. CASE EndCompile
    BY <1>7, Ends
  <1>8. CASE WriteRegistry
    BY <1>8, Writes
  <1>9. CASE \E i \in DOMAIN dirs : TouchSkill(i)
    <2>1. PICK i \in DOMAIN dirs : TouchSkill(i)
      BY <1>9
    <2>2. /\ at = <<"idle">> /\ at' = at /\ dirs' = dirs /\ manifests' = manifests /\ ids' = ids
          /\ diagnostics' = diagnostics /\ mark' = mark /\ stack' = stack /\ registry' = registry
          /\ written' = written /\ compiled' = compiled
      BY <2>1 DEF TouchSkill
    <2>3. at[1] = "idle"
      BY <2>2
    <2>4. QED
      BY <2>2, <2>3, Resting
  <1>10. CASE UNCHANGED compilerVars
    BY <1>10, Resting DEF compilerVars
  <1>11. QED
    BY <1>1, <1>2, <1>3, <1>4, <1>5, <1>6, <1>7, <1>8, <1>9, <1>10, <1>12 DEF CompilerNext

(* For any directories: the depth-first search keeps its marks and its stack *)
(* right in every order of the dependencies, and the file holds the hashes   *)
(* of the skills it was made from (manifest-compiler.js:587, 618).           *)
THEOREM CompilerInvariance == CompilerSpec => []CompilerInv
  BY CompilerStarts, CompilerInductive, PTL DEF CompilerSpec

(* For any directories, in any order of their requirements: a cycle is       *)
(* reported if and only if the requirements have one, and a registry that is *)
(* compiled is closed under them and free of conflicts in them (manifest-    *)
(* compiler.js:559, 593).                                                    *)
THEOREM GraphSoundness == CompilerSpec => []GraphIsSound
  <1>1. CompilerInv => GraphIsSound
    BY DEF CompilerInv
  <1>2. QED
    BY <1>1, CompilerInvariance, PTL

(* For any directories and edits: when the check calls registry.v2.json up   *)
(* to date, it was made from the skills as they are, but for those without a *)
(* manifest (validate.js, manifest-compiler.js:733).                         *)
THEOREM StalenessDetection == CompilerSpec => []StaleIsSeen
  <1>1. ASSUME CompilerInv PROVE StaleIsSeen
    <2> SUFFICES ASSUME at[1] = "write", written # <<>>, registry = written,
                        NEW id \in Known, Manifest(id).manifest # None
                 PROVE  compiled[manifests[id]] = edition[manifests[id]]
      BY DEF StaleIsSeen
    <2>1. registry[1].skills = [k \in Known |-> Hash(k)] /\ MadeFrom
      BY <1>1 DEF CompilerInv, Compiled
    <2>2. Hash(id) = <<manifests[id], edition[manifests[id]]>>
      BY DEF Hash
    <2>3. \E i : Hash(id) = <<i, compiled[i]>>
      <3>1. id \in DOMAIN written[1].skills /\ written[1].skills[id] = Hash(id)
        BY <2>1
      <3>2. Hash(id) # <<>>
        BY <2>2
      <3>3. QED
        BY <2>1, <3>1, <3>2 DEF MadeFrom
    <2>4. QED
      BY <2>2, <2>3
  <1>2. QED
    BY <1>1, CompilerInvariance, PTL

-----------------------------------------------------------------------------
(* Every directory up to the n-th has its id in the registry, but for one    *)
(* that was reported; what is not reported has no flaws.                     *)
Filed(n) ==
    /\ \A k \in Known : /\ manifests[k] \in DOMAIN dirs /\ IdOf(Manifest(k)) = k
                        /\ Manifest(k).manifest \in {"valid", None}
    /\ diagnostics = {} =>
          /\ \A k \in Known : Manifest(k).manifest = "valid" => Flaws(Manifest(k)) = {}
          /\ \A i \in 1 .. n : /\ IdOf(dirs[i]) \in Known
                               /\ manifests[IdOf(dirs[i])] = i \/ Manifest(IdOf(dirs[i])).manifest = None

(* The tables of a registry are of the skills in it: the last one in lexical *)
(* order that declares a rule, one that has an alias.                        *)
Tables(reg) ==
    /\ DOMAIN reg.skills = Known
    /\ \A k \in Known : reg.rulesOf[k] = Rules(k)
    /\ \A r \in DOMAIN reg.rules :
          /\ reg.rules[r] \in Known /\ r \in Declared(Rules(reg.rules[r]))
          /\ \A k \in Known : r \in Declared(Rules(k)) => Rank(k) <= Rank(reg.rules[r])
    /\ \A k \in Known : k \in AliasesOf(Manifest(reg.aliases[k]))

(* The inductive invariant from the directories to the registry.             *)
FilingInv ==
    /\ dirs \in Trees
    /\ at[1] = "scan" => /\ at[2] \in 1 .. Len(dirs) + 1 /\ at = <<"scan", at[2]>>
                         /\ Filed(at[2] - 1)
    /\ at[1] = "search" => Filed(Len(dirs))
    /\ at[1] = "write" => Filed(Len(dirs)) /\ diagnostics = {} /\ Tables(registry[1])

(* The loop over the rules of a skill, after n of them.                      *)
Registers(g, catalog, rs, skill, n) ==
    g = [k \in 0 .. n |-> IF k = 0 THEN catalog ELSE Register(g[k - 1], rs[k], skill)]

(* It exists, by a least number of rules for which it does not.              *)
LEMMA RegistersUpTo ==
  ASSUME NEW catalog, NEW rs, NEW skill, NEW n \in Nat
  PROVE  \E g : Registers(g, catalog, rs, skill, n)
  <1> DEFINE Bad == {k \in Nat : ~\E g : Registers(g, catalog, rs, skill, k)}
  <1>1. SUFFICES ASSUME Bad # {} PROVE FALSE
    OBVIOUS
  <1>2. PICK k \in Bad : \A q \in Bad : k <= q
    <2>1. Bad \in SUBSET Nat
      OBVIOUS
    <2> HIDE DEF Bad
    <2>2. QED
      BY <1>1, <2>1, LeastOf
  <1>3. k # 0
    <2>1. Registers([i \in 0 .. 0 |-> catalog], catalog, rs, skill, 0)
      BY DEF Registers
    <2>2. QED
      BY <2>1
  <1>4. k - 1 \in Nat /\ k - 1 \notin Bad /\ (k - 1) + 1 = k
    BY <1>2, <1>3
  <1>5. PICK m \in Nat : m = k - 1 /\ k = m + 1
    BY <1>4
  <1>6. PICK g : Registers(g, catalog, rs, skill, m)
    BY <1>4, <1>5
  <1> DEFINE h == [i \in 0 .. m + 1 |-> IF i <= m THEN g[i] ELSE Register(g[m], rs[m + 1], skill)]
  <1>7. \A i \in 0 .. m : g[i] = IF i = 0 THEN catalog ELSE Register(g[i - 1], rs[i], skill)
    BY <1>6 DEF Registers
  <1>8. ASSUME NEW i \in 0 .. m + 1
        PROVE  h[i] = IF i = 0 THEN catalog ELSE Register(h[i - 1], rs[i], skill)
    <2>1. CASE i = m + 1
      <3>1. h[i - 1] = g[m] /\ h[i] = Register(g[m], rs[m + 1], skill)
        BY <2>1
      <3>2. QED
        BY <2>1, <3>1
    <2>2. CASE i # m + 1 /\ i # 0
      <3>1. i - 1 \in 0 .. m /\ i \in 0 .. m
        BY <2>2
      <3>2. h[i - 1] = g[i - 1] /\ h[i] = g[i]
        BY <3>1
      <3>3. QED
        BY <1>7, <2>2, <3>1, <3>2
    <2>3. CASE i = 0
      BY <1>7, <2>3
    <2>4. QED
      BY <2>1, <2>2, <2>3
  <1>9. Registers(h, catalog, rs, skill, m + 1)
    BY <1>8 DEF Registers
  <1>10. QED
    BY <1>2, <1>5, <1>9

(* RegisterAll is its last value.                                            *)
Registering(g, catalog, rs, skill) ==
    /\ RegisterAll(catalog, rs, skill) = g[Len(rs)] /\ g[0] = catalog
    /\ \A n \in 1 .. Len(rs) : g[n] = Register(g[n - 1], rs[n], skill)

LEMMA RegisterAllUnfolds ==
  ASSUME NEW catalog, NEW rs, NEW skill, Len(rs) \in Nat
  PROVE  \E g : Registering(g, catalog, rs, skill)
  <1> DEFINE after == CHOOSE g : g = [n \in 0 .. Len(rs) |->
                          IF n = 0 THEN catalog ELSE Register(g[n - 1], rs[n], skill)]
  <1>1. \E g : g = [n \in 0 .. Len(rs) |-> IF n = 0 THEN catalog ELSE Register(g[n - 1], rs[n], skill)]
    <2>1. \E g : Registers(g, catalog, rs, skill, Len(rs))
      BY RegistersUpTo, Zenon
    <2>2. QED
      BY <2>1, Zenon DEF Registers
  <1>2. after = [n \in 0 .. Len(rs) |-> IF n = 0 THEN catalog ELSE Register(after[n - 1], rs[n], skill)]
    BY <1>1, Zenon
  <1>3. RegisterAll(catalog, rs, skill) = after[Len(rs)]
    BY Zenon DEF RegisterAll
  <1> HIDE DEF after
  <1>4. after[0] = catalog
    BY <1>2
  <1>5. \A n \in 1 .. Len(rs) : after[n] = Register(after[n - 1], rs[n], skill)
    BY <1>2
  <1>6. QED
    BY <1>3, <1>4, <1>5 DEF Registering

(* A rule that may be registered is the skill's; the others stay.            *)
Accepted(r) == ~(IsEnforced(r) /\ r.checker # "known")

LEMMA RegisterIs ==
  ASSUME NEW catalog, NEW r, NEW skill, NEW id
  PROVE  /\ id = r.id /\ Accepted(r) => /\ id \in DOMAIN Register(catalog, r, skill)
                                        /\ Register(catalog, r, skill)[id].sourceSkill = skill
         /\ id # r.id /\ id \in DOMAIN catalog => /\ id \in DOMAIN Register(catalog, r, skill)
                                                  /\ Register(catalog, r, skill)[id] = catalog[id]
  BY DEF Register, Accepted, Normalized

(* So it is with all rules of a skill.                                       *)
LEMMA RegisterAllIs ==
  ASSUME NEW catalog, NEW rs, NEW skill, NEW id, Len(rs) \in Nat, DOMAIN rs = 1 .. Len(rs),
         \A n \in 1 .. Len(rs) : Accepted(rs[n]),
         id \in Declared(rs) \/ (id \in DOMAIN catalog /\ catalog[id].sourceSkill = skill)
  PROVE  /\ id \in DOMAIN RegisterAll(catalog, rs, skill)
         /\ RegisterAll(catalog, rs, skill)[id].sourceSkill = skill
  <1>1. PICK g : /\ RegisterAll(catalog, rs, skill) = g[Len(rs)] /\ g[0] = catalog
                 /\ \A n \in 1 .. Len(rs) : g[n] = Register(g[n - 1], rs[n], skill)
    <2>1. PICK g : Registering(g, catalog, rs, skill)
      BY RegisterAllUnfolds
    <2>2. QED
      BY <2>1 DEF Registering
  <1>2. PICK N \in Nat : N = Len(rs)
    OBVIOUS
  <1> DEFINE There(n) == id \in DOMAIN g[n] /\ g[n][id].sourceSkill = skill
  <1>3. PICK j \in 0 .. N : There(j)
    <2>1. CASE id \in Declared(rs)
      <3>1. PICK j \in 1 .. N : rs[j].id = id
        BY <1>2, <2>1 DEF Declared
      <3>2. There(j)
        BY <1>1, <1>2, <3>1, RegisterIs
      <3>3. QED
        BY <3>2
    <2>2. CASE id \in DOMAIN catalog /\ catalog[id].sourceSkill = skill
      BY <1>1, <2>2
    <2>3. QED
      BY <2>1, <2>2
  <1>4. ASSUME NEW n \in 1 .. N, There(n - 1) PROVE There(n)
    <2>1. g[n] = Register(g[n - 1], rs[n], skill) /\ Accepted(rs[n])
      BY <1>1, <1>2
    <2>2. CASE rs[n].id = id
      BY <2>1, <2>2, RegisterIs
    <2>3. CASE rs[n].id # id
      BY <1>4, <2>1, <2>3, RegisterIs
    <2>4. QED
      BY <2>2, <2>3
  <1>5. ASSUME ~There(N) PROVE FALSE
    <2> DEFINE wrong == {n \in j .. N : ~There(n)}
    <2> HIDE DEF There
    <2>1. wrong \in SUBSET Nat /\ wrong # {}
      BY <1>5
    <2>2. PICK n \in wrong : \A k \in wrong : n <= k
      BY <2>1, LeastOf
    <2>3. n \in j .. N /\ n # j /\ ~There(n)
      BY <1>3, <2>2
    <2>4. n \in 1 .. N /\ n - 1 \in j .. N /\ ~(n <= n - 1)
      BY <2>3
    <2>5. There(n - 1)
      BY <2>2, <2>4
    <2>6. QED
      BY <1>4, <2>3, <2>4, <2>5
  <1>6. QED
    BY <1>1, <1>2, <1>5

(* A rule that a skill does not declare stays.                               *)
LEMMA RegisterAllLeaves ==
  ASSUME NEW catalog, NEW rs, NEW skill, NEW id, Len(rs) \in Nat, DOMAIN rs = 1 .. Len(rs),
         id \notin Declared(rs), id \in DOMAIN catalog
  PROVE  /\ id \in DOMAIN RegisterAll(catalog, rs, skill)
         /\ RegisterAll(catalog, rs, skill)[id] = catalog[id]
  <1>1. PICK g : /\ RegisterAll(catalog, rs, skill) = g[Len(rs)] /\ g[0] = catalog
                 /\ \A n \in 1 .. Len(rs) : g[n] = Register(g[n - 1], rs[n], skill)
    <2>1. PICK g : Registering(g, catalog, rs, skill)
      BY RegisterAllUnfolds
    <2>2. QED
      BY <2>1 DEF Registering
  <1>2. PICK N \in Nat : N = Len(rs)
    OBVIOUS
  <1> DEFINE There(n) == id \in DOMAIN g[n] /\ g[n][id] = catalog[id]
  <1>3. There(0)
    BY <1>1
  <1>4. ASSUME NEW n \in 1 .. N, There(n - 1) PROVE There(n)
    <2>1. g[n] = Register(g[n - 1], rs[n], skill) /\ rs[n].id # id
      BY <1>1, <1>2 DEF Declared
    <2>2. QED
      BY <1>4, <2>1, RegisterIs
  <1>5. ASSUME ~There(N) PROVE FALSE
    <2> DEFINE wrong == {n \in 0 .. N : ~There(n)}
    <2> HIDE DEF There
    <2>1. wrong \in SUBSET Nat /\ wrong # {}
      BY <1>5
    <2>2. PICK n \in wrong : \A k \in wrong : n <= k
      BY <2>1, LeastOf
    <2>3. n \in 1 .. N /\ n - 1 \in 0 .. N /\ ~(n <= n - 1)
      BY <1>3, <2>2
    <2>4. There(n - 1)
      BY <2>2, <2>3
    <2>5. QED
      BY <1>4, <2>2, <2>3, <2>4
  <1>6. QED
    BY <1>1, <1>2, <1>5

(* The loop over the skills, after n names.                                  *)
Loaded(c, reg, n) ==
    IF NameOrder[n] \in DOMAIN reg.skills THEN RegisterAll(c, reg.rulesOf[NameOrder[n]], NameOrder[n]) ELSE c
Loads(g, reg, n) == g = [k \in 0 .. n |-> IF k = 0 THEN Builtin ELSE Loaded(g[k - 1], reg, k)]

(* It exists, too.                                                           *)
LEMMA LoadsUpTo ==
  ASSUME NEW reg, NEW n \in Nat
  PROVE  \E g : Loads(g, reg, n)
  <1> DEFINE Bad == {k \in Nat : ~\E g : Loads(g, reg, k)}
  <1>1. SUFFICES ASSUME Bad # {} PROVE FALSE
    OBVIOUS
  <1>2. PICK k \in Bad : \A q \in Bad : k <= q
    <2>1. Bad \in SUBSET Nat
      OBVIOUS
    <2> HIDE DEF Bad
    <2>2. QED
      BY <1>1, <2>1, LeastOf
  <1>3. k # 0
    <2>1. Loads([i \in 0 .. 0 |-> Builtin], reg, 0)
      BY DEF Loads
    <2>2. QED
      BY <2>1
  <1>4. k - 1 \in Nat /\ k - 1 \notin Bad /\ (k - 1) + 1 = k
    BY <1>2, <1>3
  <1>5. PICK m \in Nat : m = k - 1 /\ k = m + 1
    BY <1>4
  <1>6. PICK g : Loads(g, reg, m)
    BY <1>4, <1>5
  <1> DEFINE h == [i \in 0 .. m + 1 |-> IF i <= m THEN g[i] ELSE Loaded(g[m], reg, m + 1)]
  <1>7. \A i \in 0 .. m : g[i] = IF i = 0 THEN Builtin ELSE Loaded(g[i - 1], reg, i)
    BY <1>6 DEF Loads
  <1>8. ASSUME NEW i \in 0 .. m + 1
        PROVE  h[i] = IF i = 0 THEN Builtin ELSE Loaded(h[i - 1], reg, i)
    <2>1. CASE i = m + 1
      <3>1. h[i - 1] = g[m] /\ h[i] = Loaded(g[m], reg, m + 1)
        BY <2>1
      <3>2. QED
        BY <2>1, <3>1
    <2>2. CASE i # m + 1 /\ i # 0
      <3>1. i - 1 \in 0 .. m /\ i \in 0 .. m
        BY <2>2
      <3>2. h[i - 1] = g[i - 1] /\ h[i] = g[i]
        BY <3>1
      <3>3. QED
        BY <1>7, <2>2, <3>1, <3>2
    <2>3. CASE i = 0
      BY <1>7, <2>3
    <2>4. QED
      BY <2>1, <2>2, <2>3
  <1>9. Loads(h, reg, m + 1)
    BY <1>8 DEF Loads
  <1>10. QED
    BY <1>2, <1>5, <1>9

(* Catalog is its last value.                                                *)
Loading(g, reg) ==
    /\ Catalog(reg) = g[Len(NameOrder)] /\ g[0] = Builtin
    /\ \A n \in 1 .. Len(NameOrder) : g[n] = Loaded(g[n - 1], reg, n)

LEMMA CatalogUnfolds ==
  ASSUME NEW reg
  PROVE  \E g : Loading(g, reg)
  <1>0. Len(NameOrder) \in Nat
    BY CompilerAssumption
  <1> DEFINE after == CHOOSE g : g = [n \in 0 .. Len(NameOrder) |->
                          IF n = 0 THEN Builtin
                          ELSE IF NameOrder[n] \in DOMAIN reg.skills
                               THEN RegisterAll(g[n - 1], reg.rulesOf[NameOrder[n]], NameOrder[n])
                               ELSE g[n - 1]]
  <1>1. \E g : g = [n \in 0 .. Len(NameOrder) |->
                          IF n = 0 THEN Builtin
                          ELSE IF NameOrder[n] \in DOMAIN reg.skills
                               THEN RegisterAll(g[n - 1], reg.rulesOf[NameOrder[n]], NameOrder[n])
                               ELSE g[n - 1]]
    <2>1. \E g : Loads(g, reg, Len(NameOrder))
      BY <1>0, LoadsUpTo, Zenon
    <2>2. QED
      BY <2>1, Zenon DEF Loads, Loaded
  <1>2. after = [n \in 0 .. Len(NameOrder) |->
                          IF n = 0 THEN Builtin
                          ELSE IF NameOrder[n] \in DOMAIN reg.skills
                               THEN RegisterAll(after[n - 1], reg.rulesOf[NameOrder[n]], NameOrder[n])
                               ELSE after[n - 1]]
    BY <1>1, Zenon
  <1>3. Catalog(reg) = after[Len(NameOrder)]
    BY Zenon DEF Catalog
  <1> HIDE DEF after
  <1>4. after[0] = Builtin
    BY <1>0, <1>2
  <1>5. \A n \in 1 .. Len(NameOrder) : after[n] = Loaded(after[n - 1], reg, n)
    BY <1>0, <1>2 DEF Loaded
  <1>6. QED
    BY <1>3, <1>4, <1>5 DEF Loading

(* The place of a name in the lexical order.                                 *)
LEMMA RankIs ==
  /\ Len(NameOrder) \in Nat
  /\ \A id \in Name : Rank(id) \in 1 .. Len(NameOrder) /\ NameOrder[Rank(id)] = id
  /\ \A i \in 1 .. Len(NameOrder) : NameOrder[i] \in Name /\ Rank(NameOrder[i]) = i
  <1>1. /\ Len(NameOrder) \in Nat /\ DOMAIN NameOrder = 1 .. Len(NameOrder)
        /\ \A i, j \in DOMAIN NameOrder : NameOrder[i] = NameOrder[j] => i = j
    BY CompilerAssumption DEF IsInjective
  <1>2. Name = {NameOrder[i] : i \in DOMAIN NameOrder}
    BY DEF Name, ToSet
  <1>3. ASSUME NEW id \in Name PROVE Rank(id) \in DOMAIN NameOrder /\ NameOrder[Rank(id)] = id
    BY <1>2 DEF Rank
  <1>4. ASSUME NEW i \in DOMAIN NameOrder PROVE NameOrder[i] \in Name /\ Rank(NameOrder[i]) = i
    <2>1. NameOrder[i] \in Name
      BY <1>2
    <2>2. Rank(NameOrder[i]) \in DOMAIN NameOrder /\ NameOrder[Rank(NameOrder[i])] = NameOrder[i]
      BY <1>3, <2>1, Zenon
    <2>3. QED
      BY <1>1, <2>1, <2>2, Zenon
  <1>5. QED
    BY <1>1, <1>3, <1>4

(* A directory of a tree.                                                    *)
LEMMA DirectoryIs ==
  ASSUME dirs \in Trees
  PROVE  /\ Len(dirs) \in Nat /\ DOMAIN dirs = 1 .. Len(dirs)
         /\ \A i \in DOMAIN dirs :
               /\ DirOK(dirs[i]) /\ dirs[i].manifest \in {"valid", "unreadable", None}
               /\ IdOf(dirs[i]) \in Name
               /\ dirs[i].manifest = None => IdOf(dirs[i]) = dirs[i].dir
               /\ Len(dirs[i].rules) \in Nat /\ DOMAIN dirs[i].rules = 1 .. Len(dirs[i].rules)
  <1>1. /\ Len(dirs) \in Nat /\ DOMAIN dirs = 1 .. Len(dirs) /\ \A i \in DOMAIN dirs : DirOK(dirs[i])
    BY CompilerAssumption
  <1>2. ASSUME NEW d, DirOK(d)
        PROVE  /\ d.manifest \in {"valid", "unreadable", None} /\ IdOf(d) \in Name
               /\ d.manifest = None => IdOf(d) = d.dir
               /\ Len(d.rules) \in Nat /\ DOMAIN d.rules = 1 .. Len(d.rules)
    <2>1. /\ d.manifest \in {"valid", "unreadable", None} /\ d.dir \in Name /\ d.id \in Name \cup {None}
          /\ d.manifest = None => d.id = None
      BY <1>2 DEF DirOK
    <2>2. d.rules \in Seq(Rule)
      BY <1>2 DEF DirOK
    <2>3. Len(d.rules) \in Nat /\ DOMAIN d.rules = 1 .. Len(d.rules)
      BY <2>2
    <2>4. QED
      BY <2>1, <2>3 DEF IdOf
  <1>3. QED
    BY <1>1, <1>2

(* The rules of a skill of a compilation without diagnostics: all of them    *)
(* are registered.                                                           *)
LEMMA RulesAccepted ==
  ASSUME dirs \in Trees, Filed(Len(dirs)), diagnostics = {}, NEW k \in Known
  PROVE  /\ k \in Name /\ Len(Rules(k)) \in Nat /\ DOMAIN Rules(k) = 1 .. Len(Rules(k))
         /\ \A n \in 1 .. Len(Rules(k)) : Accepted(Rules(k)[n])
  <1>1. /\ manifests[k] \in DOMAIN dirs /\ IdOf(Manifest(k)) = k /\ Manifest(k).manifest \in {"valid", None}
        /\ Manifest(k).manifest = "valid" => Flaws(Manifest(k)) = {}
    BY DEF Filed
  <1>2. k \in Name /\ Len(Manifest(k).rules) \in Nat /\ DOMAIN Manifest(k).rules = 1 .. Len(Manifest(k).rules)
    BY <1>1, DirectoryIs DEF Manifest
  <1>3. CASE Manifest(k).manifest = None
    <2>1. Rules(k) = <<>>
      BY <1>3 DEF Rules
    <2>2. QED
      BY <1>2, <2>1
  <1>4. CASE Manifest(k).manifest = "valid"
    <2>1. Rules(k) = Manifest(k).rules
      BY <1>4 DEF Rules, None
    <2>2. UNION {RuleFlaws(Manifest(k).rules[i]) : i \in DOMAIN Manifest(k).rules} = {}
      BY <1>1, <1>4 DEF Flaws
    <2>3. ASSUME NEW n \in DOMAIN Manifest(k).rules PROVE Accepted(Manifest(k).rules[n])
      <3>1. RuleFlaws(Manifest(k).rules[n]) = {}
        BY <2>2
      <3>2. QED
        BY <3>1 DEF RuleFlaws, Accepted, IsEnforced
    <2>4. QED
      BY <1>2, <2>1, <2>3
  <1>5. QED
    BY <1>1, <1>3, <1>4

(* Every rule of the table is in the catalogue, as the rule of the skill     *)
(* that the table names: that skill registers it, and no later one does.     *)
LEMMA CatalogIs ==
  ASSUME dirs \in Trees, Filed(Len(dirs)), diagnostics = {}, NEW reg, Tables(reg), NEW r \in DOMAIN reg.rules
  PROVE  Catalog(reg)[r].sourceSkill = reg.rules[r]
  <1>1. PICK s : s = reg.rules[r]
    OBVIOUS
  <1>2. /\ DOMAIN reg.skills = Known /\ \A k \in Known : reg.rulesOf[k] = Rules(k)
        /\ s \in Known /\ r \in Declared(Rules(s))
        /\ \A k \in Known : r \in Declared(Rules(k)) => Rank(k) <= Rank(s)
    BY <1>1 DEF Tables
  <1>3. PICK N \in Nat : N = Len(NameOrder)
    BY RankIs
  <1>4. PICK g : /\ Catalog(reg) = g[N] /\ g[0] = Builtin
                 /\ \A n \in 1 .. N : g[n] = Loaded(g[n - 1], reg, n)
    <2>1. PICK g : Loading(g, reg)
      BY CatalogUnfolds
    <2>2. QED
      BY <1>3, <2>1 DEF Loading
  <1>5. s \in Name
    BY <1>2, RulesAccepted
  <1>6. PICK m \in 1 .. N : m = Rank(s) /\ NameOrder[m] = s
    BY <1>3, <1>5, RankIs
  <1> DEFINE There(n) == r \in DOMAIN g[n] /\ g[n][r].sourceSkill = s
  <1>7. There(m)
    <2>1. g[m] = RegisterAll(g[m - 1], Rules(s), s)
      BY <1>2, <1>4, <1>6 DEF Loaded
    <2>2. /\ Len(Rules(s)) \in Nat /\ DOMAIN Rules(s) = 1 .. Len(Rules(s))
          /\ \A n \in 1 .. Len(Rules(s)) : Accepted(Rules(s)[n])
      BY <1>2, RulesAccepted
    <2>3. QED
      BY <1>2, <2>1, <2>2, RegisterAllIs
  <1>8. ASSUME NEW n \in m + 1 .. N, There(n - 1) PROVE There(n)
    <2>1. n \in 1 .. N /\ ~(n <= m)
      BY <1>6
    <2>2. g[n] = Loaded(g[n - 1], reg, n)
      BY <1>4, <2>1
    <2>3. CASE NameOrder[n] \notin Known
      BY <1>2, <1>8, <2>2, <2>3 DEF Loaded
    <2>4. CASE NameOrder[n] \in Known
      <3>1. PICK k \in Known : k = NameOrder[n]
        BY <2>4
      <3>2. g[n] = RegisterAll(g[n - 1], Rules(k), k)
        BY <1>2, <2>2, <3>1 DEF Loaded
      <3>3. Rank(k) = n
        BY <1>3, <2>1, <3>1, RankIs
      <3>4. r \notin Declared(Rules(k))
        BY <1>2, <1>6, <2>1, <3>3
      <3>5. Len(Rules(k)) \in Nat /\ DOMAIN Rules(k) = 1 .. Len(Rules(k))
        BY RulesAccepted
      <3>6. QED
        BY <1>8, <3>2, <3>4, <3>5, RegisterAllLeaves
    <2>5. QED
      BY <2>3, <2>4
  <1>9. ASSUME ~There(N) PROVE FALSE
    <2> DEFINE wrong == {n \in m .. N : ~There(n)}
    <2> HIDE DEF There
    <2>1. wrong \in SUBSET Nat /\ wrong # {}
      BY <1>9
    <2>2. PICK n \in wrong : \A k \in wrong : n <= k
      BY <2>1, LeastOf
    <2>3. n \in m .. N /\ n # m /\ ~There(n)
      BY <1>7, <2>2
    <2>4. n \in m + 1 .. N /\ n - 1 \in m .. N /\ ~(n <= n - 1)
      BY <2>3
    <2>5. There(n - 1)
      BY <2>2, <2>4
    <2>6. QED
      BY <1>8, <2>3, <2>4, <2>5
  <1>10. QED
    BY <1>1, <1>4, <1>9

(* The tables that are made of the known skills: the skill that a rule is    *)
(* said to be of is the last that declares it.                               *)
LEMMA Tabled ==
  ASSUME dirs \in Trees, Filed(Len(dirs)), NEW reg, DOMAIN reg.skills = Known,
         reg.rulesOf = [id \in Known |-> Rules(id)], reg.aliases = AliasTable, reg.rules = RuleTable
  PROVE  Tables(reg)
  <1>1. \A k \in Known : /\ manifests[k] \in DOMAIN dirs /\ IdOf(Manifest(k)) = k
    BY DEF Filed
  <1>2. \A k \in Known : k \in Name
    BY <1>1, DirectoryIs DEF Manifest
  <1>3. PICK N \in Nat : N = Len(NameOrder)
    BY RankIs
  <1>4. \A k \in Known : Rank(k) \in 1 .. N
    BY <1>2, <1>3, RankIs
  <1>5. ASSUME NEW r \in UNION {Declared(Rules(id)) : id \in Known}
        PROVE  \E id \in Known : /\ r \in Declared(Rules(id))
                                 /\ \A k \in Known : r \in Declared(Rules(k)) => Rank(k) <= Rank(id)
    <2> DEFINE By == {id \in Known : r \in Declared(Rules(id))}
               Below == {N - Rank(id) : id \in By}
    <2>1. By # {}
      BY <1>5
    <2>2. Below \in SUBSET Nat /\ Below # {}
      BY <1>4, <2>1
    <2> HIDE DEF Below
    <2>3. PICK x \in Below : \A y \in Below : x <= y
      BY <2>2, LeastOf
    <2>4. PICK id \in By : x = N - Rank(id)
      BY DEF Below
    <2>5. ASSUME NEW k \in By PROVE Rank(k) <= Rank(id)
      <3>1. N - Rank(id) <= N - Rank(k)
        BY <2>3, <2>4 DEF Below
      <3>2. Rank(k) \in 1 .. N /\ Rank(id) \in 1 .. N
        BY <1>4
      <3>3. QED
        BY <3>1, <3>2
    <2>6. QED
      BY <2>5
  <1>6. ASSUME NEW a \in Known
        PROVE  \E id \in Known : /\ a \in AliasesOf(Manifest(id))
                                 /\ \A k \in Known : a \in AliasesOf(Manifest(k)) => Rank(id) <= Rank(k)
    <2> DEFINE By == {id \in Known : a \in AliasesOf(Manifest(id))}
               Ranks == {Rank(id) : id \in By}
    <2>1. a \in By
      BY <1>1 DEF AliasesOf
    <2>2. Ranks \in SUBSET Nat /\ Ranks # {}
      BY <1>4, <2>1
    <2> HIDE DEF Ranks
    <2>3. PICK x \in Ranks : \A y \in Ranks : x <= y
      BY <2>2, LeastOf
    <2>4. PICK id \in By : x = Rank(id)
      BY DEF Ranks
    <2>5. ASSUME NEW k \in By PROVE Rank(id) <= Rank(k)
      BY <2>3, <2>4 DEF Ranks
    <2>6. QED
      BY <2>5
  <1>7. ASSUME NEW r \in DOMAIN reg.rules
        PROVE  /\ reg.rules[r] \in Known /\ r \in Declared(Rules(reg.rules[r]))
               /\ \A k \in Known : r \in Declared(Rules(k)) => Rank(k) <= Rank(reg.rules[r])
    <2>1. r \in UNION {Declared(Rules(id)) : id \in Known}
      BY DEF RuleTable
    <2>2. reg.rules[r] = CHOOSE id \in Known :
              /\ r \in Declared(Rules(id))
              /\ \A k \in Known : r \in Declared(Rules(k)) => Rank(k) <= Rank(id)
      BY <2>1 DEF RuleTable
    <2>3. QED
      BY <1>5, <2>1, <2>2, Zenon
  <1>8. ASSUME NEW a \in Known
        PROVE  a \in AliasesOf(Manifest(reg.aliases[a]))
    <2>1. a \in UNION {AliasesOf(Manifest(id)) : id \in Known}
      BY <1>1 DEF AliasesOf
    <2>2. reg.aliases[a] = CHOOSE id \in Known :
              /\ a \in AliasesOf(Manifest(id))
              /\ \A k \in Known : a \in AliasesOf(Manifest(k)) => Rank(id) <= Rank(k)
      BY <2>1 DEF AliasTable
    <2>3. QED
      BY <1>6, <2>2, Zenon
  <1>9. QED
    BY <1>7, <1>8 DEF Tables

(* What is filed depends on the directories and the manifests; a diagnostic  *)
(* more promises less.                                                       *)
LEMMA FiledGrows ==
  ASSUME NEW n, Filed(n), dirs' = dirs, manifests' = manifests, diagnostics \subseteq diagnostics'
  PROVE  Filed(n)'
  <1>1. Known' = Known /\ \A k : Manifest(k)' = Manifest(k)
    BY DEF Known, Manifest
  <1>2. diagnostics' = {} => diagnostics = {}
    OBVIOUS
  <1>3. QED
    BY <1>1, <1>2 DEF Filed

(* A directory is filed, or reported.                                        *)
LEMMA Files ==
  ASSUME FilingInv, ScanDirectory
  PROVE  FilingInv'
  <1>1. PICK i \in 1 .. Len(dirs) : i = at[2] /\ at'= <<"scan", i + 1>>
    <2>1. at[2] \in 1 .. Len(dirs) + 1 /\ at[2] <= Len(dirs)
      BY DEF FilingInv, ScanDirectory
    <2>2. Len(dirs) \in Nat
      BY DirectoryIs DEF FilingInv
    <2>3. at[2] \in 1 .. Len(dirs)
      BY <2>1, <2>2
    <2>4. QED
      BY <2>3 DEF ScanDirectory
  <1>2. dirs \in Trees /\ dirs' = dirs /\ Filed(i - 1)
    BY <1>1 DEF FilingInv, ScanDirectory
  <1>3. PICK n \in Nat : n = Len(dirs)
    BY <1>2, DirectoryIs
  <1>4. PICK d : d = dirs[i]
    OBVIOUS
  <1>5. /\ i \in DOMAIN dirs /\ d.manifest = None => IdOf(d) = d.dir
    BY <1>2, <1>4, DirectoryIs
  <1>6. Filed(i)'
    <2>1. CASE Unparsed(d)
      <3>1. /\ diagnostics' = diagnostics \cup {<<"PARSE_ERROR", d.dir>>}
            /\ manifests' = manifests
        BY <1>1, <1>4, <2>1 DEF ScanDirectory, Unparsed, None
      <3>2. Filed(i - 1)'
        BY <1>2, <3>1, FiledGrows
      <3>3. diagnostics' # {}
        BY <3>1
      <3>4. QED
        BY <3>2, <3>3 DEF Filed
    <2>2. CASE ~Unparsed(d)
      <3>1. PICK id : id = IdOf(d)
        OBVIOUS
      <3>2. /\ Keep(id, i) /\ diagnostics \subseteq diagnostics' /\ d.manifest \in {"valid", None}
            /\ d.manifest = "valid" => /\ id \in Known => diagnostics' # {}
                                       /\ Flaws(d) # {} => diagnostics' # {}
        <4>1. CASE d.manifest = None
          BY <1>1, <1>4, <1>5, <2>2, <3>1, <4>1 DEF ScanDirectory, Unparsed, None
        <4>2. CASE d.manifest # None
          <5>1. /\ d.manifest = "valid" /\ Keep(id, i)
                /\ diagnostics' = diagnostics
                      \cup (IF id \in DOMAIN manifests THEN {<<"DUPLICATE_ID", id>>} ELSE {})
                      \cup {<<code, id>> : code \in Flaws(d)}
            BY <1>1, <1>4, <2>2, <3>1, <4>2 DEF ScanDirectory, Unparsed
          <5>2. Flaws(d) # {} => {<<code, id>> : code \in Flaws(d)} # {}
            OBVIOUS
          <5>3. QED
            BY <5>1, <5>2 DEF Known
        <4>3. QED
          BY <4>1, <4>2
      <3>3. /\ Known' = Known \cup {id}
            /\ manifests'[id] = i /\ \A k \in Known : k # id => manifests'[k] = manifests[k]
        BY <3>2 DEF Keep, Known
      <3>4. /\ Manifest(id)' = d /\ \A k \in Known : k # id => Manifest(k)' = Manifest(k)
        BY <1>2, <1>4, <3>3 DEF Manifest
      <3>5. ASSUME NEW k \in Known'
            PROVE  manifests'[k] \in DOMAIN dirs /\ IdOf(Manifest(k)') = k /\ Manifest(k)'.manifest \in {"valid", None}
        BY <1>2, <1>5, <3>1, <3>2, <3>3, <3>4 DEF Filed
      <3>6. ASSUME diagnostics' = {}, NEW k \in Known', Manifest(k)'.manifest = "valid"
            PROVE  Flaws(Manifest(k)') = {}
        <4>1. diagnostics = {}
          BY <3>2, <3>6
        <4>2. CASE k = id
          BY <3>2, <3>4, <3>6, <4>2
        <4>3. CASE k # id
          BY <1>2, <3>3, <3>4, <3>6, <4>1, <4>3 DEF Filed
        <4>4. QED
          BY <4>2, <4>3
      <3>7. ASSUME diagnostics' = {}, NEW j \in 1 .. i
            PROVE  \E k : /\ k = IdOf(dirs[j]) /\ k \in Known'
                          /\ manifests'[k] = j \/ Manifest(k)'.manifest = None
        <4>1. diagnostics = {}
          BY <3>2, <3>7
        <4>2. CASE j = i
          BY <1>4, <3>1, <3>3, <4>2
        <4>3. CASE j # i
          <5>1. j \in 1 .. i - 1
            BY <4>3
          <5>2. PICK k : k = IdOf(dirs[j])
            OBVIOUS
          <5>3. k \in Known /\ (manifests[k] = j \/ Manifest(k).manifest = None)
            BY <1>2, <4>1, <5>1, <5>2 DEF Filed
          <5>4. CASE k = id
            BY <3>2, <3>3, <3>4, <3>7, <5>2, <5>3, <5>4
          <5>5. CASE k # id
            BY <3>3, <3>4, <5>2, <5>3, <5>5
          <5>6. QED
            BY <5>4, <5>5
        <4>4. QED
          BY <4>2, <4>3
      <3>8. QED
        BY <1>2, <3>5, <3>6, <3>7 DEF Filed, Manifest
    <2>3. QED
      BY <2>1, <2>2
  <1>7. /\ at'[1] = "scan" /\ at'[2] = i + 1 /\ at' = <<"scan", at'[2]>>
        /\ i + 1 \in 1 .. n + 1 /\ (i + 1) - 1 = i
    BY <1>1, <1>3
  <1>8. (Filed(at[2] - 1))'
    BY <1>6, <1>7 DEF Filed
  <1>9. QED
    BY <1>2, <1>3, <1>7, <1>8 DEF FilingInv

(* Away from the scan, the search and the end there is nothing to show.      *)
LEMMA FilingRests ==
  ASSUME FilingInv, dirs' = dirs, at'[1] \notin {"scan", "search", "write"}
  PROVE  FilingInv'
  BY DEF FilingInv

(* A step of the search: nothing is filed, a diagnostic may be added.        *)
LEMMA FilingSearches ==
  ASSUME FilingInv, at = <<"search">>, at' = at, dirs' = dirs, manifests' = manifests,
         diagnostics \subseteq diagnostics'
  PROVE  FilingInv'
  <1>1. at[1] = "search" /\ at'[1] = "search"
    OBVIOUS
  <1>2. PICK n : n = Len(dirs)
    OBVIOUS
  <1>3. Filed(n)'
    BY <1>1, <1>2, FiledGrows DEF FilingInv
  <1>4. Filed(Len(dirs))'
    BY <1>2, <1>3 DEF Filed
  <1>5. QED
    BY <1>1, <1>4 DEF FilingInv

(* The end of the search: the registry is made of what was filed.            *)
LEMMA FilingEnds ==
  ASSUME FilingInv, EndCompile
  PROVE  FilingInv'
  <1>1. /\ at = <<"search">> /\ dirs' = dirs /\ manifests' = manifests /\ diagnostics' = diagnostics
        /\ \/ at' = <<"failed">>
           \/ /\ at' = <<"write">> /\ diagnostics = {}
              /\ registry' = <<[skills |-> [id \in Known |-> Hash(id)],
                              dependencyGraph |-> [id \in Known |-> Requires(id)],
                              rulesOf |-> [id \in Known |-> Rules(id)],
                              aliases |-> AliasTable, rules |-> RuleTable]>>
    BY DEF EndCompile
  <1>2. CASE at' = <<"failed">>
    <2>1. at'[1] \notin {"scan", "search", "write"}
      BY <1>2
    <2>2. QED
      BY <1>1, <2>1, FilingRests
  <1>3. CASE at' = <<"write">>
    <2>1. at[1] = "search" /\ at'[1] = "write" /\ diagnostics' = {}
      BY <1>1, <1>3
    <2>2. dirs \in Trees /\ Filed(Len(dirs))
      BY <2>1 DEF FilingInv
    <2>3. PICK reg : reg = [skills |-> [id \in Known |-> Hash(id)],
                            dependencyGraph |-> [id \in Known |-> Requires(id)],
                            rulesOf |-> [id \in Known |-> Rules(id)],
                            aliases |-> AliasTable, rules |-> RuleTable]
      OBVIOUS
    <2>4. /\ DOMAIN reg.skills = Known /\ reg.rulesOf = [id \in Known |-> Rules(id)]
          /\ reg.aliases = AliasTable /\ reg.rules = RuleTable
      BY <2>3
    <2>5. Tables(reg)
      BY <2>2, <2>4, Tabled
    <2>6. registry' = <<reg>>
      BY <1>1, <1>3, <2>3
    <2>7. registry'[1] = reg
      BY <2>6
    <2>8. Filed(Len(dirs))'
      BY <1>1, <2>2 DEF Filed, Known, Manifest
    <2>9. Tables(registry[1])'
      <3>1. /\ Known' = Known
            /\ \A k : Manifest(k)' = Manifest(k) /\ Rules(k)' = Rules(k)
        BY <1>1 DEF Known, Rules, Manifest
      <3>2. QED
        BY <2>5, <2>7, <3>1 DEF Tables
    <2>10. QED
      BY <1>1, <2>1, <2>2, <2>8, <2>9 DEF FilingInv
  <1>4. QED
    BY <1>1, <1>2, <1>3

(* Nothing is filed before the first compilation.                            *)
LEMMA FilingStarts == CompilerInit(Trees) => FilingInv
  <1> SUFFICES ASSUME CompilerInit(Trees) PROVE FilingInv
    OBVIOUS
  <1>1. dirs \in Trees /\ at = <<"idle">>
    BY DEF CompilerInit
  <1>2. at[1] = "idle"
    BY <1>1
  <1>3. QED
    BY <1>1, <1>2 DEF FilingInv

(* Every step keeps it.                                                      *)
LEMMA FilingInductive == FilingInv /\ [CompilerNext]_compilerVars => FilingInv'
  <1> SUFFICES ASSUME FilingInv, [CompilerNext]_compilerVars PROVE FilingInv'
    OBVIOUS
  <1>0. PICK n \in Nat : n = Len(dirs)
    BY DirectoryIs DEF FilingInv
  <1>1. CASE StartCompile
    <2>1. at' = <<"scan", 1>> /\ manifests' = <<>> /\ dirs' = dirs
      BY <1>1 DEF StartCompile
    <2>2. at'[1] = "scan" /\ at'[2] = 1 /\ at' = <<"scan", at'[2]>> /\ 1 \in 1 .. n + 1 /\ 1 .. 1 - 1 = {}
      BY <2>1
    <2>3. Known' = {}
      BY <2>1 DEF Known
    <2>4. (Filed(at[2] - 1))'
      BY <2>2, <2>3 DEF Filed
    <2>5. QED
      BY <1>0, <2>1, <2>2, <2>4 DEF FilingInv
  <1>2. CASE ScanDirectory
    BY <1>2, Files
  <1>12. CASE ThrowAtDirectory
    <2>1. at' = <<"thrown">> /\ dirs' = dirs
      BY <1>12 DEF ThrowAtDirectory
    <2>2. at'[1] \notin {"scan", "search", "write"}
      BY <2>1
    <2>3. QED
      BY <2>1, <2>2, FilingRests
  <1>3. CASE StartSearch
    <2>1. /\ at = <<"scan", n + 1>> /\ at' = <<"search">> /\ dirs' = dirs /\ manifests' = manifests
          /\ diagnostics \subseteq diagnostics'
      BY <1>0, <1>3 DEF StartSearch
    <2>2. at[1] = "scan" /\ at[2] - 1 = n /\ at'[1] = "search"
      BY <2>1
    <2>3. Filed(n)
      BY <2>2 DEF FilingInv
    <2>4. Filed(n)'
      BY <2>1, <2>3, FiledGrows
    <2>5. Filed(Len(dirs))'
      BY <1>0, <2>1, <2>4 DEF Filed
    <2>6. QED
      BY <2>1, <2>2, <2>5 DEF FilingInv
  <1>4. CASE SearchFrom
    BY <1>4, FilingSearches DEF SearchFrom
  <1>5. CASE NextDependency
    <2>1. /\ at = <<"search">> /\ at' = at /\ dirs' = dirs /\ manifests' = manifests
          /\ diagnostics \subseteq diagnostics'
      BY <1>5 DEF NextDependency
    <2>2. QED
      BY <2>1, FilingSearches
  <1>6. CASE LeaveSkill
    BY <1>6, FilingSearches DEF LeaveSkill
  <1>7. CASE EndCompile
    BY <1>7, FilingEnds
  <1>8. CASE WriteRegistry
    <2>1. at' = <<"idle">> /\ dirs' = dirs
      BY <1>8 DEF WriteRegistry
    <2>2. at'[1] \notin {"scan", "search", "write"}
      BY <2>1
    <2>3. QED
      BY <2>1, <2>2, FilingRests
  <1>9. CASE \E i \in DOMAIN dirs : TouchSkill(i)
    <2>1. at' = <<"idle">> /\ dirs' = dirs
      BY <1>9 DEF TouchSkill
    <2>2. at'[1] \notin {"scan", "search", "write"}
      BY <2>1
    <2>3. QED
      BY <2>1, <2>2, FilingRests
  <1>10. CASE UNCHANGED compilerVars
    BY <1>10 DEF compilerVars, FilingInv, Filed, Tables, Known, Manifest, Rules
  <1>11. QED
    BY <1>1, <1>2, <1>3, <1>4, <1>5, <1>6, <1>7, <1>8, <1>9, <1>10, <1>12 DEF CompilerNext

(* For any directories: every directory is filed under its id or reported,   *)
(* and the tables of a registry name the last skill that declares a rule     *)
(* (manifest-compiler.js:691, 819).                                          *)
THEOREM FilingInvariance == CompilerSpec => []FilingInv
  BY FilingStarts, FilingInductive, PTL DEF CompilerSpec

(* For any directories: a registry that is compiled holds every directory,   *)
(* its rules are in force in the catalogue as those of the skill it names,   *)
(* and its ids lead to their skills (manifest-compiler.js:718, 819, rule-    *)
(* catalog.js:358).                                                          *)
THEOREM RegistryComplete == CompilerSpec => []RegistryIsComplete
  <1>1. ASSUME FilingInv PROVE RegistryIsComplete
    <2> SUFFICES ASSUME at[1] = "write" PROVE RegistryIsComplete
      BY DEF RegistryIsComplete
    <2>1. PICK reg : reg = registry[1]
      OBVIOUS
    <2>2. dirs \in Trees /\ Filed(Len(dirs)) /\ diagnostics = {} /\ Tables(reg)
      BY <1>1, <2>1 DEF FilingInv
    <2>3. ASSUME NEW i \in DOMAIN dirs
          PROVE  LET id == IF dirs[i].manifest = None THEN dirs[i].dir ELSE IdOf(dirs[i])
                 IN id \in DOMAIN reg.skills
                    /\ (manifests[id] = i \/ dirs[manifests[id]].manifest = None)
      <3>1. PICK id : id = IF dirs[i].manifest = None THEN dirs[i].dir ELSE IdOf(dirs[i])
        OBVIOUS
      <3>2. id = IdOf(dirs[i]) /\ i \in 1 .. Len(dirs)
        BY <2>2, <3>1, DirectoryIs
      <3>3. id \in Known /\ (manifests[id] = i \/ Manifest(id).manifest = None)
        BY <2>2, <3>2 DEF Filed
      <3>4. DOMAIN reg.skills = Known
        BY <2>2 DEF Tables
      <3>5. QED
        BY <3>1, <3>3, <3>4 DEF Manifest
    <2>4. \A r \in DOMAIN reg.rules : Catalog(reg)[r].sourceSkill = reg.rules[r]
      BY <2>2, CatalogIs
    <2>5. \A id \in Known : id \in AliasesOf(Manifest(reg.aliases[id]))
      BY <2>2 DEF Tables
    <2>6. QED
      BY <2>1, <2>3, <2>4, <2>5 DEF RegistryIsComplete
  <1>2. QED
    BY <1>1, FilingInvariance, PTL

-----------------------------------------------------------------------------
(* Sequences of names.                                                       *)
Path == Seq(STRING)

(* A prefix, by its elements.                                                *)
LEMMA PrefixOf ==
  ASSUME NEW s \in Path, NEW t \in Path
  PROVE  IsPrefix(s, t) <=> Len(s) <= Len(t) /\ \A k \in 1 .. Len(s) : s[k] = t[k]
  <1>1. CASE Len(s) <= Len(t)
    <2>1. /\ SubSeq(s, 1, Len(s)) \in Seq(STRING) /\ Len(SubSeq(s, 1, Len(s))) = Len(s)
          /\ \A k \in 1 .. Len(s) : SubSeq(s, 1, Len(s))[k] = s[k]
      BY SubSeqProperties DEF Path
    <2>2. /\ SubSeq(t, 1, Len(s)) \in Seq(STRING) /\ Len(SubSeq(t, 1, Len(s))) = Len(s)
          /\ \A k \in 1 .. Len(s) : SubSeq(t, 1, Len(s))[k] = t[k]
      BY <1>1, SubSeqProperties DEF Path
    <2>3. SubSeq(s, 1, Len(s)) = SubSeq(t, 1, Len(s)) <=> \A k \in 1 .. Len(s) : s[k] = t[k]
      <3> DEFINE u == SubSeq(s, 1, Len(s))  v == SubSeq(t, 1, Len(s))
      <3> HIDE DEF u, v
      <3>1. u \in Seq(STRING) /\ Len(u) = Len(s) /\ v \in Seq(STRING) /\ Len(v) = Len(s)
        BY <2>1, <2>2 DEF u, v
      <3>2. (\A k \in 1 .. Len(s) : u[k] = v[k]) => u = v
        BY <3>1, SeqEqual
      <3>3. u = v <=> \A k \in 1 .. Len(s) : u[k] = v[k]
        BY <3>2
      <3>4. QED
        BY <2>1, <2>2, <3>3 DEF u, v
    <2>4. QED
      BY <1>1, <2>3 DEF IsPrefix
  <1>2. CASE ~(Len(s) <= Len(t))
    BY <1>2 DEF IsPrefix
  <1>3. QED
    BY <1>1, <1>2

(* Equal sequences have the same elements.                                   *)
LEMMA SamePath ==
  ASSUME NEW s \in Path, NEW t \in Path, Len(s) = Len(t), \A k \in 1 .. Len(s) : s[k] = t[k]
  PROVE  s = t
  BY SeqEqual DEF Path

(* A path and a name, and back.                                              *)
LEMMA AppendPath ==
  ASSUME NEW s \in Path, NEW name \in STRING
  PROVE  /\ Append(s, name) \in Path /\ Len(Append(s, name)) = Len(s) + 1
         /\ \A k \in 1 .. Len(s) : Append(s, name)[k] = s[k]
         /\ Append(s, name)[Len(s) + 1] = name
         /\ Front(Append(s, name)) = s /\ Last(Append(s, name)) = name
  <1>0. /\ Append(s, name) \in Path /\ Len(Append(s, name)) = Len(s) + 1
        /\ \A k \in 1 .. Len(s) : Append(s, name)[k] = s[k]
        /\ Append(s, name)[Len(s) + 1] = name
    <2>1. s \in Seq(STRING)
      BY DEF Path
    <2>2. ASSUME NEW S, NEW t \in Seq(S), NEW c \in S
          PROVE  /\ Append(t, c) \in Seq(S) /\ Len(Append(t, c)) = Len(t) + 1
                 /\ \A k \in 1 .. Len(t) : Append(t, c)[k] = t[k]
                 /\ Append(t, c)[Len(t) + 1] = c
      BY AppendProperties
    <2>3. QED
      BY <2>1, <2>2, Zenon DEF Path
  <1>1. PICK a : /\ a = Append(s, name) /\ a \in Path /\ Len(a) = Len(s) + 1
                 /\ \A k \in 1 .. Len(s) : a[k] = s[k]
                 /\ a[Len(s) + 1] = name
    BY <1>0
  <1>2. PICK n \in Nat : n = Len(s)
    BY DEF Path
  <1>3. Last(a) = name
    BY <1>1 DEF Last
  <1>4. Front(a) = SubSeq(a, 1, n)
    BY <1>1, <1>2 DEF Front
  <1>5. /\ SubSeq(a, 1, n) \in Path /\ Len(SubSeq(a, 1, n)) = n
        /\ \A k \in 1 .. n : SubSeq(a, 1, n)[k] = a[k]
    <2>1. \A k \in 1 .. n : a[k] \in STRING
      BY <1>1, <1>2 DEF Path
    <2>2. n - 1 + 1 = n /\ (1 <= n \/ n = 0) /\ \A k \in 1 .. n : 1 + k - 1 = k
      OBVIOUS
    <2>3. QED
      BY <2>1, <2>2, SubSeqProperties DEF Path
  <1>6. SubSeq(a, 1, n) = s
    BY <1>1, <1>2, <1>5, SamePath
  <1>7. QED
    BY <1>1, <1>3, <1>4, <1>6

(* A path is its front and its last name.                                    *)
LEMMA FrontLast ==
  ASSUME NEW d \in Path, Len(d) > 1
  PROVE  /\ Front(d) \in Path /\ Len(Front(d)) = Len(d) - 1
         /\ \A k \in 1 .. Len(d) - 1 : Front(d)[k] = d[k]
         /\ Last(d) \in STRING /\ Last(d) = d[Len(d)] /\ d = Append(Front(d), Last(d))
  <1>1. /\ Front(d) \in Path /\ Len(Front(d)) = Len(d) - 1
        /\ \A k \in 1 .. Len(d) - 1 : Front(d)[k] = d[k]
    BY SubSeqProperties DEF Path, Front
  <1>2. Last(d) \in STRING /\ Last(d) = d[Len(d)]
    BY DEF Last, Path
  <1>3. d = Append(Front(d), Last(d))
    <2> DEFINE e == Append(Front(d), Last(d))
    <2>1. /\ e \in Path /\ Len(e) = Len(Front(d)) + 1
          /\ \A k \in 1 .. Len(Front(d)) : e[k] = Front(d)[k]
          /\ e[Len(Front(d)) + 1] = Last(d)
      BY <1>1, <1>2, AppendPath
    <2> HIDE DEF e
    <2>2. Len(d) \in Nat
      BY DEF Path
    <2>3. Len(e) = Len(d) /\ \A k \in 1 .. Len(d) : k \in 1 .. Len(d) - 1 \/ k = Len(d)
      BY <1>1, <2>1, <2>2
    <2>4. \A k \in 1 .. Len(d) : e[k] = d[k]
      BY <1>1, <1>2, <2>1, <2>2, <2>3
    <2>5. e = d
      BY <2>1, <2>3, <2>4, SamePath
    <2>6. QED
      BY <2>5 DEF e
  <1>4. QED
    BY <1>1, <1>2, <1>3

(* A path from the root on.                                                  *)
LEMMA RelativePath ==
  ASSUME root \in Path, NEW d \in Path, Len(root) <= Len(d)
  PROVE  /\ Relative(d) \in Path /\ Len(Relative(d)) = Len(d) - Len(root)
         /\ \A k \in 1 .. Len(d) - Len(root) : Relative(d)[k] = d[Len(root) + k]
  <1>1. PICK m \in Nat, n \in Nat : m = Len(root) /\ n = Len(d)
    BY DEF Path
  <1>2. CASE m < n
    <2>1. /\ SubSeq(d, m + 1, n) \in Seq(STRING) /\ Len(SubSeq(d, m + 1, n)) = n - (m + 1) + 1
          /\ \A k \in 1 .. n - (m + 1) + 1 : SubSeq(d, m + 1, n)[k] = d[m + 1 + k - 1]
      BY <1>1, <1>2, SubSeqProperties DEF Path
    <2>2. n - (m + 1) + 1 = n - m /\ \A k \in 1 .. n - m : m + 1 + k - 1 = m + k
      OBVIOUS
    <2>3. QED
      BY <1>1, <2>1, <2>2 DEF Relative, Path
  <1>3. CASE m = n
    <2>1. SubSeq(d, m + 1, n) = <<>>
      BY <1>1, <1>3, SubSeqProperties DEF Path
    <2>2. QED
      BY <1>1, <1>3, <2>1 DEF Relative, Path
  <1>4. QED
    BY <1>1, <1>2, <1>3

(* A name more.                                                              *)
LEMMA RelativeAppend ==
  ASSUME root \in Path, NEW d \in Path, Len(root) <= Len(d), NEW name \in STRING
  PROVE  Relative(Append(d, name)) = Append(Relative(d), name)
  <1> DEFINE e == Append(d, name)  r == Relative(d)
  <1>1. PICK m \in Nat, n \in Nat : m = Len(root) /\ n = Len(d) /\ m <= n
    BY DEF Path
  <1>2. e \in Path /\ Len(e) = n + 1 /\ (\A k \in 1 .. n : e[k] = d[k]) /\ e[n + 1] = name
    BY <1>1, AppendPath
  <1>3. r \in Path /\ Len(r) = n - m /\ \A k \in 1 .. n - m : r[k] = d[m + k]
    BY <1>1, RelativePath
  <1> HIDE DEF e, r
  <1>4. /\ Relative(e) \in Path /\ Len(Relative(e)) = n + 1 - m
        /\ \A k \in 1 .. n + 1 - m : Relative(e)[k] = e[m + k]
    BY <1>1, <1>2, RelativePath
  <1>5. /\ Append(r, name) \in Path /\ Len(Append(r, name)) = n - m + 1
        /\ \A k \in 1 .. n - m : Append(r, name)[k] = r[k]
        /\ Append(r, name)[n - m + 1] = name
    <2>1. n - m \in Nat
      BY <1>1
    <2>2. PICK q : q = n - m
      OBVIOUS
    <2>3. r \in Path /\ Len(r) = q
      BY <1>3, <2>2
    <2>4. /\ Append(r, name) \in Path /\ Len(Append(r, name)) = Len(r) + 1
          /\ \A k \in 1 .. Len(r) : Append(r, name)[k] = r[k]
          /\ Append(r, name)[Len(r) + 1] = name
      BY <2>3, AppendPath
    <2>5. QED
      BY <2>2, <2>3, <2>4
  <1>6. n + 1 - m = n - m + 1 /\ n - m \in Nat
    BY <1>1
  <1>7. \A k \in 1 .. n + 1 - m : k \in 1 .. n - m \/ (k = n - m + 1 /\ m + k = n + 1)
    BY <1>1
  <1>8. \A k \in 1 .. n - m : m + k \in 1 .. n
    BY <1>1
  <1>9. \A k \in 1 .. n + 1 - m : Relative(e)[k] = Append(r, name)[k]
    BY <1>2, <1>3, <1>4, <1>5, <1>7, <1>8
  <1>10. Relative(e) = Append(r, name)
    BY <1>4, <1>5, <1>6, <1>9, SamePath
  <1>11. QED
    BY <1>10 DEF e, r

(* g follows the first n names of path: the function that RealDir chooses.   *)
Follows(g, path, n) ==
    g = [k \in 0 .. n |-> IF k = 0 THEN root ELSE Real(Append(g[k - 1], path[k]))]

(* It can be extended by a name, ...                                         *)
LEMMA FollowsFurther ==
  ASSUME NEW path, NEW n \in Nat, NEW g, Follows(g, path, n)
  PROVE  \E h : /\ Follows(h, path, n + 1) /\ h[n + 1] = Real(Append(g[n], path[n + 1]))
  <1> DEFINE h == [k \in 0 .. n + 1 |-> IF k <= n THEN g[k] ELSE Real(Append(g[n], path[n + 1]))]
  <1>1. \A k \in 0 .. n : g[k] = IF k = 0 THEN root ELSE Real(Append(g[k - 1], path[k]))
    BY DEF Follows
  <1>2. ASSUME NEW k \in 0 .. n + 1
        PROVE  h[k] = IF k = 0 THEN root ELSE Real(Append(h[k - 1], path[k]))
    <2>1. CASE k = n + 1
      <3>1. h[k - 1] = g[n] /\ h[k] = Real(Append(g[n], path[n + 1]))
        BY <2>1
      <3>2. QED
        BY <2>1, <3>1
    <2>2. CASE k # n + 1 /\ k # 0
      <3>1. k - 1 \in 0 .. n /\ k \in 0 .. n
        BY <2>2
      <3>2. h[k - 1] = g[k - 1] /\ h[k] = g[k]
        BY <3>1
      <3>3. QED
        BY <1>1, <2>2, <3>1, <3>2
    <2>3. CASE k = 0
      BY <1>1, <2>3
    <2>4. QED
      BY <2>1, <2>2, <2>3
  <1>3. Follows(h, path, n + 1)
    BY <1>2 DEF Follows
  <1>4. h[n + 1] = Real(Append(g[n], path[n + 1]))
    OBVIOUS
  <1>5. QED
    BY <1>3, <1>4

(* ... so it exists for every length, by a least length for which it does    *)
(* not, ...                                                                  *)
LEMMA FollowsUpTo ==
  ASSUME NEW path, NEW n \in Nat
  PROVE  \E g : Follows(g, path, n)
  <1> DEFINE Bad == {k \in Nat : ~\E g : Follows(g, path, k)}
  <1>1. SUFFICES ASSUME Bad # {} PROVE FALSE
    OBVIOUS
  <1>2. PICK k \in Bad : \A q \in Bad : k <= q
    <2>1. Bad \in SUBSET Nat
      OBVIOUS
    <2> HIDE DEF Bad
    <2>2. QED
      BY <1>1, <2>1, LeastOf
  <1>3. k # 0
    <2>1. Follows([i \in 0 .. 0 |-> root], path, 0)
      BY DEF Follows
    <2>2. QED
      BY <2>1
  <1>4. k - 1 \in Nat /\ k - 1 \notin Bad /\ (k - 1) + 1 = k
    BY <1>2, <1>3
  <1>5. PICK g : Follows(g, path, k - 1)
    BY <1>4
  <1>6. QED
    BY <1>4, <1>5, FollowsFurther

(* ... is the same for the same names, ...                                   *)
LEMMA FollowsOnce ==
  ASSUME NEW s, NEW t, NEW n \in Nat, NEW m \in Nat, n <= m, NEW g, Follows(g, s, n),
         NEW h, Follows(h, t, m), \A k \in 1 .. n : s[k] = t[k]
  PROVE  \A k \in 0 .. n : g[k] = h[k]
  <1>1. \A k \in 0 .. n : /\ g[k] = IF k = 0 THEN root ELSE Real(Append(g[k - 1], s[k]))
                          /\ h[k] = IF k = 0 THEN root ELSE Real(Append(h[k - 1], t[k]))
    <2>1. \A k \in 0 .. n : k \in 0 .. m
      OBVIOUS
    <2>2. QED
      BY <2>1 DEF Follows
  <1> DEFINE Bad == {k \in 0 .. n : g[k] # h[k]}
  <1>2. SUFFICES ASSUME Bad # {} PROVE FALSE
    OBVIOUS
  <1>3. PICK k \in Bad : \A q \in Bad : k <= q
    <2>1. Bad \in SUBSET Nat
      OBVIOUS
    <2> HIDE DEF Bad
    <2>2. QED
      BY <1>2, <2>1, LeastOf
  <1>4. k # 0
    BY <1>1
  <1>5. k - 1 \in 0 .. n /\ k - 1 \notin Bad /\ k \in 1 .. n
    BY <1>3, <1>4
  <1>6. g[k - 1] = h[k - 1] /\ s[k] = t[k]
    BY <1>5
  <1>7. g[k] = h[k]
    BY <1>1, <1>4, <1>6
  <1>8. QED
    BY <1>7

(* ... and RealDir is its last value.                                        *)
LEMMA RealDirUnfolds ==
  ASSUME NEW path \in Path
  PROVE  \E g : Follows(g, path, Len(path)) /\ RealDir(path) = g[Len(path)]
  <1> DEFINE real == CHOOSE g : g = [k \in 0 .. Len(path) |->
                          IF k = 0 THEN root ELSE Real(Append(g[k - 1], path[k]))]
  <1>0. Len(path) \in Nat
    BY DEF Path
  <1>1. \E g : g = [k \in 0 .. Len(path) |-> IF k = 0 THEN root ELSE Real(Append(g[k - 1], path[k]))]
    BY <1>0, FollowsUpTo DEF Follows
  <1>2. real = [k \in 0 .. Len(path) |-> IF k = 0 THEN root ELSE Real(Append(real[k - 1], path[k]))]
    BY <1>1, Zenon
  <1>3. RealDir(path) = real[Len(path)]
    BY Zenon DEF RealDir
  <1> HIDE DEF real
  <1>4. QED
    BY <1>2, <1>3 DEF Follows

(* The root leads to itself, a name to the entry of that name.               *)
LEMMA RealDirRoot == RealDir(<<>>) = root
  <1>1. <<>> \in Path /\ Len(<<>>) = 0
    BY DEF Path
  <1>2. PICK g : Follows(g, <<>>, 0) /\ RealDir(<<>>) = g[0]
    BY <1>1, RealDirUnfolds
  <1>3. QED
    BY <1>2 DEF Follows

(* See RealDirRoot.                                                          *)
LEMMA RealDirAppend ==
  ASSUME NEW s \in Path, NEW name \in STRING
  PROVE  RealDir(Append(s, name)) = Real(Append(RealDir(s), name))
  <1> DEFINE t == Append(s, name)
  <1>1. PICK n \in Nat : n = Len(s)
    BY DEF Path
  <1>2. t \in Path /\ Len(t) = n + 1 /\ (\A k \in 1 .. n : s[k] = t[k]) /\ t[n + 1] = name
    BY <1>1, AppendPath
  <1> HIDE DEF t
  <1>3. PICK g : Follows(g, s, n) /\ RealDir(s) = g[n]
    BY <1>1, RealDirUnfolds
  <1>4. PICK h : Follows(h, t, n + 1) /\ RealDir(t) = h[n + 1]
    BY <1>2, RealDirUnfolds
  <1>5. n \in 0 .. n /\ n + 1 \in 0 .. n + 1 /\ n + 1 # 0 /\ n + 1 - 1 = n /\ n <= n + 1 /\ n + 1 \in Nat
    BY <1>1
  <1>6. \A k \in 0 .. n : g[k] = h[k]
    BY <1>2, <1>3, <1>4, <1>5, FollowsOnce
  <1>7. h[n + 1] = Real(Append(h[n], t[n + 1]))
    BY <1>4, <1>5 DEF Follows
  <1>8. h[n] = g[n]
    BY <1>5, <1>6
  <1>9. QED
    BY <1>2, <1>3, <1>4, <1>7, <1>8 DEF t

(* The directories of a repository are closed under their parents, and no    *)
(* link is one of them.                                                      *)
RepoFacts ==
    /\ \A d \in repo.dirs : d \in Path /\ Len(d) \in Nat /\ Len(d) >= 1 /\ (Len(d) > 1 => Front(d) \in repo.dirs)
    /\ <<>> \notin repo.dirs
    /\ \A l \in DOMAIN repo.links : l \in Path /\ l \notin repo.dirs /\ repo.links[l] \in repo.dirs \cup {<<>>}
    /\ repo.git \subseteq repo.dirs /\ repo.markers \subseteq repo.dirs /\ repo.start \in repo.dirs

(* What RepoOK says, fact by fact.                                           *)
LEMMA RepoIsOK ==
  ASSUME repo \in Repos
  PROVE  RepoFacts
  <1>1. RepoOK(repo)
    BY WorkspaceAssumption
  <1>2. ASSUME NEW d \in repo.dirs
        PROVE  d \in Path /\ Len(d) \in Nat /\ Len(d) >= 1 /\ (Len(d) > 1 => Front(d) \in repo.dirs)
    <2>1. d \in Seq(STRING) /\ d # <<>> /\ (Len(d) > 1 => Front(d) \in repo.dirs)
      BY <1>1 DEF RepoOK
    <2>2. Len(d) \in Nat /\ Len(d) # 0
      BY <2>1
    <2>3. QED
      BY <2>1, <2>2 DEF Path
  <1>3. <<>> \notin repo.dirs
    BY <1>1 DEF RepoOK
  <1>4. ASSUME NEW l \in DOMAIN repo.links
        PROVE  l \in Path /\ l \notin repo.dirs /\ repo.links[l] \in repo.dirs \cup {<<>>}
    <2>1. DOMAIN repo.links \cap repo.dirs = {} /\ DOMAIN repo.links \subseteq Seq(STRING)
      BY <1>1 DEF RepoOK
    <2>2. repo.links \in [DOMAIN repo.links -> repo.dirs \cup {<<>>}]
      BY <1>1 DEF RepoOK
    <2>3. QED
      BY <2>1, <2>2 DEF Path
  <1>5. repo.git \subseteq repo.dirs /\ repo.markers \subseteq repo.dirs /\ repo.start \in repo.dirs
    BY <1>1 DEF RepoOK
  <1>6. QED
    BY <1>2, <1>3, <1>4, <1>5 DEF RepoFacts

(* An ancestor is as many names of the path as it has.                       *)
LEMMA AncestorOf ==
  ASSUME NEW d \in Path, NEW n \in 1 .. Len(d)
  PROVE  /\ SubSeq(d, 1, n) \in Ancestors(d) /\ SubSeq(d, 1, n) \in Path /\ Len(SubSeq(d, 1, n)) = n
         /\ \A k \in 1 .. n : SubSeq(d, 1, n)[k] = d[k]
  <1>1. n \in Nat /\ n - 1 + 1 = n /\ 1 <= n /\ (\A k \in 1 .. n : 1 + k - 1 = k /\ k \in 1 .. Len(d))
    BY DEF Path
  <1>2. \A k \in 1 .. n : d[k] \in STRING
    BY <1>1 DEF Path
  <1>3. SubSeq(d, 1, n) \in Ancestors(d)
    BY DEF Ancestors
  <1>4. /\ SubSeq(d, 1, n) \in Path /\ Len(SubSeq(d, 1, n)) = n
        /\ \A k \in 1 .. n : SubSeq(d, 1, n)[k] = d[k]
    BY <1>1, <1>2, SubSeqProperties DEF Path
  <1>5. QED
    BY <1>3, <1>4

(* Ancestors are paths.                                                      *)
LEMMA AncestorType ==
  ASSUME NEW d \in Path, NEW a \in Ancestors(d)
  PROVE  a \in Path /\ Len(a) \in 1 .. Len(d) /\ a = SubSeq(d, 1, Len(a)) /\ \A k \in 1 .. Len(a) : a[k] = d[k]
  <1>1. PICK n \in 1 .. Len(d) : a = SubSeq(d, 1, n)
    BY DEF Ancestors
  <1>2. a \in Path /\ Len(a) = n /\ \A k \in 1 .. n : a[k] = d[k]
    BY <1>1, AncestorOf
  <1>3. QED
    BY <1>1, <1>2

(* A set of ancestors has a longest, ...                                     *)
LEMMA LongestIs ==
  ASSUME NEW d \in Path, NEW paths \in SUBSET Ancestors(d), paths # {}
  PROVE  Longest(paths) \in paths /\ \A q \in paths : Len(q) <= Len(Longest(paths))
  <1> DEFINE S == {n \in Nat : \E a \in paths : n = Len(d) - Len(a)}
  <1>1. Len(d) \in Nat /\ \A a \in paths : Len(a) \in 1 .. Len(d)
    BY AncestorType DEF Path
  <1>2. \A a \in paths : Len(d) - Len(a) \in S
    BY <1>1
  <1>3. S # {}
    BY <1>2
  <1>4. PICK n \in S : \A k \in S : n <= k
    <2>1. S \in SUBSET Nat
      OBVIOUS
    <2> HIDE DEF S
    <2>2. QED
      BY <1>3, <2>1, LeastOf
  <1>5. PICK a \in paths : n = Len(d) - Len(a)
    OBVIOUS
  <1>6. ASSUME NEW q \in paths PROVE Len(q) <= Len(a)
    <2>1. Len(d) - Len(q) \in S
      BY <1>2
    <2>2. Len(d) - Len(a) <= Len(d) - Len(q)
      BY <1>4, <1>5, <2>1
    <2>3. Len(d) \in Int /\ Len(a) \in Int /\ Len(q) \in Int
      BY <1>1
    <2>4. QED
      BY <2>2, <2>3
  <1> HIDE DEF S
  <1>7. \E p \in paths : \A q \in paths : Len(q) <= Len(p)
    BY <1>6
  <1>8. QED
    BY <1>7, Zenon DEF Longest

(* ... and a shortest.                                                       *)
LEMMA ShortestIs ==
  ASSUME NEW d \in Path, NEW paths \in SUBSET Ancestors(d), paths # {}
  PROVE  Shortest(paths) \in paths
  <1> DEFINE S == {n \in Nat : \E a \in paths : n = Len(a)}
  <1>1. \A a \in paths : Len(a) \in 1 .. Len(d)
    BY AncestorType
  <1>2. \A a \in paths : Len(a) \in S
    BY <1>1
  <1>3. S # {}
    BY <1>2
  <1>4. PICK n \in S : \A k \in S : n <= k
    <2>1. S \in SUBSET Nat
      OBVIOUS
    <2> HIDE DEF S
    <2>2. QED
      BY <1>3, <2>1, LeastOf
  <1>5. PICK a \in paths : n = Len(a)
    OBVIOUS
  <1>6. \A q \in paths : Len(a) <= Len(q)
    BY <1>2, <1>4, <1>5
  <1> HIDE DEF S
  <1>7. \E p \in paths : \A q \in paths : Len(p) <= Len(q)
    BY <1>6
  <1>8. QED
    BY <1>7, Zenon DEF Shortest

(* findRepositoryRoot finds a directory.                                     *)
LEMMA RootIsThere ==
  ASSUME RepoFacts
  PROVE  RepositoryRoot \in repo.dirs
  <1>1. repo.start \in Path
    BY DEF RepoFacts
  <1> DEFINE up == Ancestors(repo.start)
  <1>2. CASE up \cap repo.git # {}
    <2>1. Longest(up \cap repo.git) \in up \cap repo.git
      BY <1>1, <1>2, LongestIs
    <2>2. QED
      BY <1>2, <2>1 DEF RepositoryRoot, RepoFacts
  <1>3. CASE up \cap repo.git = {} /\ up \cap repo.markers # {}
    <2>1. Shortest(up \cap repo.markers) \in up \cap repo.markers
      BY <1>1, <1>3, ShortestIs
    <2>2. QED
      BY <1>3, <2>1 DEF RepositoryRoot, RepoFacts
  <1>4. CASE up \cap repo.git = {} /\ up \cap repo.markers = {}
    BY <1>4 DEF RepositoryRoot, RepoFacts
  <1>5. QED
    BY <1>2, <1>3, <1>4

(* Every ancestor of a directory is one.                                     *)
LEMMA AncestorsInRepo ==
  ASSUME RepoFacts, NEW d \in repo.dirs
  PROVE  Ancestors(d) \subseteq repo.dirs
  <1>1. PICK m \in Nat : m = Len(d) /\ d \in Path
    BY DEF RepoFacts
  <1> DEFINE Bad == {q \in 0 .. m - 1 : SubSeq(d, 1, m - q) \notin repo.dirs}
  <1>2. ASSUME Bad # {} PROVE FALSE
    <2>1. PICK q \in Bad : \A r \in Bad : q <= r
      <3>1. Bad \in SUBSET Nat
        OBVIOUS
      <3> HIDE DEF Bad
      <3>2. QED
        BY <1>2, <3>1, LeastOf
    <2>2. q \in 0 .. m - 1 /\ SubSeq(d, 1, m - q) \notin repo.dirs
      OBVIOUS
    <2>3. q # 0
      <3>1. SUFFICES ASSUME q = 0 PROVE FALSE
        OBVIOUS
      <3>2. m - q = m /\ m \in 1 .. m
        BY <2>2, <3>1
      <3>3. SubSeq(d, 1, m) = d
        <4>1. /\ SubSeq(d, 1, m) \in Path /\ Len(SubSeq(d, 1, m)) = m
              /\ \A k \in 1 .. m : SubSeq(d, 1, m)[k] = d[k]
          BY <1>1, <3>2, AncestorOf
        <4>2. QED
          BY <1>1, <4>1, SamePath
      <3>4. QED
        BY <2>2, <3>2, <3>3
    <2>4. /\ q - 1 \in 0 .. m - 1 /\ ~(q <= q - 1) /\ m - (q - 1) = (m - q) + 1
          /\ (m - q) + 1 \in 1 .. m /\ m - q \in 1 .. m /\ (m - q) + 1 > 1 /\ (m - q) + 1 - 1 = m - q
      BY <2>2, <2>3
    <2>5. q - 1 \notin Bad
      BY <2>1, <2>4
    <2>6. SubSeq(d, 1, (m - q) + 1) \in repo.dirs
      BY <2>4, <2>5
    <2> DEFINE a == SubSeq(d, 1, (m - q) + 1)  b == SubSeq(d, 1, m - q)
    <2>7. a \in Path /\ Len(a) = (m - q) + 1 /\ \A k \in 1 .. (m - q) + 1 : a[k] = d[k]
      BY <1>1, <2>4, AncestorOf
    <2>8. b \in Path /\ Len(b) = m - q /\ \A k \in 1 .. m - q : b[k] = d[k]
      BY <1>1, <2>4, AncestorOf
    <2> HIDE DEF a, b
    <2>9. Front(a) \in Path /\ Len(Front(a)) = m - q /\ \A k \in 1 .. m - q : Front(a)[k] = a[k]
      <3>1. PICK w : w = m - q
        OBVIOUS
      <3>2. Len(a) = w + 1 /\ w + 1 > 1 /\ w \in Nat
        BY <2>4, <2>7, <3>1
      <3>3. Len(a) - 1 = w /\ Len(a) > 1
        BY <3>2
      <3>4. Front(a) \in Path /\ Len(Front(a)) = w /\ \A k \in 1 .. w : Front(a)[k] = a[k]
        BY <2>7, <3>3, FrontLast
      <3>5. QED
        BY <3>1, <3>4
    <2>10. \A k \in 1 .. m - q : k \in 1 .. (m - q) + 1
      BY <2>2
    <2>11. Front(a) = b
      BY <2>7, <2>8, <2>9, <2>10, SamePath
    <2>12. Front(a) \in repo.dirs
      BY <2>4, <2>6, <2>7 DEF RepoFacts, a
    <2>13. QED
      BY <2>2, <2>11, <2>12 DEF b
  <1>3. ASSUME NEW n \in 1 .. m PROVE SubSeq(d, 1, n) \in repo.dirs
    <2>1. m - n \in 0 .. m - 1 /\ m - (m - n) = n
      OBVIOUS
    <2>2. QED
      BY <1>2, <2>1
  <1>4. QED
    BY <1>1, <1>3 DEF Ancestors

(* A directory leads to itself.                                              *)
LEMMA RealOfDir ==
  ASSUME RepoFacts, NEW d \in repo.dirs
  PROVE  Real(d) = d
  BY DEF RepoFacts, Real

(* What a path leads to when it is the path of a directory.                  *)
LEMMA RealDirOfDir ==
  ASSUME RepoFacts, root \in repo.dirs, NEW d \in repo.dirs, IsPrefix(root, d),
         NEW p \in Path, IsPrefix(p, Relative(d))
  PROVE  RealDir(p) = SubSeq(d, 1, Len(root) + Len(p)) /\ Len(root) + Len(p) \in 1 .. Len(d)
  <1>0. root \in Path /\ d \in Path /\ Len(root) \in Nat /\ Len(root) >= 1
    BY DEF RepoFacts
  <1>1. Len(root) <= Len(d) /\ \A k \in 1 .. Len(root) : root[k] = d[k]
    BY <1>0, PrefixOf
  <1>2. /\ Relative(d) \in Path /\ Len(Relative(d)) = Len(d) - Len(root)
        /\ \A k \in 1 .. Len(d) - Len(root) : Relative(d)[k] = d[Len(root) + k]
    BY <1>0, <1>1, RelativePath
  <1>3. PICK m \in Nat, n \in Nat : m = Len(root) /\ n = Len(p)
    BY <1>0 DEF Path
  <1>4. m + n <= Len(d) /\ \A k \in 1 .. n : p[k] = d[m + k]
    <2>1. Len(p) <= Len(Relative(d)) /\ \A k \in 1 .. Len(p) : p[k] = Relative(d)[k]
      BY <1>2, PrefixOf
    <2>2. PICK r \in Nat : r = Len(d)
      BY <1>0 DEF Path
    <2>3. n <= r - m /\ \A k \in 1 .. n : k \in 1 .. r - m
      BY <1>2, <1>3, <2>1, <2>2
    <2>4. QED
      BY <1>2, <1>3, <2>1, <2>2, <2>3
  <1>5. \A k \in 0 .. n : m + k \in 1 .. Len(d)
    BY <1>0, <1>3, <1>4 DEF Path
  <1>6. PICK g : Follows(g, p, n) /\ RealDir(p) = g[n]
    BY <1>3, RealDirUnfolds
  <1>7. \A k \in 0 .. n : g[k] = IF k = 0 THEN root ELSE Real(Append(g[k - 1], p[k]))
    BY <1>6 DEF Follows
  <1> DEFINE Bad == {k \in 0 .. n : g[k] # SubSeq(d, 1, m + k)}
  <1>8. ASSUME Bad # {} PROVE FALSE
    <2>1. PICK k \in Bad : \A q \in Bad : k <= q
      <3>1. Bad \in SUBSET Nat
        OBVIOUS
      <3> HIDE DEF Bad
      <3>2. QED
        BY <1>8, <3>1, LeastOf
    <2>2. k \in 0 .. n /\ g[k] # SubSeq(d, 1, m + k) /\ m + k \in 1 .. Len(d)
      BY <1>5
    <2> DEFINE a == SubSeq(d, 1, m + k)
    <2>3. a \in Path /\ Len(a) = m + k /\ (\A i \in 1 .. m + k : a[i] = d[i]) /\ a \in repo.dirs
      BY <1>0, <2>2, AncestorOf, AncestorsInRepo
    <2>4. CASE k = 0
      <3>1. \A i \in 1 .. m : root[i] = a[i]
        BY <1>1, <1>3, <2>3, <2>4
      <3>2. Len(a) = m
        BY <2>3, <2>4
      <3> HIDE DEF a
      <3>3. root = a
        BY <1>0, <1>3, <2>3, <3>1, <3>2, SamePath
      <3>4. QED
        BY <1>7, <2>2, <2>4, <3>3 DEF a
    <2>5. CASE k # 0
      <3>1. /\ k - 1 \in 0 .. n /\ ~(k <= k - 1) /\ m + (k - 1) \in 1 .. Len(d) /\ m + k > 1
            /\ (m + k) - 1 = m + (k - 1) /\ k \in 1 .. n
        BY <1>0, <1>3, <1>5, <2>2, <2>5
      <3>2. k - 1 \notin Bad
        BY <2>1, <3>1
      <3>3. g[k - 1] = SubSeq(d, 1, m + (k - 1))
        BY <3>1, <3>2
      <3> DEFINE b == SubSeq(d, 1, m + (k - 1))
      <3>4. b \in Path /\ Len(b) = m + (k - 1) /\ \A i \in 1 .. m + (k - 1) : b[i] = d[i]
        BY <1>0, <3>1, AncestorOf
      <3> HIDE DEF a, b
      <3>5. /\ Front(a) \in Path /\ Len(Front(a)) = m + (k - 1)
            /\ \A i \in 1 .. m + (k - 1) : Front(a)[i] = a[i]
            /\ Last(a) = a[m + k] /\ a = Append(Front(a), Last(a))
        <4>1. PICK w : w = m + k
          OBVIOUS
        <4>2. a \in Path /\ Len(a) = w /\ w > 1 /\ w - 1 = m + (k - 1)
          BY <2>3, <3>1, <4>1 DEF a
        <4>3. Len(a) > 1 /\ Len(a) - 1 = m + (k - 1)
          BY <4>2
        <4>4. QED
          BY <4>1, <4>2, <4>3, FrontLast
      <3>6. \A i \in 1 .. m + (k - 1) : i \in 1 .. m + k
        BY <3>1
      <3>7. Front(a) = b
        <4>1. \A i \in 1 .. m + (k - 1) : a[i] = d[i]
          BY <2>3, <3>6 DEF a
        <4>2. QED
          BY <3>4, <3>5, <4>1, SamePath
      <3>8. Last(a) = p[k]
        <4>1. m + k \in 1 .. m + k
          BY <2>2, <3>1
        <4>2. QED
          BY <1>4, <2>3, <3>1, <3>5, <4>1
      <3>9. g[k] = Real(a)
        BY <1>7, <2>2, <2>5, <3>3, <3>5, <3>7, <3>8 DEF b
      <3>10. Real(a) = a
        BY <2>3, RealOfDir
      <3>11. QED
        BY <2>2, <3>9, <3>10 DEF a
    <2>6. QED
      BY <2>4, <2>5
  <1>9. n \in 0 .. n
    BY <1>3
  <1>10. g[n] = SubSeq(d, 1, m + n)
    BY <1>8, <1>9
  <1>11. QED
    BY <1>3, <1>5, <1>6, <1>9, <1>10

(* A call of walk: the path it was given is one level deeper than that of    *)
(* the call around it, leads to the directory it reads, and has no name that *)
(* is ignored.                                                               *)
WalkFrames == [dir : Seq(STRING), real : repo.dirs, left : SUBSET STRING]
Below(path) == /\ path \in Seq(STRING) /\ Len(root) <= Len(path)
               /\ \A k \in 1 .. Len(root) : path[k] = root[k]
               /\ \A k \in Len(root) + 1 .. Len(path) : path[k] \notin Ignored
(* Each call of walk is in the directory that its path leads to, one level   *)
(* below the call before it, and has entries of that directory left.         *)
Levels ==
    \A i \in 1 .. Len(frames) :
        /\ Below(frames[i].dir) /\ Len(frames[i].dir) = Len(root) + i - 1
        /\ frames[i].real = RealDir(Relative(frames[i].dir)) /\ frames[i].real \in seen
        /\ frames[i].left \subseteq Entries(frames[i].real)

(* A package: where it is, and that no other one is there.                   *)
Sites ==
    /\ \A p \in packages :
          /\ p.root \in Seq(STRING) /\ Len(p.root) <= MaxDepth
          /\ \A k \in 1 .. Len(p.root) : p.root[k] \notin Ignored
          /\ RealDir(p.root) \in seen /\ HasManifest(RealDir(p.root))
    /\ \A p, q \in packages : RealDir(p.root) = RealDir(q.root) => p = q

(* The calls that may still add a package each.                              *)
Pending == IF frames = <<>> \/ frames[Len(frames)].left # {} THEN Len(frames) ELSE Len(frames) - 1
(* The flag is set exactly when the packages reached their limit; from then  *)
(* on every call adds one more package at most.                              *)
Limits ==
    /\ partial <=> Full(packages)
    /\ Full(packages) => Cardinality(packages) + Pending < MaxPackages + MaxDepth

(* Nothing that the walk can reach is missed, unless it stopped at a limit.  *)
NoWayIn == Range(repo.links) \cap (Reachable \ {root}) = {}
(* What was seen has its package; a directory whose parent was seen was seen *)
(* itself or is still to be looked at.                                       *)
Complete ==
    /\ \A d \in Reachable \cap seen : HasManifest(d) => \E p \in packages : p.root = Relative(d)
    /\ \A i \in 1 .. Len(frames) : frames[i].real \in Reachable => frames[i].dir = frames[i].real
    /\ \A d \in Reachable \ {root} : Front(d) \in seen =>
          d \in seen \/ \E i \in 1 .. Len(frames) : frames[i].real = Front(d) /\ Last(d) \in frames[i].left

(* The inductive invariant of the walk.                                      *)
WalkInv ==
    /\ repo \in Repos /\ root \in repo.dirs
    /\ step \in {"locate", "walk"} => packages = {} /\ seen = {} /\ frames = <<>> /\ ~partial
    /\ step \in {"locate", "walk", "walking", "built"}
    /\ step \in {"walking", "built"} => root \in seen
    /\ step = "built" => frames = <<>>
    /\ frames \in Seq(WalkFrames) /\ Len(frames) <= MaxDepth /\ Levels
    /\ seen \subseteq repo.dirs
    /\ IsFiniteSet(packages) /\ Sites /\ Limits
    /\ ~partial /\ NoWayIn => Complete

(* These are about the repository and its root only, which do not change.    *)
LEMMA SameRepo ==
  ASSUME repo' = repo, root' = root
  PROVE  /\ \A p : RealDir(p)' = RealDir(p) /\ Relative(p)' = Relative(p) /\ Below(p)' = Below(p)
                   /\ Entries(p)' = Entries(p) /\ HasManifest(p)' = HasManifest(p)
         /\ Reachable' = Reachable /\ NoWayIn' = NoWayIn /\ WalkFrames' = WalkFrames
  <1>1. \A p : Real(p)' = Real(p)
    BY DEF Real
  <1>2. \A p : RealDir(p)' = RealDir(p)
    BY <1>1, Zenon DEF RealDir
  <1>3. \A p : Relative(p)' = Relative(p) /\ Below(p)' = Below(p)
    BY DEF Relative, Below
  <1>4. \A p : Entries(p)' = Entries(p) /\ HasManifest(p)' = HasManifest(p)
    BY DEF Entries, HasManifest
  <1>5. Reachable' = Reachable
    BY <1>3 DEF Reachable
  <1>6. NoWayIn' = NoWayIn
    BY <1>5 DEF NoWayIn
  <1>7. WalkFrames' = WalkFrames
    BY DEF WalkFrames
  <1>8. QED
    BY <1>2, <1>3, <1>4, <1>5, <1>6, <1>7

(* What is reachable, by the names of its path.                              *)
LEMMA ReachableIs ==
  ASSUME RepoFacts, root \in repo.dirs, NEW d \in repo.dirs
  PROVE  d \in Reachable <=> Below(d) /\ Len(d) <= Len(root) + MaxDepth
  <1>1. PICK m \in Nat, n \in Nat : m = Len(root) /\ n = Len(d) /\ root \in Path /\ d \in Path
    BY DEF RepoFacts
  <1>2. IsPrefix(root, d) <=> m <= n /\ \A k \in 1 .. m : root[k] = d[k]
    BY <1>1, PrefixOf
  <1>3. CASE m <= n
    <2>1. /\ Relative(d) \in Path /\ Len(Relative(d)) = n - m
          /\ \A k \in 1 .. n - m : Relative(d)[k] = d[m + k]
      BY <1>1, <1>3, RelativePath
    <2>2. n - m <= MaxDepth <=> n <= m + MaxDepth
      BY <1>3, WorkspaceAssumption
    <2>3. ToSet(Relative(d)) \cap Ignored = {} <=> \A k \in 1 .. n - m : d[m + k] \notin Ignored
      <3>1. DOMAIN Relative(d) = 1 .. n - m
        BY <1>3, <2>1 DEF Path
      <3>2. ToSet(Relative(d)) = {Relative(d)[k] : k \in 1 .. n - m}
        BY <3>1 DEF ToSet
      <3>3. QED
        BY <2>1, <3>2
    <2>4. (\A k \in 1 .. n - m : d[m + k] \notin Ignored) <=> \A k \in m + 1 .. n : d[k] \notin Ignored
      <3>1. \A k \in m + 1 .. n : k - m \in 1 .. n - m /\ m + (k - m) = k
        OBVIOUS
      <3>2. \A k \in 1 .. n - m : m + k \in m + 1 .. n
        OBVIOUS
      <3>3. QED
        BY <3>1, <3>2
    <2>5. Below(d) <=> (\A k \in 1 .. m : d[k] = root[k]) /\ \A k \in m + 1 .. n : d[k] \notin Ignored
      BY <1>1, <1>3 DEF Below, Path
    <2>6. d \in Reachable <=> IsPrefix(root, d) /\ n - m <= MaxDepth /\ ToSet(Relative(d)) \cap Ignored = {}
      BY <2>1 DEF Reachable
    <2>7. QED
      BY <1>1, <1>2, <1>3, <2>2, <2>3, <2>4, <2>5, <2>6
  <1>4. CASE ~(m <= n)
    BY <1>1, <1>2, <1>4 DEF Reachable, Below
  <1>5. QED
    BY <1>3, <1>4

(* So is the directory around it, up to the root.                            *)
LEMMA ReachableParent ==
  ASSUME RepoFacts, root \in repo.dirs, NEW d \in Reachable, d # root
  PROVE  /\ Len(d) > Len(root) /\ Len(d) > 1 /\ d \in Path /\ d \in repo.dirs
         /\ Front(d) \in Reachable /\ Last(d) \in STRING /\ Last(d) \notin Ignored
         /\ d = Append(Front(d), Last(d)) /\ Len(Front(d)) = Len(d) - 1
         /\ Len(d) <= Len(root) + MaxDepth /\ IsPrefix(root, d)
  <1>0. d \in repo.dirs /\ IsPrefix(root, d)
    BY DEF Reachable
  <1>1. PICK m \in Nat, n \in Nat : m = Len(root) /\ n = Len(d) /\ root \in Path /\ d \in Path /\ m >= 1
    BY <1>0 DEF RepoFacts
  <1>2. /\ m <= n /\ (\A k \in 1 .. m : d[k] = root[k]) /\ (\A k \in m + 1 .. n : d[k] \notin Ignored)
        /\ n <= m + MaxDepth
    BY <1>0, <1>1, ReachableIs DEF Below
  <1>3. m < n
    <2>1. SUFFICES ASSUME m = n PROVE FALSE
      BY <1>2
    <2>2. root = d
      BY <1>1, <1>2, <2>1, SamePath
    <2>3. QED
      BY <2>2
  <1>4. /\ Front(d) \in Path /\ Len(Front(d)) = n - 1 /\ \A k \in 1 .. n - 1 : Front(d)[k] = d[k]
        /\ Last(d) \in STRING /\ Last(d) = d[n] /\ d = Append(Front(d), Last(d))
    <2>1. Len(d) > 1
      BY <1>1, <1>3
    <2>2. QED
      BY <1>1, <2>1, FrontLast
  <1>5. Front(d) \in repo.dirs
    BY <1>0, <1>1, <1>3 DEF RepoFacts
  <1>6. /\ m <= n - 1 /\ n - 1 <= m + MaxDepth /\ n \in m + 1 .. n
        /\ (\A k \in 1 .. m : k \in 1 .. n - 1) /\ \A k \in m + 1 .. n - 1 : k \in m + 1 .. n /\ k \in 1 .. n - 1
    BY <1>2, <1>3, WorkspaceAssumption
  <1>7. Below(Front(d))
    BY <1>1, <1>2, <1>4, <1>6 DEF Below, Path
  <1>8. Front(d) \in Reachable
    BY <1>1, <1>4, <1>5, <1>6, <1>7, ReachableIs
  <1>9. Last(d) \notin Ignored
    BY <1>2, <1>4, <1>6
  <1>10. Len(d) > Len(root) /\ Len(d) > 1 /\ Len(d) <= Len(root) + MaxDepth /\ d \in Path
    BY <1>1, <1>2, <1>3
  <1>11. Len(Front(d)) = Len(d) - 1
    BY <1>1, <1>4
  <1>12. QED
    BY <1>0, <1>4, <1>8, <1>9, <1>10, <1>11, Zenon

(* A directory has a package, and then one, exactly if it has a manifest.    *)
LEMMA InspectIs ==
  ASSUME NEW dir, NEW real
  PROVE  \/ InspectDirectory(dir, real) = {} /\ ~HasManifest(real)
         \/ HasManifest(real) /\ \E p : InspectDirectory(dir, real) = {p} /\ p.root = Relative(dir)
  <1>1. CASE HasManifest(real)
    <2> DEFINE ms == repo.manifests[real]
               names == {m.name : m \in {k \in ms : k.kind = NameKind(ms)}} \ {Unnamed}
               p == [id |-> IF names = {} THEN Last(dir) ELSE CHOOSE n \in names : TRUE,
                     root |-> Relative(dir), ecosystem |-> Ecosystem(ms),
                     dependencies |-> UNION {m.deps : m \in {k \in ms : k.kind # "setup"}}]
    <2>1. InspectDirectory(dir, real) = {p}
      BY <1>1, Zenon DEF InspectDirectory, HasManifest
    <2>2. p.root = Relative(dir)
      OBVIOUS
    <2> HIDE DEF p
    <2>3. QED
      BY <1>1, <2>1, <2>2
  <1>2. CASE ~HasManifest(real)
    BY <1>2, Zenon DEF InspectDirectory, HasManifest
  <1>3. QED
    BY <1>1, <1>2

(* An entry of the innermost call, its path and the directory it leads to.   *)
Entry(name, dir, real) ==
    /\ step = "walking" /\ frames # <<>> /\ name \in Last(frames).left
    /\ dir = Append(Last(frames).dir, name) /\ real = Real(Append(Last(frames).real, name))
    /\ repo' = repo /\ root' = root /\ step' = step

(* The innermost call.                                                       *)
LEMMA TopFrame ==
  ASSUME WalkInv, frames # <<>>
  PROVE  /\ frames \in Seq(WalkFrames) /\ Len(frames) \in Nat \ {0} /\ Len(frames) \in 1 .. Len(frames)
         /\ DOMAIN frames = 1 .. Len(frames) /\ Last(frames) = frames[Len(frames)]
         /\ Last(frames) \in WalkFrames /\ Len(frames) <= MaxDepth
  <1>1. frames \in Seq(WalkFrames) /\ Len(frames) <= MaxDepth
    BY DEF WalkInv
  <1>2. Len(frames) \in Nat /\ Len(frames) # 0 /\ DOMAIN frames = 1 .. Len(frames)
    BY <1>1
  <1>3. Len(frames) \in 1 .. Len(frames)
    BY <1>2
  <1>4. QED
    BY <1>1, <1>2, <1>3 DEF Last

(* What holds of an entry that is looked at.                                 *)
LEMMA EntryFacts ==
  ASSUME WalkInv, NEW name, NEW dir, NEW real, Entry(name, dir, real)
  PROVE  /\ name \in STRING /\ dir \in Path /\ Len(dir) = Len(root) + Len(frames)
         /\ name \notin Ignored => Below(dir)
         /\ Relative(dir) \in Path /\ Len(Relative(dir)) = Len(frames)
         /\ name \notin Ignored => \A k \in 1 .. Len(frames) : Relative(dir)[k] \notin Ignored
         /\ RealDir(Relative(dir)) = real /\ real \in repo.dirs \cup {<<>>}
         /\ Append(Last(frames).real, name) \in repo.dirs \cup DOMAIN repo.links
  <1> DEFINE top == Last(frames)
  <1>1. RepoFacts /\ root \in repo.dirs /\ root \in Path
    BY RepoIsOK DEF WalkInv, RepoFacts
  <1>2. PICK n \in Nat \ {0} : n = Len(frames) /\ n \in 1 .. Len(frames)
    BY TopFrame DEF Entry
  <1>3. top = frames[n] /\ top \in WalkFrames
    BY <1>2, TopFrame DEF Entry
  <1>4. /\ Below(top.dir) /\ Len(top.dir) = Len(root) + n - 1
        /\ top.real = RealDir(Relative(top.dir)) /\ top.left \subseteq Entries(top.real)
    BY <1>2, <1>3, Zenon DEF WalkInv, Levels
  <1>5. name \in STRING /\ name \in top.left /\ top.dir \in Path /\ top.real \in repo.dirs
    BY <1>3 DEF WalkFrames, Entry, Path
  <1> HIDE DEF top
  <1>6. PICK m \in Nat : m = Len(root) /\ m <= Len(top.dir)
    BY <1>1, <1>4 DEF Below, Path
  <1>7. dir = Append(top.dir, name) /\ real = Real(Append(top.real, name))
    BY DEF Entry, top
  <1>8. /\ dir \in Path /\ Len(dir) = Len(top.dir) + 1
        /\ (\A k \in 1 .. Len(top.dir) : dir[k] = top.dir[k]) /\ dir[Len(top.dir) + 1] = name
    BY <1>5, <1>7, AppendPath
  <1>9. Len(top.dir) = m + n - 1 /\ Len(dir) = m + n /\ m <= Len(dir)
    BY <1>2, <1>4, <1>6, <1>8
  <1>10. ASSUME name \notin Ignored PROVE Below(dir)
    <2>1. \A k \in 1 .. m : k \in 1 .. Len(top.dir)
      BY <1>2, <1>9
    <2>2. \A k \in m + 1 .. Len(dir) : k = Len(top.dir) + 1 \/ (k \in m + 1 .. Len(top.dir) /\ k \in 1 .. Len(top.dir))
      BY <1>2, <1>9
    <2>3. \A k \in 1 .. m : dir[k] = root[k]
      BY <1>4, <1>6, <1>8, <2>1 DEF Below
    <2>4. \A k \in m + 1 .. Len(dir) : dir[k] \notin Ignored
      <3> TAKE k \in m + 1 .. Len(dir)
      <3>1. CASE k = Len(top.dir) + 1
        BY <1>8, <1>10, <3>1
      <3>2. CASE k \in m + 1 .. Len(top.dir) /\ k \in 1 .. Len(top.dir)
        BY <1>4, <1>6, <1>8, <3>2, Zenon DEF Below
      <3>3. QED
        BY <2>2, <3>1, <3>2
    <2>5. QED
      BY <1>6, <1>8, <1>9, <2>3, <2>4 DEF Below, Path
  <1>11. Relative(dir) = Append(Relative(top.dir), name) /\ Relative(top.dir) \in Path
    BY <1>1, <1>5, <1>6, <1>7, RelativeAppend, RelativePath
  <1>12. RealDir(Relative(dir)) = real
    BY <1>4, <1>5, <1>7, <1>11, RealDirAppend
  <1>13. /\ Relative(dir) \in Path /\ Len(Relative(dir)) = n
         /\ \A k \in 1 .. n : Relative(dir)[k] = dir[m + k]
    <2>1. Len(dir) - m = n
      BY <1>2, <1>9
    <2>2. QED
      BY <1>1, <1>6, <1>8, <1>9, <2>1, RelativePath
  <1>14. Append(top.real, name) \in repo.dirs \cup DOMAIN repo.links
    <2>1. PICK p \in repo.dirs \cup DOMAIN repo.links : Len(p) > 1 /\ Front(p) = top.real /\ Last(p) = name
      BY <1>4, <1>5 DEF Entries
    <2>2. p = Append(Front(p), Last(p))
      BY <1>1, <2>1, FrontLast DEF RepoFacts
    <2>3. QED
      BY <2>1, <2>2
  <1>15. real \in repo.dirs \cup {<<>>}
    BY <1>1, <1>7, <1>14 DEF RepoFacts, Real
  <1>16. ASSUME name \notin Ignored, NEW k \in 1 .. n PROVE Relative(dir)[k] \notin Ignored
    <2>1. m + k \in m + 1 .. Len(dir)
      BY <1>2, <1>9
    <2>2. dir[m + k] \notin Ignored
      BY <1>6, <1>10, <1>16, <2>1 DEF Below
    <2>3. QED
      BY <1>13, <2>2
  <1>17. Len(dir) = Len(root) + Len(frames) /\ Len(Relative(dir)) = Len(frames)
    BY <1>2, <1>6, <1>9, <1>13
  <1>18. QED
    BY <1>2, <1>5, <1>8, <1>10, <1>12, <1>13, <1>14, <1>15, <1>16, <1>17 DEF top

(* The calls after an entry that is not walked: the innermost has fewer      *)
(* entries left.                                                             *)
Trimmed(fs, name) ==
    /\ fs \in Seq(WalkFrames) /\ Len(fs) = Len(frames)
    /\ \A i \in 1 .. Len(frames) : /\ fs[i].dir = frames[i].dir /\ fs[i].real = frames[i].real
                                   /\ i # Len(frames) => fs[i].left = frames[i].left
    /\ fs[Len(frames)].left \subseteq frames[Len(frames)].left \ {name}

(* The innermost call has one entry less, and nothing else changes.          *)
LEMMA TrimmedIs ==
  ASSUME WalkInv, frames # <<>>, NEW left \in SUBSET Last(frames).left, NEW name, name \notin left
  PROVE  /\ Trimmed([frames EXCEPT ![Len(frames)].left = left], name)
         /\ [frames EXCEPT ![Len(frames)].left = left][Len(frames)].left = left
  <1> DEFINE fs == [frames EXCEPT ![Len(frames)].left = left]
  <1>1. PICK n \in Nat \ {0} : n = Len(frames) /\ n \in 1 .. n /\ DOMAIN frames = 1 .. n
    BY TopFrame
  <1>2. frames \in Seq(WalkFrames) /\ frames[n] \in WalkFrames /\ left \subseteq frames[n].left
    BY <1>1, TopFrame
  <1>3. \A i \in 1 .. n : frames[i] \in WalkFrames
    BY <1>1, <1>2
  <1>4. DOMAIN fs = 1 .. n /\ fs[n] = [frames[n] EXCEPT !.left = left] /\ \A i \in 1 .. n : i # n => fs[i] = frames[i]
    BY <1>1
  <1>5. fs[n] \in WalkFrames /\ fs[n].dir = frames[n].dir /\ fs[n].real = frames[n].real /\ fs[n].left = left
    BY <1>2, <1>4 DEF WalkFrames
  <1>6. fs = [i \in 1 .. n |-> fs[i]]
    BY <1>1
  <1> HIDE DEF fs
  <1>7. \A i \in 1 .. n : fs[i] \in WalkFrames
    BY <1>3, <1>4, <1>5
  <1>8. fs \in [1 .. n -> WalkFrames]
    BY <1>6, <1>7
  <1>9. fs \in Seq(WalkFrames)
    BY <1>8, SeqDef
  <1>10. Len(fs) = n
    BY <1>4, <1>9, LenProperties
  <1>11. Trimmed(fs, name)
    BY <1>1, <1>2, <1>4, <1>5, <1>9, <1>10 DEF Trimmed
  <1>12. QED
    BY <1>1, <1>5, <1>11 DEF fs

(* The levels after an entry that is not walked.                             *)
LEMMA TrimmedLevels ==
  ASSUME WalkInv, frames # <<>>, NEW name, Trimmed(frames', name),
         repo' = repo, root' = root, seen \subseteq seen'
  PROVE  Levels' /\ (frames \in Seq(WalkFrames))' /\ Len(frames') = Len(frames)
  <1>1. /\ \A p : RealDir(p)' = RealDir(p) /\ Relative(p)' = Relative(p) /\ Below(p)' = Below(p)
                  /\ Entries(p)' = Entries(p)
        /\ WalkFrames' = WalkFrames
    BY SameRepo
  <1>2. PICK n \in Nat \ {0} : n = Len(frames) /\ n \in 1 .. n
    BY TopFrame
  <1>3. frames' \in Seq(WalkFrames) /\ Len(frames') = n
    BY <1>2 DEF Trimmed
  <1>4. ASSUME NEW i \in 1 .. n
        PROVE  /\ Below(frames'[i].dir) /\ Len(frames'[i].dir) = Len(root) + i - 1
               /\ frames'[i].real = RealDir(Relative(frames'[i].dir)) /\ frames'[i].real \in seen'
               /\ frames'[i].left \subseteq Entries(frames'[i].real)
    <2>1. /\ Below(frames[i].dir) /\ Len(frames[i].dir) = Len(root) + i - 1
          /\ frames[i].real = RealDir(Relative(frames[i].dir)) /\ frames[i].real \in seen
          /\ frames[i].left \subseteq Entries(frames[i].real)
      BY <1>2 DEF WalkInv, Levels
    <2>2. frames'[i].dir = frames[i].dir /\ frames'[i].real = frames[i].real
      BY <1>2 DEF Trimmed
    <2>3. frames'[i].left \subseteq frames[i].left
      BY <1>2 DEF Trimmed
    <2>4. QED
      BY <2>1, <2>2, <2>3
  <1>5. Levels'
    BY <1>1, <1>3, <1>4 DEF Levels
  <1>6. QED
    BY <1>1, <1>2, <1>3, <1>5

(* The levels after one that is.                                             *)
LEMMA GrownLevels ==
  ASSUME WalkInv, NEW name, NEW dir, NEW real, Entry(name, dir, real), name \notin Ignored,
         real \in repo.dirs, MayDescend, seen \subseteq seen', real \in seen',
         NEW rest, Trimmed(rest, name), frames' = Append(rest, Frame(dir, real))
  PROVE  /\ Levels' /\ (frames \in Seq(WalkFrames))' /\ Len(frames') = Len(frames) + 1 /\ Len(frames') <= MaxDepth
         /\ \A i \in 1 .. Len(frames) : frames'[i] = rest[i]
         /\ frames'[Len(frames) + 1] = Frame(dir, real)
  <1>1. /\ \A p : RealDir(p)' = RealDir(p) /\ Relative(p)' = Relative(p) /\ Below(p)' = Below(p)
                  /\ Entries(p)' = Entries(p)
        /\ WalkFrames' = WalkFrames /\ root' = root
    BY SameRepo DEF Entry
  <1>2. PICK n \in Nat \ {0} : n = Len(frames) /\ n \in 1 .. n
    BY TopFrame DEF Entry
  <1>3. rest \in Seq(WalkFrames) /\ Len(rest) = n
    BY <1>2 DEF Trimmed
  <1>4. /\ dir \in Path /\ Len(dir) = Len(root) + n /\ Below(dir) /\ RealDir(Relative(dir)) = real
    BY <1>2, EntryFacts
  <1>5. Frame(dir, real) \in WalkFrames
    <2>1. RepoFacts
      BY RepoIsOK DEF WalkInv
    <2>2. ASSUME NEW p \in repo.dirs \cup DOMAIN repo.links, Len(p) > 1 PROVE Last(p) \in STRING
      BY <2>1, <2>2, FrontLast DEF RepoFacts
    <2>3. Entries(real) \subseteq STRING
      BY <2>2 DEF Entries
    <2>4. QED
      BY <1>4, <2>3 DEF Frame, WalkFrames, Path
  <1>6. /\ frames' \in Seq(WalkFrames) /\ Len(frames') = n + 1
        /\ (\A i \in 1 .. n : frames'[i] = rest[i]) /\ frames'[n + 1] = Frame(dir, real)
    BY <1>3, <1>5, AppendProperties
  <1>7. ASSUME NEW i \in 1 .. n + 1
        PROVE  /\ Below(frames'[i].dir) /\ Len(frames'[i].dir) = Len(root) + i - 1
               /\ frames'[i].real = RealDir(Relative(frames'[i].dir)) /\ frames'[i].real \in seen'
               /\ frames'[i].left \subseteq Entries(frames'[i].real)
    <2>1. CASE i \in 1 .. n
      <3>1. /\ Below(frames[i].dir) /\ Len(frames[i].dir) = Len(root) + i - 1
            /\ frames[i].real = RealDir(Relative(frames[i].dir)) /\ frames[i].real \in seen
            /\ frames[i].left \subseteq Entries(frames[i].real)
        BY <1>2, <2>1 DEF WalkInv, Levels
      <3>2. frames'[i].dir = frames[i].dir /\ frames'[i].real = frames[i].real
        BY <1>2, <1>6, <2>1 DEF Trimmed
      <3>3. frames'[i].left \subseteq frames[i].left
        BY <1>2, <1>6, <2>1 DEF Trimmed
      <3>4. QED
        BY <3>1, <3>2, <3>3
    <2>2. CASE i = n + 1
      <3>1. Len(root) + n = Len(root) + i - 1
        <4>1. Len(root) \in Nat
          BY RepoIsOK DEF WalkInv, RepoFacts
        <4>2. QED
          BY <2>2, <4>1
      <3>2. frames'[i].dir = dir /\ frames'[i].real = real /\ frames'[i].left = Entries(real)
        BY <1>6, <2>2 DEF Frame
      <3>3. QED
        BY <1>4, <3>1, <3>2
    <2>3. i \in 1 .. n \/ i = n + 1
      OBVIOUS
    <2>4. QED
      BY <2>1, <2>2, <2>3, Zenon
  <1>8. Levels'
    BY <1>1, <1>6, <1>7 DEF Levels
  <1>9. n + 1 <= MaxDepth
    BY <1>2, WorkspaceAssumption DEF MayDescend
  <1>10. QED
    BY <1>1, <1>2, <1>6, <1>8, <1>9

(* A directory that was not seen may give a package; no other one is there.  *)
Visited(dir, real) ==
    /\ seen' = seen \cup {real} /\ packages' = packages \cup InspectDirectory(dir, real)
    /\ real \notin seen /\ real \in repo.dirs

(* The packages stay apart from each other.                                  *)
LEMMA VisitedSites ==
  ASSUME WalkInv, NEW name, NEW dir, NEW real, Entry(name, dir, real), name \notin Ignored, Visited(dir, real)
  PROVE  /\ IsFiniteSet(packages') /\ Sites'
         /\ Cardinality(packages') <= Cardinality(packages) + 1
         /\ Cardinality(packages) <= Cardinality(packages')
  <1>1. \A p : RealDir(p)' = RealDir(p) /\ HasManifest(p)' = HasManifest(p)
    BY SameRepo DEF Entry
  <1>2. IsFiniteSet(packages) /\ Sites
    BY DEF WalkInv
  <1>3. /\ Relative(dir) \in Path /\ Len(Relative(dir)) <= MaxDepth
        /\ \A k \in 1 .. Len(Relative(dir)) : Relative(dir)[k] \notin Ignored
        /\ RealDir(Relative(dir)) = real
    <2>1. Len(frames) <= MaxDepth
      BY DEF WalkInv
    <2>2. QED
      BY <2>1, EntryFacts
  <1>4. CASE InspectDirectory(dir, real) = {}
    <2>1. packages' = packages /\ seen \subseteq seen'
      BY <1>4 DEF Visited
    <2>2. Sites'
      BY <1>1, <1>2, <2>1 DEF Sites
    <2>3. Cardinality(packages) \in Nat
      BY <1>2, FS_CardinalityType
    <2>4. QED
      BY <1>2, <2>1, <2>2, <2>3
  <1>5. CASE HasManifest(real) /\ \E p : InspectDirectory(dir, real) = {p} /\ p.root = Relative(dir)
    <2>1. PICK p : InspectDirectory(dir, real) = {p} /\ p.root = Relative(dir)
      BY <1>5
    <2>2. packages' = packages \cup {p} /\ seen' = seen \cup {real} /\ real \notin seen
      BY <2>1 DEF Visited
    <2>3. /\ IsFiniteSet(packages')
          /\ Cardinality(packages') = Cardinality(packages) \/ Cardinality(packages') = Cardinality(packages) + 1
      BY <1>2, <2>2, FS_AddElement
    <2>4. Cardinality(packages) \in Nat
      BY <1>2, FS_CardinalityType
    <2>5. ASSUME NEW q \in packages'
          PROVE  /\ q.root \in Seq(STRING) /\ Len(q.root) <= MaxDepth
                 /\ \A k \in 1 .. Len(q.root) : q.root[k] \notin Ignored
                 /\ RealDir(q.root) \in seen' /\ HasManifest(RealDir(q.root))
      <3>1. CASE q = p
        BY <1>3, <1>5, <2>1, <2>2, <3>1 DEF Path
      <3>2. CASE q \in packages
        BY <1>2, <2>2, <3>2 DEF Sites
      <3>3. QED
        BY <2>2, <3>1, <3>2
    <2>6. \A q \in packages : RealDir(q.root) # RealDir(p.root)
      BY <1>2, <1>3, <2>1, <2>2 DEF Sites
    <2>7. ASSUME NEW q \in packages', NEW r \in packages', RealDir(q.root) = RealDir(r.root) PROVE q = r
      <3>1. CASE q = p
        BY <2>2, <2>6, <2>7, <3>1
      <3>2. CASE r = p
        BY <2>2, <2>6, <2>7, <3>2
      <3>3. CASE q \in packages /\ r \in packages
        BY <1>2, <2>7, <3>3 DEF Sites
      <3>4. QED
        BY <2>2, <3>1, <3>2, <3>3
    <2>8. Sites'
      BY <1>1, <2>5, <2>7 DEF Sites
    <2>9. QED
      BY <2>3, <2>4, <2>8
  <1>6. QED
    BY <1>4, <1>5, InspectIs

(* Without a link into what is reachable, its path is the only way there.    *)
LEMMA OnlyWay ==
  ASSUME WalkInv, Complete, NoWayIn, NEW name, NEW dir, NEW real, Entry(name, dir, real),
         real \in Reachable, real # root
  PROVE  dir = real
  <1>1. RepoFacts /\ root \in repo.dirs
    BY RepoIsOK DEF WalkInv
  <1>2. PICK n \in Nat \ {0} : n = Len(frames) /\ n \in 1 .. n /\ Last(frames) = frames[n]
    BY TopFrame DEF Entry
  <1>3. frames[n] \in WalkFrames
    BY <1>2, TopFrame DEF Entry
  <1> DEFINE path == Append(frames[n].real, name)
  <1>4. path \in repo.dirs \cup DOMAIN repo.links /\ name \in STRING
    BY <1>2, EntryFacts
  <1>5. real = Real(path) /\ dir = Append(frames[n].dir, name)
    BY <1>2 DEF Entry
  <1>6. path \notin DOMAIN repo.links
    <2>1. SUFFICES ASSUME path \in DOMAIN repo.links PROVE FALSE
      OBVIOUS
    <2>2. real = repo.links[path]
      BY <1>5, <2>1 DEF Real
    <2>3. real \in Range(repo.links)
      BY <2>1, <2>2 DEF Range
    <2>4. QED
      BY <2>3 DEF NoWayIn
  <1>7. real = path
    BY <1>5, <1>6 DEF Real
  <1>8. Front(path) = frames[n].real
    <2>1. frames[n].real \in Path
      BY <1>1, <1>3 DEF WalkFrames, RepoFacts
    <2>2. QED
      BY <1>4, <2>1, AppendPath
  <1>9. frames[n].real \in Reachable
    BY <1>1, <1>7, <1>8, ReachableParent
  <1>10. frames[n].dir = frames[n].real
    BY <1>2, <1>9 DEF Complete
  <1>11. QED
    BY <1>5, <1>7, <1>10

(* One entry less: it was seen or passed over; every other one is left.      *)
Once(name, dir, real) ==
    /\ seen \subseteq seen' /\ seen' \subseteq seen \cup {real} /\ packages \subseteq packages'
    /\ real \in seen' \/ PassedOver(name, real)
    /\ real \in seen' \ seen => Visited(dir, real)
(* The innermost call has one entry less; the others keep theirs.            *)
Left(name, dir, real) ==
    /\ \A i \in 1 .. Len(frames) : /\ frames'[i].dir = frames[i].dir /\ frames'[i].real = frames[i].real
                                   /\ i # Len(frames) => frames'[i].left = frames[i].left
    /\ frames'[Len(frames)].left = frames[Len(frames)].left \ {name}
    /\ \/ Len(frames') = Len(frames) /\ (real \in seen' \ seen => ~MayDescend)
       \/ Len(frames') = Len(frames) + 1 /\ frames'[Len(frames) + 1] = Frame(dir, real) /\ real \notin seen

(* Nothing is missed when the entry is seen or passed over.                  *)
LEMMA CompleteKeeps ==
  ASSUME WalkInv, Complete, NoWayIn, NEW name, NEW dir, NEW real, Entry(name, dir, real),
         Once(name, dir, real), Left(name, dir, real)
  PROVE  Complete'
  <1>1. /\ \A p : Relative(p)' = Relative(p) /\ HasManifest(p)' = HasManifest(p)
        /\ Reachable' = Reachable /\ root' = root
    BY SameRepo DEF Entry
  <1>2. RepoFacts /\ root \in repo.dirs /\ root \in seen
    BY RepoIsOK DEF WalkInv, Entry
  <1>3. PICK n \in Nat \ {0} : n = Len(frames) /\ n \in 1 .. n /\ Last(frames) = frames[n]
    BY TopFrame DEF Entry
  <1>a. /\ \A i \in 1 .. n : i \in 1 .. n + 1
        /\ \A i \in 1 .. n + 1 : i \in 1 .. n \/ i = n + 1
        /\ n + 1 \in 1 .. n + 1
    OBVIOUS
  <1>4. /\ seen \subseteq seen' /\ seen' \subseteq seen \cup {real} /\ packages \subseteq packages'
        /\ real \in seen' \/ PassedOver(name, real)
        /\ real \in seen' \ seen => Visited(dir, real)
    BY DEF Once
  <1>5. /\ \A i \in 1 .. n : /\ frames'[i].dir = frames[i].dir /\ frames'[i].real = frames[i].real
                             /\ i # n => frames'[i].left = frames[i].left
        /\ frames'[n].left = frames[n].left \ {name}
    BY <1>3, Zenon DEF Left
  <1>6. \/ Len(frames') = n /\ (real \in seen' \ seen => ~MayDescend)
        \/ Len(frames') = n + 1 /\ frames'[n + 1] = Frame(dir, real) /\ real \notin seen
    BY <1>3, Zenon DEF Left
  <1>7. real \in Reachable /\ real \notin seen => dir = real
    BY <1>2, OnlyWay
  <1>8. ASSUME NEW d \in Reachable, d \in seen', HasManifest(d)
        PROVE  \E p \in packages' : p.root = Relative(d)
    <2>1. CASE d \in seen
      BY <1>4, <1>8, <2>1 DEF Complete
    <2>2. CASE d \notin seen
      <3>1. d = real /\ dir = real
        BY <1>4, <1>7, <1>8, <2>2
      <3>2. \E p : InspectDirectory(dir, real) = {p} /\ p.root = Relative(dir)
        BY <1>8, <3>1, InspectIs
      <3>3. packages' = packages \cup InspectDirectory(dir, real)
        BY <1>4, <1>8, <2>2, <3>1 DEF Visited
      <3>4. QED
        BY <3>1, <3>2, <3>3
    <2>3. QED
      BY <2>1, <2>2
  <1>9. ASSUME NEW i \in 1 .. Len(frames'), frames'[i].real \in Reachable
        PROVE  frames'[i].dir = frames'[i].real
    <2>1. CASE i \in 1 .. n
      BY <1>3, <1>5, <1>9, <2>1 DEF Complete
    <2>2. CASE i = n + 1 /\ frames'[n + 1] = Frame(dir, real) /\ real \notin seen
      BY <1>7, <1>9, <2>2 DEF Frame
    <2>3. QED
      BY <1>6, <1>a, <2>1, <2>2
  <1>10. ASSUME NEW d \in Reachable, d # root, Front(d) \in seen', d \notin seen'
         PROVE  \E i \in 1 .. Len(frames') : frames'[i].real = Front(d) /\ Last(d) \in frames'[i].left
    <2>1. /\ Len(d) > 1 /\ d \in Path /\ d \in repo.dirs
          /\ Front(d) \in Reachable /\ Last(d) \in STRING /\ Last(d) \notin Ignored
          /\ d = Append(Front(d), Last(d)) /\ Len(Front(d)) = Len(d) - 1
          /\ Len(d) <= Len(root) + MaxDepth /\ IsPrefix(root, d)
      BY <1>2, <1>10, ReachableParent
    <2>2. CASE Front(d) \in seen
      <3>1. PICK i \in 1 .. n : frames[i].real = Front(d) /\ Last(d) \in frames[i].left
        BY <1>3, <1>4, <1>10, <2>2 DEF Complete
      <3>2. CASE i # n
        <4>1. i \in 1 .. Len(frames') /\ frames'[i].real = Front(d) /\ Last(d) \in frames'[i].left
          BY <1>5, <1>6, <1>a, <3>1, <3>2
        <4>2. QED
          BY <4>1
      <3>3. CASE i = n /\ Last(d) # name
        <4>1. i \in 1 .. Len(frames') /\ frames'[i].real = Front(d) /\ Last(d) \in frames'[i].left
          BY <1>5, <1>6, <1>a, <3>1, <3>3
        <4>2. QED
          BY <4>1
      <3>4. CASE i = n /\ Last(d) = name
        <4>1. real = Real(d)
          BY <1>3, <2>1, <3>1, <3>4 DEF Entry
        <4>2. real = d
          BY <1>2, <2>1, <4>1, RealOfDir
        <4>3. d # <<>>
          BY <2>1
        <4>4. ~PassedOver(name, real)
          BY <1>4, <1>10, <2>1, <3>4, <4>2, <4>3 DEF PassedOver, Inside
        <4>5. QED
          BY <1>4, <1>10, <4>2, <4>4
      <3>5. QED
        BY <3>2, <3>3, <3>4
    <2>3. CASE Front(d) \notin seen
      <3>1. Front(d) = real /\ real \in seen' \ seen /\ dir = real
        BY <1>4, <1>7, <1>10, <2>1, <2>3
      <3>2. Len(frames') # n
        <4>1. SUFFICES ASSUME Len(frames') = n PROVE FALSE
          OBVIOUS
        <4>2. ~MayDescend
          BY <1>6, <3>1, <4>1
        <4>3. MaxDepth <= n
          BY <1>3, <4>2, WorkspaceAssumption DEF MayDescend
        <4>4. Len(dir) = Len(root) + n
          BY <1>3, EntryFacts
        <4>5. Len(root) \in Nat /\ Len(d) \in Nat /\ Len(d) - 1 = Len(root) + n /\ Len(d) <= Len(root) + MaxDepth
          BY <1>2, <2>1, <3>1, <4>4 DEF RepoFacts
        <4>6. QED
          BY <4>3, <4>5, WorkspaceAssumption
      <3>3. Len(frames') = n + 1 /\ frames'[n + 1].real = real /\ frames'[n + 1].left = Entries(real)
        BY <1>6, <3>2 DEF Frame
      <3>4. Last(d) \in Entries(real)
        BY <2>1, <3>1 DEF Entries
      <3>5. QED
        BY <1>a, <3>1, <3>3, <3>4
    <2>4. QED
      BY <2>2, <2>3
  <1>11. QED
    BY <1>1, <1>8, <1>9, <1>10 DEF Complete

(* The calls that may still add a package: one less, when the loop ends.     *)
LEMMA TrimmedPending ==
  ASSUME WalkInv, NEW name, frames # <<>>, name \in Last(frames).left, NEW fs, Len(fs) = Len(frames)
  PROVE  /\ Pending = Len(frames) /\ fs # <<>>
         /\ Len(frames) \in Nat \ {0} /\ Len(frames) <= MaxDepth
         /\ frames' = fs => Pending' <= Pending
         /\ frames' = fs /\ fs[Len(frames)].left = {} => Pending' = Pending - 1
  <1>1. /\ Len(frames) \in Nat \ {0} /\ Last(frames) = frames[Len(frames)] /\ Len(frames) <= MaxDepth
    BY TopFrame
  <1>2. Pending = Len(frames)
    BY <1>1 DEF Pending
  <1>3. fs # <<>>
    BY <1>1
  <1>4. frames' = fs => Pending' <= Pending
    BY <1>1, <1>2 DEF Pending
  <1>5. frames' = fs /\ fs[Len(frames)].left = {} => Pending' = Pending - 1
    BY <1>1, <1>2, <1>3 DEF Pending
  <1>6. QED
    BY <1>1, <1>2, <1>3, <1>4, <1>5

(* What is counted are numbers.                                              *)
LEMMA Numbers ==
  ASSUME WalkInv
  PROVE  /\ Cardinality(packages) \in Nat /\ MaxPackages \in Nat \ {0} /\ MaxDepth \in Nat \ {0}
         /\ Full(packages) <=> Cardinality(packages) >= MaxPackages
         /\ partial <=> Full(packages)
         /\ Full(packages) => Cardinality(packages) + Pending < MaxPackages + MaxDepth
  <1>1. Cardinality(packages) \in Nat
    BY FS_CardinalityType DEF WalkInv
  <1>2. QED
    BY <1>1, WorkspaceAssumption DEF WalkInv, Limits, Full

(* The parts of the invariant that an entry does not touch.                  *)
LEMMA EntryKeeps ==
  ASSUME WalkInv, NEW name, NEW dir, NEW real, Entry(name, dir, real),
         (frames \in Seq(WalkFrames))' /\ Len(frames') <= MaxDepth /\ Levels',
         seen \subseteq seen', seen' \subseteq seen \cup {real}, real \in seen' \ seen => ~PassedOver(name, real),
         IsFiniteSet(packages') /\ Sites' /\ Limits', ~partial' /\ NoWayIn => Complete'
  PROVE  WalkInv'
  <1>1. step = "walking" /\ step' = step /\ repo' = repo /\ root' = root
    BY DEF Entry
  <1>2. real \in repo.dirs \cup {<<>>}
    BY EntryFacts
  <1>3. real \in seen' \ seen => real \in repo.dirs
    BY <1>2 DEF PassedOver
  <1>4. seen' \subseteq repo.dirs
    BY <1>3 DEF WalkInv
  <1>5. NoWayIn' = NoWayIn
    BY <1>1, SameRepo
  <1>6. QED
    BY <1>1, <1>4, <1>5 DEF WalkInv

(* An entry that is not visited.                                             *)
LEMMA PassesOver ==
  ASSUME WalkInv, NEW name, NEW dir, NEW real, Entry(name, dir, real), PassedOver(name, real),
         frames' = [frames EXCEPT ![Len(frames)].left = @ \ {name}],
         packages' = packages, seen' = seen, partial' = partial
  PROVE  WalkInv'
  <1>1. frames # <<>> /\ repo' = repo /\ root' = root /\ name \in Last(frames).left
    BY DEF Entry
  <1>2. PICK n \in Nat \ {0} : n = Len(frames) /\ Last(frames) = frames[n] /\ n <= MaxDepth
    BY <1>1, TopFrame
  <1> DEFINE left == frames[n].left \ {name}
             fs == [frames EXCEPT ![Len(frames)].left = left]
  <1>3. frames' = fs
    BY <1>2
  <1> HIDE DEF fs
  <1>4. Trimmed(fs, name) /\ fs[n].left = left
    BY <1>1, <1>2, TrimmedIs DEF fs
  <1>5. Levels' /\ (frames \in Seq(WalkFrames))' /\ Len(frames') = n
    BY <1>1, <1>2, <1>3, <1>4, TrimmedLevels
  <1>6. Sites' /\ IsFiniteSet(packages')
    <2>1. \A p : RealDir(p)' = RealDir(p) /\ HasManifest(p)' = HasManifest(p)
      BY <1>1, SameRepo
    <2>2. QED
      BY <2>1 DEF WalkInv, Sites
  <1>7. Limits'
    <2>1. Pending = n /\ Pending' <= Pending
      BY <1>1, <1>2, <1>3, <1>5, TrimmedPending
    <2>2. Pending' \in Int
      BY <1>2, <1>5 DEF Pending
    <2>3. (Full(packages))' <=> Full(packages)
      BY DEF Full
    <2>4. QED
      BY <1>2, <2>1, <2>2, <2>3, Numbers DEF Limits
  <1>8. ASSUME ~partial', NoWayIn PROVE Complete'
    <2>1. Complete
      BY <1>8 DEF WalkInv
    <2>2. Once(name, dir, real)
      BY DEF Once
    <2>3. Left(name, dir, real)
      BY <1>2, <1>3, <1>4, <1>5 DEF Left, Trimmed
    <2>4. QED
      BY <1>8, <2>1, <2>2, <2>3, CompleteKeeps
  <1>9. QED
    BY <1>2, <1>5, <1>6, <1>7, <1>8, EntryKeeps

(* A directory that is visited, but not walked.                              *)
LEMMA VisitsOnly ==
  ASSUME WalkInv, NEW name, NEW dir, NEW real, Entry(name, dir, real), ~PassedOver(name, real),
         Visited(dir, real), NEW left \in SUBSET Last(frames).left, name \notin left,
         frames' = [frames EXCEPT ![Len(frames)].left = left],
         \/ partial' = TRUE /\ Full(packages') /\ left = {}
         \/ partial' = TRUE /\ Full(packages') /\ packages' = packages
         \/ /\ partial' = partial /\ (Full(packages') => packages' = packages)
            /\ ~MayDescend /\ left = Last(frames).left \ {name}
  PROVE  WalkInv'
  <1>1. frames # <<>> /\ repo' = repo /\ root' = root /\ name \in Last(frames).left
    BY DEF Entry
  <1>2. PICK n \in Nat \ {0} : n = Len(frames) /\ Last(frames) = frames[n] /\ n <= MaxDepth
    BY <1>1, TopFrame
  <1> DEFINE fs == [frames EXCEPT ![Len(frames)].left = left]
  <1>3. frames' = fs
    OBVIOUS
  <1> HIDE DEF fs
  <1>4. Trimmed(fs, name) /\ fs[n].left = left
    BY <1>1, <1>2, TrimmedIs DEF fs
  <1>5. Levels' /\ (frames \in Seq(WalkFrames))' /\ Len(frames') = n
    BY <1>1, <1>2, <1>3, <1>4, TrimmedLevels DEF Visited
  <1>6. /\ IsFiniteSet(packages') /\ Sites' /\ Cardinality(packages') <= Cardinality(packages) + 1
        /\ Cardinality(packages) <= Cardinality(packages')
    BY VisitedSites DEF PassedOver
  <1>7. Limits'
    <2>1. Pending = n /\ Pending' <= Pending /\ (left = {} => Pending' = Pending - 1)
      BY <1>1, <1>2, <1>3, <1>4, <1>5, TrimmedPending
    <2>2. Pending' \in Int
      BY <1>2, <1>5 DEF Pending
    <2>3. Cardinality(packages') \in Nat /\ ((Full(packages))' <=> Cardinality(packages') >= MaxPackages)
      BY <1>6, FS_CardinalityType DEF Full
    <2>4. (Full(packages))' = Full(packages')
      BY DEF Full
    <2>5. CASE partial' = TRUE /\ Full(packages') /\ left = {}
      <3>1. Cardinality(packages') + Pending' < MaxPackages + MaxDepth
        <4>1. CASE Full(packages)
          BY <1>2, <1>6, <2>1, <2>3, <2>5, <4>1, Numbers
        <4>2. CASE ~Full(packages)
          BY <1>2, <1>6, <2>1, <2>3, <2>5, <4>2, Numbers
        <4>3. QED
          BY <4>1, <4>2
      <3>2. QED
        BY <2>4, <2>5, <3>1 DEF Limits
    <2>6. CASE Full(packages') => packages' = packages
      <3>1. Full(packages') => Full(packages)
        BY <2>6
      <3>2. Full(packages') => Cardinality(packages') + Pending' < MaxPackages + MaxDepth
        BY <1>2, <2>1, <2>2, <2>6, <3>1, Numbers
      <3>3. Full(packages) => Full(packages')
        BY <1>6, <2>3, <2>4, Numbers
      <3>4. partial' <=> Full(packages')
        BY <2>6, <3>1, <3>3, Numbers
      <3>5. QED
        BY <2>4, <3>2, <3>4 DEF Limits
    <2>7. QED
      BY <2>5, <2>6
  <1>8. ASSUME ~partial', NoWayIn PROVE Complete'
    <2>1. partial' = partial /\ ~MayDescend /\ left = Last(frames).left \ {name}
      BY <1>8
    <2>2. Complete
      BY <1>8, <2>1 DEF WalkInv
    <2>3. Once(name, dir, real)
      BY DEF Once, Visited
    <2>4. Left(name, dir, real)
      BY <1>2, <1>3, <1>4, <1>5, <2>1 DEF Left, Trimmed
    <2>5. QED
      BY <1>8, <2>2, <2>3, <2>4, CompleteKeeps
  <1>9. seen \subseteq seen' /\ seen' \subseteq seen \cup {real}
    BY DEF Visited
  <1>10. QED
    BY <1>2, <1>5, <1>6, <1>7, <1>8, <1>9, EntryKeeps

(* One that is walked.                                                       *)
LEMMA VisitsAndWalks ==
  ASSUME WalkInv, NEW name, NEW dir, NEW real, Entry(name, dir, real), ~PassedOver(name, real),
         Visited(dir, real), MayDescend, ~Full(packages'), partial' = partial,
         frames' = Append([frames EXCEPT ![Len(frames)].left = @ \ {name}], Frame(dir, real))
  PROVE  WalkInv'
  <1>1. frames # <<>> /\ repo' = repo /\ root' = root /\ name \in Last(frames).left
    BY DEF Entry
  <1>2. PICK n \in Nat \ {0} : n = Len(frames) /\ Last(frames) = frames[n] /\ n <= MaxDepth /\ n \in 1 .. n
    BY <1>1, TopFrame
  <1> DEFINE left == frames[n].left \ {name}
             fs == [frames EXCEPT ![Len(frames)].left = left]
  <1>3. frames' = Append(fs, Frame(dir, real))
    BY <1>2
  <1> HIDE DEF fs
  <1>4. Trimmed(fs, name) /\ fs[n].left = left
    BY <1>1, <1>2, TrimmedIs DEF fs
  <1>5. seen \subseteq seen' /\ seen' \subseteq seen \cup {real} /\ real \in seen' /\ real \in repo.dirs
        /\ real \notin seen /\ name \notin Ignored
    BY DEF Visited, PassedOver
  <1>6. /\ Levels' /\ (frames \in Seq(WalkFrames))' /\ Len(frames') = n + 1 /\ Len(frames') <= MaxDepth
        /\ (\A i \in 1 .. n : frames'[i] = fs[i]) /\ frames'[n + 1] = Frame(dir, real)
    <2>1. Entry(name, dir, real) /\ MayDescend /\ Trimmed(fs, name)
      BY <1>4
    <2>2. /\ Levels' /\ (frames \in Seq(WalkFrames))' /\ Len(frames') = Len(frames) + 1 /\ Len(frames') <= MaxDepth
          /\ \A i \in 1 .. Len(frames) : frames'[i] = fs[i]
          /\ frames'[Len(frames) + 1] = Frame(dir, real)
      <3>1. PICK rest : rest = fs
        OBVIOUS
      <3>2. Trimmed(rest, name) /\ frames' = Append(rest, Frame(dir, real))
        BY <1>3, <2>1, <3>1
      <3>3. name \notin Ignored /\ real \in repo.dirs /\ seen \subseteq seen' /\ real \in seen'
        BY <1>5
      <3>4. /\ Levels' /\ (frames \in Seq(WalkFrames))' /\ Len(frames') = Len(frames) + 1 /\ Len(frames') <= MaxDepth
            /\ \A i \in 1 .. Len(frames) : frames'[i] = rest[i]
            /\ frames'[Len(frames) + 1] = Frame(dir, real)
        BY <2>1, <3>2, <3>3, GrownLevels
      <3>5. QED
        BY <3>1, <3>4
    <2>3. QED
      BY <1>2, <2>2
  <1>7. /\ IsFiniteSet(packages') /\ Sites' /\ Cardinality(packages) <= Cardinality(packages')
    BY <1>5, VisitedSites
  <1>8. Limits'
    <2>1. Cardinality(packages') \in Nat /\ (Full(packages') <=> Cardinality(packages') >= MaxPackages)
      BY <1>7, FS_CardinalityType DEF Full
    <2>2. ~Full(packages)
      BY <1>7, <2>1, Numbers
    <2>3. (Full(packages))' = Full(packages')
      BY DEF Full
    <2>4. QED
      BY <2>2, <2>3, Numbers DEF Limits
  <1>9. ASSUME ~partial', NoWayIn PROVE Complete'
    <2>1. Complete
      BY <1>9 DEF WalkInv
    <2>2. Once(name, dir, real)
      BY <1>5 DEF Once, Visited
    <2>3. \A i \in 1 .. n : frames'[i].dir = frames[i].dir /\ frames'[i].real = frames[i].real
                            /\ (i # n => frames'[i].left = frames[i].left)
      BY <1>2, <1>4, <1>6 DEF Trimmed
    <2>4. Left(name, dir, real)
      BY <1>2, <1>4, <1>5, <1>6, <2>3 DEF Left
    <2>5. QED
      BY <1>9, <2>1, <2>2, <2>4, CompleteKeeps
  <1>10. QED
    BY <1>5, <1>6, <1>7, <1>8, <1>9, EntryKeeps

(* Each entry is passed over, visited only, or visited and walked.           *)
LEMMA VisitEntryKeeps ==
  ASSUME WalkInv, NEW name, VisitEntry(name)
  PROVE  WalkInv'
  <1> DEFINE top == Last(frames)
             dir == Append(top.dir, name)
             real == Real(Append(top.real, name))
             rest == [frames EXCEPT ![Len(frames)].left = @ \ {name}]
  <1>1. Entry(name, dir, real)
    BY DEF VisitEntry, Entry
  <1>2. /\ top.left \ {name} \in SUBSET top.left /\ name \notin top.left \ {name}
        /\ rest = [frames EXCEPT ![Len(frames)].left = top.left \ {name}]
    BY <1>1, TopFrame DEF Entry
  <1>3. CASE PassedOver(name, real)
    BY <1>1, <1>3, PassesOver DEF VisitEntry
  <1>4. CASE ~PassedOver(name, real)
    <2>1. seen' = seen \cup {real} /\ packages' = packages \cup InspectDirectory(dir, real)
      BY <1>4 DEF VisitEntry
    <2>2. Visited(dir, real)
      <3>1. real \in repo.dirs \cup {<<>>}
        BY <1>1, EntryFacts
      <3>2. QED
        BY <1>4, <2>1, <3>1 DEF Visited, PassedOver
    <2>3. CASE InspectDirectory(dir, real) # {} /\ Full(packages')
      <3>1. partial' = TRUE /\ frames' = [rest EXCEPT ![Len(frames)].left = {}]
        BY <1>4, <2>3 DEF VisitEntry
      <3>2. [rest EXCEPT ![Len(frames)].left = {}] = [frames EXCEPT ![Len(frames)].left = {}]
        <4>1. frames \in Seq(WalkFrames) /\ Len(frames) \in DOMAIN frames
          BY <1>1, TopFrame DEF Entry
        <4>2. QED
          BY <4>1
      <3>3. QED
        <4>0. {} \in SUBSET top.left /\ name \notin {}
          OBVIOUS
        <4>1. PICK left \in SUBSET top.left : left = {} /\ name \notin left
          BY <4>0, Zenon
        <4>2. frames' = [frames EXCEPT ![Len(frames)].left = left]
          BY <3>1, <3>2, <4>1
        <4> HIDE DEF top, dir, real, rest
        <4>3. left \in SUBSET Last(frames).left
          BY <4>1 DEF top
        <4>4. partial' = TRUE /\ Full(packages') /\ left = {}
          BY <2>3, <3>1, <4>1
        <4>5. QED
          BY <1>1, <1>4, <2>2, <4>1, <4>2, <4>3, <4>4, VisitsOnly
    <2>4. CASE ~(InspectDirectory(dir, real) # {} /\ Full(packages'))
      <3>1. Full(packages') => packages' = packages
        BY <2>1, <2>4
      <3>2. CASE ~MayDescend
        <4>1. frames' = rest /\ partial' = partial
          BY <1>4, <2>4, <3>2 DEF VisitEntry
        <4>2. QED
          BY <1>1, <1>2, <1>4, <2>2, <3>1, <3>2, <4>1, VisitsOnly
      <3>3. CASE MayDescend /\ Full(packages')
        <4>1. frames' = rest /\ partial' = TRUE
          BY <1>4, <2>4, <3>3 DEF VisitEntry
        <4>2. QED
          <5>1. PICK left \in SUBSET top.left : left = top.left \ {name} /\ name \notin left
            BY <1>2, Zenon
          <5>2. frames' = [frames EXCEPT ![Len(frames)].left = left]
            BY <1>2, <4>1, <5>1
          <5> HIDE DEF top, dir, real, rest
          <5>3. left \in SUBSET Last(frames).left
            BY <5>1 DEF top
          <5>4. partial' = TRUE /\ Full(packages') /\ packages' = packages
            BY <3>1, <3>3, <4>1
          <5>5. QED
            BY <1>1, <1>4, <2>2, <5>1, <5>2, <5>3, <5>4, VisitsOnly
      <3>4. CASE MayDescend /\ ~Full(packages')
        <4>1. frames' = Append(rest, Frame(dir, real)) /\ partial' = partial
          BY <1>4, <2>4, <3>4 DEF VisitEntry
        <4>2. QED
          BY <1>1, <1>4, <2>2, <3>4, <4>1, VisitsAndWalks
      <3>5. QED
        BY <3>2, <3>3, <3>4
    <2>5. QED
      BY <2>3, <2>4
  <1>5. QED
    BY <1>3, <1>4

(* Before the walk nothing is known.                                         *)
LEMMA NothingYet ==
  ASSUME repo \in Repos, root \in repo.dirs, step \in {"locate", "walk"},
         packages = {}, seen = {}, frames = <<>>, ~partial
  PROVE  WalkInv
  <1>1. frames \in Seq(WalkFrames) /\ Len(frames) = 0 /\ 0 <= MaxDepth
    BY WorkspaceAssumption
  <1>2. Levels
    BY <1>1 DEF Levels
  <1>3. IsFiniteSet(packages) /\ Cardinality(packages) = 0
    BY FS_EmptySet
  <1>4. Sites
    BY DEF Sites
  <1>5. Limits
    BY <1>3, WorkspaceAssumption DEF Limits, Full
  <1>6. Complete
    BY <1>1 DEF Complete
  <1>7. QED
    BY <1>1, <1>2, <1>3, <1>4, <1>5, <1>6 DEF WalkInv

(* A walk starts with nothing.                                               *)
LEMMA GraphStarts == GraphInit(Repos) => WalkInv
  <1> SUFFICES ASSUME GraphInit(Repos) PROVE WalkInv
    OBVIOUS
  <1>1. /\ repo \in Repos /\ root = repo.start /\ step = "locate"
        /\ packages = {} /\ seen = {} /\ frames = <<>> /\ ~partial
    BY DEF GraphInit
  <1>2. root \in repo.dirs
    BY <1>1, RepoIsOK DEF RepoFacts
  <1>3. QED
    BY <1>1, <1>2, NothingYet

(* Finding the root leaves the walk to come as it was.                       *)
LEMMA LocateKeeps ==
  ASSUME WalkInv, Locate
  PROVE  WalkInv'
  <1>1. /\ repo' \in Repos /\ step' = "walk" /\ packages' = {} /\ seen' = {} /\ frames' = <<>> /\ ~partial'
        /\ root' = RepositoryRoot /\ repo' = repo
    BY DEF WalkInv, Locate
  <1>2. RepositoryRoot \in repo.dirs
    BY RepoIsOK, RootIsThere DEF WalkInv
  <1>3. root' \in repo'.dirs /\ step' \in {"locate", "walk"}
    BY <1>1, <1>2
  <1>4. (frames \in Seq(WalkFrames))' /\ Len(frames') = 0 /\ 0 <= MaxDepth
    BY <1>1, WorkspaceAssumption
  <1>5. Levels'
    BY <1>4 DEF Levels
  <1>6. IsFiniteSet(packages') /\ Cardinality(packages') = 0
    BY <1>1, FS_EmptySet
  <1>7. Sites'
    BY <1>1 DEF Sites
  <1>8. Limits'
    BY <1>1, <1>6, WorkspaceAssumption DEF Limits, Full
  <1>9. Complete'
    BY <1>1, <1>4 DEF Complete
  <1>10. QED
    BY <1>1, <1>3, <1>4, <1>5, <1>6, <1>7, <1>8, <1>9 DEF WalkInv

(* The root, with its own package.                                           *)
LEMMA RootFacts ==
  ASSUME RepoFacts, root \in repo.dirs
  PROVE  /\ root \in Path /\ Len(root) \in Nat /\ Below(root) /\ IsPrefix(root, root)
         /\ Relative(root) = <<>> /\ RealDir(Relative(root)) = root
         /\ Entries(root) \subseteq STRING
  <1>1. root \in Path /\ Len(root) \in Nat
    BY DEF RepoFacts
  <1>2. Below(root)
    BY <1>1 DEF Below, Path
  <1>3. IsPrefix(root, root)
    BY <1>1, PrefixOf
  <1>4. Relative(root) \in Path /\ Len(Relative(root)) = 0
    BY <1>1, RelativePath
  <1>5. Relative(root) = <<>>
    BY <1>4 DEF Path
  <1>6. RealDir(Relative(root)) = root
    BY <1>5, RealDirRoot
  <1>7. ASSUME NEW p \in repo.dirs \cup DOMAIN repo.links, Len(p) > 1 PROVE Last(p) \in STRING
    BY <1>7, FrontLast DEF RepoFacts
  <1>8. Entries(root) \subseteq STRING
    BY <1>7 DEF Entries
  <1>9. QED
    BY <1>1, <1>2, <1>3, <1>5, <1>6, <1>8

LEMMA StartWalkKeeps ==
  ASSUME WalkInv, StartWalk
  PROVE  WalkInv'
  <1>1. /\ step' = "walking" /\ packages' = InspectDirectory(root, root) /\ seen' = {root}
        /\ repo' = repo /\ root' = root /\ repo \in Repos /\ root \in repo.dirs
        /\ frames = <<>> /\ ~partial
        /\ \/ Full(packages') /\ partial' = TRUE /\ frames' = <<>>
           \/ ~Full(packages') /\ partial' = partial /\ frames' = <<Frame(root, root)>>
    BY DEF WalkInv, StartWalk
  <1>2. /\ \A p : RealDir(p)' = RealDir(p) /\ Relative(p)' = Relative(p) /\ Below(p)' = Below(p)
                  /\ Entries(p)' = Entries(p) /\ HasManifest(p)' = HasManifest(p)
        /\ Reachable' = Reachable /\ WalkFrames' = WalkFrames
    BY <1>1, SameRepo
  <1>3. RepoFacts
    BY <1>1, RepoIsOK
  <1>4. /\ root \in Path /\ Len(root) \in Nat /\ Below(root) /\ IsPrefix(root, root)
        /\ Relative(root) = <<>> /\ RealDir(Relative(root)) = root /\ Entries(root) \subseteq STRING
    BY <1>1, <1>3, RootFacts
  <1>5. /\ IsFiniteSet(packages') /\ Cardinality(packages') \in {0, 1}
        /\ \A p \in packages' : p.root = Relative(root) /\ HasManifest(root)
        /\ \A p, q \in packages' : p = q
        /\ HasManifest(root) => \E p \in packages' : p.root = Relative(root)
    <2>1. CASE InspectDirectory(root, root) = {} /\ ~HasManifest(root)
      BY <1>1, <2>1, FS_EmptySet
    <2>2. CASE HasManifest(root) /\ \E p : InspectDirectory(root, root) = {p} /\ p.root = Relative(root)
      <3>1. PICK p : InspectDirectory(root, root) = {p} /\ p.root = Relative(root)
        BY <2>2
      <3>2. IsFiniteSet({p}) /\ Cardinality({p}) = 1
        BY FS_Singleton
      <3>3. packages' = {p}
        BY <1>1, <3>1
      <3>4. QED
        BY <2>2, <3>1, <3>2, <3>3
    <2>3. QED
      BY <2>1, <2>2, InspectIs
  <1>6. Sites'
    <2>1. <<>> \in Seq(STRING) /\ Len(<<>>) = 0 /\ 0 <= MaxDepth
      BY WorkspaceAssumption
    <2>2. ASSUME NEW p \in packages'
          PROVE  /\ p.root \in Seq(STRING) /\ Len(p.root) <= MaxDepth
                 /\ \A k \in 1 .. Len(p.root) : p.root[k] \notin Ignored
                 /\ RealDir(p.root) \in seen' /\ HasManifest(RealDir(p.root))
      <3>1. p.root = <<>> /\ HasManifest(root) /\ RealDir(p.root) = root
        BY <1>4, <1>5
      <3>2. Len(p.root) = 0
        BY <2>1, <3>1
      <3>3. QED
        BY <1>1, <2>1, <3>1, <3>2
    <2>3. QED
      BY <1>2, <1>5, <2>2 DEF Sites
  <1>7. Frame(root, root) \in WalkFrames
    BY <1>1, <1>4 DEF Frame, WalkFrames, Path
  <1>8. (frames \in Seq(WalkFrames))' /\ Len(frames') <= MaxDepth
    <2>1. CASE frames' = <<>>
      BY <2>1, WorkspaceAssumption
    <2>2. CASE frames' = <<Frame(root, root)>>
      <3>1. <<Frame(root, root)>> \in Seq(WalkFrames) /\ Len(<<Frame(root, root)>>) = 1
        BY <1>7
      <3>2. QED
        BY <1>2, <2>2, <3>1, WorkspaceAssumption
    <2>3. QED
      BY <1>1, <2>1, <2>2
  <1>9. Levels'
    <2>1. CASE frames' = <<>>
      BY <2>1 DEF Levels
    <2>2. CASE frames' = <<Frame(root, root)>>
      <3>1. /\ Len(frames') = 1 /\ frames'[1].dir = root /\ frames'[1].real = root
            /\ frames'[1].left = Entries(root)
        BY <2>2 DEF Frame
      <3>2. ASSUME NEW i \in 1 .. Len(frames')
            PROVE  /\ Below(frames'[i].dir) /\ Len(frames'[i].dir) = Len(root) + i - 1
                   /\ frames'[i].real = RealDir(Relative(frames'[i].dir)) /\ frames'[i].real \in seen'
                   /\ frames'[i].left \subseteq Entries(frames'[i].real)
        <4>1. i = 1
          BY <3>1
        <4>2. Len(root) = Len(root) + 1 - 1
          BY <1>4
        <4>3. QED
          BY <1>1, <1>4, <3>1, <4>1, <4>2
      <3>3. QED
        BY <1>1, <1>2, <3>2 DEF Levels
    <2>3. QED
      BY <1>1, <2>1, <2>2
  <1>10. Limits'
    <2>1. (Full(packages))' <=> Cardinality(packages') >= MaxPackages
      BY DEF Full
    <2>2. Full(packages') <=> Cardinality(packages') >= MaxPackages
      BY DEF Full
    <2>3. frames' = <<>> => Pending' = 0
      BY DEF Pending
    <2>4. Full(packages') => frames' = <<>> /\ Cardinality(packages') <= MaxPackages
      BY <1>1, <1>5, WorkspaceAssumption
    <2>5. Full(packages') => Cardinality(packages') + Pending' < MaxPackages + MaxDepth
      BY <1>5, <2>3, <2>4, WorkspaceAssumption
    <2>6. partial' <=> Full(packages')
      BY <1>1
    <2>7. QED
      BY <2>1, <2>2, <2>5, <2>6 DEF Limits
  <1>11. ~partial' => Complete'
    <2> SUFFICES ASSUME ~partial' PROVE Complete'
      OBVIOUS
    <2>1. frames' = <<Frame(root, root)>>
      BY <1>1
    <2>2. /\ Len(frames') = 1 /\ frames'[1].dir = root /\ frames'[1].real = root
          /\ frames'[1].left = Entries(root)
      BY <2>1 DEF Frame
    <2>3. ASSUME NEW d \in Reachable, d # root, Front(d) = root
          PROVE  Last(d) \in Entries(root)
      BY <1>1, <1>3, <2>3, ReachableParent DEF Entries
    <2>4. 1 \in 1 .. Len(frames') /\ \A i \in 1 .. Len(frames') : i = 1
      BY <2>2
    <2>5. \A d \in Reachable \cap seen' : HasManifest(d) => \E p \in packages' : p.root = Relative(d)
      BY <1>1, <1>5
    <2>6. \A i \in 1 .. Len(frames') : frames'[i].real \in Reachable => frames'[i].dir = frames'[i].real
      BY <2>2, <2>4
    <2>7. \A d \in Reachable \ {root} : Front(d) \in seen' =>
            d \in seen' \/ \E i \in 1 .. Len(frames') : frames'[i].real = Front(d) /\ Last(d) \in frames'[i].left
      BY <1>1, <2>2, <2>3, <2>4
    <2>8. QED
      BY <1>1, <1>2, <2>5, <2>6, <2>7 DEF Complete
  <1>12. seen' \subseteq repo'.dirs
    BY <1>1, <1>4
  <1>13. QED
    BY <1>1, <1>5, <1>6, <1>8, <1>9, <1>10, <1>11, <1>12 DEF WalkInv

(* A call that has looked at all its entries ends.                           *)
LEMMA EndDirectoryKeeps ==
  ASSUME WalkInv, EndDirectory
  PROVE  WalkInv'
  <1>1. /\ step = "walking" /\ step' = step /\ frames # <<>> /\ Last(frames).left = {} /\ frames' = Front(frames)
        /\ repo' = repo /\ root' = root /\ packages' = packages /\ seen' = seen /\ partial' = partial
    BY DEF EndDirectory
  <1>2. /\ \A p : RealDir(p)' = RealDir(p) /\ Relative(p)' = Relative(p) /\ Below(p)' = Below(p)
                  /\ Entries(p)' = Entries(p) /\ HasManifest(p)' = HasManifest(p)
        /\ Reachable' = Reachable /\ WalkFrames' = WalkFrames /\ NoWayIn' = NoWayIn
    BY <1>1, SameRepo
  <1>3. PICK n \in Nat \ {0} : n = Len(frames) /\ Last(frames) = frames[n] /\ n <= MaxDepth /\ n \in 1 .. n
    BY <1>1, TopFrame
  <1>4. frames \in Seq(WalkFrames)
    BY DEF WalkInv
  <1>5. frames' \in Seq(WalkFrames) /\ Len(frames') = n - 1 /\ \A i \in 1 .. n - 1 : frames'[i] = frames[i]
    <2>1. \A i \in 1 .. n - 1 : frames[i] \in WalkFrames
      BY <1>3, <1>4
    <2>2. frames' = SubSeq(frames, 1, n - 1)
      BY <1>1, <1>3 DEF Front
    <2>3. (1 <= n - 1 \/ n - 1 = 0) /\ n - 1 - 1 + 1 = n - 1 /\ \A i \in 1 .. n - 1 : 1 + i - 1 = i
      OBVIOUS
    <2>4. QED
      BY <2>1, <2>2, <2>3, SubSeqProperties
  <1>a. /\ \A i \in 1 .. n - 1 : i \in 1 .. n
        /\ \A i \in 1 .. n : i \in 1 .. n - 1 \/ i = n
        /\ n - 1 <= MaxDepth
    BY <1>3, WorkspaceAssumption
  <1>6. Levels'
    <2>1. \A i \in 1 .. n :
            /\ Below(frames[i].dir) /\ Len(frames[i].dir) = Len(root) + i - 1
            /\ frames[i].real = RealDir(Relative(frames[i].dir)) /\ frames[i].real \in seen
            /\ frames[i].left \subseteq Entries(frames[i].real)
      BY <1>3 DEF WalkInv, Levels
    <2>2. \A i \in 1 .. n - 1 :
            /\ Below(frames'[i].dir) /\ Len(frames'[i].dir) = Len(root) + i - 1
            /\ frames'[i].real = RealDir(Relative(frames'[i].dir)) /\ frames'[i].real \in seen'
            /\ frames'[i].left \subseteq Entries(frames'[i].real)
      BY <1>1, <1>5, <1>a, <2>1
    <2>3. QED
      BY <1>1, <1>2, <1>5, <2>2 DEF Levels
  <1>7. Sites'
    BY <1>1, <1>2 DEF WalkInv, Sites
  <1>8. Limits'
    <2>1. Pending = n - 1
      BY <1>1, <1>3 DEF Pending
    <2>2. Pending' \in {n - 1, n - 2}
      BY <1>5 DEF Pending
    <2>3. (Full(packages))' <=> Full(packages)
      BY <1>1 DEF Full
    <2>4. QED
      BY <1>1, <2>1, <2>2, <2>3, Numbers DEF Limits
  <1>9. ASSUME ~partial, NoWayIn PROVE Complete'
    <2>1. Complete
      BY <1>9 DEF WalkInv
    <2>2. \A d \in Reachable \cap seen : HasManifest(d) => \E p \in packages : p.root = Relative(d)
      BY <2>1 DEF Complete
    <2>3. \A i \in 1 .. n - 1 : frames'[i].real \in Reachable => frames'[i].dir = frames'[i].real
      BY <1>3, <1>5, <1>a, <2>1, Zenon DEF Complete
    <2>4. ASSUME NEW d \in Reachable \ {root}, Front(d) \in seen, d \notin seen
          PROVE  \E i \in 1 .. n - 1 : frames'[i].real = Front(d) /\ Last(d) \in frames'[i].left
      <3>1. PICK i \in 1 .. n : frames[i].real = Front(d) /\ Last(d) \in frames[i].left
        BY <1>3, <2>1, <2>4 DEF Complete
      <3>2. i # n
        BY <1>1, <1>3, <3>1
      <3>3. i \in 1 .. n - 1
        BY <1>a, <3>2
      <3>4. QED
        BY <1>5, <3>1, <3>3
    <2>5. QED
      BY <1>1, <1>2, <1>5, <2>2, <2>3, <2>4 DEF Complete
  <1>10. (frames \in Seq(WalkFrames))' /\ Len(frames') <= MaxDepth
    BY <1>2, <1>5, <1>a
  <1>11. QED
    BY <1>1, <1>2, <1>6, <1>7, <1>8, <1>9, <1>10 DEF WalkInv

(* The walk ends with its first call; or nothing happens.                    *)
LEMMA WalkRests ==
  ASSUME WalkInv, repo' = repo, root' = root, packages' = packages, seen' = seen, frames' = frames,
         partial' = partial, step' = step \/ (step = "walking" /\ frames = <<>> /\ step' = "built")
  PROVE  WalkInv'
  <1>1. /\ \A p : RealDir(p)' = RealDir(p) /\ Relative(p)' = Relative(p) /\ Below(p)' = Below(p)
                  /\ Entries(p)' = Entries(p) /\ HasManifest(p)' = HasManifest(p)
        /\ Reachable' = Reachable /\ WalkFrames' = WalkFrames /\ NoWayIn' = NoWayIn
    BY SameRepo
  <1>2. Levels'
    BY <1>1 DEF WalkInv, Levels
  <1>3. Sites'
    BY <1>1 DEF WalkInv, Sites
  <1>4. Limits'
    BY DEF WalkInv, Limits, Full, Pending
  <1>5. Complete => Complete'
    BY <1>1 DEF Complete
  <1>6. QED
    BY <1>1, <1>2, <1>3, <1>4, <1>5 DEF WalkInv

(* Every step keeps the invariant.                                           *)
LEMMA WalkInductive == WalkInv /\ [GraphNext]_graphVars => WalkInv'
  <1> SUFFICES ASSUME WalkInv, [GraphNext]_graphVars PROVE WalkInv'
    OBVIOUS
  <1>1. CASE Locate
    BY <1>1, LocateKeeps
  <1>2. CASE StartWalk
    BY <1>2, StartWalkKeeps
  <1>3. CASE EndDirectory
    BY <1>3, EndDirectoryKeeps
  <1>4. CASE EndWalk
    BY <1>4, WalkRests DEF EndWalk
  <1>5. CASE \E name \in IF frames = <<>> THEN {} ELSE Last(frames).left : VisitEntry(name)
    BY <1>5, VisitEntryKeeps
  <1>6. CASE UNCHANGED graphVars
    BY <1>6, WalkRests DEF graphVars
  <1>7. QED
    BY <1>1, <1>2, <1>3, <1>4, <1>5, <1>6 DEF GraphNext

(* For any repository, in any order of its entries: every package is where   *)
(* its path leads through the links, no directory holds two of them, the     *)
(* flag tells whether the limit was reached, and without a limit nothing is  *)
(* missed (workspace-graph.js:213).                                          *)
THEOREM WalkInvariance == WorkspaceSpec => []WalkInv
  BY GraphStarts, WalkInductive, PTL DEF WorkspaceSpec

(* For any repository and any limits: a finished walk has fewer than         *)
(* MaxPackages + MaxDepth packages, of different directories, and is partial *)
(* exactly when it has MaxPackages of them or more (workspace-graph.js:261,  *)
(* 268).                                                                     *)
THEOREM LimitReported == WorkspaceSpec => []LimitIsReported
  <1>1. ASSUME WalkInv PROVE LimitIsReported
    <2> SUFFICES ASSUME step = "built"
                 PROVE  /\ Cardinality(packages) < MaxPackages + MaxDepth
                        /\ partial <=> Full(packages)
                        /\ \A p, q \in packages : RealDir(p.root) = RealDir(q.root) => p = q
      BY DEF LimitIsReported
    <2>1. Pending = 0
      BY <1>1 DEF WalkInv, Pending
    <2>2. Cardinality(packages) < MaxPackages + MaxDepth
      BY <1>1, <2>1, Numbers
    <2>3. QED
      BY <1>1, <2>2 DEF WalkInv, Limits, Sites
  <1>2. QED
    BY <1>1, WalkInvariance, PTL

(* At the end of a walk that no limit stopped, all that is reachable is      *)
(* seen: the shortest path that is not has a parent that is.                 *)
LEMMA AllSeen ==
  ASSUME WalkInv, step = "built", ~partial, NoWayIn
  PROVE  Reachable \subseteq seen
  <1>1. RepoFacts /\ root \in repo.dirs /\ root \in seen /\ Len(frames) = 0 /\ Complete
    BY RepoIsOK DEF WalkInv
  <1> DEFINE Bad == {n \in Nat : \E d \in Reachable \ seen : Len(d) = n}
  <1>2. \A d \in Reachable : Len(d) \in Nat
    BY <1>1 DEF Reachable, RepoFacts
  <1>3. SUFFICES ASSUME NEW e \in Reachable \ seen PROVE FALSE
    OBVIOUS
  <1>4. PICK n \in Bad : \A k \in Bad : n <= k
    <2>1. Bad \in SUBSET Nat /\ Len(e) \in Bad
      BY <1>2
    <2> HIDE DEF Bad
    <2>2. QED
      BY <2>1, LeastOf
  <1>5. PICK d \in Reachable \ seen : Len(d) = n
    OBVIOUS
  <1>6. Front(d) \in Reachable /\ Len(Front(d)) = Len(d) - 1
    BY <1>1, <1>5, ReachableParent
  <1>7. Front(d) \in seen
    <2>1. SUFFICES ASSUME Front(d) \notin seen PROVE FALSE
      OBVIOUS
    <2>2. Len(Front(d)) \in Bad
      BY <1>2, <1>6, <2>1
    <2>3. Len(d) <= Len(d) - 1 /\ Len(d) \in Nat
      BY <1>2, <1>4, <1>5, <1>6, <2>2
    <2>4. QED
      BY <2>3
  <1>8. d \in Reachable \ {root}
    BY <1>1, <1>5
  <1>9. \E i \in 1 .. Len(frames) : frames[i].real = Front(d) /\ Last(d) \in frames[i].left
    BY <1>1, <1>5, <1>7, <1>8 DEF Complete
  <1>10. QED
    BY <1>1, <1>9

(* A package that holds the path of a directory is around it.                *)
LEMMA HoldingIsAround ==
  ASSUME WalkInv, NEW d \in repo.dirs, IsPrefix(root, d), NEW p \in Holding(Relative(d))
  PROVE  \E a \in Ancestors(d) \cap Reachable :
            HasManifest(a) /\ Len(a) = Len(root) + Len(p.root) /\ Len(p.root) \in Nat /\ Len(root) \in Nat
  <1>1. RepoFacts /\ root \in repo.dirs /\ root \in Path /\ d \in Path /\ Len(root) \in Nat
    BY RepoIsOK DEF WalkInv, RepoFacts
  <1>2. p \in packages /\ IsPrefix(p.root, Relative(d))
    BY DEF Holding
  <1>3. /\ p.root \in Path /\ Len(p.root) <= MaxDepth /\ Len(p.root) \in Nat
        /\ \A k \in 1 .. Len(p.root) : p.root[k] \notin Ignored
        /\ HasManifest(RealDir(p.root))
    BY <1>2 DEF WalkInv, Sites, Path
  <1>4. PICK m \in Nat, n \in Nat : m = Len(root) /\ n = Len(p.root)
    BY <1>1, <1>3
  <1> DEFINE a == SubSeq(d, 1, m + n)
  <1>5. RealDir(p.root) = a /\ m + n \in 1 .. Len(d)
    BY <1>1, <1>2, <1>3, <1>4, RealDirOfDir
  <1>6. a \in Ancestors(d) /\ a \in Path /\ Len(a) = m + n /\ \A k \in 1 .. m + n : a[k] = d[k]
    BY <1>1, <1>5, AncestorOf
  <1>7. a \in repo.dirs
    BY <1>1, <1>6, AncestorsInRepo
  <1> HIDE DEF a
  <1>8. Below(a)
    <2>1. m <= Len(d) /\ \A k \in 1 .. m : root[k] = d[k]
      BY <1>1, <1>4, PrefixOf
    <2>2. /\ Relative(d) \in Path /\ Len(Relative(d)) = Len(d) - m
          /\ \A k \in 1 .. Len(d) - m : Relative(d)[k] = d[m + k]
      BY <1>1, <1>4, <2>1, RelativePath
    <2>3. n <= Len(Relative(d)) /\ \A k \in 1 .. n : p.root[k] = Relative(d)[k]
      BY <1>2, <1>3, <1>4, <2>2, PrefixOf
    <2>4. Len(d) \in Nat
      BY <1>1 DEF Path
    <2>5. ASSUME NEW k \in m + 1 .. m + n PROVE a[k] \notin Ignored
      <3>1. k - m \in 1 .. n /\ k \in 1 .. m + n /\ m + (k - m) = k
        OBVIOUS
      <3>2. k - m \in 1 .. Len(d) - m
        BY <2>2, <2>3, <2>4, <3>1
      <3>3. a[k] = p.root[k - m]
        BY <1>6, <2>2, <2>3, <3>1, <3>2
      <3>4. QED
        BY <1>3, <1>4, <3>1, <3>3
    <2>6. \A k \in 1 .. m : k \in 1 .. m + n
      OBVIOUS
    <2>7. \A k \in 1 .. m : a[k] = root[k]
      BY <1>6, <2>1, <2>6
    <2>8. m <= m + n
      OBVIOUS
    <2>9. QED
      BY <1>4, <1>6, <2>5, <2>7, <2>8 DEF Below, Path
  <1>9. m + n <= m + MaxDepth
    BY <1>3, <1>4, WorkspaceAssumption
  <1>10. a \in Reachable
    BY <1>1, <1>4, <1>6, <1>7, <1>8, <1>9, ReachableIs
  <1>11. QED
    BY <1>3, <1>4, <1>5, <1>6, <1>10

(* And a directory with a manifest around it is a package that holds it.     *)
LEMMA AroundIsHolding ==
  ASSUME WalkInv, step = "built", ~partial, NoWayIn, NEW d \in repo.dirs, IsPrefix(root, d),
         NEW a \in Ancestors(d) \cap Reachable, HasManifest(a)
  PROVE  /\ Relative(a) \in Path /\ Len(Relative(a)) = Len(a) - Len(root)
         /\ Len(a) \in Nat /\ Len(root) \in Nat
         /\ \E p \in Holding(Relative(d)) : p.root = Relative(a)
  <1>1. RepoFacts /\ root \in repo.dirs /\ root \in Path /\ d \in Path /\ Len(root) \in Nat /\ Complete
    BY RepoIsOK DEF WalkInv, RepoFacts
  <1>2. a \in seen
    BY AllSeen
  <1>3. PICK p \in packages : p.root = Relative(a)
    BY <1>1, <1>2 DEF Complete
  <1>4. a \in Path /\ Len(a) \in 1 .. Len(d) /\ \A k \in 1 .. Len(a) : a[k] = d[k]
    BY <1>1, AncestorType
  <1>5. Below(a)
    BY <1>1, ReachableIs DEF Reachable
  <1>6. PICK m \in Nat, n \in Nat, o \in Nat : m = Len(root) /\ n = Len(a) /\ o = Len(d) /\ m <= n /\ n <= o
    BY <1>1, <1>4, <1>5 DEF Below, Path
  <1>7. /\ Relative(a) \in Path /\ Len(Relative(a)) = n - m
        /\ \A k \in 1 .. n - m : Relative(a)[k] = a[m + k]
    BY <1>1, <1>4, <1>6, RelativePath
  <1>8. /\ Relative(d) \in Path /\ Len(Relative(d)) = o - m
        /\ \A k \in 1 .. o - m : Relative(d)[k] = d[m + k]
    BY <1>1, <1>6, RelativePath
  <1>9. n - m <= o - m /\ \A k \in 1 .. n - m : m + k \in 1 .. n /\ k \in 1 .. o - m
    BY <1>6
  <1>10. IsPrefix(Relative(a), Relative(d))
    <2>1. \A k \in 1 .. n - m : Relative(a)[k] = Relative(d)[k]
      BY <1>4, <1>6, <1>7, <1>8, <1>9
    <2>2. QED
      BY <1>7, <1>8, <1>9, <2>1, PrefixOf
  <1>11. p \in Holding(Relative(d))
    BY <1>3, <1>10 DEF Holding
  <1>12. QED
    BY <1>3, <1>6, <1>7, <1>11

(* For any repository: after a walk that is not partial, without links into  *)
(* the tree, findNearestPackage gives the innermost directory with a         *)
(* manifest around the path, and none when there is none (workspace-         *)
(* graph.js:324).                                                            *)
THEOREM NearestPackageFound == WorkspaceSpec => []NearestIsRight
  <1>1. ASSUME WalkInv PROVE NearestIsRight
    <2> SUFFICES ASSUME step = "built", ~partial, NoWayIn, NEW d \in repo.dirs, IsPrefix(root, d)
                 PROVE  LET around == {a \in Ancestors(d) \cap Reachable : HasManifest(a)}
                        IN IF around = {} THEN Holding(Relative(d)) = {}
                           ELSE /\ Holding(Relative(d)) # {}
                                /\ NearestPackage(Relative(d)).root = Relative(Longest(around))
      BY DEF NearestIsRight, NoWayIn
    <2> DEFINE around == {a \in Ancestors(d) \cap Reachable : HasManifest(a)}
    <2>1. CASE around = {}
      <3>1. Holding(Relative(d)) = {}
        BY <1>1, <2>1, HoldingIsAround
      <3>2. QED
        BY <2>1, <3>1
    <2>2. CASE around # {}
      <3>0. d \in Path /\ root \in Path
        BY <1>1, RepoIsOK DEF WalkInv, RepoFacts
      <3>1. Longest(around) \in around /\ \A q \in around : Len(q) <= Len(Longest(around))
        <4>1. around \in SUBSET Ancestors(d)
          OBVIOUS
        <4> HIDE DEF around
        <4>2. QED
          BY <2>2, <3>0, <4>1, LongestIs
      <3>2. PICK a : a = Longest(around)
        OBVIOUS
      <3>3. a \in Ancestors(d) \cap Reachable /\ HasManifest(a)
        BY <3>1, <3>2
      <3>4. /\ Relative(a) \in Path /\ Len(Relative(a)) = Len(a) - Len(root)
            /\ Len(a) \in Nat /\ Len(root) \in Nat
            /\ \E p \in Holding(Relative(d)) : p.root = Relative(a)
        BY <1>1, <3>3, AroundIsHolding
      <3>5. PICK p \in Holding(Relative(d)) : p.root = Relative(a)
        BY <3>4
      <3>6. ASSUME NEW q \in Holding(Relative(d))
            PROVE  Len(q.root) <= Len(p.root) /\ Len(q.root) \in Nat
        <4>1. PICK b \in Ancestors(d) \cap Reachable :
                HasManifest(b) /\ Len(b) = Len(root) + Len(q.root) /\ Len(q.root) \in Nat
          BY <1>1, HoldingIsAround
        <4>2. Len(b) <= Len(a)
          BY <3>1, <3>2, <4>1
        <4>3. QED
          BY <3>4, <3>5, <4>1, <4>2
      <3>7. PICK nearest : nearest = NearestPackage(Relative(d))
        OBVIOUS
      <3>8. nearest \in Holding(Relative(d)) /\ \A q \in Holding(Relative(d)) : Len(q.root) <= Len(nearest.root)
        <4>1. \E r \in Holding(Relative(d)) : \A q \in Holding(Relative(d)) : Len(q.root) <= Len(r.root)
          BY <3>6
        <4>2. QED
          BY <3>7, <4>1, Zenon DEF NearestPackage
      <3>9. Len(nearest.root) = Len(p.root)
        BY <3>6, <3>8
      <3>10. nearest.root = p.root
        <4>1. nearest.root \in Path /\ p.root \in Path
          BY <1>1, <3>8 DEF WalkInv, Sites, Holding, Path
        <4>2. Relative(d) \in Path
          BY <3>0, PrefixOf, RelativePath
        <4>3. /\ \A k \in 1 .. Len(p.root) : nearest.root[k] = Relative(d)[k]
              /\ \A k \in 1 .. Len(p.root) : p.root[k] = Relative(d)[k]
          BY <3>8, <3>9, <4>1, <4>2, PrefixOf DEF Holding
        <4>4. QED
          BY <3>9, <4>1, <4>3, SamePath
      <3>11. Holding(Relative(d)) # {} /\ NearestPackage(Relative(d)).root = Relative(Longest(around))
        BY <3>2, <3>5, <3>7, <3>10
      <3>12. QED
        BY <2>2, <3>11
    <2>3. QED
      BY <2>1, <2>2
  <1>2. QED
    BY <1>1, WalkInvariance, PTL
=============================================================================
