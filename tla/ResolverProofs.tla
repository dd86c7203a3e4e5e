--------------------------- MODULE ResolverProofs ---------------------------
(* What holds of the skills that are loaded for a request, for any skills,   *)
(* dependencies, conflicts, evidence and limits.                             *)
EXTENDS SkillResolver, SequenceTheorems, FiniteSetTheorems, WellFoundedInduction, TLAPS

(* Every set of natural numbers that is not empty has a least element: the   *)
(* form of induction that these proofs use.                                  *)
LEMMA LeastOf ==
  ASSUME NEW S \in SUBSET Nat, S # {}
  PROVE  \E m \in S : \A k \in S : m <= k
  <1>1. PICK m \in S : \A y \in S : ~(<<y, m>> \in OpToRel(<, Nat))
    BY NatLessThanWellFounded, WFMin
  <1>2. \A y \in S : ~(y < m)
    BY <1>1 DEF OpToRel
  <1>3. QED
    BY <1>2

(* Induction up to a bound.                                                  *)
LEMMA UpTo ==
  ASSUME NEW P, NEW N \in Nat, 0 \in P, \A n \in 1 .. N : n - 1 \in P => n \in P
  PROVE  \A n \in 0 .. N : n \in P
  <1> SUFFICES ASSUME \E n \in 0 .. N : n \notin P PROVE FALSE
    OBVIOUS
  <1> DEFINE wrong == {n \in 0 .. N : n \notin P}
  <1>1. wrong \in SUBSET Nat /\ wrong # {}
    OBVIOUS
  <1> HIDE DEF wrong
  <1>2. PICK n \in wrong : \A k \in wrong : n <= k
    BY <1>1, LeastOf
  <1>3. n \in 0 .. N /\ n \notin P
    BY DEF wrong
  <1>4. n \in 1 .. N /\ n - 1 \in 0 .. N /\ ~(n <= n - 1)
    BY <1>3
  <1>5. n - 1 \in P
    BY <1>2, <1>4 DEF wrong
  <1>6. QED
    BY <1>3, <1>4, <1>5

(* A function that is defined by a first value and a step exists.            *)
Recurs(g, S, a, N, F) ==
    g \in [0 .. N -> S] /\ \A n \in 0 .. N : g[n] = IF n = 0 THEN a ELSE F[n][g[n - 1]]

(* There is one for every first value and every step.                        *)
LEMMA Recursion ==
  ASSUME NEW S, NEW a \in S, NEW N \in Nat, NEW F \in [1 .. N -> [S -> S]]
  PROVE  \E g : Recurs(g, S, a, N, F)
  <1> DEFINE Rec(g, m) == \A n \in 0 .. m : g[n] = IF n = 0 THEN a ELSE F[n][g[n - 1]]
             P == {m \in Nat : \E g \in [0 .. m -> S] : Rec(g, m)}
  <1>1. 0 \in P
    <2>1. [n \in 0 .. 0 |-> a] \in [0 .. 0 -> S] /\ Rec([n \in 0 .. 0 |-> a], 0)
      OBVIOUS
    <2>2. QED
      BY <2>1
  <1>2. ASSUME NEW n \in 1 .. N, n - 1 \in P PROVE n \in P
    <2>1. PICK m \in Nat : m = n - 1 /\ n = m + 1
      OBVIOUS
    <2>2. PICK g \in [0 .. m -> S] : Rec(g, m)
      BY <1>2, <2>1
    <2> DEFINE h == [i \in 0 .. m + 1 |-> IF i <= m THEN g[i] ELSE F[m + 1][g[m]]]
    <2>3. h \in [0 .. m + 1 -> S]
      <3>1. F[m + 1][g[m]] \in S
        BY <2>1
      <3>2. QED
        BY <3>1
    <2>4. ASSUME NEW i \in 0 .. m + 1
          PROVE  h[i] = IF i = 0 THEN a ELSE F[i][h[i - 1]]
      <3>1. CASE i = m + 1
        BY <3>1
      <3>2. CASE i # m + 1 /\ i # 0
        <4>1. i - 1 \in 0 .. m /\ i \in 0 .. m
          BY <3>2
        <4>2. h[i - 1] = g[i - 1] /\ h[i] = g[i]
          BY <4>1
        <4>3. QED
          BY <2>2, <3>2, <4>1, <4>2
      <3>3. CASE i = 0
        BY <2>2, <3>3
      <3>4. QED
        BY <3>1, <3>2, <3>3
    <2>5. Rec(h, m + 1)
      BY <2>4
    <2> HIDE DEF h, Rec
    <2>6. QED
      BY <2>1, <2>3, <2>5
  <1> HIDE DEF P
  <1>3. N \in P
    <2>1. \A n \in 0 .. N : n \in P
      BY <1>1, <1>2, UpTo
    <2>2. QED
      BY <2>1
  <1>4. QED
    BY <1>3 DEF P, Recurs

(* A list with one more id.                                                  *)
BeginsWith(j, ids) == Len(ids) <= Len(j) /\ \A k \in 1 .. Len(ids) : j[k] = ids[k]

(* Appending an id that is not in the list keeps its ids different.          *)
LEMMA AppendedIs ==
  ASSUME NEW T, NEW ids \in Seq(T), NEW c \in T
  PROVE  /\ Append(ids, c) \in Seq(T) /\ ToSet(Append(ids, c)) = ToSet(ids) \cup {c}
         /\ IsInjective(ids) /\ c \notin ToSet(ids) => IsInjective(Append(ids, c))
         /\ BeginsWith(Append(ids, c), ids)
  <1>1. /\ Append(ids, c) \in Seq(T) /\ Len(Append(ids, c)) = Len(ids) + 1
        /\ \A k \in 1 .. Len(ids) : Append(ids, c)[k] = ids[k]
        /\ Append(ids, c)[Len(ids) + 1] = c
    BY AppendProperties
  <1>2. PICK e \in Seq(T) : e = Append(ids, c)
    BY <1>1
  <1>3. PICK m \in Nat : m = Len(ids) /\ DOMAIN ids = 1 .. m /\ DOMAIN e = 1 .. m + 1 /\ Len(e) = m + 1
    BY <1>1, <1>2
  <1>4. \A k \in 1 .. m : e[k] = ids[k] /\ k \in 1 .. m + 1 /\ k # m + 1
    BY <1>1, <1>2, <1>3
  <1>5. e[m + 1] = c /\ m + 1 \in 1 .. m + 1 /\ \A k \in 1 .. m + 1 : k \in 1 .. m \/ k = m + 1
    BY <1>1, <1>2, <1>3
  <1>6. ToSet(e) = ToSet(ids) \cup {c}
    <2>1. ToSet(e) = {e[k] : k \in 1 .. m + 1} /\ ToSet(ids) = {ids[k] : k \in 1 .. m}
      BY <1>3, Zenon DEF ToSet
    <2>2. QED
      BY <1>4, <1>5, <2>1, Zenon
  <1>7. ASSUME IsInjective(ids), c \notin ToSet(ids) PROVE IsInjective(e)
    <2>1. \A k, l \in 1 .. m : ids[k] = ids[l] => k = l
      BY <1>3, <1>7, Zenon DEF IsInjective
    <2>2. \A k \in 1 .. m : ids[k] # c
      BY <1>3, <1>7, Zenon DEF ToSet
    <2>3. \A k, l \in 1 .. m + 1 : e[k] = e[l] => k = l
      BY <1>4, <1>5, <2>1, <2>2, Zenon
    <2>4. QED
      BY <1>3, <2>3, Zenon DEF IsInjective
  <1>8. BeginsWith(e, ids)
    BY <1>3, <1>4 DEF BeginsWith
  <1>9. QED
    BY <1>2, <1>6, <1>7, <1>8

(* A list that starts with one that starts with another.                     *)
LEMMA StartsTwice ==
  ASSUME NEW T, NEW i \in Seq(T), NEW j \in Seq(T), NEW k \in Seq(T), BeginsWith(j, i), BeginsWith(k, j)
  PROVE  BeginsWith(k, i)
  BY DEF BeginsWith

(* Every list starts with itself.                                            *)
LEMMA StartsItself ==
  ASSUME NEW T, NEW i \in Seq(T)
  PROVE  BeginsWith(i, i)
  BY DEF BeginsWith

(* What Join returns.                                                        *)
Joins(j, ids, members, T) ==
    /\ j \in Seq(T) /\ ToSet(j) = members /\ BeginsWith(j, ids)
    /\ IsInjective(ids) => IsInjective(j)

Joining(g, ids, more, out) ==
    /\ Join(ids, more, out) = g[Len(more)] /\ g[0] = ids
    /\ \A n \in 1 .. Len(more) :
          g[n] = IF more[n] \in out \cup ToSet(g[n - 1]) THEN g[n - 1] ELSE Append(g[n - 1], more[n])

(* The list is what its recursive function gives.                            *)
LEMMA JoinUnfolds ==
  ASSUME NEW T, NEW ids \in Seq(T), NEW more \in Seq(T), NEW out
  PROVE  \E g : Joining(g, ids, more, out)
  <1>1. PICK N \in Nat : N = Len(more) /\ \A n \in 1 .. N : more[n] \in T
    OBVIOUS
  <1> DEFINE F == [n \in 1 .. N |-> [x \in Seq(T) |->
                      IF more[n] \in out \cup ToSet(x) THEN x ELSE Append(x, more[n])]]
             joined == CHOOSE g : g = [n \in 0 .. Len(more) |->
                          IF n = 0 THEN ids
                          ELSE IF more[n] \in out \cup ToSet(g[n - 1]) THEN g[n - 1]
                          ELSE Append(g[n - 1], more[n])]
  <1>2. F \in [1 .. N -> [Seq(T) -> Seq(T)]]
    <2>1. \A n \in 1 .. N, x \in Seq(T) : Append(x, more[n]) \in Seq(T)
      BY <1>1, AppendProperties
    <2>2. QED
      BY <2>1
  <1>3. PICK g \in [0 .. N -> Seq(T)] : \A n \in 0 .. N : g[n] = IF n = 0 THEN ids ELSE F[n][g[n - 1]]
    <2> HIDE DEF F
    <2>1. PICK g : Recurs(g, Seq(T), ids, N, F)
      BY <1>1, <1>2, Recursion, Zenon
    <2>2. QED
      BY <2>1 DEF Recurs
  <1>4. \A n \in 0 .. N : n # 0 => n \in 1 .. N /\ g[n - 1] \in Seq(T)
    BY <1>3
  <1>5. \A n \in 0 .. N : g[n] = IF n = 0 THEN ids
                                 ELSE IF more[n] \in out \cup ToSet(g[n - 1]) THEN g[n - 1]
                                 ELSE Append(g[n - 1], more[n])
    BY <1>3, <1>4, Zenon
  <1>6. g = [n \in 0 .. Len(more) |-> IF n = 0 THEN ids
                                      ELSE IF more[n] \in out \cup ToSet(g[n - 1]) THEN g[n - 1]
                                      ELSE Append(g[n - 1], more[n])]
    BY <1>1, <1>3, <1>5, Zenon
  <1>7. joined = [n \in 0 .. Len(more) |-> IF n = 0 THEN ids
                          ELSE IF more[n] \in out \cup ToSet(joined[n - 1]) THEN joined[n - 1]
                          ELSE Append(joined[n - 1], more[n])]
    BY <1>6, Zenon
  <1>8. Join(ids, more, out) = joined[Len(more)]
    BY Zenon DEF Join
  <1> HIDE DEF joined
  <1>9. 0 \in 0 .. Len(more) /\ \A n \in 1 .. Len(more) : n \in 0 .. Len(more) /\ n # 0
    BY <1>1
  <1>10. joined[0] = ids
    BY <1>7, <1>9, Zenon
  <1>11. \A n \in 1 .. Len(more) :
            joined[n] = IF more[n] \in out \cup ToSet(joined[n - 1]) THEN joined[n - 1]
                        ELSE Append(joined[n - 1], more[n])
    BY <1>7, <1>9, Zenon
  <1>12. QED
    BY <1>8, <1>10, <1>11, Zenon DEF Joining

(* The ids of the first list stay in front; of the others, those that are    *)
(* not in out are there, each once.                                          *)
LEMMA JoinIs ==
  ASSUME NEW T, NEW ids \in Seq(T), NEW more \in Seq(T), NEW out
  PROVE  Joins(Join(ids, more, out), ids, ToSet(ids) \cup (ToSet(more) \ out), T)
  <1>1. PICK N \in Nat : N = Len(more) /\ DOMAIN more = 1 .. N
    OBVIOUS
  <1>2. PICK g : /\ Join(ids, more, out) = g[N] /\ g[0] = ids
                 /\ \A n \in 1 .. N :
                     g[n] = IF more[n] \in out \cup ToSet(g[n - 1]) THEN g[n - 1] ELSE Append(g[n - 1], more[n])
    <2>1. PICK g : Joining(g, ids, more, out)
      BY JoinUnfolds, Zenon
    <2>2. QED
      BY <1>1, <2>1 DEF Joining
  <1> DEFINE Upper(n) == {more[k] : k \in 1 .. n}
             P == {n \in Nat : Joins(g[n], ids, ToSet(ids) \cup (Upper(n) \ out), T)}
  <1>3. 0 \in P
    <2>1. Upper(0) = {}
      OBVIOUS
    <2>2. BeginsWith(ids, ids)
      BY StartsItself
    <2>3. QED
      BY <1>2, <2>1, <2>2 DEF Joins
  <1>4. ASSUME NEW n \in 1 .. N, n - 1 \in P PROVE n \in P
    <2>1. PICK x : x = g[n - 1]
      OBVIOUS
    <2>2. Joins(x, ids, ToSet(ids) \cup (Upper(n - 1) \ out), T)
      BY <1>4, <2>1
    <2>3. Upper(n) = Upper(n - 1) \cup {more[n]}
      <3>1. 1 .. n = (1 .. n - 1) \cup {n}
        OBVIOUS
      <3>2. QED
        BY <3>1, Zenon
    <2>4. g[n] = IF more[n] \in out \cup ToSet(x) THEN x ELSE Append(x, more[n])
      BY <1>2, <2>1, Zenon
    <2>5. more[n] \in T /\ n \in Nat
      BY <1>1
    <2> HIDE DEF Upper
    <2>6. CASE more[n] \in out \cup ToSet(x)
      <3>1. ToSet(ids) \cup (Upper(n) \ out) = ToSet(ids) \cup (Upper(n - 1) \ out)
        BY <2>2, <2>3, <2>6 DEF Joins
      <3>2. QED
        BY <2>2, <2>4, <2>5, <2>6, <3>1, Zenon
    <2>7. CASE more[n] \notin out \cup ToSet(x)
      <3>1. PICK e : e = Append(x, more[n])
        OBVIOUS
      <3>2. x \in Seq(T)
        BY <2>2 DEF Joins
      <3>3. /\ e \in Seq(T) /\ ToSet(e) = ToSet(x) \cup {more[n]} /\ BeginsWith(e, x)
            /\ IsInjective(x) => IsInjective(e)
        BY <2>5, <2>7, <3>1, <3>2, AppendedIs
      <3>4. BeginsWith(e, ids)
        BY <2>2, <3>2, <3>3, StartsTwice DEF Joins
      <3>5. ToSet(e) = ToSet(ids) \cup (Upper(n) \ out)
        BY <2>2, <2>3, <2>7, <3>3 DEF Joins
      <3>6. Joins(e, ids, ToSet(ids) \cup (Upper(n) \ out), T)
        BY <2>2, <3>3, <3>4, <3>5 DEF Joins
      <3>7. QED
        BY <2>4, <2>5, <2>7, <3>1, <3>6, Zenon
    <2>8. QED
      BY <2>6, <2>7
  <1>5. N \in P
    <2> HIDE DEF P
    <2>1. \A n \in 0 .. N : n \in P
      BY <1>3, <1>4, UpTo
    <2>2. QED
      BY <1>1, <2>1
  <1>6. Upper(N) = ToSet(more)
    BY <1>1 DEF ToSet
  <1>7. QED
    BY <1>2, <1>5, <1>6

(* A request, and the order of the skills.                                   *)
LEMMA RequestIs ==
  ASSUME req \in Requests
  PROVE  /\ \A s \in SkillId : s \in STRING /\ req.deps[s] \in Seq(SkillId) /\ req.conflicts[s] \in Seq(SkillId)
         /\ req.exclude \subseteq SkillId
         /\ \A s \in SkillId : Tokens[s] \in Nat
         /\ Len(SkillOrder) \in Nat /\ {"system-design", "decisions"} \subseteq SkillId
  <1>1. RequestOK(req)
    BY ResolverAssumption
  <1>2. \A s \in SkillId : req.deps[s] \in Seq(SkillId) /\ req.conflicts[s] \in Seq(SkillId)
    BY <1>1 DEF RequestOK
  <1>3. req.exclude \subseteq SkillId
    BY <1>1 DEF RequestOK
  <1>4. \A s \in SkillId : s \in STRING
    BY ResolverAssumption DEF SkillId, ToSet
  <1>5. QED
    BY <1>2, <1>3, <1>4, ResolverAssumption

(* No list of different skills is longer than that of all.                   *)
LEMMA NoMoreSkills ==
  ASSUME NEW q \in Seq(SkillId), IsInjective(q)
  PROVE  Len(q) <= Len(SkillOrder)
  <1>1. PICK m \in Nat : m = Len(q) /\ DOMAIN q = 1 .. m /\ \A k \in 1 .. m : q[k] \in SkillId
    OBVIOUS
  <1>2. PICK N \in Nat : N = Len(SkillOrder) /\ DOMAIN SkillOrder = 1 .. N
    BY ResolverAssumption
  <1>3. \A s \in SkillId : Place(s) \in 1 .. N /\ SkillOrder[Place(s)] = s
    BY <1>2 DEF SkillId, ToSet, Place
  <1> DEFINE f == [k \in 1 .. m |-> Place(q[k])]
  <1>4. SUFFICES ASSUME N < m PROVE FALSE
    BY <1>1, <1>2
  <1>5. f \in [1 .. m -> 1 .. N]
    BY <1>1, <1>3
  <1>6. /\ IsFiniteSet(1 .. m) /\ Cardinality(1 .. m) = m /\ IsFiniteSet(1 .. N) /\ Cardinality(1 .. N) = N
    <2>1. \A a \in Nat : IsFiniteSet(1 .. a) /\ Cardinality(1 .. a) = a
      BY FS_Interval
    <2>2. QED
      BY <2>1
  <1>7. \E x, y \in 1 .. m : x # y /\ f[x] = f[y]
    <2> HIDE DEF f
    <2>1. QED
      BY <1>4, <1>5, <1>6, FS_PigeonHole
  <1>8. PICK x \in 1 .. m, y \in 1 .. m : x # y /\ Place(q[x]) = Place(q[y])
    BY <1>7
  <1>9. q[x] = q[y]
    BY <1>1, <1>3, <1>8, Zenon
  <1>10. QED
    BY <1>1, <1>8, <1>9, Zenon DEF IsInjective

(* After n skills of the search: whose dependencies are in the list.         *)
Found(f, s, n) ==
    /\ f \in Seq(SkillId) /\ IsInjective(f) /\ s \in ToSet(f)
    /\ ToSet(f) \cap req.exclude \subseteq {s}
    /\ \A k \in 1 .. Len(f) : k <= n => ToSet(req.deps[f[k]]) \ req.exclude \subseteq ToSet(f)
    /\ ToSet(f) \subseteq Needs(s)

(* What a skill needs has what its members depend on.                        *)
LEMMA NeedsFurther ==
  ASSUME req \in Requests, NEW s \in SkillId, NEW t \in Needs(s), NEW u \in ToSet(req.deps[t]) \ req.exclude
  PROVE  u \in Needs(s)
  <1>1. t \in SkillId
    BY DEF Needs
  <1>2. PICK more \in Seq(SkillId) : more = req.deps[t]
    BY <1>1, RequestIs
  <1>3. u \in SkillId
    BY <1>2 DEF ToSet
  <1>4. ASSUME NEW set \in SUBSET SkillId, s \in set, Closed(set) PROVE u \in set
    <2>1. t \in set
      BY <1>4 DEF Needs
    <2>2. QED
      BY <1>4, <2>1 DEF Closed
  <1>5. QED
    BY <1>3, <1>4 DEF Needs

(* Before the search: the skill alone.                                       *)
LEMMA FoundFirst ==
  ASSUME req \in Requests, NEW s \in SkillId
  PROVE  Found(<<s>>, s, 0)
  <1>1. <<s>> \in Seq(SkillId) /\ Len(<<s>>) = 1 /\ DOMAIN <<s>> = {1} /\ <<s>>[1] = s
    OBVIOUS
  <1>2. ToSet(<<s>>) = {s} /\ IsInjective(<<s>>)
    BY <1>1 DEF ToSet, IsInjective
  <1>3. \A k \in 1 .. 1 : ~(k <= 0)
    OBVIOUS
  <1>4. s \in Needs(s)
    BY DEF Needs
  <1>5. QED
    BY <1>1, <1>2, <1>3, <1>4 DEF Found

(* The nth skill adds its dependencies.                                      *)
LEMMA FoundMore ==
  ASSUME req \in Requests, NEW s \in SkillId, NEW n \in Nat \ {0}, NEW f, Found(f, s, n - 1), n <= Len(f)
  PROVE  Found(Join(f, req.deps[f[n]], req.exclude), s, n)
  <1>1. /\ f \in Seq(SkillId) /\ IsInjective(f) /\ s \in ToSet(f)
        /\ ToSet(f) \cap req.exclude \subseteq {s}
        /\ \A k \in 1 .. Len(f) : k <= n - 1 => ToSet(req.deps[f[k]]) \ req.exclude \subseteq ToSet(f)
        /\ ToSet(f) \subseteq Needs(s)
    BY DEF Found
  <1>2. n \in 1 .. Len(f) /\ f[n] \in SkillId
    BY <1>1
  <1>3. PICK more \in Seq(SkillId) : more = req.deps[f[n]]
    BY <1>2, RequestIs
  <1>4. PICK j : j = Join(f, more, req.exclude)
    OBVIOUS
  <1>5. Joins(j, f, ToSet(f) \cup (ToSet(more) \ req.exclude), SkillId)
    BY <1>1, <1>4, JoinIs
  <1>6. /\ j \in Seq(SkillId) /\ IsInjective(j) /\ ToSet(j) = ToSet(f) \cup (ToSet(more) \ req.exclude)
        /\ Len(f) <= Len(j) /\ \A k \in 1 .. Len(f) : j[k] = f[k]
    BY <1>1, <1>5 DEF Joins, BeginsWith
  <1>7. ASSUME NEW k \in 1 .. Len(j), k <= n
        PROVE  ToSet(req.deps[j[k]]) \ req.exclude \subseteq ToSet(j)
    <2>1. k \in 1 .. Len(f) /\ (k = n \/ k <= n - 1)
      BY <1>2, <1>7
    <2>2. j[k] = f[k]
      BY <1>6, <2>1
    <2>3. CASE k = n
      BY <1>3, <1>6, <2>2, <2>3
    <2>4. CASE k <= n - 1
      BY <1>1, <1>6, <2>1, <2>2, <2>4
    <2>5. QED
      BY <2>1, <2>3, <2>4
  <1>8. s \in ToSet(j) /\ ToSet(j) \cap req.exclude \subseteq {s}
    BY <1>1, <1>6
  <1>9. ToSet(j) \subseteq Needs(s)
    <2>1. f[n] \in Needs(s)
      BY <1>1, <1>2 DEF ToSet
    <2>2. ToSet(more) \ req.exclude \subseteq Needs(s)
      BY <1>3, <2>1, NeedsFurther
    <2>3. QED
      BY <1>1, <1>6, <2>2
  <1>10. QED
    BY <1>3, <1>4, <1>6, <1>7, <1>8, <1>9 DEF Found

(* There is no nth skill: the search is over.                                *)
LEMMA FoundAll ==
  ASSUME NEW s, NEW n \in Nat \ {0}, NEW f, Found(f, s, n - 1), n > Len(f)
  PROVE  Found(f, s, n)
  <1>1. Len(f) \in Nat /\ \A k \in 1 .. Len(f) : k <= n - 1
    BY DEF Found
  <1>2. QED
    BY <1>1 DEF Found

(* The search, step by step.                                                 *)
Finding(g, s) ==
    /\ TransitiveDeps(s) = g[Len(SkillOrder)] /\ g[0] = <<s>>
    /\ \A n \in 1 .. Len(SkillOrder) :
          g[n] = IF n > Len(g[n - 1]) THEN g[n - 1]
                 ELSE Join(g[n - 1], req.deps[g[n - 1][n]], req.exclude)

(* The search is what its recursive function gives.                          *)
LEMMA DepsUnfold ==
  ASSUME req \in Requests, NEW s \in SkillId
  PROVE  \E g : Finding(g, s)
  <1>1. PICK N \in Nat : N = Len(SkillOrder)
    BY RequestIs
  <1> DEFINE F == [n \in 1 .. N |-> [x \in Seq(SkillId) |->
                      IF n > Len(x) THEN x ELSE Join(x, req.deps[x[n]], req.exclude)]]
             found == CHOOSE g : g = [n \in 0 .. Len(SkillOrder) |->
                          IF n = 0 THEN <<s>>
                          ELSE IF n > Len(g[n - 1]) THEN g[n - 1]
                          ELSE Join(g[n - 1], req.deps[g[n - 1][n]], req.exclude)]
  <1>2. F \in [1 .. N -> [Seq(SkillId) -> Seq(SkillId)]]
    <2>1. ASSUME NEW n \in 1 .. N, NEW x \in Seq(SkillId), ~(n > Len(x))
          PROVE  Join(x, req.deps[x[n]], req.exclude) \in Seq(SkillId)
      <3>1. x[n] \in SkillId
        BY <2>1
      <3>2. PICK more \in Seq(SkillId) : more = req.deps[x[n]]
        BY <3>1, RequestIs
      <3>3. Joins(Join(x, more, req.exclude), x, ToSet(x) \cup (ToSet(more) \ req.exclude), SkillId)
        BY JoinIs
      <3>4. QED
        BY <3>2, <3>3 DEF Joins
    <2>2. QED
      BY <2>1, Zenon
  <1>3. <<s>> \in Seq(SkillId)
    OBVIOUS
  <1>4. PICK g : g \in [0 .. N -> Seq(SkillId)] /\ \A n \in 0 .. N : g[n] = IF n = 0 THEN <<s>> ELSE F[n][g[n - 1]]
    <2> HIDE DEF F
    <2>1. PICK g : Recurs(g, Seq(SkillId), <<s>>, N, F)
      BY <1>1, <1>2, <1>3, Recursion, Zenon
    <2>2. QED
      BY <2>1 DEF Recurs
  <1>5. \A n \in 0 .. N : n # 0 => n \in 1 .. N /\ g[n - 1] \in Seq(SkillId)
    BY <1>4
  <1>6. \A n \in 0 .. N : g[n] = IF n = 0 THEN <<s>>
                                 ELSE IF n > Len(g[n - 1]) THEN g[n - 1]
                                 ELSE Join(g[n - 1], req.deps[g[n - 1][n]], req.exclude)
    BY <1>4, <1>5, Zenon
  <1>7. g = [n \in 0 .. Len(SkillOrder) |->
                          IF n = 0 THEN <<s>>
                          ELSE IF n > Len(g[n - 1]) THEN g[n - 1]
                          ELSE Join(g[n - 1], req.deps[g[n - 1][n]], req.exclude)]
    BY <1>1, <1>4, <1>6, Zenon
  <1>8. found = [n \in 0 .. Len(SkillOrder) |->
                          IF n = 0 THEN <<s>>
                          ELSE IF n > Len(found[n - 1]) THEN found[n - 1]
                          ELSE Join(found[n - 1], req.deps[found[n - 1][n]], req.exclude)]
    BY <1>7, Zenon
  <1>9. TransitiveDeps(s) = found[Len(SkillOrder)]
    BY Zenon DEF TransitiveDeps
  <1> HIDE DEF found
  <1>10. 0 \in 0 .. Len(SkillOrder) /\ \A n \in 1 .. Len(SkillOrder) : n \in 0 .. Len(SkillOrder) /\ n # 0
    BY <1>1
  <1>11. found[0] = <<s>>
    BY <1>8, <1>10, Zenon
  <1>12. \A n \in 1 .. Len(SkillOrder) :
            found[n] = IF n > Len(found[n - 1]) THEN found[n - 1]
                       ELSE Join(found[n - 1], req.deps[found[n - 1][n]], req.exclude)
    BY <1>8, <1>10, Zenon
  <1>13. QED
    BY <1>9, <1>11, <1>12, Zenon DEF Finding

(* The skill and its dependencies are closed under the dependencies that are *)
(* not excluded: there are no more skills than steps. And they are needed.   *)
LEMMA DepsAre ==
  ASSUME req \in Requests, NEW s \in SkillId
  PROVE  /\ TransitiveDeps(s) \in Seq(SkillId) /\ IsInjective(TransitiveDeps(s))
         /\ s \in ToSet(TransitiveDeps(s)) /\ ToSet(TransitiveDeps(s)) \cap req.exclude \subseteq {s}
         /\ Closed(ToSet(TransitiveDeps(s))) /\ ToSet(TransitiveDeps(s)) \subseteq Needs(s)
  <1>1. PICK N \in Nat : N = Len(SkillOrder)
    BY RequestIs
  <1>2. PICK g : /\ TransitiveDeps(s) = g[N] /\ g[0] = <<s>>
                 /\ \A n \in 1 .. N : g[n] = IF n > Len(g[n - 1]) THEN g[n - 1]
                                             ELSE Join(g[n - 1], req.deps[g[n - 1][n]], req.exclude)
    <2>1. PICK g : Finding(g, s)
      BY DepsUnfold, Zenon
    <2>2. QED
      BY <1>1, <2>1 DEF Finding
  <1> DEFINE P == {n \in Nat : Found(g[n], s, n)}
  <1>3. 0 \in P
    BY <1>2, FoundFirst
  <1>4. ASSUME NEW n \in 1 .. N, n - 1 \in P PROVE n \in P
    <2>1. PICK x : x = g[n - 1]
      OBVIOUS
    <2>2. Found(x, s, n - 1) /\ n \in Nat \ {0}
      BY <1>4, <2>1
    <2>3. g[n] = IF n > Len(x) THEN x ELSE Join(x, req.deps[x[n]], req.exclude)
      BY <1>2, <2>1, Zenon
    <2>4. Len(x) \in Nat
      BY <2>2 DEF Found
    <2>5. CASE n > Len(x)
      BY <2>2, <2>3, <2>5, FoundAll
    <2>6. CASE ~(n > Len(x))
      <3>1. n <= Len(x)
        BY <2>2, <2>4, <2>6
      <3>2. Found(Join(x, req.deps[x[n]], req.exclude), s, n)
        BY <2>2, <3>1, FoundMore
      <3>3. QED
        BY <2>2, <2>3, <2>6, <3>2
    <2>7. QED
      BY <2>5, <2>6
  <1>5. N \in P
    <2> HIDE DEF P
    <2>1. \A n \in 0 .. N : n \in P
      BY <1>3, <1>4, UpTo
    <2>2. QED
      BY <2>1
  <1>6. PICK f : f = TransitiveDeps(s) /\ Found(f, s, N)
    BY <1>2, <1>5
  <1>7. /\ f \in Seq(SkillId) /\ IsInjective(f) /\ s \in ToSet(f) /\ ToSet(f) \cap req.exclude \subseteq {s}
        /\ ToSet(f) \subseteq Needs(s)
    BY <1>6 DEF Found
  <1>8. Len(f) <= N
    BY <1>1, <1>7, NoMoreSkills
  <1>9. Closed(ToSet(f))
    <2> SUFFICES ASSUME NEW t \in ToSet(f) PROVE ToSet(req.deps[t]) \ req.exclude \subseteq ToSet(f)
      BY DEF Closed
    <2>1. PICK k \in 1 .. Len(f) : t = f[k]
      BY <1>7 DEF ToSet
    <2>2. k <= N
      BY <1>7, <1>8, <2>1
    <2>3. QED
      BY <1>6, <2>1, <2>2 DEF Found
  <1>10. QED
    BY <1>6, <1>7, <1>9

(* The closure of the selection, skill by skill.                             *)
Closing(g) ==
    /\ Closure = g[Len(chosen)] /\ g[0] = chosen
    /\ \A n \in 1 .. Len(chosen) : g[n] = Join(g[n - 1], TransitiveDeps(chosen[n]), {})

(* The closure is what its recursive function gives.                         *)
LEMMA ClosureUnfolds ==
  ASSUME req \in Requests, chosen \in Seq(SkillId)
  PROVE  \E g : Closing(g)
  <1>1. PICK N \in Nat : N = Len(chosen) /\ \A n \in 1 .. N : chosen[n] \in SkillId
    OBVIOUS
  <1> DEFINE F == [n \in 1 .. N |-> [x \in Seq(SkillId) |-> Join(x, TransitiveDeps(chosen[n]), {})]]
             closing == CHOOSE g : g = [n \in 0 .. Len(chosen) |->
                           IF n = 0 THEN chosen ELSE Join(g[n - 1], TransitiveDeps(chosen[n]), {})]
  <1>2. F \in [1 .. N -> [Seq(SkillId) -> Seq(SkillId)]]
    <2>1. ASSUME NEW n \in 1 .. N, NEW x \in Seq(SkillId)
          PROVE  Join(x, TransitiveDeps(chosen[n]), {}) \in Seq(SkillId)
      <3>1. PICK more \in Seq(SkillId) : more = TransitiveDeps(chosen[n])
        BY <1>1, DepsAre
      <3>2. Joins(Join(x, more, {}), x, ToSet(x) \cup (ToSet(more) \ {}), SkillId)
        BY JoinIs
      <3>3. QED
        BY <3>1, <3>2 DEF Joins
    <2>2. QED
      BY <2>1, Zenon
  <1>3. PICK g : g \in [0 .. N -> Seq(SkillId)] /\ \A n \in 0 .. N : g[n] = IF n = 0 THEN chosen ELSE F[n][g[n - 1]]
    <2> HIDE DEF F
    <2>1. PICK g : Recurs(g, Seq(SkillId), chosen, N, F)
      BY <1>1, <1>2, Recursion, Zenon
    <2>2. QED
      BY <2>1 DEF Recurs
  <1>4. \A n \in 0 .. N : n # 0 => n \in 1 .. N /\ g[n - 1] \in Seq(SkillId)
    BY <1>3
  <1>5. \A n \in 0 .. N : g[n] = IF n = 0 THEN chosen ELSE Join(g[n - 1], TransitiveDeps(chosen[n]), {})
    BY <1>3, <1>4, Zenon
  <1>6. g = [n \in 0 .. Len(chosen) |->
                IF n = 0 THEN chosen ELSE Join(g[n - 1], TransitiveDeps(chosen[n]), {})]
    BY <1>1, <1>3, <1>5, Zenon
  <1>7. closing = [n \in 0 .. Len(chosen) |->
                IF n = 0 THEN chosen ELSE Join(closing[n - 1], TransitiveDeps(chosen[n]), {})]
    BY <1>6, Zenon
  <1>8. Closure = closing[Len(chosen)]
    BY Zenon DEF Closure
  <1> HIDE DEF closing
  <1>9. 0 \in 0 .. Len(chosen) /\ \A n \in 1 .. Len(chosen) : n \in 0 .. Len(chosen) /\ n # 0
    BY <1>1
  <1>10. closing[0] = chosen
    BY <1>7, <1>9, Zenon
  <1>11. \A n \in 1 .. Len(chosen) : closing[n] = Join(closing[n - 1], TransitiveDeps(chosen[n]), {})
    BY <1>7, <1>9, Zenon
  <1>12. QED
    BY <1>8, <1>10, <1>11, Zenon DEF Closing

(* It keeps what was selected and brings in nothing that is excluded.        *)
Closes(x) ==
    x \in Seq(SkillId) /\ ToSet(chosen) \subseteq ToSet(x) /\ ToSet(x) \cap req.exclude = {}

(* The closure of what is selected closes.                                   *)
LEMMA ClosureIs ==
  ASSUME req \in Requests, chosen \in Seq(SkillId), ToSet(chosen) \cap req.exclude = {}
  PROVE  Closes(Closure)
  <1>1. PICK N \in Nat : N = Len(chosen) /\ DOMAIN chosen = 1 .. N
    OBVIOUS
  <1>2. PICK g : Closure = g[N] /\ g[0] = chosen
                 /\ \A n \in 1 .. N : g[n] = Join(g[n - 1], TransitiveDeps(chosen[n]), {})
    <2>1. PICK g : Closing(g)
      BY ClosureUnfolds, Zenon
    <2>2. QED
      BY <1>1, <2>1 DEF Closing
  <1> DEFINE P == {n \in Nat : Closes(g[n])}
  <1>3. 0 \in P
    BY <1>2 DEF Closes
  <1>4. ASSUME NEW n \in 1 .. N, n - 1 \in P PROVE n \in P
    <2>1. PICK x : x = g[n - 1]
      OBVIOUS
    <2>2. x \in Seq(SkillId) /\ ToSet(chosen) \subseteq ToSet(x) /\ ToSet(x) \cap req.exclude = {}
      BY <1>4, <2>1 DEF Closes
    <2>3. PICK s \in SkillId : s = chosen[n] /\ s \in ToSet(chosen)
      BY <1>1 DEF ToSet
    <2>4. PICK d \in Seq(SkillId) : d = TransitiveDeps(s) /\ ToSet(d) \cap req.exclude \subseteq {s}
      BY DepsAre
    <2>5. ToSet(d) \cap req.exclude = {}
      BY <2>3, <2>4
    <2>6. PICK j : j = Join(x, d, {})
      OBVIOUS
    <2>7. Joins(j, x, ToSet(x) \cup (ToSet(d) \ {}), SkillId)
      BY <2>2, <2>6, JoinIs
    <2>8. j \in Seq(SkillId) /\ ToSet(j) = ToSet(x) \cup ToSet(d)
      BY <2>7 DEF Joins
    <2>9. Closes(j)
      BY <2>2, <2>5, <2>8 DEF Closes
    <2>10. g[n] = j
      BY <1>2, <2>1, <2>3, <2>4, <2>6, Zenon
    <2>11. QED
      BY <2>9, <2>10
  <1>5. N \in P
    <2> HIDE DEF P
    <2>1. \A n \in 0 .. N : n \in P
      BY <1>3, <1>4, UpTo
    <2>2. QED
      BY <2>1
  <1>6. QED
    BY <1>2, <1>5

(* A set with the base skills, and what a list of skills costs.              *)
Admissible == SkillId \cup ToSet(BaseSkills)

Costing(g, ids) ==
    /\ CostOf(ids) = g[Len(ids)] /\ g[0] = 0 /\ g \in [0 .. Len(ids) -> Nat]
    /\ \A n \in 1 .. Len(ids) : g[n] = g[n - 1] + Cost(ids[n])

(* A skill has a cost, and the base skills have none.                        *)
LEMMA CostIs ==
  ASSUME req \in Requests, NEW s \in Admissible
  PROVE  Cost(s) \in Nat /\ (s \in ToSet(BaseSkills) => Cost(s) = 0)
  BY RequestIs DEF Cost, Admissible

(* The cost is what its recursive function gives.                            *)
LEMMA CostUnfolds ==
  ASSUME req \in Requests, NEW ids \in Seq(Admissible)
  PROVE  \E g : Costing(g, ids)
  <1>1. PICK N \in Nat : N = Len(ids) /\ \A n \in 1 .. N : ids[n] \in Admissible
    OBVIOUS
  <1> DEFINE F == [n \in 1 .. N |-> [x \in Nat |-> x + Cost(ids[n])]]
             sum == CHOOSE g : g = [n \in 0 .. Len(ids) |-> IF n = 0 THEN 0 ELSE g[n - 1] + Cost(ids[n])]
  <1>2. F \in [1 .. N -> [Nat -> Nat]]
    <2>1. \A n \in 1 .. N : Cost(ids[n]) \in Nat
      BY <1>1, CostIs
    <2>2. \A n \in 1 .. N, x \in Nat : x + Cost(ids[n]) \in Nat
      BY <2>1
    <2>3. QED
      BY <2>2, Zenon
  <1>3. PICK g : g \in [0 .. N -> Nat] /\ \A n \in 0 .. N : g[n] = IF n = 0 THEN 0 ELSE F[n][g[n - 1]]
    <2> HIDE DEF F
    <2>1. 0 \in Nat
      OBVIOUS
    <2>2. PICK g : Recurs(g, Nat, 0, N, F)
      BY <1>1, <1>2, <2>1, Recursion, Zenon
    <2>3. QED
      BY <2>2 DEF Recurs
  <1>4. \A n \in 0 .. N : n # 0 => n \in 1 .. N /\ g[n - 1] \in Nat
    BY <1>3
  <1>5. \A n \in 0 .. N : g[n] = IF n = 0 THEN 0 ELSE g[n - 1] + Cost(ids[n])
    BY <1>3, <1>4, Zenon
  <1>6. g = [n \in 0 .. Len(ids) |-> IF n = 0 THEN 0 ELSE g[n - 1] + Cost(ids[n])]
    BY <1>1, <1>3, <1>5, Zenon
  <1>7. sum = [n \in 0 .. Len(ids) |-> IF n = 0 THEN 0 ELSE sum[n - 1] + Cost(ids[n])]
    BY <1>6, Zenon
  <1>8. CostOf(ids) = sum[Len(ids)]
    BY Zenon DEF CostOf
  <1> HIDE DEF sum
  <1>9. 0 \in 0 .. Len(ids) /\ \A n \in 1 .. Len(ids) : n \in 0 .. Len(ids) /\ n # 0
    BY <1>1
  <1>10. sum[0] = 0
    BY <1>7, <1>9, Zenon
  <1>11. \A n \in 1 .. Len(ids) : sum[n] = sum[n - 1] + Cost(ids[n])
    BY <1>7, <1>9, Zenon
  <1> DEFINE P == {n \in Nat : n <= N => sum[n] \in Nat}
  <1>12. 0 \in P
    BY <1>10
  <1>13. ASSUME NEW n \in 1 .. N, n - 1 \in P PROVE n \in P
    <2>1. sum[n - 1] \in Nat
      BY <1>13
    <2>2. Cost(ids[n]) \in Nat /\ sum[n] = sum[n - 1] + Cost(ids[n])
      BY <1>1, <1>11, CostIs
    <2>3. QED
      BY <2>1, <2>2
  <1>14. \A n \in 0 .. N : sum[n] \in Nat
    <2>1. \A n \in 0 .. N : n \in P
      <3> HIDE DEF P
      <3>1. QED
        BY <1>12, <1>13, UpTo
    <2>2. QED
      BY <2>1
  <1>15. sum \in [0 .. Len(ids) -> Nat]
    <2>1. DOMAIN sum = 0 .. Len(ids)
      BY <1>7, Zenon
    <2>2. sum = [n \in 0 .. Len(ids) |-> sum[n]]
      BY <1>7, <2>1, Zenon
    <2>3. QED
      BY <1>1, <1>14, <2>2, Zenon
  <1>16. QED
    BY <1>8, <1>10, <1>11, <1>15, Zenon DEF Costing

(* An empty list costs nothing.                                              *)
LEMMA CostOfNothing ==
  ASSUME req \in Requests
  PROVE  CostOf(<<>>) = 0
  <1>1. PICK e \in Seq(Admissible) : e = <<>> /\ Len(e) = 0
    <2>1. <<>> \in Seq(Admissible) /\ Len(<<>>) = 0
      OBVIOUS
    <2>2. QED
      BY <2>1, Zenon
  <1>2. PICK g : Costing(g, e)
    <2>1. \A ids \in Seq(Admissible) : \E g : Costing(g, ids)
      BY CostUnfolds, Zenon
    <2>2. QED
      BY <1>1, <2>1, Zenon
  <1>3. CostOf(e) = g[Len(e)] /\ g[0] = 0
    BY <1>2 DEF Costing
  <1>4. QED
    BY <1>1, <1>3

(* One list after the other.                                                 *)
LEMMA Concatenated ==
  ASSUME NEW T, NEW a \in Seq(T), NEW b \in Seq(T)
  PROVE  /\ a \o b \in Seq(T) /\ ToSet(a \o b) = ToSet(a) \cup ToSet(b)
         /\ IsInjective(a) /\ IsInjective(b) /\ ToSet(a) \cap ToSet(b) = {} => IsInjective(a \o b)
  <1>1. /\ a \o b \in Seq(T) /\ Len(a \o b) = Len(a) + Len(b)
        /\ \A k \in 1 .. Len(a) + Len(b) : (a \o b)[k] = IF k <= Len(a) THEN a[k] ELSE b[k - Len(a)]
    BY ConcatProperties
  <1>2. PICK c \in Seq(T) : c = a \o b
    BY <1>1
  <1>3. PICK m \in Nat, n \in Nat : m = Len(a) /\ DOMAIN a = 1 .. m /\ n = Len(b) /\ DOMAIN b = 1 .. n /\ DOMAIN c = 1 .. m + n
    BY <1>1, <1>2
  <1>4. \A k \in 1 .. m : k \in 1 .. m + n /\ c[k] = a[k]
    BY <1>1, <1>2, <1>3
  <1>5. \A k \in 1 .. n : m + k \in 1 .. m + n /\ c[m + k] = b[k]
    <2>1. \A k \in 1 .. n : m + k \in 1 .. m + n /\ ~(m + k <= m) /\ m + k - m = k
      OBVIOUS
    <2>2. \A k \in 1 .. m + n : c[k] = IF k <= m THEN a[k] ELSE b[k - m]
      BY <1>1, <1>2, <1>3
    <2>3. QED
      BY <2>1, <2>2
  <1>6. \A k \in 1 .. m + n : k \in 1 .. m \/ \E l \in 1 .. n : k = m + l
    <2>1. ASSUME NEW k \in 1 .. m + n, k \notin 1 .. m PROVE k - m \in 1 .. n /\ k = m + (k - m)
      BY <2>1
    <2>2. QED
      BY <2>1
  <1>7. ToSet(a) = {a[k] : k \in 1 .. m} /\ ToSet(b) = {b[k] : k \in 1 .. n} /\ ToSet(c) = {c[k] : k \in 1 .. m + n}
    BY <1>3, Zenon DEF ToSet
  <1>8. ToSet(c) = ToSet(a) \cup ToSet(b)
    <2>1. \A k \in 1 .. m + n : c[k] \in ToSet(a) \cup ToSet(b)
      BY <1>4, <1>5, <1>6, <1>7, Zenon
    <2>2. ToSet(a) \subseteq ToSet(c)
      BY <1>4, <1>7, Zenon
    <2>3. ToSet(b) \subseteq ToSet(c)
      BY <1>5, <1>7, Zenon
    <2>4. QED
      BY <1>7, <2>1, <2>2, <2>3, Zenon
  <1>9. ASSUME IsInjective(a), IsInjective(b), ToSet(a) \cap ToSet(b) = {} PROVE IsInjective(c)
    <2>1. \A k, l \in 1 .. m : a[k] = a[l] => k = l
      BY <1>3, <1>9, Zenon DEF IsInjective
    <2>2. \A k, l \in 1 .. n : b[k] = b[l] => k = l
      BY <1>3, <1>9, Zenon DEF IsInjective
    <2>3. \A k \in 1 .. m, l \in 1 .. n : a[k] # b[l]
      BY <1>7, <1>9, Zenon
    <2>4. \A k, l \in 1 .. m + n : c[k] = c[l] => k = l
      <3>1. TAKE k, l \in 1 .. m + n
      <3>2. CASE k \in 1 .. m /\ l \in 1 .. m
        BY <1>4, <2>1, <3>2, Zenon
      <3>3. CASE k \in 1 .. m /\ l \notin 1 .. m
        <4>1. PICK y \in 1 .. n : l = m + y
          BY <1>6, <3>3
        <4>2. c[k] = a[k] /\ c[l] = b[y]
          BY <1>4, <1>5, <3>3, <4>1
        <4>3. QED
          BY <2>3, <3>3, <4>2
      <3>4. CASE k \notin 1 .. m /\ l \in 1 .. m
        <4>1. PICK x \in 1 .. n : k = m + x
          BY <1>6, <3>4
        <4>2. c[k] = b[x] /\ c[l] = a[l]
          BY <1>4, <1>5, <3>4, <4>1
        <4>3. QED
          BY <2>3, <3>4, <4>2
      <3>5. CASE k \notin 1 .. m /\ l \notin 1 .. m
        <4>1. PICK x \in 1 .. n, y \in 1 .. n : k = m + x /\ l = m + y
          BY <1>6, <3>5
        <4>2. c[k] = b[x] /\ c[l] = b[y]
          BY <1>5, <4>1
        <4>3. QED
          BY <2>2, <4>1, <4>2
      <3>6. QED
        BY <3>2, <3>3, <3>4, <3>5
    <2>5. QED
      BY <1>3, <2>4, Zenon DEF IsInjective
  <1>10. QED
    BY <1>1, <1>2, <1>8, <1>9

(* The cost of two lists is the sum of theirs.                               *)
LEMMA CostOfBoth ==
  ASSUME req \in Requests, NEW a \in Seq(Admissible), NEW b \in Seq(Admissible)
  PROVE  CostOf(a \o b) = CostOf(a) + CostOf(b) /\ CostOf(a) \in Nat /\ CostOf(b) \in Nat
  <1>1. PICK c \in Seq(Admissible) : c = a \o b
    BY Concatenated
  <1>2. PICK m \in Nat, n \in Nat : m = Len(a) /\ n = Len(b) /\ Len(c) = m + n
    BY <1>1
  <1>3. PICK f : /\ CostOf(a) = f[m] /\ f[0] = 0 /\ f \in [0 .. m -> Nat]
                 /\ \A k \in 1 .. m : f[k] = f[k - 1] + Cost(a[k])
    <2>1. PICK f : Costing(f, a)
      BY CostUnfolds, Zenon
    <2>2. QED
      BY <1>2, <2>1 DEF Costing
  <1>4. PICK g : /\ CostOf(b) = g[n] /\ g[0] = 0 /\ g \in [0 .. n -> Nat]
                 /\ \A k \in 1 .. n : g[k] = g[k - 1] + Cost(b[k])
    <2>1. PICK g : Costing(g, b)
      BY CostUnfolds, Zenon
    <2>2. QED
      BY <1>2, <2>1 DEF Costing
  <1>5. PICK h : /\ CostOf(c) = h[m + n] /\ h[0] = 0
                 /\ \A k \in 1 .. m + n : h[k] = h[k - 1] + Cost(c[k])
    <2>1. PICK h : Costing(h, c)
      BY CostUnfolds, Zenon
    <2>2. QED
      BY <1>2, <2>1 DEF Costing
  <1>6. (\A k \in 1 .. m : c[k] = a[k]) /\ (\A k \in 1 .. n : c[m + k] = b[k])
    BY <1>1, <1>2
  <1> DEFINE P == {k \in Nat : k <= m => h[k] = f[k]}
             Q == {k \in Nat : k <= n => h[m + k] = f[m] + g[k]}
  <1>7. \A k \in 0 .. m : k \in P
    <2>1. 0 \in P
      BY <1>3, <1>5
    <2>2. ASSUME NEW k \in 1 .. m, k - 1 \in P PROVE k \in P
      <3>1. h[k - 1] = f[k - 1] /\ k \in 1 .. m + n
        BY <2>2
      <3>2. h[k] = h[k - 1] + Cost(c[k]) /\ f[k] = f[k - 1] + Cost(a[k]) /\ c[k] = a[k]
        BY <1>3, <1>5, <1>6, <3>1
      <3>3. h[k] = f[k]
        BY <3>1, <3>2, Zenon
      <3>4. QED
        BY <3>3
    <2> HIDE DEF P
    <2>3. QED
      BY <2>1, <2>2, UpTo
  <1>8. \A k \in 0 .. n : k \in Q
    <2>1. 0 \in Q
      <3>1. h[m] = f[m]
        BY <1>7
      <3>2. f[m] \in Nat
        BY <1>3
      <3>3. QED
        BY <1>4, <3>1, <3>2
    <2>2. ASSUME NEW k \in 1 .. n, k - 1 \in Q PROVE k \in Q
      <3>1. m + k \in 1 .. m + n /\ m + k - 1 = m + (k - 1) /\ k - 1 \in 0 .. n
        OBVIOUS
      <3>2. h[m + (k - 1)] = f[m] + g[k - 1]
        BY <2>2
      <3>3. PICK x \in Nat, y \in Nat, z \in Nat : x = f[m] /\ y = g[k - 1] /\ z = Cost(b[k])
        <4>1. f[m] \in Nat /\ g[k - 1] \in Nat
          BY <1>3, <1>4, <3>1
        <4>2. b[k] \in Admissible
          BY <1>2
        <4>3. QED
          BY <4>1, <4>2, CostIs
      <3>4. h[m + k] = h[m + k - 1] + Cost(c[m + k])
        BY <1>5, <3>1
      <3>5. g[k] = y + z
        BY <1>4, <3>3
      <3>6. h[m + k] = (x + y) + z
        BY <1>6, <3>1, <3>2, <3>3, <3>4
      <3>7. h[m + k] = f[m] + g[k]
        BY <3>3, <3>5, <3>6
      <3>8. QED
        BY <3>7
    <2> HIDE DEF Q
    <2>3. QED
      BY <2>1, <2>2, UpTo
  <1>9. h[m + n] = f[m] + g[n]
    BY <1>8
  <1>10. f[m] \in Nat /\ g[n] \in Nat
    BY <1>3, <1>4
  <1>11. QED
    BY <1>1, <1>3, <1>4, <1>5, <1>9, <1>10

(* What a candidate brings in: itself and those of its dependencies that are *)
(* not in yet.                                                               *)
LEMMA ClusterIs ==
  ASSUME req \in Requests, NEW s \in SkillId, s \notin req.exclude, s \notin ToSet(admitted)
  PROVE  /\ Cluster(s) \in Seq(SkillId) /\ IsInjective(Cluster(s)) /\ s \in ToSet(Cluster(s))
         /\ ToSet(Cluster(s)) \cap ToSet(admitted) = {} /\ ToSet(Cluster(s)) \cap req.exclude = {}
         /\ Closed(ToSet(admitted)) => Closed(ToSet(admitted) \cup ToSet(Cluster(s)))
         /\ ToSet(Cluster(s)) \subseteq Needs(s)
  <1>1. PICK d \in Seq(SkillId) : /\ d = TransitiveDeps(s) /\ s \in ToSet(d) /\ Closed(ToSet(d))
                                  /\ ToSet(d) \cap req.exclude \subseteq {s} /\ ToSet(d) \subseteq Needs(s)
    BY DepsAre
  <1>2. PICK e \in Seq(SkillId) : e = <<>> /\ ToSet(e) = {} /\ IsInjective(e)
    <2>1. <<>> \in Seq(SkillId) /\ DOMAIN <<>> = {}
      OBVIOUS
    <2>2. ToSet(<<>>) = {} /\ IsInjective(<<>>)
      BY <2>1 DEF ToSet, IsInjective
    <2>3. QED
      BY <2>1, <2>2, Zenon
  <1>3. PICK j : j = Cluster(s) /\ j = Join(e, d, ToSet(admitted))
    BY <1>1, <1>2, Zenon DEF Cluster
  <1>4. Joins(j, e, ToSet(e) \cup (ToSet(d) \ ToSet(admitted)), SkillId)
    BY <1>3, JoinIs
  <1>5. j \in Seq(SkillId) /\ IsInjective(j) /\ ToSet(j) = ToSet(d) \ ToSet(admitted)
    BY <1>2, <1>4 DEF Joins
  <1>6. s \in ToSet(j) /\ ToSet(j) \cap ToSet(admitted) = {} /\ ToSet(j) \cap req.exclude = {}
    BY <1>1, <1>5
  <1>7. ASSUME Closed(ToSet(admitted)) PROVE Closed(ToSet(admitted) \cup ToSet(j))
    <2>1. ToSet(admitted) \cup ToSet(j) = ToSet(admitted) \cup ToSet(d)
      BY <1>5
    <2>2. \A t \in ToSet(admitted) : ToSet(req.deps[t]) \ req.exclude \subseteq ToSet(admitted)
      BY <1>7 DEF Closed
    <2>3. \A t \in ToSet(d) : ToSet(req.deps[t]) \ req.exclude \subseteq ToSet(d)
      BY <1>1 DEF Closed
    <2>4. \A t \in ToSet(admitted) \cup ToSet(d) :
             ToSet(req.deps[t]) \ req.exclude \subseteq ToSet(admitted) \cup ToSet(d)
      BY <2>2, <2>3
    <2>5. QED
      BY <2>1, <2>4 DEF Closed
  <1>8. ToSet(j) \subseteq Needs(s)
    BY <1>1, <1>5
  <1>9. QED
    BY <1>3, <1>5, <1>6, <1>7, <1>8

(* The lists of what is admitted.                                            *)
Admitting(ids, cost) ==
    /\ ids \in Seq(SkillId) /\ IsInjective(ids) /\ cost = CostOf(ids) /\ cost \in Nat
    /\ ToSet(ids) \cap req.exclude = {} /\ Closed(ToSet(ids))

(* Admission with its cluster keeps the list as it must be.                  *)
LEMMA AdmitIs ==
  ASSUME req \in Requests, NEW s \in SkillId, s \notin req.exclude, s \notin ToSet(admitted),
         Admitting(admitted, allocated), Admit(Cluster(s))
  PROVE  /\ Admitting(admitted', allocated') /\ s \in ToSet(admitted')
         /\ ToSet(admitted) \subseteq ToSet(admitted') /\ allocated' = allocated + CostOf(Cluster(s))
         /\ ToSet(admitted') \subseteq ToSet(admitted) \cup Needs(s)
         /\ Len(admitted') = Len(admitted) + Len(Cluster(s)) /\ CostOf(Cluster(s)) \in Nat
  <1>1. PICK c \in Seq(SkillId) : /\ c = Cluster(s) /\ IsInjective(c) /\ s \in ToSet(c)
                                  /\ ToSet(c) \cap ToSet(admitted) = {} /\ ToSet(c) \cap req.exclude = {}
                                  /\ Closed(ToSet(admitted) \cup ToSet(c)) /\ ToSet(c) \subseteq Needs(s)
    BY ClusterIs DEF Admitting
  <1>2. /\ admitted \in Seq(SkillId) /\ IsInjective(admitted) /\ allocated = CostOf(admitted)
        /\ ToSet(admitted) \cap req.exclude = {}
    BY DEF Admitting
  <1>3. PICK r : r = admitted \o c /\ admitted' = r /\ allocated' = allocated + CostOf(c)
    BY <1>1 DEF Admit
  <1>4. r \in Seq(SkillId) /\ ToSet(r) = ToSet(admitted) \cup ToSet(c) /\ IsInjective(r)
    BY <1>1, <1>2, <1>3, Concatenated
  <1>5. SkillId \subseteq Admissible
    BY DEF Admissible
  <1>6. admitted \in Seq(Admissible) /\ c \in Seq(Admissible)
    BY <1>2, <1>5
  <1>7. CostOf(r) = CostOf(admitted) + CostOf(c) /\ CostOf(admitted) \in Nat /\ CostOf(c) \in Nat
    BY <1>3, <1>6, CostOfBoth
  <1>8. PICK n : n = allocated' /\ n = CostOf(r) /\ n \in Nat
    BY <1>2, <1>3, <1>7
  <1>9. ToSet(r) \cap req.exclude = {} /\ Closed(ToSet(r))
    BY <1>1, <1>2, <1>4
  <1>10. Admitting(r, n)
    BY <1>4, <1>8, <1>9 DEF Admitting
  <1>11. Len(r) = Len(admitted) + Len(c)
    BY <1>1, <1>2, <1>3
  <1>12. QED
    BY <1>1, <1>3, <1>4, <1>7, <1>8, <1>10, <1>11

(* The base skills.                                                          *)
LEMMA BaseAre ==
  /\ Reverse(BaseSkills) \in Seq(ToSet(BaseSkills)) /\ ToSet(BaseSkills) \subseteq Admissible
  <1>1. BaseSkills = <<"ponytail-mindset", "engineering-workflow">> /\ Len(BaseSkills) = 2
        /\ DOMAIN BaseSkills = 1 .. 2
    BY DEF BaseSkills
  <1>2. BaseSkills[1] \in ToSet(BaseSkills) /\ BaseSkills[2] \in ToSet(BaseSkills)
    BY <1>1 DEF ToSet
  <1>3. Reverse(BaseSkills) = [i \in 1 .. 2 |-> BaseSkills[2 - i + 1]]
    BY <1>1 DEF Reverse
  <1>4. \A i \in 1 .. 2 : 2 - i + 1 \in 1 .. 2
    OBVIOUS
  <1>5. \A i \in 1 .. 2 : BaseSkills[2 - i + 1] \in ToSet(BaseSkills)
    BY <1>1, <1>4, Zenon DEF ToSet
  <1>6. Reverse(BaseSkills) \in [1 .. 2 -> ToSet(BaseSkills)]
    BY <1>3, <1>5, Zenon
  <1>7. PICK T : T = ToSet(BaseSkills)
    OBVIOUS
  <1>8. PICK g : g = Reverse(BaseSkills) /\ g \in [1 .. 2 -> T]
    BY <1>6, <1>7, Zenon
  <1>9. g \in Seq(T)
    <2>1. \A n \in Nat : g \in [1 .. n -> T] => g \in Seq(T)
      OBVIOUS
    <2>2. QED
      BY <1>8, <2>1
  <1>10. QED
    BY <1>7, <1>8, <1>9 DEF Admissible

(* The base skills cost nothing.                                             *)
LEMMA CostOfBase ==
  ASSUME req \in Requests, NEW ids \in Seq(ToSet(BaseSkills))
  PROVE  CostOf(ids) = 0
  <1>1. ids \in Seq(Admissible)
    BY BaseAre
  <1>2. PICK N \in Nat : N = Len(ids) /\ \A n \in 1 .. N : ids[n] \in ToSet(BaseSkills)
    OBVIOUS
  <1>3. PICK g : CostOf(ids) = g[N] /\ g[0] = 0 /\ \A n \in 1 .. N : g[n] = g[n - 1] + Cost(ids[n])
    <2>1. PICK g : Costing(g, ids)
      BY <1>1, CostUnfolds, Zenon
    <2>2. QED
      BY <1>2, <2>1 DEF Costing
  <1> DEFINE P == {n \in Nat : g[n] = 0}
  <1>4. 0 \in P
    BY <1>3
  <1>5. ASSUME NEW n \in 1 .. N, n - 1 \in P PROVE n \in P
    <2>1. Cost(ids[n]) = 0
      BY <1>2, CostIs DEF Admissible
    <2>2. g[n] = g[n - 1] + Cost(ids[n]) /\ g[n - 1] = 0
      BY <1>3, <1>5
    <2>3. QED
      BY <2>1, <2>2
  <1>6. N \in P
    <2> HIDE DEF P
    <2>1. \A n \in 0 .. N : n \in P
      BY <1>4, <1>5, UpTo
    <2>2. QED
      BY <2>1
  <1>7. QED
    BY <1>3, <1>6

(* The lists the library makes of a set.                                     *)
LEMMA OrderedAre ==
  ASSUME NEW S, IsFiniteSet(S), NEW q \in SetToSeqs(S)
  PROVE  q \in Seq(S) /\ ToSet(q) = S
  <1>1. PICK n \in Nat : n = Cardinality(S)
    BY FS_CardinalityType
  <1>2. q \in [1 .. n -> S] /\ \A i, j \in 1 .. n : i # j => q[i] # q[j]
    BY <1>1 DEF SetToSeqs
  <1>3. q \in Injection(1 .. n, S)
    BY <1>2 DEF Injection, IsInjective
  <1>4. Cardinality(1 .. n) = n
    <2>1. \A a \in Nat : Cardinality(1 .. a) = a
      BY FS_Interval
    <2>2. QED
      BY <2>1
  <1>5. q \in Surjection(1 .. n, S)
    BY <1>1, <1>3, <1>4, FS_Injection
  <1>6. \A t \in S : \E k \in 1 .. n : q[k] = t
    BY <1>5 DEF Surjection
  <1>7. q \in Seq(S) /\ DOMAIN q = 1 .. n
    BY <1>2
  <1>8. ToSet(q) = {q[k] : k \in 1 .. n}
    BY <1>7, Zenon DEF ToSet
  <1>9. ToSet(q) = S
    BY <1>2, <1>6, <1>8
  <1>10. QED
    BY <1>7, <1>9

(* A list of a set has only its elements.                                    *)
LEMMA ListedIs ==
  ASSUME NEW S, IsFiniteSet(S)
  PROVE  SetToSeq(S) \in Seq(S)
  <1>1. PICK n \in Nat : n = Cardinality(S) /\ ExistsBijection(1 .. n, S)
    BY FS_CardinalityType
  <1>2. \E f \in [1 .. n -> S] : IsInjective(f)
    BY <1>1, Zenon DEF ExistsBijection, Bijection, Injection
  <1>3. SetToSeq(S) \in [1 .. n -> S]
    BY <1>1, <1>2, Zenon DEF SetToSeq
  <1>4. QED
    BY <1>3

(* The invariant.                                                            *)
LostConflict(s) == [id |-> s, code |-> "conflict"] \in dropped
Explained(s) == \E d \in dropped : d.id = s

SelectionInv ==
    /\ req \in Requests /\ chosen \in Seq(SkillId) /\ closure \in Seq(SkillId)
    /\ stage \in {"score", "close", "conflicts", "mandatory", "optional", "base", "done"}
    /\ stage = "close" =>
          /\ ToSet(chosen) \cap req.exclude = {}
          /\ \A s \in SkillId : Asked(s) => s \in ToSet(chosen)
          /\ \A s \in Candidates : s \in ToSet(chosen) \/ Explained(s)
    /\ stage \in {"conflicts", "mandatory", "optional", "base"} =>
          /\ remaining \subseteq ToSet(closure) /\ ToSet(closure) \cap req.exclude = {}
          /\ \A s \in SkillId : Asked(s) => s \in remaining \/ LostConflict(s)
          /\ \A s \in Candidates : s \in remaining \/ Explained(s)

AdmissionInv ==
    /\ admitted \in Seq(Admissible) /\ IsInjective(admitted) /\ allocated = CostOf(admitted)
    /\ ToSet(admitted) \cap req.exclude = {}
    /\ warned \in BOOLEAN /\ (warned <=> allocated > Budget)
    /\ stage # "done" => admitted \in Seq(SkillId) /\ Closed(ToSet(admitted))
    /\ stage \in {"score", "close", "conflicts"} => admitted = <<>>
    /\ stage = "mandatory" => ToSet(admitted) \subseteq Forced
    /\ stage \in {"optional", "base"} => ToSet(admitted) \subseteq Forced \/ WithinLimits
    /\ stage \in {"optional", "base"} => Mandatory \subseteq ToSet(admitted)
    /\ stage = "base" => \A s \in remaining : s \in ToSet(admitted) \/ Explained(s)

ResolverInv == SelectionInv /\ AdmissionInv /\ LoadedIsClosed /\ LimitsHold

(* Of the request: the budget, and what was asked for.                       *)
LEMMA BudgetIs ==
  ASSUME req \in Requests
  PROVE  Budget \in Nat
  <1>1. req.budget \in Nat
    BY ResolverAssumption DEF RequestOK
  <1>2. Budget = req.budget \/ Budget = HighBudget \/ Budget = StandardBudget
    BY DEF Budget
  <1>3. HighBudget \in Nat /\ StandardBudget \in Nat
    BY DEF HighBudget, StandardBudget
  <1>4. QED
    BY <1>1, <1>2, <1>3

(* What is asked for qualifies, whatever its score.                          *)
LEMMA AskedQualify ==
  ASSUME NEW s \in SkillId, Asked(s)
  PROVE  s \in Qualified /\ s \notin req.exclude
  <1>1. Evidence(s) # {} /\ DirectIntent(s)
    BY DEF Asked, DirectIntent
  <1>2. s \notin req.exclude
    BY <1>1 DEF Evidence
  <1>3. Qualifies(s) /\ ~Suppressed(s)
    BY <1>1 DEF Qualifies, Suppressed
  <1>4. QED
    BY <1>1, <1>2, <1>3 DEF Qualified, Candidates

(* There are finitely many skills.                                           *)
LEMMA SkillsFinite == IsFiniteSet(SkillId)
  <1>1. PICK n \in Nat : DOMAIN SkillOrder = 1 .. n
    BY ResolverAssumption
  <1> DEFINE f == [k \in 1 .. n |-> SkillOrder[k]]
  <1>2. f \in Surjection(1 .. n, SkillId)
    BY <1>1 DEF SkillId, ToSet, Surjection
  <1>3. IsFiniteSet(1 .. n)
    BY FS_Interval
  <1> HIDE DEF f
  <1>4. QED
    BY <1>2, <1>3, FS_Surjection

-----------------------------------------------------------------------------
(* The steps.                                                                *)

(* The selection: what was asked for is in it, nothing excluded is, and what *)
(* is left out is reported.                                                  *)
LEMMA ScoringKeeps ==
  ASSUME ResolverInv, ScoreCandidates
  PROVE  SelectionInv'
  <1>1. /\ req \in Requests /\ chosen \in Seq(SkillId) /\ closure \in Seq(SkillId)
        /\ req' = req /\ closure' = closure /\ stage' = "close"
    BY DEF ResolverInv, SelectionInv, ScoreCandidates
  <1>2. Qualified \in SUBSET SkillId /\ Synergy \in SUBSET SkillId /\ Enforced \in SUBSET SkillId
    BY <1>1, RequestIs DEF Qualified, Candidates, Synergy, Enforced
  <1>3. IsFiniteSet(Qualified) /\ IsFiniteSet(Synergy) /\ IsFiniteSet(Enforced)
    BY <1>2, SkillsFinite, FS_Subset
  <1>4. PICK q \in SetToSeqs(Qualified) : chosen' = q \o SetToSeq(Synergy) \o SetToSeq(Enforced)
    BY DEF ScoreCandidates
  <1>5. q \in Seq(SkillId) /\ ToSet(q) = Qualified
    <2>1. q \in Seq(Qualified) /\ ToSet(q) = Qualified
      BY <1>3, OrderedAre
    <2>2. QED
      BY <1>2, <2>1
  <1>6. PICK a, b : a = SetToSeq(Synergy) /\ b = SetToSeq(Enforced) /\ a \in Seq(Synergy) /\ b \in Seq(Enforced)
    BY <1>3, ListedIs
  <1>7. a \in Seq(SkillId) /\ b \in Seq(SkillId) /\ ToSet(a) \subseteq Synergy /\ ToSet(b) \subseteq Enforced
    BY <1>2, <1>6 DEF ToSet
  <1>8. PICK qa \in Seq(SkillId) : qa = q \o a /\ ToSet(qa) = ToSet(q) \cup ToSet(a)
    <2>1. \A x, y \in Seq(SkillId) : x \o y \in Seq(SkillId) /\ ToSet(x \o y) = ToSet(x) \cup ToSet(y)
      BY Concatenated
    <2>2. QED
      BY <1>5, <1>7, <2>1, Zenon
  <1>9. qa \o b \in Seq(SkillId) /\ ToSet(qa \o b) = ToSet(qa) \cup ToSet(b)
    <2>1. \A x, y \in Seq(SkillId) : x \o y \in Seq(SkillId) /\ ToSet(x \o y) = ToSet(x) \cup ToSet(y)
      BY Concatenated
    <2>2. QED
      BY <1>7, <2>1, Zenon
  <1>10. PICK r \in Seq(SkillId) : r = chosen' /\ ToSet(r) = Qualified \cup ToSet(a) \cup ToSet(b)
    BY <1>4, <1>5, <1>6, <1>8, <1>9
  <1>11. (Qualified \cup Synergy \cup Enforced) \cap req.exclude = {}
    BY DEF Qualified, Candidates, Synergy, Enforced, Evidence
  <1>12. ToSet(r) \cap req.exclude = {}
    BY <1>7, <1>10, <1>11
  <1>13. (\A s \in SkillId : Asked(s) => s \in ToSet(r))
    BY <1>10, AskedQualify
  <1>14. \A s \in Candidates : s \in ToSet(r) \/ (Explained(s))'
    <2>1. ASSUME NEW s \in Candidates, s \notin Qualified PROVE (Explained(s))'
      <3>1. PICK d : d = [id |-> s, code |-> IF Suppressed(s) THEN "suppressed_by_intent" ELSE "score_threshold"]
        OBVIOUS
      <3>2. d \in dropped'
        BY <2>1, <3>1, Zenon DEF ScoreCandidates
      <3>3. d.id = s
        BY <3>1
      <3>4. QED
        BY <3>2, <3>3 DEF Explained
    <2>2. QED
      BY <1>10, <2>1
  <1>15. (\A s : (Asked(s))' <=> Asked(s)) /\ Candidates' = Candidates
    BY <1>1 DEF Asked, Candidates, Evidence
  <1>16. QED
    BY <1>1, <1>10, <1>12, <1>13, <1>14, <1>15 DEF SelectionInv

(* The closure keeps what was selected.                                      *)
LEMMA ClosingKeeps ==
  ASSUME ResolverInv, CloseOverDependencies
  PROVE  SelectionInv'
  <1>1. /\ req \in Requests /\ chosen \in Seq(SkillId) /\ ToSet(chosen) \cap req.exclude = {}
        /\ \A s \in SkillId : Asked(s) => s \in ToSet(chosen)
        /\ \A s \in Candidates : s \in ToSet(chosen) \/ Explained(s)
    BY DEF ResolverInv, SelectionInv, CloseOverDependencies
  <1>2. /\ req' = req /\ chosen' = chosen /\ dropped' = dropped /\ stage' = "conflicts"
        /\ closure' = Closure /\ remaining' = ToSet(closure')
    BY DEF CloseOverDependencies
  <1>3. PICK c : c = Closure /\ Closes(c)
    BY <1>1, ClosureIs
  <1>4. c \in Seq(SkillId) /\ ToSet(chosen) \subseteq ToSet(c) /\ ToSet(c) \cap req.exclude = {}
    BY <1>3 DEF Closes
  <1>5. (\A s : (Asked(s))' <=> Asked(s)) /\ Candidates' = Candidates /\ \A s : (Explained(s))' <=> Explained(s)
    BY <1>2 DEF Asked, Candidates, Evidence, Explained
  <1>6. closure' = c /\ remaining' = ToSet(c)
    BY <1>2, <1>3
  <1>7. QED
    BY <1>1, <1>2, <1>4, <1>5, <1>6 DEF SelectionInv

(* Whoever loses a conflict is reported.                                     *)
LEMMA SettlingKeeps ==
  ASSUME ResolverInv, SettleConflict
  PROVE  SelectionInv'
  <1>1. stage = "conflicts"
    BY DEF SettleConflict, InConflicts
  <1>2. /\ req \in Requests /\ chosen \in Seq(SkillId) /\ closure \in Seq(SkillId)
        /\ remaining \subseteq ToSet(closure) /\ ToSet(closure) \cap req.exclude = {}
        /\ \A s \in SkillId : Asked(s) => s \in remaining \/ LostConflict(s)
        /\ \A s \in Candidates : s \in remaining \/ Explained(s)
    BY <1>1 DEF ResolverInv, SelectionInv
  <1>3. req' = req /\ stage' = stage /\ chosen' = chosen /\ closure' = closure
    BY DEF SettleConflict
  <1>4. (\A s : (Asked(s))' <=> Asked(s)) /\ Candidates' = Candidates
    BY <1>3 DEF Asked, Candidates, Evidence
  <1>5. remaining' \subseteq remaining /\ dropped \subseteq dropped' /\ \A s \in remaining : s \in remaining' \/ (LostConflict(s))'
    <2>1. PICK x : x = Loser
      OBVIOUS
    <2>2. \/ remaining' = remaining /\ dropped' = dropped
          \/ remaining' = remaining \ {x} /\ dropped' = dropped \cup {[id |-> x, code |-> "conflict"]}
      BY <2>1 DEF SettleConflict
    <2>3. QED
      BY <2>2 DEF LostConflict
  <1>6. \A s : (LostConflict(s) => (LostConflict(s))') /\ (Explained(s) => (Explained(s))')
    BY <1>5 DEF LostConflict, Explained
  <1>7. \A s : (LostConflict(s))' => (Explained(s))'
    <2>1. \A s : [id |-> s, code |-> "conflict"].id = s
      OBVIOUS
    <2>2. QED
      BY <2>1 DEF LostConflict, Explained
  <1>8. (\A s \in SkillId : (Asked(s) => s \in remaining \/ LostConflict(s))')
    BY <1>2, <1>4, <1>5, <1>6
  <1>9. \A s \in Candidates : s \in remaining' \/ (Explained(s))'
    BY <1>2, <1>5, <1>6, <1>7
  <1>10. remaining' \subseteq ToSet(closure')
    BY <1>2, <1>3, <1>5
  <1>11. QED
    BY <1>1, <1>2, <1>3, <1>4, <1>8, <1>9, <1>10 DEF SelectionInv

(* Before the base skills are added, the list is as it must be.              *)
LEMMA AdmittingIs ==
  ASSUME ResolverInv, stage # "done"
  PROVE  Admitting(admitted, allocated)
  <1>1. /\ req \in Requests /\ admitted \in Seq(SkillId) /\ admitted \in Seq(Admissible) /\ IsInjective(admitted)
        /\ allocated = CostOf(admitted) /\ ToSet(admitted) \cap req.exclude = {} /\ Closed(ToSet(admitted))
    BY DEF ResolverInv, SelectionInv, AdmissionInv
  <1>2. CostOf(admitted) \in Nat
    BY <1>1, CostOfBoth
  <1>3. QED
    BY <1>1, <1>2 DEF Admitting

(* What does not change the selection.                                       *)
LEMMA SelectionRests ==
  ASSUME ResolverInv, stage \in {"conflicts", "mandatory", "optional", "base"},
         stage' \in {"conflicts", "mandatory", "optional", "base", "done"},
         req' = req, chosen' = chosen, closure' = closure, remaining' = remaining, dropped \subseteq dropped'
  PROVE  SelectionInv'
  <1>1. (\A s : (Asked(s))' <=> Asked(s)) /\ Candidates' = Candidates
    BY DEF Asked, Candidates, Evidence
  <1>2. \A s : (LostConflict(s) => (LostConflict(s))') /\ (Explained(s) => (Explained(s))')
    BY DEF LostConflict, Explained
  <1>3. QED
    BY <1>1, <1>2 DEF ResolverInv, SelectionInv

(* What does not change what is admitted.                                    *)
LEMMA SameAdmission ==
  ASSUME req' = req, admitted' = admitted
  PROVE  /\ Budget' = Budget /\ (CostOf(admitted))' = CostOf(admitted)
         /\ (Closed(ToSet(admitted)))' = Closed(ToSet(admitted)) /\ Admissible' = Admissible
         /\ (ToSet(admitted))' = ToSet(admitted) /\ (IsInjective(admitted))' = IsInjective(admitted)
         /\ allocated' = allocated => WithinLimits' = WithinLimits
  <1>1. Budget' = Budget
    BY DEF Budget, Risk
  <1>2. \A s : (Cost(s))' = Cost(s)
    BY DEF Cost
  <1>3. (CostOf(admitted))' = CostOf(admitted)
    BY <1>2, Zenon DEF CostOf
  <1>4. (Closed(ToSet(admitted)))' = Closed(ToSet(admitted))
    BY DEF Closed, ToSet
  <1>5. (ToSet(admitted))' = ToSet(admitted) /\ (IsInjective(admitted))' = IsInjective(admitted)
    BY DEF ToSet, IsInjective
  <1>6. Admissible' = Admissible
    BY DEF Admissible
  <1>7. allocated' = allocated => WithinLimits' = WithinLimits
    BY <1>1 DEF WithinLimits
  <1>8. QED
    BY <1>1, <1>3, <1>4, <1>5, <1>6, <1>7

(* What has to be loaded follows from the request and the selection.         *)
LEMMA ForcedSame ==
  ASSUME req' = req, remaining' = remaining, rated' = rated
  PROVE  Mandatory' = Mandatory /\ Forced' = Forced
  <1>1. Mandatory' = Mandatory
    BY DEF Mandatory, Asked, Evidence, RatingOf
  <1>2. \A s : (Needs(s))' = Needs(s)
    BY DEF Needs, Closed
  <1>3. QED
    BY <1>1, <1>2 DEF Forced

(* Before the admission nothing is admitted.                                 *)
LEMMA AdmissionRests ==
  ASSUME ResolverInv, stage \in {"score", "close", "conflicts"},
         stage' \in {"score", "close", "conflicts", "mandatory"},
         req' = req, admitted' = admitted, allocated' = allocated, warned' = warned
  PROVE  AdmissionInv'
  <1>1. admitted' = <<>>
    BY DEF ResolverInv, AdmissionInv
  <1>2. (ToSet(admitted) \subseteq Forced)'
    BY <1>1 DEF ToSet
  <1>3. QED
    BY <1>1, <1>2, SameAdmission DEF ResolverInv, AdmissionInv

(* A candidate comes in with what it needs.                                  *)
LEMMA ComingIn ==
  ASSUME ResolverInv, stage \in {"mandatory", "optional"}, NEW s \in remaining, s \notin ToSet(admitted),
         Admit(Cluster(s)), req' = req
  PROVE  /\ (Admitting(admitted, allocated))' /\ s \in ToSet(admitted') /\ ToSet(admitted) \subseteq ToSet(admitted')
         /\ allocated' = allocated + CostOf(Cluster(s)) /\ allocated' \in Nat
         /\ CostOf(Cluster(s)) \in Nat /\ allocated \in Nat
         /\ ToSet(admitted') \subseteq ToSet(admitted) \cup Needs(s)
         /\ Len(admitted') = Len(admitted) + Len(Cluster(s))
  <1>1. req \in Requests /\ remaining \subseteq ToSet(closure) /\ ToSet(closure) \cap req.exclude = {} /\ closure \in Seq(SkillId)
    BY DEF ResolverInv, SelectionInv
  <1>2. s \in SkillId /\ s \notin req.exclude
    BY <1>1 DEF ToSet
  <1>3. Admitting(admitted, allocated)
    BY AdmittingIs
  <1>4. /\ Admitting(admitted', allocated') /\ s \in ToSet(admitted')
        /\ ToSet(admitted) \subseteq ToSet(admitted') /\ allocated' = allocated + CostOf(Cluster(s))
        /\ ToSet(admitted') \subseteq ToSet(admitted) \cup Needs(s) /\ CostOf(Cluster(s)) \in Nat
        /\ Len(admitted') = Len(admitted) + Len(Cluster(s))
    BY <1>1, <1>2, <1>3, AdmitIs
  <1>5. PICK a, n : a = admitted' /\ n = allocated' /\ Admitting(a, n)
    BY <1>4
  <1>6. a \in Seq(SkillId) /\ IsInjective(a) /\ n = CostOf(a) /\ n \in Nat /\ ToSet(a) \cap req.exclude = {} /\ Closed(ToSet(a))
    BY <1>5 DEF Admitting
  <1>7. (Closed(ToSet(admitted)))' = Closed(ToSet(a)) /\ (CostOf(admitted))' = CostOf(a)
        /\ (ToSet(admitted))' = ToSet(a) /\ (IsInjective(admitted))' = IsInjective(a)
    <2>1. \A t : (Cost(t))' = Cost(t)
      BY DEF Cost
    <2>2. (CostOf(admitted))' = CostOf(a)
      BY <1>5, <2>1, Zenon DEF CostOf
    <2>3. (ToSet(admitted))' = ToSet(a) /\ (IsInjective(admitted))' = IsInjective(a)
      BY <1>5 DEF ToSet, IsInjective
    <2>4. (Closed(ToSet(admitted)))' = Closed(ToSet(a))
      BY <2>3 DEF Closed
    <2>5. QED
      BY <2>2, <2>3, <2>4
  <1>8. (Admitting(admitted, allocated))'
    BY <1>5, <1>6, <1>7 DEF Admitting
  <1>9. allocated \in Nat
    BY <1>3 DEF Admitting
  <1>10. QED
    BY <1>4, <1>5, <1>6, <1>8, <1>9

(* Before the end, the two properties follow from the invariant.             *)
LEMMA NotDone ==
  ASSUME AdmissionInv', stage' # "done"
  PROVE  LoadedIsClosed' /\ LimitsHold'
  BY DEF LoadedIsClosed, LimitsHold, AdmissionInv

(* A mandatory candidate comes in, with a warning if the budget is passed.   *)
LEMMA MandatoryKeeps ==
  ASSUME ResolverInv, AdmitMandatory
  PROVE  ResolverInv'
  <1>1. /\ stage = "mandatory" /\ req' = req /\ stage' = stage /\ chosen' = chosen /\ closure' = closure
        /\ remaining' = remaining /\ dropped' = dropped /\ rated' = rated /\ warned' = (warned \/ allocated' > Budget)
    BY DEF AdmitMandatory
  <1>2. PICK s : s \in Mandatory \ ToSet(admitted) /\ Admit(Cluster(s))
    BY DEF AdmitMandatory
  <1>3. s \in remaining /\ Needs(s) \subseteq Forced
    BY <1>2 DEF Mandatory, Forced
  <1>4. /\ (Admitting(admitted, allocated))' /\ allocated' \in Nat /\ allocated \in Nat /\ allocated <= allocated'
        /\ ToSet(admitted') \subseteq ToSet(admitted) \cup Needs(s)
    BY <1>1, <1>2, <1>3, ComingIn
  <1>5. SelectionInv'
    BY <1>1, SelectionRests
  <1>6. Budget' = Budget
    BY <1>1 DEF Budget, Risk
  <1>7. warned \in BOOLEAN /\ (warned <=> allocated > Budget) /\ Budget \in Nat
    BY BudgetIs DEF ResolverInv, AdmissionInv, SelectionInv
  <1>8. SkillId \subseteq Admissible /\ Admissible' = Admissible
    BY DEF Admissible
  <1>9. (warned \in BOOLEAN)' /\ (warned <=> allocated > Budget)'
    <2>1. allocated > Budget => allocated' > Budget
      BY <1>4, <1>7
    <2>2. (allocated' > Budget) \in BOOLEAN
      BY <1>4, <1>7
    <2>3. QED
      BY <1>1, <1>6, <1>7, <2>1, <2>2, Zenon
  <1>10. AdmissionInv'
    <2>1. /\ admitted' \in Seq(SkillId) /\ (IsInjective(admitted))' /\ (allocated = CostOf(admitted))'
          /\ (ToSet(admitted) \cap req.exclude = {})' /\ (Closed(ToSet(admitted)))'
      BY <1>4 DEF Admitting
    <2>2. admitted' \in Seq(Admissible)
      BY <1>8, <2>1
    <2>3. (ToSet(admitted) \subseteq Forced)'
      <3>1. Forced' = Forced /\ ToSet(admitted) \subseteq Forced
        BY <1>1, ForcedSame DEF ResolverInv, AdmissionInv
      <3>2. (ToSet(admitted))' = ToSet(admitted')
        BY DEF ToSet
      <3>3. QED
        BY <1>3, <1>4, <3>1, <3>2
    <2>4. QED
      BY <1>1, <1>8, <1>9, <2>1, <2>2, <2>3 DEF AdmissionInv
  <1>11. QED
    BY <1>1, <1>5, <1>10, NotDone DEF ResolverInv

(* At the end of the first phase, all of them are in.                        *)
LEMMA MandatoryEnds ==
  ASSUME ResolverInv, EndMandatory
  PROVE  ResolverInv'
  <1>1. /\ stage = "mandatory" /\ req' = req /\ stage' = "optional" /\ chosen' = chosen /\ closure' = closure
        /\ remaining' = remaining /\ dropped' = dropped /\ rated' = rated /\ admitted' = admitted
        /\ allocated' = allocated /\ warned' = warned /\ Mandatory \subseteq ToSet(admitted)
    BY DEF EndMandatory
  <1>2. SelectionInv'
    BY <1>1, SelectionRests
  <1>3. Mandatory' = Mandatory /\ Forced' = Forced
    BY <1>1, ForcedSame
  <1>4. AdmissionInv'
    BY <1>1, <1>3, SameAdmission DEF ResolverInv, AdmissionInv
  <1>5. QED
    BY <1>1, <1>2, <1>4, NotDone DEF ResolverInv

(* A candidate that is not refused fits in both limits.                      *)
Fits(s) ==
    /\ allocated + CostOf(Cluster(s)) <= Budget
    /\ req.maxSkills > 0 => Len(admitted) + Len(Cluster(s)) <= req.maxSkills

(* A refusal is reported.                                                    *)
LEMMA RefusalReported ==
  ASSUME ResolverInv, AdmitOptional
  PROVE  /\ stage = "optional" /\ stage' = stage /\ req' = req /\ chosen' = chosen /\ closure' = closure
         /\ remaining' = remaining /\ rated' = rated /\ warned' = warned /\ dropped \subseteq dropped'
         /\ \/ admitted' = admitted /\ allocated' = allocated
            \/ \E s \in remaining : s \notin ToSet(admitted) /\ Admit(Cluster(s)) /\ Fits(s)
  <1>1. PICK s \in Waiting :
           /\ IF Refused(s) = {} THEN Admit(Cluster(s)) ELSE UNCHANGED <<admitted, allocated>>
           /\ dropped' = dropped \cup Refused(s)
    BY DEF AdmitOptional
  <1>2. s \in remaining /\ s \notin ToSet(admitted)
    BY DEF Waiting
  <1>3. /\ stage = "optional" /\ stage' = stage /\ req' = req /\ chosen' = chosen /\ closure' = closure
        /\ remaining' = remaining /\ rated' = rated /\ warned' = warned /\ dropped \subseteq dropped'
    BY <1>1 DEF AdmitOptional
  <1>4. CASE Refused(s) # {}
    BY <1>1, <1>3, <1>4
  <1>5. CASE Refused(s) = {}
    <2>1. ~(allocated + CostOf(Cluster(s)) > Budget)
      BY <1>5 DEF Refused
    <2>2. Cluster(s) \in Seq(SkillId) /\ allocated \in Nat /\ Budget \in Nat
      <3>1. /\ req \in Requests /\ closure \in Seq(SkillId) /\ remaining \subseteq ToSet(closure)
            /\ ToSet(closure) \cap req.exclude = {}
        BY <1>3 DEF ResolverInv, SelectionInv
      <3>2. s \in SkillId /\ s \notin req.exclude
        BY <1>2, <3>1 DEF ToSet
      <3>3. Cluster(s) \in Seq(SkillId)
        BY <1>2, <3>1, <3>2, ClusterIs
      <3>4. allocated \in Nat
        BY <1>3, AdmittingIs DEF Admitting
      <3>5. QED
        BY <3>1, <3>3, <3>4, BudgetIs
    <2>3. CostOf(Cluster(s)) \in Nat
      <3>1. Cluster(s) \in Seq(Admissible)
        BY <2>2 DEF Admissible
      <3>2. req \in Requests
        BY DEF ResolverInv, SelectionInv
      <3>3. QED
        BY <3>1, <3>2, CostOfBoth
    <2>4. Fits(s)
      <3>1. req.maxSkills > 0 => ~(Len(admitted) + Len(Cluster(s)) > req.maxSkills)
        BY <1>5 DEF Refused
      <3>2. admitted \in Seq(SkillId) /\ req.maxSkills \in Nat
        BY <1>3, ResolverAssumption DEF RequestOK, ResolverInv, SelectionInv, AdmissionInv
      <3>3. Len(admitted) \in Nat /\ Len(Cluster(s)) \in Nat
        BY <2>2, <3>2
      <3>4. QED
        BY <2>1, <2>2, <2>3, <3>1, <3>2, <3>3 DEF Fits
    <2>5. QED
      BY <1>1, <1>2, <1>3, <1>5, <2>4
  <1>6. QED
    BY <1>4, <1>5

(* An optional candidate comes in within the budget, or is reported.         *)
LEMMA OptionalKeeps ==
  ASSUME ResolverInv, AdmitOptional
  PROVE  ResolverInv'
  <1>1. /\ stage = "optional" /\ stage' = stage /\ req' = req /\ chosen' = chosen /\ closure' = closure
        /\ remaining' = remaining /\ rated' = rated /\ warned' = warned /\ dropped \subseteq dropped'
        /\ \/ admitted' = admitted /\ allocated' = allocated
           \/ \E s \in remaining : s \notin ToSet(admitted) /\ Admit(Cluster(s)) /\ Fits(s)
    BY RefusalReported
  <1>2. SelectionInv'
    BY <1>1, SelectionRests
  <1>3. Mandatory' = Mandatory /\ Forced' = Forced /\ Mandatory \subseteq ToSet(admitted)
    BY <1>1, ForcedSame DEF ResolverInv, AdmissionInv
  <1>4. CASE admitted' = admitted /\ allocated' = allocated
    <2>1. AdmissionInv'
      BY <1>1, <1>3, <1>4, SameAdmission DEF ResolverInv, AdmissionInv
    <2>2. QED
      BY <1>1, <1>2, <2>1, NotDone DEF ResolverInv
  <1>5. CASE \E s \in remaining : s \notin ToSet(admitted) /\ Admit(Cluster(s)) /\ Fits(s)
    <2>1. PICK s \in remaining : s \notin ToSet(admitted) /\ Admit(Cluster(s)) /\ Fits(s)
      BY <1>5
    <2>2. /\ (Admitting(admitted, allocated))' /\ ToSet(admitted) \subseteq ToSet(admitted')
          /\ allocated' = allocated + CostOf(Cluster(s)) /\ allocated' \in Nat
          /\ CostOf(Cluster(s)) \in Nat /\ allocated \in Nat
          /\ Len(admitted') = Len(admitted) + Len(Cluster(s))
      BY <1>1, <2>1, ComingIn
    <2>3. Budget' = Budget
      BY <1>1 DEF Budget, Risk
    <2>4. /\ (warned \in BOOLEAN)' /\ (warned <=> allocated > Budget)' /\ WithinLimits'
      <3>1. allocated' <= Budget /\ Budget \in Nat
        BY <2>1, <2>2, BudgetIs DEF Fits, ResolverInv, SelectionInv
      <3>2. ~(allocated > Budget) /\ ~(allocated' > Budget')
        BY <2>2, <2>3, <3>1
      <3>3. warned \in BOOLEAN /\ (warned <=> allocated > Budget)
        BY DEF ResolverInv, AdmissionInv
      <3>4. (warned \in BOOLEAN)' /\ (warned <=> allocated > Budget)'
        BY <1>1, <3>2, <3>3, Zenon
      <3>5. req'.maxSkills > 0 => Len(admitted') <= req'.maxSkills
        BY <1>1, <2>1, <2>2 DEF Fits
      <3>6. QED
        BY <2>3, <3>1, <3>4, <3>5 DEF WithinLimits
    <2>5. /\ admitted' \in Seq(SkillId) /\ (IsInjective(admitted))' /\ (allocated = CostOf(admitted))'
          /\ (ToSet(admitted) \cap req.exclude = {})' /\ (Closed(ToSet(admitted)))'
      BY <2>2 DEF Admitting
    <2>6. admitted' \in Seq(Admissible) /\ Admissible' = Admissible
      BY <2>5 DEF Admissible
    <2>7. (Mandatory \subseteq ToSet(admitted))'
      <3>1. (ToSet(admitted))' = ToSet(admitted')
        BY DEF ToSet
      <3>2. QED
        BY <1>3, <2>2, <3>1
    <2>8. AdmissionInv'
      BY <1>1, <2>4, <2>5, <2>6, <2>7 DEF AdmissionInv
    <2>9. QED
      BY <1>1, <1>2, <2>8, NotDone DEF ResolverInv
  <1>6. QED
    BY <1>1, <1>4, <1>5

(* At the end of the second phase, every candidate is in or reported.        *)
LEMMA OptionalEnds ==
  ASSUME ResolverInv, EndOptional
  PROVE  ResolverInv'
  <1>1. /\ stage = "optional" /\ req' = req /\ stage' = "base" /\ chosen' = chosen /\ closure' = closure
        /\ remaining' = remaining /\ dropped' = dropped /\ rated' = rated /\ admitted' = admitted
        /\ allocated' = allocated /\ warned' = warned /\ Waiting = {}
    BY DEF EndOptional
  <1>2. SelectionInv'
    BY <1>1, SelectionRests
  <1>3. Mandatory' = Mandatory /\ Forced' = Forced /\ Mandatory \subseteq ToSet(admitted)
    BY <1>1, ForcedSame DEF ResolverInv, AdmissionInv
  <1>4. \A s \in remaining : s \in ToSet(admitted) \/ Explained(s)
    <2>1. ASSUME NEW s \in remaining, s \notin ToSet(admitted)
          PROVE  s \in {d.id : d \in {e \in dropped : e.code \in {"max_skills_limit", "budget_exceeded"}}}
      BY <1>1, <1>3, <2>1 DEF Waiting
    <2>2. \A s : s \in {d.id : d \in {e \in dropped : e.code \in {"max_skills_limit", "budget_exceeded"}}} => Explained(s)
      BY DEF Explained
    <2>3. QED
      BY <2>1, <2>2
  <1>5. \A s : (Explained(s))' <=> Explained(s)
    BY <1>1 DEF Explained
  <1>6. AdmissionInv'
    BY <1>1, <1>3, <1>4, <1>5, SameAdmission DEF ResolverInv, AdmissionInv
  <1>7. QED
    BY <1>1, <1>2, <1>6, NotDone DEF ResolverInv

(* What a set of skills needs is in it when it is closed.                    *)
LEMMA NeedsInside ==
  ASSUME NEW set \in SUBSET SkillId, Closed(set), NEW s \in set
  PROVE  Needs(s) \subseteq set
  BY DEF Needs

(* The base skills in front cost nothing and are not in yet.                 *)
LEMMA BaseAdded ==
  ASSUME ResolverInv, AddBase
  PROVE  /\ admitted' \in Seq(Admissible) /\ IsInjective(admitted') /\ CostOf(admitted') = allocated
         /\ ToSet(admitted') \cap req.exclude = {} /\ ToSet(admitted) \subseteq ToSet(admitted')
         /\ ToSet(admitted') \ ToSet(BaseSkills) \subseteq ToSet(admitted)
  <1>1. /\ admitted \in Seq(Admissible) /\ IsInjective(admitted) /\ allocated = CostOf(admitted)
        /\ ToSet(admitted) \cap req.exclude = {} /\ req \in Requests
    BY DEF ResolverInv, SelectionInv, AdmissionInv
  <1> DEFINE T == ToSet(BaseSkills)
  <1>2. PICK e \in Seq(T) : e = <<>> /\ ToSet(e) = {} /\ IsInjective(e)
    <2>1. <<>> \in Seq(T) /\ DOMAIN <<>> = {}
      OBVIOUS
    <2>2. ToSet(<<>>) = {} /\ IsInjective(<<>>)
      BY <2>1 DEF ToSet, IsInjective
    <2>3. QED
      BY <2>1, <2>2, Zenon
  <1>3. PICK b \in Seq(T) : b = Reverse(BaseSkills)
    BY BaseAre
  <1>4. PICK f : f = Join(e, b, req.exclude \cup ToSet(admitted)) /\ admitted' = f \o admitted
    BY <1>2, <1>3, Zenon DEF AddBase
  <1>5. Joins(f, e, ToSet(e) \cup (ToSet(b) \ (req.exclude \cup ToSet(admitted))), T)
    BY <1>4, JoinIs
  <1>6. f \in Seq(T) /\ IsInjective(f) /\ ToSet(f) = ToSet(b) \ (req.exclude \cup ToSet(admitted))
    BY <1>2, <1>5 DEF Joins
  <1>7. ToSet(f) \subseteq T
    BY <1>6 DEF ToSet
  <1>8. f \in Seq(Admissible)
    BY <1>6, BaseAre
  <1>9. /\ f \o admitted \in Seq(Admissible) /\ ToSet(f \o admitted) = ToSet(f) \cup ToSet(admitted)
        /\ IsInjective(f \o admitted)
    BY <1>1, <1>6, <1>8, Concatenated
  <1>10. CostOf(f \o admitted) = CostOf(f) + CostOf(admitted) /\ CostOf(admitted) \in Nat
    BY <1>1, <1>8, CostOfBoth
  <1>11. CostOf(f) = 0
    BY <1>1, <1>6, CostOfBase
  <1>12. CostOf(f \o admitted) = allocated
    BY <1>1, <1>10, <1>11
  <1>13. QED
    BY <1>1, <1>4, <1>6, <1>7, <1>9, <1>12

(* The last step gives the two properties.                                   *)
LEMMA BaseKeeps ==
  ASSUME ResolverInv, AddBase
  PROVE  ResolverInv'
  <1>1. /\ stage = "base" /\ stage' = "done" /\ req' = req /\ chosen' = chosen /\ closure' = closure
        /\ remaining' = remaining /\ dropped' = dropped /\ rated' = rated /\ allocated' = allocated /\ warned' = warned
    BY DEF AddBase
  <1>2. PICK a : /\ a = admitted' /\ a \in Seq(Admissible) /\ IsInjective(a) /\ CostOf(a) = allocated
                 /\ ToSet(a) \cap req.exclude = {} /\ ToSet(admitted) \subseteq ToSet(a)
                 /\ ToSet(a) \ ToSet(BaseSkills) \subseteq ToSet(admitted)
    BY BaseAdded
  <1>3. SelectionInv'
    BY <1>1, SelectionRests
  <1>4. Budget' = Budget /\ Admissible' = Admissible
    BY <1>1 DEF Budget, Risk, Admissible
  <1>5. (CostOf(admitted))' = CostOf(a) /\ (ToSet(admitted))' = ToSet(a) /\ (IsInjective(admitted))' = IsInjective(a)
    <2>1. \A t : (Cost(t))' = Cost(t)
      BY DEF Cost
    <2>2. (CostOf(admitted))' = CostOf(a)
      BY <1>2, <2>1, Zenon DEF CostOf
    <2>3. (ToSet(admitted))' = ToSet(a) /\ (IsInjective(admitted))' = IsInjective(a)
      BY <1>2 DEF ToSet, IsInjective
    <2>4. QED
      BY <2>2, <2>3
  <1>6. AdmissionInv'
    BY <1>1, <1>2, <1>4, <1>5 DEF ResolverInv, AdmissionInv
  <1>7. admitted \in Seq(SkillId) /\ Closed(ToSet(admitted)) /\ ToSet(admitted) \in SUBSET SkillId
    <2>1. admitted \in Seq(SkillId) /\ Closed(ToSet(admitted))
      BY <1>1 DEF ResolverInv, AdmissionInv
    <2>2. QED
      BY <2>1 DEF ToSet
  <1>8. LoadedIsClosed'
    <2>1. (Loaded \cap req.exclude = {})'
      BY <1>1, <1>2, <1>5 DEF Loaded
    <2>2. Loaded' = ToSet(a) /\ Dynamic' = ToSet(a) \ ToSet(BaseSkills)
      BY <1>5 DEF Loaded, Dynamic
    <2>3. \A s : (Needs(s))' = Needs(s)
      BY <1>1 DEF Needs, Closed
    <2>4. \A s \in ToSet(a) \ ToSet(BaseSkills) : Needs(s) \subseteq ToSet(a)
      BY <1>2, <1>7, NeedsInside
    <2>5. \A s \in Dynamic' : (Needs(s))' \subseteq Loaded'
      BY <2>2, <2>3, <2>4
    <2>6. QED
      BY <2>1, <2>5 DEF LoadedIsClosed
  <1>9. LimitsHold'
    <2>1. (\A s : (Asked(s))' <=> Asked(s)) /\ Candidates' = Candidates /\ Loaded' = ToSet(a)
      BY <1>1, <1>5 DEF Asked, Candidates, Evidence, Loaded
    <2>2. \A s \in SkillId : Asked(s) => s \in ToSet(a) \/ LostConflict(s)
      <3>1. \A s \in SkillId : Asked(s) => s \in remaining \/ LostConflict(s)
        BY <1>1 DEF ResolverInv, SelectionInv
      <3>2. \A s \in remaining : Asked(s) => s \in ToSet(admitted)
        BY <1>1 DEF ResolverInv, AdmissionInv, Mandatory
      <3>3. QED
        BY <1>2, <3>1, <3>2
    <2>3. \A s \in Candidates : s \in ToSet(a) \/ Explained(s)
      <3>1. \A s \in Candidates : s \in remaining \/ Explained(s)
        BY <1>1 DEF ResolverInv, SelectionInv
      <3>2. \A s \in remaining : s \in ToSet(admitted) \/ Explained(s)
        BY <1>1 DEF ResolverInv, AdmissionInv
      <3>3. QED
        BY <1>2, <3>1, <3>2
    <2>4. (warned <=> allocated > Budget)' /\ (allocated = CostOf(admitted) /\ IsInjective(admitted))'
      BY <1>6 DEF AdmissionInv
    <2>5. (\A s \in SkillId : Asked(s) => s \in Loaded \/ [id |-> s, code |-> "conflict"] \in dropped)'
      BY <1>1, <2>1, <2>2 DEF LostConflict
    <2>6. (\A s \in Candidates : s \in Loaded \/ \E d \in dropped : d.id = s)'
      BY <1>1, <2>1, <2>3 DEF Explained
    <2>7. QED
      BY <1>1, <2>4, <2>5, <2>6 DEF LimitsHold
  <1>10. QED
    BY <1>3, <1>6, <1>8, <1>9 DEF ResolverInv

-----------------------------------------------------------------------------
(* The theorems.                                                             *)

(* At the start nothing is chosen.                                           *)
LEMMA ResolverStarts == ResolverInit(Requests) => ResolverInv
  <1> SUFFICES ASSUME ResolverInit(Requests) PROVE ResolverInv
    OBVIOUS
  <1>1. /\ req \in Requests /\ stage = "score" /\ chosen = <<>> /\ closure = <<>>
        /\ admitted = <<>> /\ allocated = 0 /\ warned = FALSE
    BY DEF ResolverInit
  <1>2. <<>> \in Seq(SkillId) /\ <<>> \in Seq(Admissible) /\ DOMAIN <<>> = {}
    OBVIOUS
  <1>3. ToSet(<<>>) = {} /\ IsInjective(<<>>)
    BY <1>2 DEF ToSet, IsInjective
  <1>4. CostOf(<<>>) = 0 /\ Budget \in Nat
    BY <1>1, CostOfNothing, BudgetIs
  <1>5. warned <=> allocated > Budget
    BY <1>1, <1>4
  <1>6. SelectionInv
    BY <1>1, <1>2 DEF SelectionInv
  <1>7. AdmissionInv
    BY <1>1, <1>2, <1>3, <1>4, <1>5 DEF AdmissionInv, Closed
  <1>8. QED
    BY <1>1, <1>6, <1>7 DEF ResolverInv, LoadedIsClosed, LimitsHold, AdmissionInv

(* Every step of the resolver keeps the invariant.                           *)
LEMMA ResolverInductive == ResolverInv /\ [ResolverNext]_resolverVars => ResolverInv'
  <1> SUFFICES ASSUME ResolverInv, [ResolverNext]_resolverVars PROVE ResolverInv'
    OBVIOUS
  <1>1. CASE ScoreCandidates
    <2>1. /\ stage = "score" /\ stage' = "close" /\ req' = req /\ admitted' = admitted
          /\ allocated' = allocated /\ warned' = warned
      BY <1>1 DEF ScoreCandidates
    <2>2. AdmissionInv'
      BY <2>1, AdmissionRests
    <2>3. QED
      BY <1>1, <2>1, <2>2, ScoringKeeps, NotDone DEF ResolverInv
  <1>2. CASE CloseOverDependencies
    <2>1. /\ stage = "close" /\ stage' = "conflicts" /\ req' = req /\ admitted' = admitted
          /\ allocated' = allocated /\ warned' = warned
      BY <1>2 DEF CloseOverDependencies
    <2>2. AdmissionInv'
      BY <2>1, AdmissionRests
    <2>3. QED
      BY <1>2, <2>1, <2>2, ClosingKeeps, NotDone DEF ResolverInv
  <1>3. CASE SettleConflict
    <2>1. /\ stage = "conflicts" /\ stage' = stage /\ req' = req /\ admitted' = admitted
          /\ allocated' = allocated /\ warned' = warned
      BY <1>3 DEF SettleConflict, InConflicts
    <2>2. AdmissionInv'
      BY <2>1, AdmissionRests
    <2>3. QED
      BY <1>3, <2>1, <2>2, SettlingKeeps, NotDone DEF ResolverInv
  <1>4. CASE NextSkill \/ EndConflicts
    <2>1. /\ stage = "conflicts" /\ stage' \in {"conflicts", "mandatory"} /\ req' = req /\ admitted' = admitted
          /\ allocated' = allocated /\ warned' = warned
          /\ chosen' = chosen /\ closure' = closure /\ remaining' = remaining /\ dropped' = dropped
      BY <1>4 DEF NextSkill, EndConflicts
    <2>2. AdmissionInv'
      BY <2>1, AdmissionRests
    <2>3. SelectionInv'
      BY <2>1, SelectionRests
    <2>4. QED
      BY <2>1, <2>2, <2>3, NotDone DEF ResolverInv
  <1>5. CASE AdmitMandatory
    BY <1>5, MandatoryKeeps
  <1>6. CASE EndMandatory
    BY <1>6, MandatoryEnds
  <1>7. CASE AdmitOptional
    BY <1>7, OptionalKeeps
  <1>8. CASE EndOptional
    BY <1>8, OptionalEnds
  <1>9. CASE AddBase
    BY <1>9, BaseKeeps
  <1>10. CASE UNCHANGED resolverVars
    <2>1. /\ req' = req /\ stage' = stage /\ chosen' = chosen /\ rated' = rated /\ closure' = closure /\ remaining' = remaining
          /\ admitted' = admitted /\ allocated' = allocated /\ dropped' = dropped /\ warned' = warned
      BY <1>10 DEF resolverVars
    <2>2. (\A s : (Asked(s))' <=> Asked(s)) /\ Candidates' = Candidates
          /\ \A s : ((LostConflict(s))' <=> LostConflict(s)) /\ ((Explained(s))' <=> Explained(s))
      BY <2>1 DEF Asked, Candidates, Evidence, LostConflict, Explained
    <2>3. SelectionInv'
      BY <2>1, <2>2 DEF ResolverInv, SelectionInv
    <2>4. Mandatory' = Mandatory /\ Forced' = Forced
      BY <2>1, ForcedSame
    <2>5. AdmissionInv'
      BY <2>1, <2>2, <2>4, SameAdmission DEF ResolverInv, AdmissionInv
    <2>6. Loaded' = Loaded /\ Dynamic' = Dynamic
      BY <2>1 DEF Loaded, Dynamic, ToSet
    <2>7. \A s : (Needs(s))' = Needs(s)
      BY <2>1 DEF Needs, Closed
    <2>8. LoadedIsClosed'
      BY <2>1, <2>6, <2>7 DEF ResolverInv, LoadedIsClosed
    <2>9. LimitsHold'
      BY <2>1, <2>2, <2>4, <2>6, SameAdmission DEF ResolverInv, LimitsHold
    <2>10. QED
      BY <2>3, <2>5, <2>8, <2>9 DEF ResolverInv
  <1>11. QED
    BY <1>1, <1>2, <1>3, <1>4, <1>5, <1>6, <1>7, <1>8, <1>9, <1>10 DEF ResolverNext

(* The invariant of the resolver.                                            *)
THEOREM ResolverInvariance == ResolverSpec => []ResolverInv
  <1>1. QED
    BY ResolverStarts, ResolverInductive, PTL DEF ResolverSpec

(* What is loaded has everything it depends on, for every set of skills,     *)
(* every graph of dependencies and every request.                            *)
THEOREM LoadedClosed == ResolverSpec => []LoadedIsClosed
  <1>1. ResolverInv => LoadedIsClosed
    BY DEF ResolverInv
  <1>2. QED
    BY <1>1, ResolverInvariance, PTL

(* Only the mandatory skills and what they need pass a limit, the warning is *)
(* given exactly when the budget is passed, what was asked for is loaded or  *)
(* lost a conflict, and every candidate that is not loaded is reported.      *)
THEOREM LimitsKept == ResolverSpec => []LimitsHold
  <1>1. ResolverInv => LimitsHold
    BY DEF ResolverInv
  <1>2. QED
    BY <1>1, ResolverInvariance, PTL
=============================================================================
