--------------------------- MODULE SkillResolver ---------------------------
(* CanonicalResolver.resolve of .agents/resolver/canonical-resolver.js: from *)
(* the evidence a request leaves for each skill to the skills that are       *)
(* loaded. The stages are steps; what a regular expression finds in the task *)
(* is part of the request.                                                   *)
EXTENDS Naturals, Sequences, FiniteSets, SequencesExt, FiniteSetsExt, TLC

CONSTANTS SkillOrder,   \* the skills and those the code names, in lexical order
          Requests,     \* the requests: see RequestOK
          Tokens        \* estimatedTokens of a skill

SkillId == ToSet(SkillOrder)

(* The kinds of evidence, with their weights; "weak" is a keyword below 20.  *)
Weight == [explicit |-> 100, profile_required |-> 1000, alias |-> 80, file_glob |-> 70,
           package |-> 60, keyword |-> 40, profile_preferred |-> 20, config |-> 15, weak |-> 5]

RequestOK(r) ==
    /\ r.evidence \in [SkillId -> SUBSET DOMAIN Weight]
    /\ r.exclude \subseteq SkillId                  \* exclude_skills of the profile
    /\ r.deps \in [SkillId -> Seq(SkillId)]         \* dependencyGraph of the registry
    /\ r.conflicts \in [SkillId -> Seq(SkillId)]
    /\ r.risk \in SUBSET {"destructive", "sensitive", "routine"}
    /\ r.frontend \in BOOLEAN                       \* a file or a word of the front end
    /\ r.adr \in BOOLEAN                            \* enforce.adr of the profile
    /\ r.budget \in Nat /\ r.maxSkills \in Nat      \* 0 for none given

ASSUME ResolverAssumption ==
    /\ SkillOrder \in Seq(STRING) /\ IsInjective(SkillOrder)
    /\ {"system-design", "decisions"} \subseteq SkillId
    /\ \A r \in Requests : RequestOK(r)
    /\ Tokens \in [SkillId -> Nat]

VARIABLES req, stage,
          chosen,       \* initialSelection: the ids, in order
          rated,        \* the score and the priority each of them was given
          closure,      \* closureMap: the ids, in order
          remaining,    \* those of them that no conflict has removed
          turn,         \* of the conflicts: places in closure and in the skill's conflicts
          admitted,     \* admitted: the ids, in order
          allocated,    \* allocatedDynamicTokens
          dropped,      \* excluded: records [id, code]
          clashes,      \* conflicts: pairs that were both asked for
          warned        \* CTX_RESOLVER_BUDGET_EXCEEDED

resolverVars == <<req, stage, chosen, rated, closure, remaining, turn, admitted, allocated, dropped,
                  clashes, warned>>

ResolverInit(requests) ==
    /\ req \in requests /\ stage = "score"
    /\ chosen = <<>> /\ rated = <<>> /\ closure = <<>> /\ remaining = {} /\ turn = <<1, 1>>
    /\ admitted = <<>> /\ allocated = 0
    /\ dropped = {} /\ clashes = {} /\ warned = FALSE

-----------------------------------------------------------------------------
(* Evidence and scores.                                                      *)

(* addEvidence: an excluded skill gets none.                                 *)
Evidence(s) == IF s \in req.exclude THEN {} ELSE req.evidence[s]
Candidates == {s \in SkillId : Evidence(s) # {}}
Score(s) == FoldSet(LAMBDA k, sum : sum + Weight[k], 0, Evidence(s))
DirectIntent(s) == Evidence(s) \cap {"keyword", "alias", "explicit", "profile_required"} # {}
Asked(s) == Evidence(s) \cap {"explicit", "profile_required"} # {}
Priority(s) == IF DirectIntent(s) THEN 1000 + Score(s) ELSE Score(s)

Place(s) == CHOOSE i \in DOMAIN SkillOrder : SkillOrder[i] = s

(* A task about infrastructure or the back end only.                         *)
SuppressUI ==
    \/ "docker" \in Candidates /\ DirectIntent("docker")
    \/ ~req.frontend /\ \E s \in Candidates \cap {"database", "fastapi", "nestjs", "ddd"} : DirectIntent(s)
Suppressed(s) ==
    /\ SuppressUI /\ ~DirectIntent(s)
    /\ s \in {"ui-ux-pro", "impeccable-design", "ui-design", "web-accessibility"}
Qualifies(s) == Asked(s) \/ Score(s) >= 25 \/ (DirectIntent(s) /\ Score(s) >= 20)
Qualified == {s \in Candidates : ~Suppressed(s) /\ Qualifies(s)}

(* Architectural synergy, then the decisions a profile enforces.             *)
Synergy == IF Qualified \cap {"database", "microservices", "ddd", "graphify"} # {}
           THEN {"system-design"} \ (Qualified \cup req.exclude) ELSE {}
Enforced == IF req.adr /\ (Qualified \cup Synergy) \cap {"system-design", "microservices"} # {}
            THEN {"decisions"} \ (Qualified \cup req.exclude) ELSE {}

Rating(score, priority) == [score |-> score, priority |-> priority]

(* By priority, then by score, then by id.                                   *)
Before(r, a, b) ==
    \/ r[a].priority > r[b].priority
    \/ r[a].priority = r[b].priority /\ r[a].score > r[b].score
    \/ r[a] = r[b] /\ Place(a) < Place(b)

ScoreCandidates ==
    LET rating == [s \in Qualified |-> Rating(Score(s), Priority(s))]
    IN /\ stage = "score" /\ stage' = "close"
       /\ \E q \in SetToSeqs(Qualified) :
             /\ \A i, j \in DOMAIN q : i < j => Before(rating, q[i], q[j])
             /\ chosen' = q \o SetToSeq(Synergy) \o SetToSeq(Enforced)
       /\ rated' = rating @@ [s \in Synergy |-> Rating(50, 500)] @@ [s \in Enforced |-> Rating(100, 1000)]
       /\ dropped' = {[id |-> s, code |-> IF Suppressed(s) THEN "suppressed_by_intent" ELSE "score_threshold"] :
                         s \in Candidates \ Qualified}
       /\ UNCHANGED <<req, closure, remaining, turn, admitted, allocated, clashes, warned>>

(* A skill that is there only as a dependency has a rating too.              *)
RatingOf(s) == IF s \in DOMAIN rated THEN rated[s] ELSE Rating(100, 800)
PriorityOf(s) == RatingOf(s).priority

-----------------------------------------------------------------------------
(* Dependencies and conflicts.                                               *)

(* Those of a list that are not in out, each once, after the ids there are.  *)
Join(ids, more, out) ==
    LET joined[n \in 0 .. Len(more)] ==
            IF n = 0 THEN ids
            ELSE IF more[n] \in out \cup ToSet(joined[n - 1]) THEN joined[n - 1]
            ELSE Append(joined[n - 1], more[n])
    IN joined[Len(more)]

(* getTransitiveDeps, with the skill itself in front: breadth first, the nth *)
(* skill found adds its own dependencies.                                    *)
TransitiveDeps(s) ==
    LET found[n \in 0 .. Len(SkillOrder)] ==
            IF n = 0 THEN <<s>>
            ELSE IF n > Len(found[n - 1]) THEN found[n - 1]
            ELSE Join(found[n - 1], req.deps[found[n - 1][n]], req.exclude)
    IN found[Len(SkillOrder)]

(* A map keeps the place of a key that is set again.                         *)
Closure ==
    LET closing[n \in 0 .. Len(chosen)] ==
            IF n = 0 THEN chosen ELSE Join(closing[n - 1], TransitiveDeps(chosen[n]), {})
    IN closing[Len(chosen)]

CloseOverDependencies ==
    /\ stage = "close" /\ stage' = "conflicts"
    /\ closure' = Closure /\ remaining' = ToSet(closure') /\ turn' = <<1, 1>>
    /\ UNCHANGED <<req, chosen, rated, admitted, allocated, dropped, clashes, warned>>

(* The loop over the closure passes those that have been removed; the loop   *)
(* over the conflicts of a skill goes on when the skill itself is removed.   *)
Item == closure[turn[1]]
Other == req.conflicts[Item][turn[2]]
InConflicts ==
    /\ stage = "conflicts" /\ turn[1] <= Len(closure)
    /\ turn[2] > 1 \/ Item \in remaining
    /\ turn[2] <= Len(req.conflicts[Item])

NextSkill ==
    /\ stage = "conflicts" /\ turn[1] <= Len(closure) /\ ~InConflicts
    /\ turn' = <<turn[1] + 1, 1>>
    /\ UNCHANGED <<req, stage, chosen, rated, closure, remaining, admitted, allocated, dropped, clashes, warned>>

Explicit(s) == "explicit" \in Evidence(s) /\ s \in ToSet(chosen)

(* What is explicit stays, then what has the higher priority.                *)
Loser == IF Explicit(Item) # Explicit(Other)
         THEN (IF Explicit(Item) THEN Other ELSE Item)
         ELSE (IF PriorityOf(Item) >= PriorityOf(Other) THEN Other ELSE Item)

SettleConflict ==
    /\ InConflicts
    /\ turn' = <<turn[1], turn[2] + 1>>
    /\ \/ Other \notin remaining
          /\ UNCHANGED <<remaining, dropped, clashes>>
       \/ Other \in remaining /\ Explicit(Item) /\ Explicit(Other)
          /\ clashes' = clashes \cup {{Item, Other}}
          /\ UNCHANGED <<remaining, dropped>>
       \/ Other \in remaining /\ ~(Explicit(Item) /\ Explicit(Other))
          /\ remaining' = remaining \ {Loser}
          /\ dropped' = dropped \cup {[id |-> Loser, code |-> "conflict"]}
          /\ UNCHANGED clashes
    /\ UNCHANGED <<req, stage, chosen, rated, closure, admitted, allocated, warned>>

EndConflicts ==
    /\ stage = "conflicts" /\ turn[1] > Len(closure) /\ stage' = "mandatory"
    /\ UNCHANGED <<req, chosen, rated, closure, remaining, turn, admitted, allocated, dropped, clashes, warned>>

-----------------------------------------------------------------------------
(* Admission under the token budget.                                         *)

BaseSkills == <<"ponytail-mindset", "engineering-workflow">>

Cost(s) == IF s \in ToSet(BaseSkills) THEN 0 ELSE Tokens[s]
CostOf(ids) ==
    LET sum[n \in 0 .. Len(ids)] == IF n = 0 THEN 0 ELSE sum[n - 1] + Cost(ids[n])
    IN sum[Len(ids)]

(* evaluateRisk: the first of three that applies; it sets the default budget.*)
Risk == CASE "destructive" \in req.risk -> "destructive" [] "sensitive" \in req.risk -> "high"
          [] "routine" \in req.risk -> "routine" [] OTHER -> "standard"
HighBudget == 4
StandardBudget == 2
Budget == IF req.budget > 0 THEN req.budget
          ELSE IF Risk \in {"high", "destructive"} THEN HighBudget ELSE StandardBudget

(* Mutant: a candidate is admitted without what it depends on.               *)
ClusterAlone(s) == IF s \in ToSet(admitted) THEN <<>> ELSE <<s>>
(* A candidate and those of its dependencies that are not in yet.            *)
Cluster(s) == Join(<<>>, TransitiveDeps(s), ToSet(admitted))

(* Asked for, or enforced by the profile: no other skill is rated 100, 1000. *)
Mandatory == {s \in remaining : Asked(s) \/ RatingOf(s) = Rating(100, 1000)}

Admit(cluster) ==
    /\ admitted' = admitted \o cluster
    /\ allocated' = allocated + CostOf(cluster)

(* The next of the mandatory candidates, in the order of the closure.        *)
AdmitMandatory ==
    /\ stage = "mandatory"
    /\ \E i \in DOMAIN closure :
          /\ closure[i] \in Mandatory \ ToSet(admitted)
          /\ \A j \in 1 .. i - 1 : closure[j] \notin Mandatory \ ToSet(admitted)
          /\ Admit(Cluster(closure[i]))
    /\ warned' = (warned \/ allocated' > Budget)
    /\ UNCHANGED <<req, stage, chosen, rated, closure, remaining, turn, dropped, clashes>>

EndMandatory ==
    /\ stage = "mandatory" /\ Mandatory \subseteq ToSet(admitted) /\ stage' = "optional"
    /\ UNCHANGED <<req, chosen, rated, closure, remaining, turn, admitted, allocated, dropped, clashes, warned>>

(* Mutant: what a candidate brings with it is not counted for max_skills.    *)
RefusedUncounted(s) ==
    IF req.maxSkills > 0 /\ Len(admitted) >= req.maxSkills
    THEN {[id |-> s, code |-> "max_skills_limit"]}
    ELSE IF allocated + CostOf(Cluster(s)) > Budget THEN {[id |-> s, code |-> "budget_exceeded"]} ELSE {}

Refused(s) ==
    IF /\ req.maxSkills > 0
       /\ Len(admitted) >= req.maxSkills \/ Len(admitted) + Len(Cluster(s)) > req.maxSkills
    THEN {[id |-> s, code |-> "max_skills_limit"]}
    ELSE IF allocated + CostOf(Cluster(s)) > Budget THEN {[id |-> s, code |-> "budget_exceeded"]} ELSE {}

(* The other candidates, by rating, each of them once.                       *)
Waiting ==
    LET settled == {d.id : d \in {e \in dropped : e.code \in {"max_skills_limit", "budget_exceeded"}}}
    IN remaining \ (Mandatory \cup ToSet(admitted) \cup settled)

AdmitOptional ==
    LET rating == [s \in remaining |-> RatingOf(s)]
    IN /\ stage = "optional"
       /\ \E s \in Waiting :
             /\ \A t \in Waiting \ {s} : Before(rating, s, t)
             /\ IF Refused(s) = {} THEN Admit(Cluster(s)) ELSE UNCHANGED <<admitted, allocated>>
             /\ dropped' = dropped \cup Refused(s)
       /\ UNCHANGED <<req, stage, chosen, rated, closure, remaining, turn, clashes, warned>>

EndOptional ==
    /\ stage = "optional" /\ Waiting = {} /\ stage' = "base"
    /\ UNCHANGED <<req, chosen, rated, closure, remaining, turn, admitted, allocated, dropped, clashes, warned>>

(* The foundational skills go to the front, whatever the limits.             *)
AddBase ==
    /\ stage = "base" /\ stage' = "done"
    /\ admitted' = Join(<<>>, Reverse(BaseSkills), req.exclude \cup ToSet(admitted)) \o admitted
    /\ UNCHANGED <<req, chosen, rated, closure, remaining, turn, allocated, dropped, clashes, warned>>

ResolverNext == \/ ScoreCandidates \/ CloseOverDependencies
                \/ NextSkill \/ SettleConflict \/ EndConflicts
                \/ AdmitMandatory \/ EndMandatory \/ AdmitOptional \/ EndOptional \/ AddBase

ResolverSpec == ResolverInit(Requests) /\ [][ResolverNext]_resolverVars

-----------------------------------------------------------------------------

Loaded == ToSet(admitted)
Dynamic == Loaded \ ToSet(BaseSkills)

(* What a skill depends on: what is in every set that has the skill and is   *)
(* closed under the dependencies the profile leaves.                         *)
Closed(set) == \A s \in set : ToSet(req.deps[s]) \ req.exclude \subseteq set
Needs(s) == {t \in SkillId : \A set \in SUBSET SkillId : s \in set /\ Closed(set) => t \in set}

(* What is loaded can be used: with a skill, everything it depends on by a   *)
(* chain the profile does not interrupt, and nothing the profile excludes.   *)
LoadedIsClosed ==
    stage = "done" =>
        /\ Loaded \cap req.exclude = {}
        /\ \A s \in Dynamic : Needs(s) \subseteq Loaded

(* What has to be loaded, whatever the limits; and both limits.              *)
Forced == UNION {Needs(s) : s \in Mandatory}
WithinLimits == allocated <= Budget /\ (req.maxSkills > 0 => Len(admitted) <= req.maxSkills)

(* Only the mandatory skills and what they need pass a limit: as soon as one *)
(* other skill is in, the list keeps to max_skills and its tokens to the     *)
(* budget. There is a warning exactly when the budget is passed, and none    *)
(* for max_skills. The base skills that are added at the end count for       *)
(* neither. In the end what was asked for is loaded unless it lost a         *)
(* conflict, and every other candidate is loaded or accounted for.           *)
LimitsHold ==
    /\ stage \in {"optional", "base"} => ToSet(admitted) \subseteq Forced \/ WithinLimits
    /\ warned <=> allocated > Budget
    /\ allocated = CostOf(admitted) /\ IsInjective(admitted)
    /\ stage = "done" =>
          /\ \A s \in SkillId : Asked(s) => s \in Loaded \/ [id |-> s, code |-> "conflict"] \in dropped
          /\ \A s \in Candidates : s \in Loaded \/ \E d \in dropped : d.id = s
=============================================================================
