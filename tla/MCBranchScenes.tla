---------------------------- MODULE MCBranchScenes ----------------------------
(* Small instances of BranchScenes: a scene that wounds, one that tells a    *)
(* secret and one that acts on it, one that breaks the plan, one whose delta *)
(* quotes nothing, and the two cancellations, of which the short text about  *)
(* the wound misses its own beat.                                            *)
EXTENDS BranchScenes, TLC

CONSTANTS wound, secret, hurt, tell, act, flat, vague, heal, unsay

Scenario(sets, clears, needs, sound, cited) ==
  [sets |-> sets, clears |-> clears, needs |-> needs,
   sound |-> sound, cited |-> cited]

Scenarios ==
  (hurt  :> Scenario({wound}, {}, {}, TRUE, TRUE)) @@
  (tell  :> Scenario({secret}, {}, {}, TRUE, TRUE)) @@
  (act   :> Scenario({}, {}, {secret}, TRUE, TRUE)) @@
  (flat  :> Scenario({wound, secret}, {}, {}, FALSE, TRUE)) @@
  (vague :> Scenario({wound}, {}, {}, TRUE, FALSE)) @@
  (heal  :> Scenario({}, {wound}, {}, FALSE, FALSE)) @@
  (unsay :> Scenario({}, {secret}, {}, TRUE, FALSE))

(* Sessions run the same requests, so any two are interchangeable.           *)
SessionSymmetry == Permutations(Sessions)

Healings == (wound :> heal) @@ (secret :> unsay)

VARIABLE load  \* which of the loads below this behaviour is about

(* One request at a time over all texts; or two that overlap on scenes that  *)
(* act on the secret and cancel it, of which only the last may have several  *)
(* revisions and none is forced on a failed validation; or any requests.     *)
Alone ==
  \A s, q \in Sessions : job'[s].op # "idle" /\ job'[q].op # "idle" => s = q
Paired ==
  \A s \in Sessions : LET j == job'[s] IN
    /\ j.op # "idle" => j.new.text \in {act, unsay} /\ ~j.new.override
    /\ j.op = "revise" => j.ord = MaxOrdinal
    /\ j.op = "draft" /\ j.ord < MaxOrdinal => j.rev = 1

MCInit == Init /\ load \in {"alone", "paired"}
MCNext == Next /\ UNCHANGED load /\ (IF load = "alone" THEN Alone ELSE Paired)
MCSpec == MCInit /\ [][MCNext]_<<vars, load>>
AnyInit == Init /\ load = "any"
AnySpec == AnyInit /\ [][Next /\ UNCHANGED load]_<<vars, load>>
=============================================================================
