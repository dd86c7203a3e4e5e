------------------------------ MODULE Profiles ------------------------------
(* Project profiles (.agents/profiles.js): reading a profile document, with  *)
(* its fields of two schema versions, its validation, and profile.json with  *)
(* the overrides of package scopes. A scope or file is a sequence of names.  *)
(* A command here is one step; LockCallers has what can come in between.     *)
EXTENDS Naturals, Sequences, FiniteSets, SequencesExt, Functions

CONSTANTS Libraries,  \* the profile documents there may be: id -> document
          Scopes,     \* what "--scope" is given
          Places,     \* the files and scopes that are asked about
          Packages    \* the roots of the packages of the workspace

Groups == {"required", "preferred", "excluded"}
Policies == {"testing", "verification", "adr", "review", "security", "accessibility"}
Enforceable == {"testing", "adr", "code_review", "security_audit", "accessibility_audit"}

(* v2: the lists under "skills:"; v1: require_skills, prefer_skills and      *)
(* exclude_skills; policy, enforce: the keys that are given, with values.    *)
DocumentOK(d) ==
    /\ DOMAIN d.v1 = Groups /\ DOMAIN d.v2 = Groups
    /\ DOMAIN d.policy \subseteq Policies
    /\ Range(d.policy) \subseteq {"required", "recommended", "off", "other"}
    /\ DOMAIN d.enforce \subseteq Enforceable /\ Range(d.enforce) \subseteq BOOLEAN

ASSUME ProfileAssumption ==
    /\ \A lib \in Libraries : \A id \in DOMAIN lib : DocumentOK(lib[id])
    /\ Scopes \subseteq Places /\ Places \cup Packages \subseteq Seq(STRING)

VARIABLES library,  \* the documents
          lock      \* profile.json: <<>> or one record [profile, stored, overrides],
                    \* overrides the pairs <<scope, id>> in the order of the keys

profileVars == <<library, lock>>

ProfileInit(libraries) == library \in libraries /\ lock = <<>>

-----------------------------------------------------------------------------
(* parseYamlProfile                                                          *)

(* Each form of a list fills the other when that is empty.                   *)
Filled(list, other) == IF list = {} THEN other ELSE list

(* Mutant: the new form is not copied to the old one.                        *)
SyncOneWay(d) == [skills |-> [g \in Groups |-> Filled(d.v2[g], d.v1[g])], legacy |-> d.v1]
Sync(d) == [skills |-> [g \in Groups |-> Filled(d.v2[g], d.v1[g])],
            legacy |-> [g \in Groups |-> Filled(d.v1[g], d.v2[g])]]

DefaultPolicy == [k \in Policies |-> IF k \in {"adr", "accessibility"} THEN "off" ELSE "recommended"]
EnforcedBy == [testing |-> {"testing", "verification"}, adr |-> {"adr"}, code_review |-> {"review"},
               security_audit |-> {"security"}, accessibility_audit |-> {"accessibility"}]

(* A policy section decides what is enforced; without one it is the reverse. *)
Policy(d) ==
    [k \in Policies |->
        IF k \in DOMAIN d.policy THEN d.policy[k]
        ELSE IF d.policy = <<>> /\ \E e \in DOMAIN d.enforce : k \in EnforcedBy[e]
        THEN IF d.enforce[CHOOSE e \in DOMAIN d.enforce : k \in EnforcedBy[e]] THEN "required" ELSE "off"
        ELSE DefaultPolicy[k]]
Enforce(d) ==
    IF d.policy = <<>> THEN d.enforce
    ELSE [e \in Enforceable |-> \E k \in EnforcedBy[e] : Policy(d)[k] = "required"]

Parsed(d) == [skills |-> Sync(d).skills, legacy |-> Sync(d).legacy, policy |-> Policy(d),
              enforce |-> Enforce(d)]

(* validateProfile; it looks at the lists of the second version.             *)
Valid(p) == /\ p.skills["required"] \cap p.skills["excluded"] = {}
            /\ p.skills["preferred"] \cap p.skills["excluded"] = {}
            /\ "other" \notin Range(p.policy)

-----------------------------------------------------------------------------
(* applyProfile, removeActiveProfile                                         *)

Overrides == IF lock = <<>> THEN <<>> ELSE lock[1].overrides
Scoped(s) == {i \in DOMAIN Overrides : Overrides[i][1] = s}

(* A key that is there keeps its place, and no key is there twice.           *)
WithOverride(s, id) ==
    IF Scoped(s) = {} THEN Append(Overrides, <<s, id>>)
    ELSE [i \in DOMAIN Overrides |-> IF i \in Scoped(s) THEN <<s, id>> ELSE Overrides[i]]

ApplyToProject(id) ==
    /\ Valid(Parsed(library[id]))
    /\ lock' = <<[profile |-> id, stored |-> Parsed(library[id]), overrides |-> Overrides]>>
    /\ UNCHANGED library

(* Without an active profile the override becomes that of the project too.   *)
ApplyToScope(id, s) ==
    /\ Valid(Parsed(library[id]))
    /\ lock' = <<[profile |-> IF lock = <<>> THEN id ELSE lock[1].profile,
                  stored |-> IF lock = <<>> THEN Parsed(library[id]) ELSE lock[1].stored,
                  overrides |-> WithOverride(s, id)]>>
    /\ UNCHANGED library

RemoveScope(s) ==
    /\ lock # <<>> /\ Scoped(s) # {}
    /\ lock' = <<[lock[1] EXCEPT !.overrides = RemoveAt(@, CHOOSE i \in Scoped(s) : TRUE)]>>
    /\ UNCHANGED library

RemoveProfile == lock # <<>> /\ lock' = <<>> /\ UNCHANGED library

ProfileNext ==
    \/ RemoveProfile
    \/ \E id \in DOMAIN library : ApplyToProject(id)
    \/ \E id \in DOMAIN library, s \in Scopes : ApplyToScope(id, s)
    \/ \E s \in Scopes : RemoveScope(s)

ProfileSpec == ProfileInit(Libraries) /\ [][ProfileNext]_profileVars

-----------------------------------------------------------------------------
(* getActiveProfile                                                          *)

(* Mutant: a scope covers what begins with its first name.                   *)
CoversFirst(s, t) == s # <<>> /\ t # <<>> /\ s[1] = t[1]
Covers(s, t) == s # <<>> /\ IsPrefix(s, t)

Nearest(t) == {p \in Packages : IsPrefix(p, t) /\ \A q \in Packages : IsPrefix(q, t) => Len(q) <= Len(p)}

(* The override of the scope itself, then the first that covers it, then the *)
(* one of its package: the project's root, <<>>, is only found this way.     *)
Matching(t) ==
    LET covering == {i \in DOMAIN Overrides : Covers(Overrides[i][1], t)}
    IN IF Scoped(t) # {} THEN Scoped(t)
       ELSE IF covering # {} THEN {i \in covering : \A j \in covering : i <= j}
       ELSE {i \in DOMAIN Overrides : Overrides[i][1] \in Nearest(t)}

Active(t) ==
    IF lock = <<>> THEN <<>>
    ELSE IF Matching(t) = {} THEN <<lock[1].profile>>
    ELSE <<Overrides[CHOOSE i \in Matching(t) : TRUE][2]>>

-----------------------------------------------------------------------------

(* The lists that the resolver, the exports and the doctor read (the old     *)
(* form) are those that were validated and are shown (the new form), unless  *)
(* the document has both; and what is enforced is what the policy requires.  *)
StoredIsConsistent ==
    lock # <<>> =>
        LET p == lock[1].stored
            d == library[lock[1].profile]
            both == {g \in Groups : d.v1[g] # {} /\ d.v2[g] # {}}
        IN /\ \A g \in Groups \ both : p.legacy[g] = p.skills[g]
           /\ both = {} => (p.legacy["required"] \cup p.legacy["preferred"]) \cap p.legacy["excluded"] = {}
           /\ \A e \in Enforceable :
                 (e \in DOMAIN p.enforce /\ p.enforce[e]) <=> \E k \in EnforcedBy[e] : p.policy[k] = "required"

Changed(s) ==
    \/ \E i \in DOMAIN Overrides : Overrides[i][1] = s /\ Overrides[i] \notin Range(Overrides')
    \/ \E i \in DOMAIN Overrides' : Overrides'[i][1] = s /\ Overrides'[i] \notin Range(Overrides)

(* A command about one scope changes nothing for what lies outside of it,    *)
(* and what is applied to a scope is what the scope has, though a file in it *)
(* may have that of a wider scope, whichever was applied first.              *)
ScopesStandAlone ==
    [][lock # <<>> /\ lock' # <<>> /\ lock[1].profile = lock'[1].profile =>
          \A t \in Places :
             /\ Active(t)' # Active(t) => \E s \in Scopes : Changed(s) /\ IsPrefix(s, t)
             /\ \A i \in DOMAIN Overrides' : Overrides'[i][1] = t => Active(t)' = <<Overrides'[i][2]>>
      ]_profileVars
=============================================================================
