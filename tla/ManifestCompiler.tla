-------------------------- MODULE ManifestCompiler --------------------------
(* ManifestCompiler of .agents/compiler/manifest-compiler.js: from the skill *)
(* directories to the compiled registry, its freshness check (validate.js)   *)
(* and the rule catalogue that loads it (.agents/rules/rule-catalog.js).     *)
(* The depth-first search for cycles is a step machine with a stack.         *)
EXTENDS Naturals, Sequences, FiniteSets, SequencesExt, FiniteSetsExt, Functions

CONSTANTS NameOrder,   \* ids and aliases, in lexical order
          Trees,       \* the skill directories there may be: sequences, by path
          Builtin,     \* BUILTIN_RULES: id -> what the catalogue keeps of it
          MaxTouches   \* how many SKILL.md files are edited

Name == ToSet(NameOrder)
None == "none"

(* A directory. Without a manifest one is made up of the directory's name;   *)
(* entry, resources: where the paths of the manifest lead; front: the front  *)
(* matter of SKILL.md parses or is absent; title: the name in it; aliases:   *)
(* with the default signals.                                                 *)
Rule == [id : STRING, level : BOOLEAN,
         enforcement : {"runtime", "linter", "prompt-guidance", "reference", "example", "other"},
         checker : {None, "known", "unknown"}]
DirOK(d) ==
    /\ d.manifest \in {"valid", "unreadable", None}
    /\ d.dir \in Name /\ d.title \in Name \cup {None}
    /\ d.front \in BOOLEAN /\ (~d.front => d.title = None /\ d.entry # "missing")
    /\ d.id \in Name \cup {None} /\ (d.manifest = None => d.id = None)
    /\ d.schema \in BOOLEAN             \* known keys and a well-formed id
    /\ d.entry \in {"there", "missing", "outside"}
    /\ d.resources \subseteq {"there", "missing", "outside"}
    /\ d.requires \subseteq Name /\ d.conflicts \subseteq Name /\ d.aliases \subseteq Name
    /\ d.rules \in Seq(Rule)

ASSUME CompilerAssumption ==
    /\ NameOrder \in Seq(STRING) /\ IsInjective(NameOrder)
    /\ \A t \in Trees : /\ DOMAIN t = 1 .. Len(t) /\ Len(t) \in Nat
                        /\ \A i \in DOMAIN t : DirOK(t[i])

VARIABLES dirs,        \* the skill directories
          edition,     \* of each directory, the version of its SKILL.md
          at,          \* where the compiler is
          manifests,   \* manifestsById: id -> index of its directory
          ids,         \* the keys of manifestsById, oldest first
          diagnostics, \* pairs <<code, id>>
          mark,        \* visited: id -> unvisited, visiting or visited
          stack,       \* of the search: records [id, left]
          registry,    \* the compiled registry, <<>> or one
          written,     \* registry.v2.json, <<>> or one
          compiled     \* history: the editions registry.v2.json was made from

compilerVars == <<dirs, edition, at, manifests, ids, diagnostics, mark, stack, registry,
                  written, compiled>>

CompilerInit(trees) ==
    /\ dirs \in trees
    /\ edition = [i \in DOMAIN dirs |-> 0]
    /\ at = <<"idle">>
    /\ manifests = <<>> /\ ids = <<>> /\ diagnostics = {}
    /\ mark = <<>> /\ stack = <<>>
    /\ registry = <<>> /\ written = <<>> /\ compiled = <<>>

-----------------------------------------------------------------------------
(* normalizeManifest                                                         *)

IdOf(d) == IF d.id = None THEN d.dir ELSE d.id
(* The title is an alias too, so it never differs from every alias.          *)
AliasesOf(d) == d.aliases \cup {IdOf(d)} \cup ({d.title} \ {None})

(* validateSingleManifest                                                    *)
RuleFlaws(r) ==
    (IF r.level /\ r.enforcement # "other" THEN {} ELSE {"SCHEMA_ERROR"})
    \cup (IF r.enforcement \in {"runtime", "linter"} /\ r.checker # "known"
          THEN {"MISSING_RULE_CHECKER"} ELSE {})

Flaws(d) ==
    (IF d.schema THEN {} ELSE {"SCHEMA_ERROR"})
    \cup (CASE d.entry = "outside" -> {"INVALID_PATH"}
            [] d.entry = "missing" -> {"MISSING_ENTRYPOINT"} [] OTHER -> {})
    \cup (IF "outside" \in d.resources THEN {"INVALID_PATH"} ELSE {})
    \cup (IF "missing" \in d.resources THEN {"MISSING_RESOURCE"} ELSE {})
    \cup (IF IdOf(d) \in d.requires THEN {"SELF_DEPENDENCY"} ELSE {})
    \cup UNION {RuleFlaws(d.rules[i]) : i \in DOMAIN d.rules}

StartCompile ==
    /\ at = <<"idle">>
    /\ at' = <<"scan", 1>>
    /\ manifests' = <<>> /\ ids' = <<>> /\ diagnostics' = {} /\ registry' = <<>>
    /\ UNCHANGED <<dirs, edition, mark, stack, written, compiled>>

Keep(id, i) ==
    /\ manifests' = [k \in DOMAIN manifests \cup {id} |-> IF k = id THEN i ELSE manifests[k]]
    /\ ids' = IF id \in DOMAIN manifests THEN ids ELSE Append(ids, id)

Unparsed(d) == d.manifest = "unreadable" \/ (d.manifest = "valid" /\ ~d.front)

(* A made-up manifest is not validated, and takes its id without a look.     *)
ScanDirectory ==
    LET i == at[2]
        d == dirs[i]
    IN /\ at[1] = "scan" /\ i <= Len(dirs)
       /\ at' = <<"scan", i + 1>>
       /\ \/ d.manifest = None /\ d.front
             /\ Keep(d.dir, i) /\ UNCHANGED diagnostics
          \/ Unparsed(d)
             /\ diagnostics' = diagnostics \cup {<<"PARSE_ERROR", d.dir>>}
             /\ UNCHANGED <<manifests, ids>>
          \/ d.manifest = "valid" /\ d.front
             /\ Keep(IdOf(d), i)
             /\ diagnostics' = diagnostics
                    \cup (IF IdOf(d) \in DOMAIN manifests THEN {<<"DUPLICATE_ID", IdOf(d)>>} ELSE {})
                    \cup {<<code, IdOf(d)>> : code \in Flaws(d)}
       /\ UNCHANGED <<dirs, edition, mark, stack, registry, written, compiled>>

(* A manifest is made up outside the try: front matter that does not parse   *)
(* leaves compile with an exception, and no result.                          *)
ThrowAtDirectory ==
    /\ at[1] = "scan" /\ at[2] <= Len(dirs)
    /\ dirs[at[2]].manifest = None /\ ~dirs[at[2]].front
    /\ at' = <<"thrown">>
    /\ UNCHANGED <<dirs, edition, manifests, ids, diagnostics, mark, stack, registry, written, compiled>>

-----------------------------------------------------------------------------
(* validateDependencyGraph                                                   *)

Manifest(id) == dirs[manifests[id]]
Requires(id) == IF Manifest(id).manifest = None THEN {} ELSE Manifest(id).requires
Conflicts(id) == IF Manifest(id).manifest = None THEN {} ELSE Manifest(id).conflicts
Known == DOMAIN manifests

Pairwise ==
    {<<"UNKNOWN_DEPENDENCY", id>> : id \in {k \in Known : Requires(k) \ Known # {}}}
    \cup {<<"CONFLICT_VIOLATION", id>> : id \in
            {k \in Known : \E r \in Requires(k) :
                r \in Conflicts(k) \/ (r \in Known /\ k \in Conflicts(r))}}

StartSearch ==
    /\ at = <<"scan", Len(dirs) + 1>>
    /\ at' = <<"search">>
    /\ diagnostics' = diagnostics \cup Pairwise
    /\ mark' = [id \in Known |-> "unvisited"] /\ stack' = <<>>
    /\ UNCHANGED <<dirs, edition, manifests, ids, registry, written, compiled>>

(* A call of checkCycle: the dependencies that it has yet to look at, in the *)
(* order of the manifest, which may be any.                                  *)
Call(id) == [id |-> id, left |-> Requires(id) \cap Known]

(* The loop over knownIds.                                                   *)
SearchFrom ==
    /\ at = <<"search">> /\ stack = <<>>
    /\ \E i \in DOMAIN ids :
          /\ mark[ids[i]] = "unvisited"
          /\ \A j \in 1 .. i - 1 : mark[ids[j]] # "unvisited"
          /\ mark' = [mark EXCEPT ![ids[i]] = "visiting"]
          /\ stack' = <<Call(ids[i])>>
    /\ UNCHANGED <<dirs, edition, at, manifests, ids, diagnostics, registry, written, compiled>>

(* Mutant: a skill on the stack is passed over like one that was visited.    *)
NextDependencyVisited ==
    /\ at = <<"search">> /\ stack # <<>>
    /\ \E dep \in Last(stack).left :
          LET rest == [stack EXCEPT ![Len(stack)].left = @ \ {dep}]
          IN \/ mark[dep] # "unvisited"
                /\ stack' = rest
                /\ UNCHANGED mark
             \/ mark[dep] = "unvisited"
                /\ mark' = [mark EXCEPT ![dep] = "visiting"]
                /\ stack' = Append(rest, Call(dep))
    /\ UNCHANGED <<dirs, edition, at, manifests, ids, diagnostics, registry, written, compiled>>

(* One dependency of the skill on top of the stack.                          *)
NextDependency ==
    /\ at = <<"search">> /\ stack # <<>>
    /\ \E dep \in Last(stack).left :
          LET rest == [stack EXCEPT ![Len(stack)].left = @ \ {dep}]
          IN \/ mark[dep] = "visiting"
                /\ diagnostics' = diagnostics \cup {<<"CYCLE_DETECTED", Last(stack).id>>}
                /\ stack' = rest
                /\ UNCHANGED mark
             \/ mark[dep] = "visited"
                /\ stack' = rest
                /\ UNCHANGED <<mark, diagnostics>>
             \/ mark[dep] = "unvisited"
                /\ mark' = [mark EXCEPT ![dep] = "visiting"]
                /\ stack' = Append(rest, Call(dep))
                /\ UNCHANGED diagnostics
    /\ UNCHANGED <<dirs, edition, at, manifests, ids, registry, written, compiled>>

LeaveSkill ==
    /\ at = <<"search">> /\ stack # <<>> /\ Last(stack).left = {}
    /\ mark' = [mark EXCEPT ![Last(stack).id] = "visited"]
    /\ stack' = Front(stack)
    /\ UNCHANGED <<dirs, edition, at, manifests, ids, diagnostics, registry, written, compiled>>

-----------------------------------------------------------------------------
(* The registry.                                                             *)

(* Mutant: the manifest's directory is looked for beside it, for all skills. *)
HashOfParent(id) == <<>>
(* entrypointHash: the source of a made-up manifest is the directory itself, *)
(* and its parent, where the file is looked for, has no such file.           *)
Hash(id) == IF Manifest(id).manifest = None THEN <<>> ELSE <<manifests[id], edition[manifests[id]]>>

Rules(id) == IF Manifest(id).manifest = None THEN <<>> ELSE Manifest(id).rules

Rank(id) == CHOOSE i \in DOMAIN NameOrder : NameOrder[i] = id

(* The first skill keeps an alias, the last one a rule.                      *)
AliasTable ==
    [a \in UNION {AliasesOf(Manifest(id)) : id \in Known} |->
        CHOOSE id \in Known : /\ a \in AliasesOf(Manifest(id))
                              /\ \A k \in Known : a \in AliasesOf(Manifest(k)) => Rank(id) <= Rank(k)]
Declared(rs) == {rs[i].id : i \in DOMAIN rs}
RuleTable ==
    [r \in UNION {Declared(Rules(id)) : id \in Known} |->
        CHOOSE id \in Known : /\ r \in Declared(Rules(id))
                              /\ \A k \in Known : r \in Declared(Rules(k)) => Rank(k) <= Rank(id)]

EndCompile ==
    /\ at = <<"search">> /\ stack = <<>>
    /\ \A id \in Known : mark[id] = "visited"
    /\ IF diagnostics # {}
       THEN at' = <<"failed">> /\ UNCHANGED registry
       ELSE /\ at' = <<"write">>
            /\ registry' = <<[skills |-> [id \in Known |-> Hash(id)],
                              dependencyGraph |-> [id \in Known |-> Requires(id)],
                              rulesOf |-> [id \in Known |-> Rules(id)],
                              aliases |-> AliasTable, rules |-> RuleTable]>>
    /\ UNCHANGED <<dirs, edition, manifests, ids, diagnostics, mark, stack, written, compiled>>

(* compileAndWrite; a check compiles and leaves the file alone.              *)
WriteRegistry ==
    /\ at = <<"write">> /\ at' = <<"idle">>
    /\ \/ written' = registry /\ compiled' = edition
       \/ UNCHANGED <<written, compiled>>
    /\ UNCHANGED <<dirs, edition, manifests, ids, diagnostics, mark, stack, registry>>

(* The user edits a SKILL.md between two compilations.                       *)
TouchSkill(i) ==
    /\ at = <<"idle">> /\ written # <<>>
    /\ FoldFunctionOnSet(LAMBDA a, b : a + b, 0, edition, DOMAIN edition) < MaxTouches
    /\ edition' = [edition EXCEPT ![i] = @ + 1]
    /\ UNCHANGED <<dirs, at, manifests, ids, diagnostics, mark, stack, registry, written, compiled>>

CompilerNext ==
    \/ StartCompile \/ ScanDirectory \/ ThrowAtDirectory \/ StartSearch \/ SearchFrom \/ NextDependency
    \/ LeaveSkill \/ EndCompile \/ WriteRegistry
    \/ \E i \in DOMAIN dirs : TouchSkill(i)

CompilerSpec == CompilerInit(Trees) /\ [][CompilerNext]_compilerVars

-----------------------------------------------------------------------------
(* The rule catalogue.                                                       *)

(* normalizeEnforcement                                                      *)
IsEnforced(r) == r.enforcement \in {"runtime", "linter"}
Normalized(r, skill) == [enforced |-> IsEnforced(r), sourceSkill |-> skill]

(* Mutant: a rule that is there already is kept.                             *)
RegisterFirst(catalog, r, skill) ==
    IF (IsEnforced(r) /\ r.checker # "known") \/ r.id \in DOMAIN catalog THEN catalog
    ELSE [k \in DOMAIN catalog \cup {r.id} |->
            IF k = r.id THEN Normalized(r, skill) ELSE catalog[k]]

(* registerRule: without its checker an enforced rule is refused, and        *)
(* loadFromRegistry goes on with the next.                                   *)
Register(catalog, r, skill) ==
    IF IsEnforced(r) /\ r.checker # "known" THEN catalog
    ELSE [k \in DOMAIN catalog \cup {r.id} |->
            IF k = r.id THEN Normalized(r, skill) ELSE catalog[k]]

RegisterAll(catalog, rs, skill) ==
    LET after[n \in 0 .. Len(rs)] ==
            IF n = 0 THEN catalog ELSE Register(after[n - 1], rs[n], skill)
    IN after[Len(rs)]

(* loadFromRegistry, in the order of the skills in the file.                 *)
Catalog(reg) ==
    LET after[n \in 0 .. Len(NameOrder)] ==
            IF n = 0 THEN Builtin
            ELSE IF NameOrder[n] \in DOMAIN reg.skills
                 THEN RegisterAll(after[n - 1], reg.rulesOf[NameOrder[n]], NameOrder[n])
                 ELSE after[n - 1]
    IN after[Len(NameOrder)]

-----------------------------------------------------------------------------

(* A chain of requirements inside the known skills.                          *)
OnCycle(id) ==
    \E n \in 1 .. Cardinality(Known) : \E chain \in [1 .. n + 1 -> Known] :
        /\ chain[1] = id /\ chain[n + 1] = id
        /\ \A i \in 1 .. n : chain[i + 1] \in Requires(chain[i])

(* The search reports a cycle if and only if the requirements have one, and  *)
(* what is compiled is closed under them and free of conflicts in them.      *)
GraphIsSound ==
    /\ at[1] \in {"write", "failed"} =>
          ((\E id \in Known : <<"CYCLE_DETECTED", id>> \in diagnostics) <=> \E id \in Known : OnCycle(id))
    /\ at[1] = "write" => \A id \in Known : \A r \in Requires(id) :
          r \in Known /\ r \notin Conflicts(id) /\ id \notin Conflicts(r)

(* Nothing is lost between the directories and the agents: every directory   *)
(* is in the registry, except where a directory without a manifest has its   *)
(* id; every rule of the registry is in force in the catalogue, also where   *)
(* two skills or a built-in rule have the same id; and an id leads to its    *)
(* skill, unless another skill has it as an alias.                           *)
RegistryIsComplete ==
    at[1] = "write" =>
        LET reg == registry[1]
        IN /\ \A i \in DOMAIN dirs :
                 LET id == IF dirs[i].manifest = None THEN dirs[i].dir ELSE IdOf(dirs[i])
                 IN id \in DOMAIN reg.skills
                    /\ (manifests[id] = i \/ dirs[manifests[id]].manifest = None)
           /\ \A r \in DOMAIN reg.rules : Catalog(reg)[r].sourceSkill = reg.rules[r]
           /\ \A id \in Known : reg.aliases[id] = id
                                \/ id \in AliasesOf(Manifest(reg.aliases[id]))

(* When the check calls registry.v2.json up to date, it was made from the    *)
(* skills as they are, but for those that have no manifest.                  *)
StaleIsSeen ==
    (at[1] = "write" /\ written # <<>> /\ registry = written) =>
        \A id \in Known : Manifest(id).manifest = None \/ compiled[manifests[id]] = edition[manifests[id]]
=============================================================================
