---------------------------- MODULE MCContextOS ----------------------------
(* The library side of ContextOS: skills are installed, compiled, found,     *)
(* filtered by a profile, resolved for a request and exported to the         *)
(* adapters; and the stores of its transaction core. A stage reads files     *)
(* that the one before left, and the stores keep files of their own, so one  *)
(* behaviour exercises one of them, chosen in the initial state, from the    *)
(* inputs defined here.                                                      *)
EXTENDS AdapterExport, SkillResolver, ManifestCompiler, WorkspaceGraph, Profiles,
        Plugins, PluginBundle, EventStore, Idempotency, TLC

CONSTANTS sa, sb

VARIABLE part

libraryVars == <<exportVars, resolverVars, compilerVars, graphVars, profileVars, pluginVars>>
storeVars == <<grantVars, updateVars, entry, eventVars, registryVars>>
vars == <<part, libraryVars, storeVars>>

-----------------------------------------------------------------------------
(* AdapterExport: two halves of the adapters, two skills, one without a      *)
(* SKILL.md, a profile that excludes the other, and files of the user: with  *)
(* and without a phrase, in the old lockfile, swept, and at the paths of     *)
(* outputs, one of a skill that its adapter passes over.                     *)
MCLoadable == {{"gemini", "claude", "cursor"}, {"zed", "aider", "copilot"}}
MCExcluded == [f \in {"wide", "narrow"} |-> IF f = "wide" THEN {} ELSE {sb}]
MCPlain == {<<"cursor/rules", "mine">>, <<"zed/prompts", "mine">>, <<"github", "mine">>,
            <<"generated/claude", "mine">>, <<"cursor/rules", sa>>, <<"skills", sb>>}
MCPhrased == {<<"cursor/rules", "quoted">>, <<"zed/prompts", "quoted">>, <<"zed", "quoted">>}
MCManaged == {<<"cursor/rules", "old">>, <<"zed/prompts", "old">>, <<"skills", "old">>}
MCMine == MCPlain \cup MCPhrased \cup MCManaged
MCEditable == {<<"cursor/rules", sb>>, <<"generated/claude", sb>>, <<"zed/prompts", sb>>}

-----------------------------------------------------------------------------
(* SkillResolver: three skills with any evidence, and two that come in as    *)
(* dependencies, by synergy, by enforcement or as a base skill.              *)
MCSkillOrder == <<"database", "decisions", "engineering-workflow", "system-design", "ui-ux-pro">>
MCTokens == [s \in ToSet(MCSkillOrder) |-> IF s = "ui-ux-pro" THEN 2 ELSE 1]

Spread(f) == [s \in ToSet(MCSkillOrder) |-> IF s \in DOMAIN f THEN f[s] ELSE {}]
Lists(f) == [s \in ToSet(MCSkillOrder) |-> IF s \in DOMAIN f THEN f[s] ELSE <<>>]
MCDeps == {Lists("database" :> <<"ui-ux-pro">>),
           Lists("database" :> <<"decisions">> @@ "decisions" :> <<"system-design">>
                  @@ "ui-ux-pro" :> <<"system-design", "engineering-workflow">>),
           Lists("database" :> <<"ui-ux-pro">> @@ "ui-ux-pro" :> <<"database">>)}
MCConflicts == {Lists(<<>>),
                Lists("database" :> <<"system-design">> @@ "system-design" :> <<"ui-ux-pro", "database">>)}
MCEvidence == {Spread("database" :> d @@ "system-design" :> y @@ "ui-ux-pro" :> u) :
                  d, u \in {{}, {"package"}, {"keyword", "weak"}, {"explicit"}, {"profile_required"}},
                  y \in {{}, {"keyword", "weak"}, {"explicit"}}}
MCLimits == {<<0, 0>>, <<2, 0>>, <<3, 2>>}
MCRequests ==
    {[evidence |-> e, exclude |-> x, deps |-> d, conflicts |-> c, risk |-> {"sensitive", "routine"},
      frontend |-> FALSE, adr |-> a, budget |-> l[1], maxSkills |-> l[2]] :
        e \in MCEvidence, x \in {{}, {"system-design"}, {"engineering-workflow"}}, d \in MCDeps,
        c \in MCConflicts, a \in BOOLEAN, l \in MCLimits}
    \cup
    {[evidence |-> e, exclude |-> {}, deps |-> d, conflicts |-> Lists(<<>>), risk |-> r,
      frontend |-> f, adr |-> FALSE, budget |-> 0, maxSkills |-> 0] :
        e \in {Spread("database" :> {k} @@ "ui-ux-pro" :> {"file_glob"}) : k \in {"alias", "config", "profile_preferred"}},
        d \in MCDeps, r \in SUBSET {"destructive", "sensitive", "routine"}, f \in BOOLEAN}

-----------------------------------------------------------------------------
(* ManifestCompiler: any requirements between three skills, any requirements *)
(* and conflicts between two, and every kind of directory next to another.   *)
MCNameOrder == <<"a", "b", "c">>
MCNames == ToSet(MCNameOrder)
PlainDir(n) ==
    [manifest |-> "valid", dir |-> n, id |-> None, front |-> TRUE, title |-> None, schema |-> TRUE,
     entry |-> "there", resources |-> {"there"}, requires |-> {}, conflicts |-> {},
     aliases |-> {}, rules |-> <<>>]
MCRule(id, kind, checker) == [id |-> id, level |-> TRUE, enforcement |-> kind, checker |-> checker]
MCRules == {<<MCRule("R1", "runtime", "known"), MCRule("R2", "reference", None)>>,
            <<MCRule("R1", "linter", "unknown")>>,
            <<MCRule("R1", "other", None)>>,
            <<MCRule("R1", "example", None), MCRule("B1", "prompt-guidance", None)>>}
OddDirs(n) ==
    {PlainDir(n), [PlainDir(n) EXCEPT !.manifest = None], [PlainDir(n) EXCEPT !.manifest = "unreadable"],
     [PlainDir(n) EXCEPT !.front = FALSE], [PlainDir(n) EXCEPT !.manifest = None, !.front = FALSE],
     [PlainDir(n) EXCEPT !.id = "a"], [PlainDir(n) EXCEPT !.title = "b"],
     [PlainDir(n) EXCEPT !.requires = {"c"}], [PlainDir(n) EXCEPT !.schema = FALSE],
     [PlainDir(n) EXCEPT !.entry = "missing"], [PlainDir(n) EXCEPT !.entry = "outside"],
     [PlainDir(n) EXCEPT !.resources = {"missing", "outside"}], [PlainDir(n) EXCEPT !.aliases = {"a"}]}
    \cup {[PlainDir(n) EXCEPT !.rules = rs] : rs \in MCRules}
MCTrees ==
    {<<[PlainDir("a") EXCEPT !.requires = ra], [PlainDir("b") EXCEPT !.requires = rb],
       [PlainDir("c") EXCEPT !.requires = rc]>> : ra, rb, rc \in SUBSET MCNames}
    \cup {<<[PlainDir("a") EXCEPT !.requires = ra, !.conflicts = ca],
            [PlainDir("b") EXCEPT !.requires = rb, !.conflicts = cb]>> : ra, rb, ca, cb \in SUBSET {"a", "b"}}
    \cup {<<x, y>> : x \in OddDirs("a"), y \in OddDirs("b")}
    \cup {<<x, y>> : x \in OddDirs("b"), y \in OddDirs("a")}
MCBuiltin == "B1" :> [enforced |-> FALSE, sourceSkill |-> "security"]

-----------------------------------------------------------------------------
(* WorkspaceGraph: packages in any of seven directories, one of them ignored *)
(* and one with a setup.py only, at most one link, three ways to the root,   *)
(* and beside the root a repository whose name begins as the root's does.    *)
Top == <<"home", "r">>
Beside == {<<"home", "r2">>, <<"home", "r2", "x">>}
MCBegins == {<<"r", "r2">>}
MCDirs == {<<"home">>, Top} \cup Beside
          \cup {Top \o d : d \in {<<"a">>, <<"a", "b">>, <<"a", "b", "c">>, <<"a", "e">>, <<"d">>, <<"n">>,
                                  <<"n", "x">>}}
MCManifest(d) ==
    IF d = Top \o <<"a">> THEN [kind |-> "pyproject", name |-> "web", deps |-> {"core"}]
    ELSE [kind |-> "npm", name |-> IF d = Top \o <<"d">> THEN "core" ELSE Unnamed, deps |-> {"web"}]
MCLinks == {<<>>, (Top \o <<"l">>) :> (Top \o <<"a", "b">>), (Top \o <<"d", "l">>) :> (Top \o <<"a">>),
            (Top \o <<"l">>) :> <<"home">>, (Top \o <<"a", "l">>) :> <<"home", "r2">>,
            (Top \o <<"a", "l">>) :> Top, (Top \o <<"l">>) :> <<>>}
MCStarts == {[git |-> {Top}, markers |-> {}, start |-> Top \o <<"a">>],
             [git |-> {}, markers |-> {Top, Top \o <<"a">>}, start |-> Top \o <<"a", "b">>],
             [git |-> {}, markers |-> {}, start |-> Top \o <<"a">>]}
MCRepos ==
    {[dirs |-> MCDirs, links |-> l, git |-> g.git, markers |-> g.markers, start |-> g.start,
      manifests |-> [d \in MCDirs |->
          IF d \in ms \cup Beside \/ d = Top \o <<"n", "x">> THEN {MCManifest(d)}
          ELSE IF d = Top \o <<"a", "e">> THEN {[kind |-> "setup", name |-> Unnamed, deps |-> {}]} ELSE {}]] :
        l \in MCLinks, g \in MCStarts,
        ms \in SUBSET (MCDirs \ (Beside \cup {<<"home">>, Top \o <<"n">>, Top \o <<"n", "x">>}))}

-----------------------------------------------------------------------------
(* Profiles: every pair of lists in both forms, or policies and enforcement. *)
NoLists == [g \in Groups |-> {}]
MCLists == {NoLists} \cup {[g \in Groups |-> IF g \in gs THEN {sa} ELSE {}] :
                            gs \in {{"required"}, {"excluded"}, {"preferred", "excluded"}}}
Document(old, new, p, e) == [v1 |-> old, v2 |-> new, policy |-> p, enforce |-> e]
Shelf(d) == "strict" :> d @@ "loose" :> Document(NoLists, NoLists, <<>>, <<>>)
MCLibraries ==
    {Shelf(Document(old, new, <<>>, <<>>)) : old, new \in MCLists}
    \cup {Shelf(Document(NoLists, NoLists, p, e)) :
            p \in {<<>>, "testing" :> "required", "adr" :> "required" @@ "testing" :> "off",
                   "verification" :> "required" @@ "adr" :> "other"},
            e \in {"testing" :> TRUE, "testing" :> FALSE @@ "adr" :> TRUE}}
MCScopes == {<<>>, <<"packages">>, <<"packages", "web">>}
MCPlaces == MCScopes \cup {<<"packages", "web", "src">>, <<"packages", "api">>, <<"top">>}
MCPackages == {<<>>, <<"packages", "web">>, <<"packages", "api">>}

-----------------------------------------------------------------------------

(* The stages that are idle start from one fixed input.                      *)
Parts == {"export", "resolve", "compile", "graph", "profile", "plugins",
          "grants", "update", "archive", "events", "registry"}
SomeLoadable == CHOOSE a \in Loadable : TRUE
SomeRequest == CHOOSE r \in Requests : TRUE
SomeTree == CHOOSE t \in Trees : TRUE
SomeRepo == CHOOSE r \in Repos : TRUE
SomeLibrary == CHOOSE l \in Libraries : TRUE
SomeEntry == [path |-> <<"a">>, absolute |-> FALSE, link |-> <<>>, linkAbsolute |-> FALSE]

Init ==
    /\ part \in Parts
    /\ IF part = "export" THEN TRUE ELSE adapters = SomeLoadable /\ profile = "wide"
    /\ ResolverInit(IF part = "resolve" THEN Requests ELSE {SomeRequest})
    /\ CompilerInit(IF part = "compile" THEN Trees ELSE {SomeTree})
    /\ GraphInit(IF part = "graph" THEN Repos ELSE {SomeRepo})
    /\ ProfileInit(IF part = "profile" THEN Libraries ELSE {SomeLibrary})
    /\ ExportInit
    /\ IF part = "update" THEN UpdateInit ELSE UpdateInit /\ target = NoTree
    /\ IF part = "archive" THEN EntryInit ELSE entry = SomeEntry
    /\ PluginInit /\ GrantInit /\ EventInit /\ RegistryInit

LibraryNext ==
    \/ part = "export" /\ ExportNext
       /\ UNCHANGED <<resolverVars, compilerVars, graphVars, profileVars, pluginVars>>
    \/ part = "resolve" /\ ResolverNext
       /\ UNCHANGED <<exportVars, compilerVars, graphVars, profileVars, pluginVars>>
    \/ part = "compile" /\ CompilerNext
       /\ UNCHANGED <<exportVars, resolverVars, graphVars, profileVars, pluginVars>>
    \/ part = "graph" /\ GraphNext
       /\ UNCHANGED <<exportVars, resolverVars, compilerVars, profileVars, pluginVars>>
    \/ part = "profile" /\ ProfileNext
       /\ UNCHANGED <<exportVars, resolverVars, compilerVars, graphVars, pluginVars>>
    \/ part = "plugins" /\ PluginNext
       /\ UNCHANGED <<exportVars, resolverVars, compilerVars, graphVars, profileVars>>

StoreNext ==
    \/ part = "grants" /\ GrantNext /\ UNCHANGED <<updateVars, entry, eventVars, registryVars>>
    \/ part = "update" /\ UpdateNext /\ UNCHANGED <<grantVars, entry, eventVars, registryVars>>
    \/ part = "events" /\ EventNext /\ UNCHANGED <<grantVars, updateVars, entry, registryVars>>
    \/ part = "registry" /\ RegistryNext /\ UNCHANGED <<grantVars, updateVars, entry, eventVars>>

Next ==
    /\ UNCHANGED part
    /\ \/ LibraryNext /\ UNCHANGED storeVars
       \/ StoreNext /\ UNCHANGED libraryVars

Spec == Init /\ [][Next]_vars
=============================================================================
