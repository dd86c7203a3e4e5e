--------------------------- MODULE AdapterExport ---------------------------
(* The adapter export: rendering (.agents/adapters/<name>/export.js), its    *)
(* application to the disk with the managed-file records of lockfile v2      *)
(* (pure-compiler.js, filesystem/lockfile-v2.js) and the drift check         *)
(* (drift-detector.js), while the user edits sources and outputs.            *)
(*                                                                           *)
(* An export is one step: it runs under the project lock (LockCallers) and   *)
(* commits one journaled transaction (JournaledTransaction). A file is a     *)
(* pair <<directory, name>>, its content what it shows of its sources.       *)
EXTENDS Naturals, FiniteSets, Functions

CONSTANTS Loadable,     \* the sets of adapters that may have been registered
          Skill,        \* the skills of the library
          Documented,   \* those with a SKILL.md
          Excluded,     \* profile -> the skills it excludes
          Mine,         \* files of the user in the adapters' directories
          Phrased,      \* those with a phrase that pruning takes for a mark of its own
          Managed,      \* the files that the lockfile v1 calls managed
          Editable,     \* the paths at which the user writes, deletes or checks out
          MaxEdits,     \* how many changes the user makes
          MaxVersion    \* versions of a skill and of the compiled registry

Profile == DOMAIN Excluded

Adapter == {"gemini", "claude", "cursor", "zed", "aider", "copilot"}

(* The names of the files that are not a skill's.                            *)
Index == {"00", "contextos", "rules", "conf", "CONVENTIONS", "instructions"}

(* An export of paths that collide is refused.                               *)
ASSUME ExportAssumption ==
    /\ Loadable \subseteq SUBSET Adapter
    /\ Excluded \in [Profile -> SUBSET Skill]
    /\ Skill \cap Index = {}

VARIABLES adapters, \* the registered adapters: loading one is best effort
          version,  \* the version of each skill's sources
          graph,    \* sourceGraphHash of the compiled registry
          profile,  \* the active profile
          disk,     \* path -> content, for the files there are
          lockfile, \* .agents/lockfile.v2.json: <<>> or one record
          v1,       \* what contextos.lock.json, the lockfile v1, still calls managed
          fresh,    \* the adapters of the last export, {} after any change
          touched,  \* history: outputs the user changed since they were exported
          edits     \* how many changes the user has made

exportVars == <<adapters, version, graph, profile, disk, lockfile, v1, fresh, touched,
                edits>>
sources == <<adapters, version, graph, profile>>

-----------------------------------------------------------------------------
(* Rendering: which paths an adapter writes and what they show.              *)

Selected == Skill \ Excluded[profile]       \* collectSkillDirectories
Described == Selected \cap Documented

(* body: the skills shown, with their versions; head: the provenance header; *)
(* crlf: the line ends, which rendering always makes LF; mark: it has one of *)
(* the phrases the pruning of cursor rules and zed prompts looks for.        *)
Text(S, head, mark) ==
    [body |-> [s \in S |-> version[s]], head |-> head, crlf |-> FALSE, mark |-> mark]
Provenance == <<graph, profile>>            \* createProvenanceHeader

Artifact(a, dir, name, text) == [gen |-> a, path |-> <<dir, name>>, text |-> text]
PerSkill(a, dir, head, mark) ==
    {Artifact(a, dir, s, Text({s}, head, mark)) : s \in Described}

(* A skill directory without SKILL.md is rendered by gemini, which takes any *)
(* markdown, and listed by copilot; the others pass over it. gemini writes   *)
(* every skill twice; the others an index, a file per skill, or both.        *)
RenderGemini ==
    LET copies(dir) == {Artifact("gemini", dir, s, Text({s}, <<>>, FALSE)) : s \in Selected}
    IN copies("generated/gemini") \cup copies("skills")
RenderClaude == PerSkill("claude", "generated/claude", <<>>, FALSE)
RenderCursor ==
    {Artifact("cursor", "cursor/rules", "00", Text({}, Provenance, TRUE))}
    \cup PerSkill("cursor", "cursor/rules", <<>>, FALSE)
RenderZed ==
    {Artifact("zed", "zed/prompts", "contextos", Text({}, Provenance, TRUE)),
     Artifact("zed", "zed", "rules", Text(Described, Provenance, TRUE))}
    \cup PerSkill("zed", "zed/prompts", Provenance, TRUE)
RenderAider ==
    {Artifact("aider", ".", "conf", Text({}, Provenance, FALSE)),
     Artifact("aider", ".", "CONVENTIONS", Text(Described, Provenance, TRUE))}
RenderCopilot ==
    {Artifact("copilot", "github", "instructions", Text(Selected, Provenance, TRUE))}

Render(a) ==
    CASE a = "gemini" -> RenderGemini
      [] a = "claude" -> RenderClaude
      [] a = "cursor" -> RenderCursor
      [] a = "zed" -> RenderZed
      [] a = "aider" -> RenderAider
      [] a = "copilot" -> RenderCopilot

(* renderAdapters; no two paths collide with such skills.                    *)
Rendered(S) == UNION {Render(a) : a \in S}
Paths(S) == {art.path : art \in Rendered(S)}

(* What the user writes; it may quote one of the phrases.                    *)
MineText(mark) == [body |-> <<>>, head |-> <<>>, crlf |-> FALSE, mark |-> mark]

-----------------------------------------------------------------------------
(* The managed-file records: exact hash, inputs and generator of each file.  *)

Recorded == IF lockfile = <<>> THEN <<>> ELSE lockfile[1].files
Exact(p) == IF p \in DOMAIN disk THEN disk[p] ELSE <<>>
Semantic(text) == [text EXCEPT !.crlf = FALSE]      \* computeSemanticHash

(* createEmpty(): the first export records the profile and the graph. (The   *)
(* revision, which every commit raises, is modelled in LockCallers.)         *)
Opened == IF lockfile = <<>>
          THEN [profile |-> profile, graph |-> graph, files |-> <<>>]
          ELSE lockfile[1]

Record(art) == [text |-> art.text, inputs |-> graph, gen |-> art.gen]

NeedsWrite(art) == Exact(art.path) # art.text
NeedsRecord(art) ==
    art.path \notin DOMAIN Recorded
    \/ Recorded[art.path].text # art.text \/ Recorded[art.path].inputs # graph

(* Pruning 1: records of a generator that rendered something, of paths it no *)
(* longer renders. A generator that rendered nothing is not looked at.       *)
Generators(S) == {art.gen : art \in Rendered(S)}
StaleRecords(S) ==
    LET active == Generators(S)
    IN {p \in DOMAIN Recorded \ Paths(S) : Recorded[p].gen \in active}

(* Mutant: every rule and prompt that is not rendered is pruned.             *)
MarkedAll(S) ==
    {p \in DOMAIN disk \ Paths(S) :
        \/ p[1] = "cursor/rules" /\ "cursor" \in Generators(S)
        \/ p[1] = "zed/prompts" /\ "zed" \in Generators(S)}

(* Pruning 2 and 3: rules and prompts that v1 manages or that have a mark.   *)
Marked(S) ==
    {p \in DOMAIN disk \ Paths(S) :
        /\ \/ p[1] = "cursor/rules" /\ "cursor" \in Generators(S)
           \/ p[1] = "zed/prompts" /\ "zed" \in Generators(S)
        /\ p \in v1 \/ disk[p].mark}

(* The sweep of generated skill directories, whoever is exported.            *)
Swept(S) ==
    {p \in DOMAIN disk \ Paths(S) : p[1] \in {"generated/gemini", "generated/claude"}}

Removed(S) == (StaleRecords(S) \cap DOMAIN disk) \cup Marked(S) \cup Swept(S)

Modifies(S) ==
    \/ \E art \in Rendered(S) : NeedsWrite(art) \/ NeedsRecord(art)
    \/ StaleRecords(S) # {} \/ Removed(S) # {}

ArtifactAt(S, p) == CHOOSE art \in Rendered(S) : art.path = p

NewDisk(S) ==
    LET written == Paths(S)
    IN [p \in (DOMAIN disk \ Removed(S)) \cup written |->
            IF p \in written THEN ArtifactAt(S, p).text ELSE disk[p]]

(* Mutant: pruned files keep their records.                                  *)
NewRecordsAll(S) ==
    [p \in DOMAIN Recorded \cup Paths(S) |->
        IF p \in Paths(S) THEN Record(ArtifactAt(S, p)) ELSE Recorded[p]]

NewRecords(S) ==
    LET written == Paths(S)
    IN [p \in (DOMAIN Recorded \ (StaleRecords(S) \cup Marked(S))) \cup written |->
            IF p \in written THEN Record(ArtifactAt(S, p)) ELSE Recorded[p]]

(* applyArtifacts(); nothing is committed when nothing changes.              *)
Export(S) ==
    /\ IF Modifies(S)
       THEN /\ disk' = NewDisk(S)
            /\ lockfile' = <<[Opened EXCEPT !.files = NewRecords(S)]>>
            /\ v1' = v1 \ Marked(S)
       ELSE UNCHANGED <<disk, lockfile, v1>>
    /\ fresh' = S
    /\ touched' = touched \ (Paths(S) \cup Removed(S))
    /\ UNCHANGED <<sources, edits>>

-----------------------------------------------------------------------------
(* detectDrift(): what it finds when it renders the adapters S.              *)

Missing(S) == Paths(S) \ DOMAIN disk
Differing(S) ==
    {art \in Rendered(S) : art.path \in DOMAIN disk /\ Semantic(disk[art.path]) # art.text}
Orphans(S) == (DOMAIN Recorded \cap DOMAIN disk) \ Paths(S)

(* The findings about profile and graph are dropped when no file differs.    *)
HasDrift(S) == Missing(S) # {} \/ Differing(S) # {} \/ Orphans(S) # {}

-----------------------------------------------------------------------------
(* What the user and the other commands change.                              *)

Edit ==
    /\ edits < MaxEdits
    /\ edits' = edits + 1
    /\ fresh' = {}

EditSkill(s) ==
    /\ Edit /\ version[s] < MaxVersion
    /\ version' = [version EXCEPT ![s] = @ + 1]
    /\ UNCHANGED <<adapters, graph, profile, disk, lockfile, v1, touched>>

Compile ==
    /\ Edit /\ graph < MaxVersion
    /\ graph' = graph + 1
    /\ UNCHANGED <<adapters, version, profile, disk, lockfile, v1, touched>>

SwitchProfile(f) ==
    /\ Edit /\ f # profile
    /\ profile' = f
    /\ UNCHANGED <<adapters, version, graph, disk, lockfile, v1, touched>>

(* A file is written, with or without a phrase, loses its line ends in a     *)
(* checkout, or is deleted.                                                  *)
EditOutput(p) ==
    /\ Edit
    /\ \/ \E mark \in BOOLEAN :
              disk' = [q \in DOMAIN disk \cup {p} |-> IF q = p THEN MineText(mark) ELSE disk[q]]
       \/ /\ p \in DOMAIN disk
          /\ disk' \in {[disk EXCEPT ![p].crlf = ~@], Restrict(disk, DOMAIN disk \ {p})}
    /\ touched' = touched \cup {p}
    /\ UNCHANGED <<sources, lockfile, v1>>

-----------------------------------------------------------------------------

ExportInit ==
    /\ adapters \in Loadable
    /\ version = [s \in Skill |-> 1]
    /\ graph = 1
    /\ profile \in Profile
    /\ disk = [p \in Mine |-> MineText(p \in Phrased)]
    /\ lockfile = <<>>
    /\ v1 = Managed
    /\ fresh = {} /\ touched = {}
    /\ edits = 0

(* ctx.js export <adapter> and export all                                    *)
Targets == {{a} : a \in adapters} \cup {adapters}

ExportNext ==
    \/ \E S \in Targets : Export(S)
    \/ \E s \in Skill : EditSkill(s)
    \/ Compile
    \/ \E f \in Profile : SwitchProfile(f)
    \/ \E p \in Editable : EditOutput(p)

ExportSpec == ExportInit /\ [][ExportNext]_exportVars

-----------------------------------------------------------------------------

(* A managed file is as its record says, unless the user changed it or the   *)
(* sweep of an export of another adapter removed it under its record: the    *)
(* two pieces of state are written by one transaction and pruned by five     *)
(* different rules. And an export settles what it exports: repeated, it has  *)
(* nothing to commit, whatever edits, profile switches and exports of other  *)
(* adapters came before; after an export of all of them, each with something *)
(* to render, the drift check is silent.                                     *)
RecordsMatchDisk ==
    /\ \A p \in DOMAIN Recorded :
          \/ Exact(p) = Recorded[p].text
          \/ p \in touched
          \/ p \notin DOMAIN disk /\ p[1] \in {"generated/gemini", "generated/claude"}
    /\ fresh # {} => /\ ~Modifies(fresh)
                     /\ fresh = adapters /\ Generators(adapters) = adapters => ~HasDrift(adapters)

(* The paths that an adapter ever writes, under one profile or another.      *)
Outputs(a) ==
    LET offered == {s \in Skill : \E f \in Profile : s \notin Excluded[f]}
        described == offered \cap Documented
    IN CASE a = "gemini" -> {"generated/gemini", "skills"} \X offered
         [] a = "claude" -> {"generated/claude"} \X described
         [] a = "cursor" -> {"cursor/rules"} \X (described \cup {"00"})
         [] a = "zed" -> ({"zed/prompts"} \X (described \cup {"contextos"})) \cup {<<"zed", "rules">>}
         [] a = "aider" -> {<<".", "conf">>, <<".", "CONVENTIONS">>}
         [] a = "copilot" -> {<<"github", "instructions">>}

(* What a file of the user's is lost by: the place of an output, the swept   *)
(* directories, and among rules and prompts a phrase or the old lockfile.    *)
Claimed(p) ==
    \/ \E a \in adapters : p \in Outputs(a)
    \/ p[1] \in {"generated/gemini", "generated/claude"}
    \/ /\ \/ p[1] = "cursor/rules" /\ "cursor" \in adapters
          \/ p[1] = "zed/prompts" /\ "zed" \in adapters
       /\ p \in Phrased \cup Managed

(* Whatever is exported, switched and edited, in any order: a file of the    *)
(* user's that is not claimed keeps its text. Four rules and the records     *)
(* that exports leave behind delete files (pure-compiler.js:295), and a      *)
(* write asks for no leave (:263).                                           *)
UserFilesSurvive ==
    \A p \in Mine \ Editable :
        ~Claimed(p) => p \in DOMAIN disk /\ disk[p] = MineText(p \in Phrased)
=============================================================================
