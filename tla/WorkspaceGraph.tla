--------------------------- MODULE WorkspaceGraph ---------------------------
(* WorkspaceGraphBuilder of .agents/workspace/workspace-graph.js: the walk   *)
(* over a repository that finds its packages, and the nearest package of a   *)
(* file. A path is a sequence of names; the entries of a directory come in   *)
(* any order, as readdir gives them.                                         *)
EXTENDS Naturals, Sequences, FiniteSets, SequencesExt, FiniteSetsExt

CONSTANTS Repos,        \* the repositories there may be: see RepoOK
          Ignored,      \* names of directories that are passed over
          Begins,       \* pairs of names of which the first begins the second
          MaxDepth, MaxPackages

(* A manifest file: kind, the name it gives, None if it gives none, and the  *)
(* names of its dependencies. "setup" stands for setup.py and Pipfile.       *)
Unnamed == "unnamed"
ManifestOK(m) ==
    /\ m.kind \in {"npm", "pyproject", "requirements", "setup", "rust", "go"}
    /\ m.name \in STRING /\ IsFiniteSet(m.deps)

RepoOK(r) ==
    /\ IsFiniteSet(r.dirs) /\ <<>> \notin r.dirs
    /\ \A d \in r.dirs : d \in Seq(STRING) /\ (Len(d) > 1 => Front(d) \in r.dirs)
    /\ DOMAIN r.links \cap r.dirs = {} /\ DOMAIN r.links \subseteq Seq(STRING)
    /\ r.links \in [DOMAIN r.links -> r.dirs \cup {<<>>}]   \* symbolic links, and where they lead
    /\ r.git \subseteq r.dirs                   \* directories with .git
    /\ r.markers \subseteq r.dirs               \* with a monorepo marker
    /\ \A d \in r.dirs : \A m \in r.manifests[d] : ManifestOK(m)
    /\ r.start \in r.dirs

ASSUME WorkspaceAssumption ==
    /\ \A r \in Repos : RepoOK(r)
    /\ Begins \subseteq STRING \X STRING
    /\ MaxDepth \in Nat \ {0} /\ MaxPackages \in Nat \ {0}

VARIABLES repo, root, step,
          packages,  \* records [id, root, ecosystem, dependencies]
          seen,      \* visitedDirs: the real directories
          frames,    \* the calls of walk: records [dir, real, left]
          partial    \* hitLimit

graphVars == <<repo, root, step, packages, seen, frames, partial>>

GraphInit(repos) ==
    /\ repo \in repos
    /\ root = repo.start /\ step = "locate"
    /\ packages = {} /\ seen = {} /\ frames = <<>> /\ partial = FALSE

-----------------------------------------------------------------------------

Ancestors(d) == {SubSeq(d, 1, n) : n \in 1 .. Len(d)}
Longest(paths) == CHOOSE p \in paths : \A q \in paths : Len(q) <= Len(p)
Shortest(paths) == CHOOSE p \in paths : \A q \in paths : Len(p) <= Len(q)

(* findRepositoryRoot: the closest .git, else the topmost marker, else where *)
(* it was started.                                                           *)
RepositoryRoot ==
    LET up == Ancestors(repo.start)
    IN CASE up \cap repo.git # {} -> Longest(up \cap repo.git)
         [] up \cap repo.git = {} /\ up \cap repo.markers # {} -> Shortest(up \cap repo.markers)
         [] OTHER -> repo.start

Relative(d) == SubSeq(d, Len(root) + 1, Len(d))

(* _inspectDirectoryForPackage: the set has one package or none. setup.py    *)
(* makes the ecosystem python, but is not a manifest.                        *)
Kinds(ms) == {m.kind : m \in ms}
Ecosystem(ms) ==
    CASE "npm" \in Kinds(ms) -> "npm"
      [] "npm" \notin Kinds(ms) /\ Kinds(ms) \cap {"pyproject", "requirements", "setup"} # {} -> "python"
      [] Kinds(ms) \cap {"npm", "pyproject", "requirements", "setup"} = {} /\ "rust" \in Kinds(ms) -> "rust"
      [] OTHER -> "go"
NameKind(ms) == IF Ecosystem(ms) = "python" THEN "pyproject" ELSE Ecosystem(ms)

InspectDirectory(dir, real) ==
    LET ms == repo.manifests[real]
        names == {m.name : m \in {k \in ms : k.kind = NameKind(ms)}} \ {Unnamed}
    IN IF Kinds(ms) \ {"setup"} = {} THEN {}
       ELSE {[id |-> IF names = {} THEN Last(dir) ELSE CHOOSE n \in names : TRUE,
              root |-> Relative(dir), ecosystem |-> Ecosystem(ms),
              dependencies |-> UNION {m.deps : m \in {k \in ms : k.kind # "setup"}}]}

-----------------------------------------------------------------------------
(* build: the walk.                                                          *)

(* Where an entry of a directory leads: <<>> for a link to nowhere.          *)
Real(path) == IF path \in DOMAIN repo.links THEN repo.links[path] ELSE path
Entries(real) == {Last(p) : p \in {d \in repo.dirs \cup DOMAIN repo.links :
                                    Len(d) > 1 /\ Front(d) = real}}
Frame(dir, real) == [dir |-> dir, real |-> real, left |-> Entries(real)]
Full(pkgs) == Cardinality(pkgs) >= MaxPackages

Locate ==
    /\ step = "locate" /\ step' = "walk"
    /\ root' = RepositoryRoot
    /\ UNCHANGED <<repo, packages, seen, frames, partial>>

StartWalk ==
    /\ step = "walk" /\ step' = "walking"
    /\ packages' = InspectDirectory(root, root)
    /\ seen' = {root}
    /\ IF Full(packages') THEN partial' = TRUE /\ UNCHANGED frames
                          ELSE frames' = <<Frame(root, root)>> /\ UNCHANGED partial
    /\ UNCHANGED <<repo, root>>

(* startsWith(realRoot): the guard compares characters, so that it lets in a *)
(* directory beside the root whose name begins as the root's does.           *)
Inside(real) ==
    \/ IsPrefix(root, real)
    \/ \E b \in Begins : b[1] = Last(root) /\ IsPrefix(Append(Front(root), b[2]), real)

(* Mutant: a real directory is entered by every path that leads to it.       *)
PassedOverAgain(name, real) == name \in Ignored \/ real = <<>> \/ ~Inside(real) \/ real = root
PassedOver(name, real) == name \in Ignored \/ real = <<>> \/ ~Inside(real) \/ real \in seen

(* Mutant: walk goes one level less deep.                                    *)
MayDescendLess == Len(frames) + 1 < MaxDepth
MayDescend == Len(frames) < MaxDepth

(* One entry of the innermost call; when the packages are too many the loop  *)
(* ends, but only this one: each outer call may still add a package.         *)
VisitEntry(name) ==
    LET top == Last(frames)
        dir == Append(top.dir, name)
        real == Real(Append(top.real, name))
        rest == [frames EXCEPT ![Len(frames)].left = @ \ {name}]
    IN /\ step = "walking" /\ frames # <<>> /\ name \in top.left
       /\ IF PassedOver(name, real)
          THEN frames' = rest /\ UNCHANGED <<packages, seen, partial>>
          ELSE /\ seen' = seen \cup {real}
               /\ packages' = packages \cup InspectDirectory(dir, real)
               /\ IF InspectDirectory(dir, real) # {} /\ Full(packages')
                  THEN /\ partial' = TRUE
                       /\ frames' = [rest EXCEPT ![Len(frames)].left = {}]
                  ELSE IF ~MayDescend THEN frames' = rest /\ UNCHANGED partial
                  ELSE IF Full(packages') THEN frames' = rest /\ partial' = TRUE
                  ELSE frames' = Append(rest, Frame(dir, real)) /\ UNCHANGED partial
       /\ UNCHANGED <<repo, root, step>>

EndDirectory ==
    /\ step = "walking" /\ frames # <<>> /\ Last(frames).left = {}
    /\ frames' = Front(frames)
    /\ UNCHANGED <<repo, root, step, packages, seen, partial>>

EndWalk ==
    /\ step = "walking" /\ frames = <<>> /\ step' = "built"
    /\ UNCHANGED <<repo, root, packages, seen, frames, partial>>

GraphNext ==
    \/ Locate \/ StartWalk \/ EndDirectory \/ EndWalk
    \/ \E name \in IF frames = <<>> THEN {} ELSE Last(frames).left : VisitEntry(name)

WorkspaceSpec == GraphInit(Repos) /\ [][GraphNext]_graphVars

-----------------------------------------------------------------------------

(* findNearestPackage: the longest root that holds the path, which is taken  *)
(* to be relative to the repository, not to where the command was started.   *)
Holding(path) == {p \in packages : IsPrefix(p.root, path)}
NearestPackage(path) == CHOOSE p \in Holding(path) : \A q \in Holding(path) : Len(q.root) <= Len(p.root)

-----------------------------------------------------------------------------
(* The reference: what is on the disk.                                       *)

HasManifest(d) == Kinds(repo.manifests[d]) \ {"setup"} # {}
Reachable ==
    {d \in repo.dirs : /\ IsPrefix(root, d)
                       /\ Len(Relative(d)) <= MaxDepth
                       /\ ToSet(Relative(d)) \cap Ignored = {}}

(* The directory that a path of the walk leads to, by whatever links.        *)
RealDir(path) ==
    LET real[n \in 0 .. Len(path)] ==
            IF n = 0 THEN root ELSE Real(Append(real[n - 1], path[n]))
    IN real[Len(path)]

(* The limit on packages is passed by one package at most for each outer     *)
(* level of the walk, a graph says if and only if it stopped there, and no   *)
(* directory is in it twice, by whatever links it can be reached.            *)
LimitIsReported ==
    step = "built" =>
        /\ Cardinality(packages) < MaxPackages + MaxDepth
        /\ partial <=> Full(packages)
        /\ \A p, q \in packages : RealDir(p.root) = RealDir(q.root) => p = q

(* In a graph that is not partial the nearest package of a path is the       *)
(* innermost directory around it, down to the greatest depth, that has a     *)
(* manifest, whatever order the directories were read in; unless a link      *)
(* leads into the repository: then a directory may be known by that path.    *)
NearestIsRight ==
    step = "built" /\ ~partial /\ Range(repo.links) \cap (Reachable \ {root}) = {} =>
        \A d \in repo.dirs : IsPrefix(root, d) =>
            LET around == {a \in Ancestors(d) \cap Reachable : HasManifest(a)}
            IN IF around = {} THEN Holding(Relative(d)) = {}
               ELSE /\ Holding(Relative(d)) # {}
                    /\ NearestPackage(Relative(d)).root = Relative(Longest(around))
=============================================================================
