-------------------------------- MODULE Corpus --------------------------------
(***************************************************************************)
(* The versions of the target work: import_target_work                     *)
(* (ingestion/importer.py), update_chapter (ingestion/updater.py) and the  *)
(* boundary that resolve_scope (domain/resolver.py) computes on one.       *)
(*                                                                         *)
(* An editor is one call of the importer or the updater, in a database     *)
(* session of its own.  SELECTs run outside any transaction (pysqlite      *)
(* opens one before the first INSERT, UPDATE or DELETE), so an editor      *)
(* decides on what it read and takes SQLite's single write lock later.     *)
(* created_at, the column that makes a version the latest, is read from    *)
(* the clock before the INSERT waits for that lock.                        *)
(*                                                                         *)
(* A text stands for the prose of one chapter; SceneCount is the number of *)
(* spans extract_exact_scene_spans finds in it, none in an empty one.      *)
(* The work is modelled from its first committed import on.                *)
(***************************************************************************)
EXTENDS Naturals, FiniteSets, Sequences

CONSTANTS
  Editors,      \* calls of the importer or the updater
  Texts,        \* chapter texts
  NoText,       \* the chapter does not exist in the version
  SceneCount,   \* scenes in each text
  Manifests,    \* the works that chapters/manifest.json may describe
  Modes,        \* values of create_new_version_on_edit that callers use
  LastChapter,  \* bound on chapter ordinals
  MaxParts      \* bound on the scenes of one chapter

Ordinals == 1..LastChapter
Chapters == [Ordinals -> Texts \cup {NoText}]

ASSUME CorpusAssumption ==
  /\ LastChapter \in Nat /\ MaxParts \in Nat
  /\ NoText \notin Texts /\ "nobody" \notin Editors
  /\ SceneCount \in [Texts \cup {NoText} -> 0..MaxParts]
  /\ SceneCount[NoText] = 0
  /\ Manifests \subseteq Chapters /\ Manifests # {}
  /\ Modes \subseteq BOOLEAN

VARIABLES
  versions,    \* the committed work_versions, with their chapters
  clock,       \* the wall clock, advanced by every created_at
  writer,      \* the editor inside a write transaction, or "nobody"
  editor,      \* editor[e]: what call e has read and will write
  manuscript,  \* history: what the committed edits, applied in turn, make
  overlapped   \* history: two calls have been in flight together

corpusVars == <<versions, clock, writer, editor, manuscript, overlapped>>

-------------------------------------------------------------------------------
(***************************************************************************)
(* Scenes and their discourse_seq.                                         *)
(***************************************************************************)
Places == Ordinals \X (1..MaxParts)
Scenes(chs) == {p \in Places : p[2] <= SceneCount[chs[p[1]]]}

NotAfter(p, q) == p[1] < q[1] \/ (p[1] = q[1] /\ p[2] <= q[2])

\* _resequence_version_scenes numbers the scenes of a version from 1 by
\* chapter, then by scene; the importer's running counter does the same.
DiscourseSeq(chs, p) == Cardinality({q \in Scenes(chs) : NotAfter(q, p)})

Entry(chs, p) ==
  [seq |-> DiscourseSeq(chs, p), chapter |-> p[1], part |-> p[2],
   text |-> chs[p[1]]]

\* Scene.discourse_seq <= cutoff, within one version
Eligible(chs, cutoff) ==
  {Entry(chs, p) : p \in {q \in Scenes(chs) : DiscourseSeq(chs, q) <= cutoff}}

(***************************************************************************)
(* resolve_scope.                                                          *)
(***************************************************************************)
Requests == [by : {"chapter", "seq", "latest"}, n : Nat]

\* order_by(created_at.desc()).first()
LatestOf(vs) ==
  CHOOSE v \in DOMAIN vs : \A w \in DOMAIN vs : vs[w].born <= vs[v].born

Present(chs, o) == o \in Ordinals /\ chs[o] # NoText

Resolvable(chs, req) == req.by = "chapter" => Present(chs, req.n)

\* slip: the first scene of the next chapter is let in
CutoffOneOff(chs, req) ==
  CASE req.by = "seq" -> req.n
    [] req.by = "chapter" ->
         IF SceneCount[chs[req.n]] = 0 THEN req.n
         ELSE DiscourseSeq(chs, <<req.n, SceneCount[chs[req.n]]>>) + 1
    [] OTHER -> IF Scenes(chs) = {} THEN 1 ELSE Cardinality(Scenes(chs))

\* The boundary: the last scene of the requested chapter (the chapter's
\* ordinal when it has no scene), the given discourse_seq, or the last scene
\* of the version.
Cutoff(chs, req) ==
  CASE req.by = "seq" -> req.n
    [] req.by = "chapter" ->
         IF SceneCount[chs[req.n]] = 0 THEN req.n
         ELSE DiscourseSeq(chs, <<req.n, SceneCount[chs[req.n]]>>)
    [] OTHER -> IF Scenes(chs) = {} THEN 1 ELSE Cardinality(Scenes(chs))

-------------------------------------------------------------------------------
(***************************************************************************)
(* One call of the updater or the importer.                                *)
(***************************************************************************)
Version == [chapters : Chapters, born : Nat, raw : BOOLEAN]
Mode == {"clone", "in place", "import"}
Call == [pc : {"new", "read", "stamped", "written", "cleared", "over"},
         mode : Mode, base : Nat, ordinal : Nat, found : BOOLEAN,
         text : Texts \cup {NoText}, draft : Chapters, born : Nat]

Busy(e) == editor[e].pc \notin {"new", "over"}

Fresh == [pc |-> "new", mode |-> "clone", base |-> 0, ordinal |-> 0,
         found |-> FALSE, text |-> NoText,
         draft |-> [o \in Ordinals |-> NoText], born |-> 0]
Over == [Fresh EXCEPT !.pc = "over"]

CorpusInit ==
  \E m \in Manifests :
    /\ versions = <<[chapters |-> m, born |-> 1, raw |-> TRUE]>>
    /\ clock = 1
    /\ writer = "nobody"
    /\ editor = [e \in Editors |-> Fresh]
    /\ manuscript = m
    /\ overlapped = FALSE

Begin(e, call) ==
  /\ editor[e].pc = "new"
  /\ editor' = [editor EXCEPT ![e] = call]
  /\ overlapped' = (overlapped \/ \E f \in Editors : Busy(f))
  /\ UNCHANGED <<versions, clock, writer, manuscript>>

\* update_chapter reads the latest version and decides which chapter to write:
\* the ordinal it is given or the one after the last, in either case one that
\* the version has (found) or has not.
ReadUpdate(e) ==
  \E text \in Texts, new \in Modes, target \in Ordinals :
    LET base == LatestOf(versions)
    IN Begin(e, [Fresh EXCEPT !.pc = "read", !.base = base, !.text = text,
                   !.mode = IF new THEN "clone" ELSE "in place",
                   !.ordinal = target,
                   !.found = Present(versions[base].chapters, target)])

\* The guard looks for a version whose normalized_sha256 is that of the raw
\* text.  An update stores the hash of the joined scenes instead (raw is
\* FALSE), which differs as soon as one chapter has a divider.
Unknown(m) ==
  \A v \in DOMAIN versions :
    ~(versions[v].raw /\ versions[v].chapters = m)

\* import_target_work on a work that exists; a hit writes nothing.
ReadImport(e) ==
  \E m \in Manifests :
    /\ Unknown(m)
    /\ Begin(e, [Fresh EXCEPT !.pc = "read", !.mode = "import", !.draft = m])

\* created_at, computed before the INSERT reaches the database
Stamp(e) ==
  /\ editor[e].pc = "read" /\ editor[e].mode # "in place"
  /\ clock' = clock + 1
  /\ editor' = [editor EXCEPT ![e].pc = "stamped", ![e].born = clock + 1]
  /\ UNCHANGED <<versions, writer, manuscript, overlapped>>

\* slip: only the chapters up to the edited one are cloned
CloneUpTo(chs, call) ==
  [o \in Ordinals |-> IF o = call.ordinal THEN call.text
                      ELSE IF o < call.ordinal THEN chs[o] ELSE NoText]

\* every chapter of the base, the target's replaced or added
Rewritten(chs, call) == [chs EXCEPT ![call.ordinal] = call.text]

Draft(call) ==
  IF call.mode = "import" THEN call.draft
  ELSE Rewritten(versions[call.base].chapters, call)

\* the INSERT of the version takes the lock; chapters are cloned under it
InsertVersion(e) ==
  /\ editor[e].pc = "stamped" /\ writer = "nobody"
  /\ writer' = e
  /\ editor' = [editor EXCEPT ![e].pc = "written",
                              ![e].draft = Draft(editor[e])]
  /\ UNCHANGED <<versions, clock, manuscript, overlapped>>

\* A chapter that was missing when read and exists now breaks the unique
\* constraint on (work_version_id, ordinal).
Collides(call) ==
  ~call.found /\ Present(versions[call.base].chapters, call.ordinal)

\* slip: the scenes to write are worked out before the lock is taken
WriteUnlocked(e) ==
  /\ editor[e].pc = "read" /\ editor[e].mode = "in place"
  /\ ~Collides(editor[e])
  /\ writer' = e
  /\ editor' = [editor EXCEPT ![e].pc = "written",
                              ![e].draft = Draft(editor[e])]
  /\ UNCHANGED <<versions, clock, manuscript, overlapped>>

\* create_new_version_on_edit = False: the first DELETE or INSERT takes the
\* lock, the chapter's scenes are replaced
WriteInPlace(e) ==
  /\ editor[e].pc = "read" /\ editor[e].mode = "in place"
  /\ writer = "nobody"
  /\ ~Collides(editor[e])
  /\ writer' = e
  /\ editor' = [editor EXCEPT ![e].pc = "written",
                              ![e].draft = Draft(editor[e])]
  /\ UNCHANGED <<versions, clock, manuscript, overlapped>>

\* the retrieval indexes of the versions concerned are dropped (the cache
\* itself is in module Forecast); the importer drops none
ClearCache(e) ==
  /\ editor[e].pc = "written" /\ editor[e].mode # "import"
  /\ editor' = [editor EXCEPT ![e].pc = "cleared"]
  /\ UNCHANGED <<versions, clock, writer, manuscript, overlapped>>

ReadyToCommit(call) ==
  call.pc = IF call.mode = "import" THEN "written" ELSE "cleared"

Commit(e) ==
  LET call == editor[e] IN
  /\ ReadyToCommit(call)
  /\ versions' =
       IF call.mode = "in place"
       THEN [versions EXCEPT ![call.base] =
               [@ EXCEPT !.chapters = call.draft, !.raw = FALSE]]
       ELSE Append(versions, [chapters |-> call.draft, born |-> call.born,
                              raw |-> call.mode = "import"])
  /\ manuscript' = IF call.mode = "import" THEN call.draft
                   ELSE [manuscript EXCEPT ![call.ordinal] = call.text]
  /\ writer' = "nobody"
  /\ editor' = [editor EXCEPT ![e] = Over]
  /\ UNCHANGED <<clock, overlapped>>

\* an exception, a violated constraint or a lock timeout: db.rollback()
RollBack(e) ==
  /\ Busy(e)
  /\ editor' = [editor EXCEPT ![e] = Over]
  /\ writer' = IF writer = e THEN "nobody" ELSE writer
  /\ UNCHANGED <<versions, clock, manuscript, overlapped>>

EditorStep(e) ==
  \/ ReadUpdate(e) \/ ReadImport(e) \/ Stamp(e) \/ InsertVersion(e)
  \/ WriteInPlace(e) \/ RollBack(e)

CorpusNext == \E e \in Editors : EditorStep(e) \/ ClearCache(e) \/ Commit(e)

CorpusSpec == CorpusInit /\ [][CorpusNext]_corpusVars

-------------------------------------------------------------------------------
\* Type correctness; and a call holds the write lock exactly while it has
\* written and neither committed nor rolled back.
CorpusTypeOK ==
  /\ versions \in Seq(Version) /\ versions # <<>>
  /\ clock \in Nat
  /\ writer \in Editors \cup {"nobody"}
  /\ editor \in [Editors -> Call]
  /\ \A e \in Editors :
       writer = e <=> editor[e].pc \in {"written", "cleared"}
  /\ manuscript \in Chapters
  /\ overlapped \in BOOLEAN

\* One edit at a time accumulates: unless two calls were in flight together,
\* the latest version (by created_at) is every committed edit applied in
\* turn, whatever versions were imported, edited in place or abandoned.
ManuscriptKept ==
  ~overlapped => versions[LatestOf(versions)].chapters = manuscript

\* The importer's idempotency guard: unless two calls were in flight
\* together, no work is imported twice.
ImportedOnce ==
  ~overlapped =>
    \A v, w \in DOMAIN versions :
      versions[v].raw /\ versions[w].raw /\
      versions[v].chapters = versions[w].chapters => v = w

\* Edits of one version compose, overlapping or not: a step changes at most one
\* chapter of a version that exists, and takes none away.
EditsCompose ==
  [][\A v \in DOMAIN versions :
       /\ \A o \in Ordinals : Present(versions[v].chapters, o) =>
                               Present(versions'[v].chapters, o)
       /\ \A o, p \in Ordinals :
            /\ versions'[v].chapters[o] # versions[v].chapters[o]
            /\ versions'[v].chapters[p] # versions[v].chapters[p]
            => o = p]_versions
===============================================================================
