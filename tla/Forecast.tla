------------------------------- MODULE Forecast -------------------------------
(***************************************************************************)
(* Forecast requests over a changing Corpus: the API resolves a scope      *)
(* (api/main.py), ForecastEngine.run_forecast (forecast/engine.py) builds  *)
(* a prompt from recent scenes and from searches, records a Run, asks the  *)
(* provider, verifies the citations and stores the candidate.  Searches    *)
(* share the process-wide cache of HybridRetrievalEngine                   *)
(* (retrieval/engine.py), which a call of the updater clears when it runs  *)
(* in the same process.                                                    *)
(*                                                                         *)
(* Only scenes in the prompt are modelled: the snapshot, the canon and the *)
(* precedents have no chapter of the work to leak.  Candidates are judged  *)
(* one by one by the code, so one stands for all of them.                  *)
(***************************************************************************)
EXTENDS Corpus

CONSTANTS
  Readers,       \* forecast requests and searches
  Searchers,     \* those that only search (POST /api/retrieval/search)
  Asks,          \* the boundaries requested
  MaxScenes,     \* default_max_scenes
  TopK,          \* retrieval_top_k
  MaxQueries,    \* dynamic queries, one per active thread
  Citations      \* source numbers a provider may cite

ASSUME ForecastAssumption ==
  /\ Searchers \subseteq Readers
  /\ Asks \subseteq Requests /\ Asks # {}
  /\ MaxScenes \in Nat /\ TopK \in Nat /\ MaxQueries \in Nat
  /\ Citations \subseteq Nat

VARIABLES
  cache,    \* the indexes built: work version, cutoff and the scenes indexed
  reader,   \* reader[r]: the request of r, as far as it got
  run,      \* run[r]: its row in runs, with the candidate stored
  drifted,  \* history: readers whose version was edited since they resolved
  outdated  \* history: versions edited while a search was indexing them, or
            \* edited from another process with an index in the cache

forecastVars == <<cache, reader, run, drifted, outdated>>
vars == <<versions, clock, writer, editor, manuscript, overlapped,
          cache, reader, run, drifted, outdated>>

Entries == [seq : Nat, chapter : Ordinals, part : 1..MaxParts, text : Texts]
Index == [ver : Nat, cutoff : Nat, scenes : SUBSET Entries]

Verdict == {"passed", "failed", "citation_violation", "not_checked"}
Candidate == [cites : SUBSET Citations, status : Verdict]
NoCandidate == [cites |-> {}, status |-> "not_checked"]

Stage == {"new", "resolved", "threads", "missed", "found", "excerpts",
          "ready", "asked", "answered", "failing", "done"}
Request == [stage : Stage, after : {"threads", "excerpts"}, ask : Asks,
            ver : Nat, cutoff : Nat, queries : 0..MaxQueries,
            scenes : SUBSET Entries,    \* the index or query result in hand
            sources : SUBSET Entries,   \* what a candidate may cite
            prompt : SUBSET Entries,    \* everything the provider is shown
            answer : Candidate]

Run == [status : {"NONE", "RUNNING", "COMPLETED", "FAILED"},
        stored : SUBSET Candidate]

SomeAsk == CHOOSE a \in Asks : TRUE

\* a request that is over, with what it had shown
Ended(shown) ==
  [stage |-> "done", after |-> "threads", ask |-> SomeAsk, ver |-> 0,
   cutoff |-> 0, queries |-> 0, scenes |-> {}, sources |-> {},
   prompt |-> shown, answer |-> NoCandidate]

Init ==
  /\ CorpusInit
  /\ cache = {}
  /\ reader = [r \in Readers |-> [Ended({}) EXCEPT !.stage = "new"]]
  /\ run = [r \in Readers |-> [status |-> "NONE", stored |-> {}]]
  /\ drifted = {}
  /\ outdated = {}

-------------------------------------------------------------------------------
(***************************************************************************)
(* The editors' steps, with what they do to the cache.                     *)
(***************************************************************************)
\* slip: indexes are dropped only when a new version is made
ClearedForNew(call) == IF call.mode = "clone" THEN {call.base} ELSE {}

\* clear_cache(target_ver.id), then clear_cache(latest_ver.id): the version
\* being written, when that is the latest itself, and the one it is based on.
Cleared(call) == {call.base}

DropIndexes(e) ==
  /\ ClearCache(e)
  /\ cache' = {i \in cache : i.ver \notin Cleared(editor[e])}
  /\ UNCHANGED <<reader, run, drifted, outdated>>

\* The updater runs in a process of its own (cli.py update): it clears that
\* process's cache, and an index of the version it edits stays in this one.
DropElsewhere(e) ==
  LET v == editor[e].base IN
  /\ ClearCache(e)
  /\ outdated' = IF editor[e].mode = "in place" /\ \E i \in cache : i.ver = v
                 THEN outdated \cup {v} ELSE outdated
  /\ UNCHANGED <<cache, reader, run, drifted>>

Resolved(r) == reader[r].stage \notin {"new", "done"}

\* A search has read the scenes of version v and not yet stored its index.
Indexing(v) ==
  \E r \in Readers : reader[r].stage = "missed" /\ reader[r].ver = v

\* Editing version v in place, its indexes have been dropped already.
DroppedTooSoon(v) ==
  \E e \in Editors : /\ editor[e].pc = "cleared"
                     /\ editor[e].mode = "in place" /\ editor[e].base = v

CommitEdit(e) ==
  LET call == editor[e] IN
  /\ Commit(e)
  /\ IF call.mode = "in place"
     THEN /\ drifted' = drifted \cup
                {r \in Readers : Resolved(r) /\ reader[r].ver = call.base}
          /\ outdated' = IF Indexing(call.base)
                         THEN outdated \cup {call.base} ELSE outdated
     ELSE UNCHANGED <<drifted, outdated>>
  /\ UNCHANGED <<cache, reader, run>>

-------------------------------------------------------------------------------
(***************************************************************************)
(* The steps of one forecast request.                                      *)
(***************************************************************************)
Chs(r) == versions[reader[r].ver].chapters

Keep == UNCHANGED corpusVars /\ UNCHANGED <<drifted, outdated>>

Goto(r, fields) == reader' = [reader EXCEPT ![r] = fields]

\* resolve_scope; a chapter that does not exist is a 404
Resolve(r) ==
  \E ask \in Asks :
    LET v == LatestOf(versions)
        chs == versions[v].chapters
    IN /\ reader[r].stage = "new"
       /\ Resolvable(chs, ask)
       /\ Goto(r, [reader[r] EXCEPT
                     !.stage = IF r \in Searchers THEN "excerpts" ELSE "resolved",
                     !.ask = ask, !.ver = v, !.cutoff = Cutoff(chs, ask)])
       /\ UNCHANGED <<cache, run>> /\ Keep

\* the n newest of a set of scenes
Newest(S, n) == {s \in S : Cardinality({t \in S : t.seq > s.seq}) < n}

\* build_context: one query, newest first, until the scene limit or the
\* character budget (the last scene may be cut short)
BuildContext(r) ==
  \E n \in 1..MaxScenes :
    LET recent == Newest(Eligible(Chs(r), reader[r].cutoff), n)
    IN /\ reader[r].stage = "resolved"
       /\ Goto(r, [reader[r] EXCEPT !.stage = "threads",
                     !.sources = recent, !.prompt = recent])
       /\ UNCHANGED <<cache, run>> /\ Keep

\* cache_key
Hits(i, r) == i.ver = reader[r].ver /\ i.cutoff = reader[r].cutoff

StartsSearch(r) ==
  \/ reader[r].stage = "threads" /\ reader[r].queries < MaxQueries
  \/ reader[r].stage = "excerpts"

\* _get_or_build_index: a cached index
SearchHit(r) ==
  \E i \in cache :
    /\ StartsSearch(r) /\ Hits(i, r)
    /\ Goto(r, [reader[r] EXCEPT !.stage = "found",
                  !.after = reader[r].stage, !.scenes = i.scenes])
    /\ UNCHANGED <<cache, run>> /\ Keep

\* _get_or_build_index: no index yet, the scenes are read ...
SearchMiss(r) ==
  /\ StartsSearch(r) /\ ~\E i \in cache : Hits(i, r)
  /\ Goto(r, [reader[r] EXCEPT !.stage = "missed", !.after = reader[r].stage,
                !.scenes = Eligible(Chs(r), reader[r].cutoff)])
  /\ UNCHANGED <<cache, run>> /\ Keep

\* ... and the index built from them is stored
PutIndex(r) ==
  /\ reader[r].stage = "missed"
  /\ cache' = {i \in cache : ~Hits(i, r)} \cup
              {[ver |-> reader[r].ver, cutoff |-> reader[r].cutoff,
                scenes |-> reader[r].scenes]}
  /\ Goto(r, [reader[r] EXCEPT !.stage = "found"])
  /\ outdated' = IF DroppedTooSoon(reader[r].ver)
                 THEN outdated \cup {reader[r].ver} ELSE outdated
  /\ UNCHANGED run /\ UNCHANGED corpusVars /\ UNCHANGED drifted

Seqs(S) == {s.seq : s \in S}

\* Results of a thread's query join the sources unless their scene is there
\* already; those of the last query are only shown.
TakeResults(r) ==
  \E results \in SUBSET reader[r].scenes :
    LET new == {s \in results : s.seq \notin Seqs(reader[r].sources)}
        thread == reader[r].after = "threads"
    IN /\ reader[r].stage = "found"
       /\ Cardinality(results) <= TopK
       /\ Goto(r, IF thread
                  THEN [reader[r] EXCEPT !.stage = "threads",
                          !.queries = @ + 1, !.scenes = {},
                          !.sources = @ \cup new, !.prompt = @ \cup new]
                  ELSE [reader[r] EXCEPT !.stage = "ready", !.scenes = {},
                          !.prompt = @ \cup results])
       /\ UNCHANGED <<cache, run>> /\ Keep

\* No more threads; or a search that raises (the index dropped between the
\* test and the read of the dictionary, the database), which both callers
\* swallow.
SkipSearch(r) ==
  /\ reader[r].stage \in {"threads", "excerpts"}
  /\ Goto(r, [reader[r] EXCEPT
       !.stage = IF @ = "threads" THEN "excerpts" ELSE "ready"])
  /\ UNCHANGED <<cache, run>> /\ Keep

\* the Run is committed as RUNNING before the provider is called
StartRun(r) ==
  /\ reader[r].stage = "ready" /\ r \notin Searchers
  /\ run' = [run EXCEPT ![r].status = "RUNNING"]
  /\ Goto(r, [reader[r] EXCEPT !.stage = "asked"])
  /\ UNCHANGED cache /\ Keep

\* verify_citations, then the continuity check; what a synthetic provider
\* says is never checked
Judged(cited, known, synthetic) ==
  IF synthetic THEN "not_checked"
  ELSE IF ~known THEN "failed"
  ELSE IF cited THEN "passed" ELSE "citation_violation"

\* slip: any scene up to the boundary may be cited, shown or not
WithinCutoff(cites, r) == \A c \in cites : c <= reader[r].cutoff

Cited(cites, r) ==
  \A c \in cites : c \in Seqs(reader[r].sources) /\ c <= reader[r].cutoff

\* the provider's answer, after its retries, and the checks made on it;
\* known: no unintroduced character and no unrevealed fact
Answer(r) ==
  \E cites \in SUBSET Citations, known \in BOOLEAN, synthetic \in BOOLEAN :
    /\ reader[r].stage = "asked"
    /\ Goto(r, [reader[r] EXCEPT !.stage = "answered",
         !.answer = [cites |-> cites,
                     status |-> Judged(Cited(cites, r), known, synthetic)]])
    /\ UNCHANGED <<cache, run>> /\ Keep

\* one commit of the run's status and of its candidates
Complete(r) ==
  /\ reader[r].stage = "answered"
  /\ run' = [run EXCEPT ![r] = [status |-> "COMPLETED",
                                stored |-> {reader[r].answer}]]
  /\ Goto(r, Ended(reader[r].prompt))
  /\ UNCHANGED cache /\ Keep

\* the provider gives up
AnswerFails(r) ==
  /\ reader[r].stage = "asked"
  /\ Goto(r, [reader[r] EXCEPT !.stage = "failing"])
  /\ UNCHANGED <<cache, run>> /\ Keep

RecordFailure(r) ==
  /\ reader[r].stage = "failing"
  /\ run' = [run EXCEPT ![r].status = "FAILED"]
  /\ Goto(r, Ended({}))
  /\ UNCHANGED cache /\ Keep

\* The request ends with its run as it is: a search is answered, the process
\* dies, an exception is raised before the run exists, or a commit fails (the
\* session then refuses the handler's commit too, for want of a rollback).
GiveUp(r) ==
  /\ reader[r].stage # "done"
  /\ Goto(r, Ended({}))
  /\ UNCHANGED <<cache, run>> /\ Keep

ReaderStep(r) ==
  \/ Resolve(r) \/ BuildContext(r)
  \/ SearchHit(r) \/ SearchMiss(r) \/ PutIndex(r) \/ TakeResults(r)
  \/ SkipSearch(r) \/ StartRun(r) \/ Answer(r) \/ Complete(r)
  \/ AnswerFails(r) \/ RecordFailure(r) \/ GiveUp(r)

Next ==
  \/ \E e \in Editors : \/ EditorStep(e) /\ UNCHANGED forecastVars
                        \/ DropIndexes(e)
                        \/ DropElsewhere(e) \/ CommitEdit(e)
  \/ \E r \in Readers : ReaderStep(r)

Spec == Init /\ [][Next]_vars
-------------------------------------------------------------------------------
\* Type correctness: in particular no request runs more queries than it has
\* threads, and every scene indexed or shown is one of a real chapter.
TypeOK ==
  /\ CorpusTypeOK
  /\ cache \subseteq Index
  /\ reader \in [Readers -> Request]
  /\ run \in [Readers -> Run]
  /\ drifted \subseteq Readers
  /\ outdated \subseteq Nat

\* An index in the cache is the version's scenes up to its cutoff, unless the
\* version was edited in place in one of the two ways that clearing the
\* cache before the commit, in one process, cannot catch.
IndexFresh ==
  \A i \in cache :
    i.ver \notin outdated =>
      i.scenes = Eligible(versions[i.ver].chapters, i.cutoff)

Sealed(r) == r \notin drifted /\ reader[r].ver \notin outdated

\* A forecast bounded by a chapter is shown no scene of a later one: not by
\* the recent scenes, not by an index another request left in the cache,
\* whatever is imported, edited and indexed meanwhile.  Outside: a chapter
\* without scenes, and a version edited in place under the request.
NoFutureShown ==
  \A r \in Readers :
    Resolved(r) /\ reader[r].ask.by = "chapter" /\ Sealed(r) =>
      LET n == reader[r].ask.n IN
      SceneCount[Chs(r)[n]] > 0 => \A s \in reader[r].prompt : s.chapter <= n

\* README: "Future events, unseen characters, and late-game lore cannot bleed
\* into prospective runs."
NothingBleeds ==
  \A r \in Readers :
    Resolved(r) /\ reader[r].ask.by = "chapter" =>
      \A s \in reader[r].prompt : s.chapter <= reader[r].ask.n

\* A stored candidate that passed cites only scenes that were shown to the
\* provider, and a run has a candidate exactly when it is COMPLETED.
StoredIsVerified ==
  \A r \in Readers :
    /\ (run[r].stored # {}) <=> (run[r].status = "COMPLETED")
    /\ \A c \in run[r].stored :
         c.status = "passed" => c.cites \subseteq Seqs(reader[r].prompt)
===============================================================================
