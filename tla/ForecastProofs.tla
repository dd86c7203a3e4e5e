---------------------------- MODULE ForecastProofs ----------------------------
(***************************************************************************)
(* What holds of forecasts over a changing corpus, for any number of       *)
(* requests, searches, edits and chapters and for every interleaving.      *)
(***************************************************************************)
EXTENDS Forecast, SequenceTheorems, FiniteSetTheorems, TLAPS

-----------------------------------------------------------------------------
(* The corpus by itself: the versions of a work, for any number of calls,    *)
(* chapters, texts and manifests, and for every interleaving of the calls.   *)

(* The latest version, once one exists whose date no other exceeds.        *)
LEMMA LatestIsLatest ==
  ASSUME NEW vs, \E v \in DOMAIN vs : \A w \in DOMAIN vs : vs[w].born <= vs[v].born
  PROVE  /\ LatestOf(vs) \in DOMAIN vs
         /\ \A w \in DOMAIN vs : vs[w].born <= vs[LatestOf(vs)].born
  BY DEF LatestOf

LEMMA LatestIsUnique ==
  ASSUME NEW vs \in Seq(Version), NEW v \in DOMAIN vs,
         \A w \in DOMAIN vs : w # v => vs[w].born < vs[v].born
  PROVE  LatestOf(vs) = v
  <1>1. \A w \in DOMAIN vs : vs[w].born \in Nat
    <2>1. \A w \in DOMAIN vs : vs[w] \in Version
      BY LenProperties, ElementOfSeq
    <2>2. QED
      BY <2>1 DEF Version
  <1>2. \A w \in DOMAIN vs : vs[w].born <= vs[v].born
    BY <1>1
  <1>3. /\ LatestOf(vs) \in DOMAIN vs
        /\ vs[v].born <= vs[LatestOf(vs)].born
    BY <1>2, LatestIsLatest
  <1>4. QED
    BY <1>1, <1>3

-------------------------------------------------------------------------------
(* The inductive invariant.  Dates tell versions apart, and every call that *)
(* has stamped its own holds one no version has; a call writes over a base  *)
(* that exists; an edit in place holds, under the lock, the version it is   *)
(* about to write.                                                          *)

Stamped(c) == c.pc \in {"stamped", "written", "cleared"} /\ c.mode # "in place"

VersionDates ==
  /\ \E v \in DOMAIN versions :
       \A w \in DOMAIN versions : versions[w].born <= versions[v].born
  /\ \A v \in DOMAIN versions : versions[v].born <= clock
  /\ \A v, w \in DOMAIN versions : versions[v].born = versions[w].born => v = w

CallDates ==
  /\ \A e \in Editors : Stamped(editor[e]) =>
       /\ editor[e].born <= clock
       /\ \A v \in DOMAIN versions : versions[v].born # editor[e].born
  /\ \A e, f \in Editors :
       Stamped(editor[e]) /\ Stamped(editor[f]) /\
       editor[e].born = editor[f].born => e = f

Ready(c) ==
  /\ c.mode = "import" => c.pc # "cleared"
  /\ c.mode = "in place" => c.pc # "stamped"
  /\ c.mode # "import" =>
       c.base \in DOMAIN versions /\ c.ordinal \in Ordinals /\ c.text \in Texts

Bases == \A e \in Editors : Busy(e) => Ready(editor[e])

Writing(c) == c.pc \in {"written", "cleared"}

Drafts ==
  \A e \in Editors :
    editor[e].mode = "in place" /\ Writing(editor[e]) =>
      editor[e].draft = Rewritten(versions[editor[e].base].chapters, editor[e])

(* What one call at a time is bound to.                                    *)
Alone(c) ==
  /\ c.mode # "import" => c.base = LatestOf(versions)
  /\ Stamped(c) => \A v \in DOMAIN versions : versions[v].born < c.born
  /\ c.mode = "clone" /\ Writing(c) => c.draft = Rewritten(manuscript, c)
  /\ c.mode = "import" => Unknown(c.draft)

OneAtATime ==
  ~overlapped =>
    /\ \A e, f \in Editors : Busy(e) /\ Busy(f) => e = f
    /\ \A e \in Editors : Busy(e) => Alone(editor[e])

CInv == CorpusTypeOK /\ VersionDates /\ CallDates /\ Bases /\ Drafts /\ OneAtATime
        /\ ManuscriptKept /\ ImportedOnce

-------------------------------------------------------------------------------
LEMMA RewrittenType ==
  ASSUME NEW chs \in Chapters, NEW c \in Call,
         c.ordinal \in Ordinals, c.text \in Texts
  PROVE  /\ Rewritten(chs, c) \in Chapters
         /\ \A o \in Ordinals : Rewritten(chs, c)[o] =
              IF o = c.ordinal THEN c.text ELSE chs[o]
  BY DEF Rewritten, Chapters

LEMMA FreshType == Fresh \in Call /\ Over \in Call
  <1>1. [o \in Ordinals |-> NoText] \in Chapters
    BY DEF Chapters
  <1>2. QED
    BY <1>1 DEF Fresh, Over, Call, Mode

LEMMA VersionsTyped ==
  ASSUME CorpusTypeOK
  PROVE  \A v \in DOMAIN versions :
           /\ versions[v] \in Version
           /\ versions[v].chapters \in Chapters /\ versions[v].born \in Nat
  <1>1. \A v \in DOMAIN versions : versions[v] \in Version
    BY LenProperties, ElementOfSeq DEF CorpusTypeOK
  <1>2. QED
    BY <1>1 DEF Version

LEMMA Ids ==
  ASSUME CorpusTypeOK
  PROVE  /\ DOMAIN versions = 1..Len(versions) /\ Len(versions) \in Nat
         /\ 1 \in DOMAIN versions
  <1>1. /\ DOMAIN versions = 1..Len(versions)
        /\ Len(versions) \in Nat \ {0}
    BY LenProperties, EmptySeq DEF CorpusTypeOK
  <1>2. QED
    BY <1>1

LEMMA InitCInv == CorpusInit => CInv
  <1> SUFFICES ASSUME CorpusInit PROVE CInv
    OBVIOUS
  <1>1. PICK m \in Manifests :
          /\ versions = <<[chapters |-> m, born |-> 1, raw |-> TRUE]>>
          /\ manuscript = m
    BY DEF CorpusInit
  <1>2. m \in Chapters
    BY CorpusAssumption
  <1>3. /\ clock = 1 /\ writer = "nobody" /\ overlapped = FALSE
        /\ editor = [e \in Editors |-> Fresh]
    BY DEF CorpusInit
  <1>4. \A e \in Editors : editor[e] = Fresh /\ editor[e].pc = "new"
    BY <1>3 DEF Fresh
  <1>5. /\ versions \in Seq(Version) /\ DOMAIN versions = {1}
        /\ versions[1].born = 1 /\ versions[1].chapters = m
    BY <1>1, <1>2 DEF Version
  <1>6. CorpusTypeOK
    BY <1>1, <1>2, <1>3, <1>4, <1>5, FreshType, CorpusAssumption
    DEF CorpusTypeOK
  <1>7. VersionDates /\ CallDates
    <2>1. \A e \in Editors : ~Stamped(editor[e])
      BY <1>4 DEF Stamped
    <2>2. \A v \in DOMAIN versions : v = 1 /\ versions[v].born = 1
      BY <1>5
    <2>3. 1 \in DOMAIN versions
      BY <1>5
    <2>4. QED
      BY <1>3, <2>1, <2>2, <2>3 DEF VersionDates, CallDates
  <1>8. Bases /\ Drafts /\ OneAtATime
    BY <1>4 DEF Bases, Drafts, OneAtATime, Busy, Writing
  <1>9. LatestOf(versions) = 1
    BY <1>5 DEF LatestOf
  <1>10. ManuscriptKept /\ ImportedOnce
    BY <1>1, <1>5, <1>9 DEF ManuscriptKept, ImportedOnce
  <1>11. QED
    BY <1>6, <1>7, <1>8, <1>10 DEF CInv

-------------------------------------------------------------------------------
(* Steps that leave the versions and the lock alone: a call changes its    *)
(* own record, keeps its draft valid and stays within its type.            *)

(* A call that begins.                                                     *)
LEMMA BeginKeeps ==
  ASSUME CInv, NEW e \in Editors, NEW c \in Call, Begin(e, c), c.pc = "read",
         Ready(c), Alone(c)
  PROVE  CInv'
  <1>1. /\ editor[e].pc = "new" /\ editor' = [editor EXCEPT ![e] = c]
        /\ overlapped' = (overlapped \/ \E f \in Editors : Busy(f))
        /\ UNCHANGED <<versions, clock, writer, manuscript>>
    BY DEF Begin
  <1>2. /\ editor'[e] = c
        /\ \A f \in Editors : f # e => editor'[f] = editor[f]
    BY <1>1 DEF CInv, CorpusTypeOK
  <1>3. CorpusTypeOK'
    BY <1>1, <1>2 DEF CInv, CorpusTypeOK
  <1>4. VersionDates' /\ CallDates'
    <2>1. VersionDates'
      BY <1>1 DEF CInv, VersionDates
    <2>2. \A f \in Editors : Stamped(editor'[f]) =>
            Stamped(editor[f]) /\ editor'[f] = editor[f]
      BY <1>2 DEF Stamped
    <2>3. CallDates'
      BY <1>1, <2>2 DEF CInv, CallDates
    <2>4. QED
      BY <2>1, <2>3
  <1>5. Bases'
    BY <1>1, <1>2 DEF CInv, Bases, Busy, Ready
  <1>6. Drafts'
    BY <1>1, <1>2 DEF CInv, Drafts, Writing
  <1>7. OneAtATime'
    <2>1. SUFFICES ASSUME ~overlapped'
                   PROVE  /\ \A f, g \in Editors : Busy(f)' /\ Busy(g)' => f = g
                          /\ \A f \in Editors : Busy(f)' => Alone(editor[f])'
      BY DEF OneAtATime
    <2>2. \A f \in Editors : ~Busy(f)
      BY <1>1, <2>1
    <2>3. \A f \in Editors : Busy(f)' => f = e
      BY <1>2, <2>2 DEF Busy
    <2>4. Alone(c)' <=> Alone(c)
      BY <1>1 DEF Alone, Unknown
    <2>5. Alone(editor[e])'
      BY <1>2, <2>4 DEF Alone, Unknown
    <2>6. QED
      BY <2>3, <2>5
  <1>8. ManuscriptKept' /\ ImportedOnce'
    BY <1>1 DEF CInv, ManuscriptKept, ImportedOnce
  <1>9. QED
    BY <1>3, <1>4, <1>5, <1>6, <1>7, <1>8 DEF CInv

LEMMA ReadUpdateKeeps ==
  ASSUME CInv, NEW e \in Editors, ReadUpdate(e)
  PROVE  CInv'
  <1> DEFINE base == LatestOf(versions)
             call(text, new, target) ==
               [Fresh EXCEPT !.pc = "read", !.base = base, !.text = text,
                  !.mode = IF new THEN "clone" ELSE "in place",
                  !.ordinal = target,
                  !.found = Present(versions[base].chapters, target)]
  <1>1. PICK text \in Texts, new \in Modes, target \in Ordinals :
          Begin(e, call(text, new, target))
    BY DEF ReadUpdate
  <1> DEFINE c == call(text, new, target)
  <1>2. base \in DOMAIN versions /\ base \in Nat
    <2>1. base \in DOMAIN versions
      BY LatestIsLatest DEF CInv, VersionDates
    <2>2. QED
      BY <2>1, Ids DEF CInv
  <1>3. /\ c.pc = "read" /\ c.base = base /\ c.text = text /\ c.ordinal = target
        /\ c.mode \in {"clone", "in place"}
    BY DEF Fresh
  <1>4. c \in Call
    <2>1. Present(versions[base].chapters, target) \in BOOLEAN
      BY DEF Present
    <2>2. target \in Nat
      BY DEF Ordinals
    <2>3. QED
      BY <1>2, <2>1, <2>2, FreshType DEF Call, Mode, Fresh
  <1> HIDE DEF c
  <1>5. Ready(c) /\ Alone(c)
    BY <1>2, <1>3 DEF Ready, Alone, Stamped, Writing
  <1>6. QED
    BY <1>1, <1>3, <1>4, <1>5, BeginKeeps DEF c

LEMMA ReadImportKeeps ==
  ASSUME CInv, NEW e \in Editors, ReadImport(e)
  PROVE  CInv'
  <1> DEFINE call(m) ==
               [Fresh EXCEPT !.pc = "read", !.mode = "import", !.draft = m]
  <1>1. PICK m \in Manifests : Unknown(m) /\ Begin(e, call(m))
    BY DEF ReadImport
  <1> DEFINE c == call(m)
  <1>2. c.pc = "read" /\ c.mode = "import" /\ c.draft = m
    BY DEF Fresh
  <1>3. c \in Call
    BY ZenonT(30), FreshType, CorpusAssumption DEF Call, Mode, Fresh
  <1> HIDE DEF c
  <1>4. Ready(c) /\ Alone(c)
    BY <1>1, <1>2 DEF Ready, Alone, Stamped, Writing
  <1>5. QED
    BY <1>1, <1>2, <1>3, <1>4, BeginKeeps DEF c

(* A call in flight goes on, or is over, without touching the versions:    *)
(* its record becomes c, and c is what the invariant asks of a call.       *)
Goes(e, c) ==
  /\ Busy(e) /\ editor' = [editor EXCEPT ![e] = c]
  /\ versions' = versions /\ manuscript' = manuscript /\ overlapped' = overlapped
  /\ clock' = clock \/ clock' = clock + 1

Locked(e, c) ==
  /\ writer' \in Editors \cup {"nobody"}
  /\ \A f \in Editors : writer' = f <=> Writing(editor'[f])

Dated(e, c) ==
  Stamped(c) =>
    /\ c.born <= clock'
    /\ \A v \in DOMAIN versions : versions[v].born # c.born
    /\ \A f \in Editors \ {e} : Stamped(editor[f]) => editor[f].born # c.born

Drafted(c) ==
  c.mode = "in place" /\ Writing(c) =>
    c.draft = Rewritten(versions[c.base].chapters, c)

Allowed(c) == c.pc # "over" => Ready(c) /\ (overlapped = FALSE => Alone(c))

LEMMA OneCallKeeps ==
  ASSUME CInv, NEW e \in Editors, NEW c \in Call,
         Goes(e, c), Locked(e, c), Dated(e, c), Drafted(c), Allowed(c)
  PROVE  CInv'
  <1>1. /\ editor'[e] = c
        /\ \A f \in Editors : f # e => editor'[f] = editor[f]
    BY DEF CInv, CorpusTypeOK, Goes
  <1>2. /\ clock \in Nat /\ clock' \in Nat /\ clock <= clock'
        /\ versions' = versions /\ manuscript' = manuscript /\ overlapped' = overlapped
    BY DEF CInv, CorpusTypeOK, Goes
  <1>3. CorpusTypeOK'
    BY <1>1, <1>2 DEF CInv, CorpusTypeOK, Writing, Goes, Locked
  <1>4. VersionDates'
    <2>1. \A v \in DOMAIN versions : versions[v].born \in Nat
      BY VersionsTyped DEF CInv
    <2>2. \A v \in DOMAIN versions : versions[v].born <= clock
      BY DEF CInv, VersionDates
    <2>3. \A v \in DOMAIN versions : versions[v].born <= clock'
      BY <1>2, <2>1, <2>2
    <2>4. QED
      BY <1>2, <2>3 DEF CInv, VersionDates
  <1>5. CallDates'
    <2>1. \A f \in Editors : editor[f].born \in Nat
      BY DEF CorpusTypeOK, Call, CInv
    <2>2. CallDates
      BY DEF CInv
    <2>3. \A f \in Editors : Stamped(editor[f]) =>
            /\ editor[f].born <= clock'
            /\ \A v \in DOMAIN versions : versions[v].born # editor[f].born
      BY <1>2, <2>1, <2>2 DEF CallDates
    <2>4. \A f \in Editors : Stamped(editor'[f]) =>
            /\ editor'[f].born <= clock'
            /\ \A v \in DOMAIN versions : versions[v].born # editor'[f].born
      BY <1>1, <2>3 DEF Dated
    <2>5. \A f, g \in Editors :
            Stamped(editor'[f]) /\ Stamped(editor'[g]) /\
            editor'[f].born = editor'[g].born => f = g
      BY <1>1, <2>2 DEF CallDates, Dated
    <2>6. QED
      BY <1>2, <2>4, <2>5 DEF CallDates, Stamped
  <1>6. Bases' /\ Drafts'
    <2>1. Bases'
      BY <1>1, <1>2 DEF CInv, Bases, Busy, Ready, Allowed
    <2>2. Drafts'
      BY <1>1, <1>2 DEF CInv, Drafts, Writing, Drafted
    <2>3. QED
      BY <2>1, <2>2
  <1>7. OneAtATime'
    <2>1. \A f \in Editors : Busy(f)' => Busy(f)
      BY <1>1 DEF Busy, Goes
    <2>2. Busy(e)' => c.pc # "over"
      BY <1>1 DEF Busy
    <2>3. Alone(c) => Alone(editor[e])'
      BY <1>1, <1>2 DEF Alone, Unknown
    <2>4. \A f \in Editors : f # e /\ Alone(editor[f]) => Alone(editor[f])'
      BY <1>1, <1>2 DEF Alone, Unknown
    <2>5. SUFFICES ASSUME overlapped = FALSE
                   PROVE  /\ \A f, g \in Editors : Busy(f)' /\ Busy(g)' => f = g
                          /\ \A f \in Editors : Busy(f)' => Alone(editor[f])'
      BY <1>2, <1>3 DEF OneAtATime, CorpusTypeOK
    <2>6. /\ \A f, g \in Editors : Busy(f) /\ Busy(g) => f = g
          /\ \A f \in Editors : Busy(f) => Alone(editor[f])
      BY <2>5 DEF CInv, OneAtATime
    <2>7. Busy(e)' => Alone(c)
      BY <2>2, <2>5 DEF Allowed
    <2>8. QED
      BY <2>1, <2>3, <2>4, <2>6, <2>7
  <1>8. ManuscriptKept' /\ ImportedOnce'
    BY <1>2 DEF CInv, ManuscriptKept, ImportedOnce
  <1>9. QED
    BY <1>3, <1>4, <1>5, <1>6, <1>7, <1>8 DEF CInv

LEMMA StampKeeps ==
  ASSUME CInv, NEW e \in Editors, Stamp(e)
  PROVE  CInv'
  <1> DEFINE c == [editor[e] EXCEPT !.pc = "stamped", !.born = clock + 1]
  <1>1. editor[e] \in Call /\ clock \in Nat /\ clock + 1 \in Nat
    BY DEF CInv, CorpusTypeOK
  <1>2. /\ c.pc = "stamped" /\ c.born = clock + 1
        /\ c.mode = editor[e].mode /\ c.base = editor[e].base
        /\ c.ordinal = editor[e].ordinal /\ c.text = editor[e].text
        /\ c.draft = editor[e].draft
    BY <1>1 DEF Call
  <1>3. c \in Call
    BY <1>1 DEF Call
  <1>4. /\ editor' = [editor EXCEPT ![e] = c] /\ clock' = clock + 1
        /\ versions' = versions /\ manuscript' = manuscript
        /\ writer' = writer /\ overlapped' = overlapped
        /\ editor[e].pc = "read" /\ editor[e].mode # "in place" /\ Busy(e)
    BY DEF Stamp, Busy
  <1> HIDE DEF c
  <1>5. Goes(e, c)
    BY <1>4 DEF Goes
  <1>6. Locked(e, c)
    <2>1. \A f \in Editors : Writing(editor'[f]) <=> Writing(editor[f])
      BY <1>2, <1>4 DEF CInv, CorpusTypeOK, Writing
    <2>2. QED
      BY <1>4, <2>1 DEF Locked, Writing, CInv, CorpusTypeOK
  <1>7. \A v \in DOMAIN versions : versions[v].born < clock + 1
    <2>1. \A v \in DOMAIN versions : versions[v].born \in Nat /\ versions[v].born <= clock
      BY VersionsTyped DEF CInv, VersionDates
    <2>2. QED
      BY <1>1, <2>1
  <1>8. Allowed(c)
    <2>1. Ready(c)
      BY <1>2, <1>4 DEF CInv, Bases, Ready
    <2>2. overlapped = FALSE => Alone(editor[e])
      BY <1>4 DEF CInv, OneAtATime
    <2>3. QED
      BY <1>2, <1>7, <2>1, <2>2 DEF Alone, Writing, Allowed
  <1>9. Dated(e, c)
    <2>1. \A f \in Editors : Stamped(editor[f]) =>
            editor[f].born \in Nat /\ editor[f].born <= clock
      BY DEF CInv, CallDates, CorpusTypeOK, Call
    <2>2. \A f \in Editors : Stamped(editor[f]) => editor[f].born # clock + 1
      BY <1>1, <2>1
    <2>3. \A v \in DOMAIN versions : versions[v].born # clock + 1
      BY <1>1, <1>7, VersionsTyped DEF CInv
    <2>4. c.born <= clock'
      <3>1. c.born = clock + 1 /\ clock' = clock + 1
        BY <1>2, <1>4
      <3>2. clock + 1 <= clock + 1
        BY <1>1
      <3>3. QED
        BY <3>1, <3>2
    <2>5. QED
      BY <1>2, <2>2, <2>3, <2>4 DEF Dated
  <1>10. Drafted(c)
    BY <1>2 DEF Drafted, Writing
  <1>11. QED
    BY <1>3, <1>5, <1>6, <1>8, <1>9, <1>10, OneCallKeeps

(* The draft of a call that takes the lock.                                *)
LEMMA DraftOf ==
  ASSUME CInv, NEW e \in Editors, Busy(e)
  PROVE  /\ Draft(editor[e]) \in Chapters
         /\ editor[e].mode = "import" => Draft(editor[e]) = editor[e].draft
         /\ editor[e].mode # "import" =>
              Draft(editor[e]) = Rewritten(versions[editor[e].base].chapters, editor[e])
  <1>1. editor[e] \in Call /\ Ready(editor[e])
    BY DEF CInv, CorpusTypeOK, Bases
  <1>2. editor[e].mode # "import" =>
          Rewritten(versions[editor[e].base].chapters, editor[e]) \in Chapters
    BY <1>1, VersionsTyped, RewrittenType DEF CInv, Ready
  <1>3. editor[e].draft \in Chapters
    BY <1>1 DEF Call
  <1>4. QED
    BY <1>2, <1>3 DEF Draft

LEMMA TakeLockKeeps ==
  ASSUME CInv, NEW e \in Editors, InsertVersion(e) \/ WriteInPlace(e)
  PROVE  CInv'
  <1> DEFINE c == [editor[e] EXCEPT !.pc = "written", !.draft = Draft(editor[e])]
  <1>1. /\ editor[e].pc = IF editor[e].mode = "in place" THEN "read" ELSE "stamped"
        /\ writer = "nobody" /\ writer' = e
        /\ editor' = [editor EXCEPT ![e] = c]
        /\ versions' = versions /\ manuscript' = manuscript
        /\ clock' = clock /\ overlapped' = overlapped
    <2>1. Busy(e) => Ready(editor[e])
      BY DEF CInv, Bases
    <2>2. QED
      BY <2>1 DEF InsertVersion, WriteInPlace, Ready, Busy
  <1>2. Busy(e) /\ editor[e] \in Call /\ clock \in Nat
    BY <1>1 DEF Busy, CInv, CorpusTypeOK
  <1>3. /\ c.pc = "written" /\ c.draft = Draft(editor[e])
        /\ c.mode = editor[e].mode /\ c.base = editor[e].base
        /\ c.ordinal = editor[e].ordinal /\ c.text = editor[e].text
        /\ c.born = editor[e].born
    BY <1>2 DEF Call
  <1>4. c \in Call
    BY <1>2, DraftOf DEF Call
  <1> HIDE DEF c
  <1>5. \A chs : Rewritten(chs, c) = Rewritten(chs, editor[e])
    BY <1>3 DEF Rewritten
  <1>6. Stamped(c) => Stamped(editor[e])
    BY <1>1, <1>3 DEF Stamped
  <1>7. Goes(e, c)
    BY <1>1, <1>2 DEF Goes
  <1>8. Locked(e, c)
    <2>1. \A f \in Editors : ~Writing(editor[f])
      BY <1>1, CorpusAssumption DEF CInv, CorpusTypeOK, Writing
    <2>2. Writing(c)
      BY <1>3 DEF Writing
    <2>3. \A f \in Editors : Writing(editor'[f]) <=> f = e
      BY <1>1, <2>1, <2>2 DEF CInv, CorpusTypeOK
    <2>4. QED
      BY <1>1, <2>3 DEF Locked
  <1>9. Allowed(c)
    <2>1. Ready(c)
      BY <1>2, <1>3 DEF CInv, Bases, Ready
    <2>2. SUFFICES ASSUME overlapped = FALSE PROVE Alone(c)
      BY <2>1 DEF Allowed
    <2>3. Alone(editor[e])
      BY <1>2, <2>2 DEF CInv, OneAtATime
    <2>4. c.mode = "clone" => c.draft = Rewritten(manuscript, c)
      BY <1>2, <1>3, <1>5, <2>2, <2>3, DraftOf DEF CInv, ManuscriptKept, Alone
    <2>5. c.mode = "import" => Unknown(c.draft)
      BY <1>2, <1>3, <2>3, DraftOf DEF Alone
    <2>6. QED
      BY <1>3, <1>6, <2>3, <2>4, <2>5 DEF Alone
  <1>10. Dated(e, c)
    BY <1>1, <1>3, <1>6 DEF CInv, CallDates, Dated
  <1>11. Drafted(c)
    BY <1>2, <1>3, <1>5, DraftOf DEF Drafted
  <1>12. QED
    BY <1>4, <1>7, <1>8, <1>9, <1>10, <1>11, OneCallKeeps

LEMMA ClearCacheKeeps ==
  ASSUME CInv, NEW e \in Editors, ClearCache(e)
  PROVE  CInv'
  <1> DEFINE c == [editor[e] EXCEPT !.pc = "cleared"]
  <1>1. /\ editor[e].pc = "written" /\ editor[e].mode # "import"
        /\ editor' = [editor EXCEPT ![e] = c]
        /\ versions' = versions /\ manuscript' = manuscript /\ writer' = writer
        /\ clock' = clock /\ overlapped' = overlapped
    BY DEF ClearCache
  <1>2. Busy(e) /\ editor[e] \in Call /\ clock \in Nat
    BY <1>1 DEF Busy, CInv, CorpusTypeOK
  <1>3. /\ c \in Call /\ c.pc = "cleared" /\ c.draft = editor[e].draft
        /\ c.mode = editor[e].mode /\ c.base = editor[e].base
        /\ c.ordinal = editor[e].ordinal /\ c.text = editor[e].text
        /\ c.born = editor[e].born
    BY <1>2 DEF Call
  <1> HIDE DEF c
  <1>4. \A chs : Rewritten(chs, c) = Rewritten(chs, editor[e])
    BY <1>3 DEF Rewritten
  <1>5. (Stamped(c) <=> Stamped(editor[e])) /\ Writing(editor[e]) /\ Writing(c)
    BY <1>1, <1>3 DEF Stamped, Writing
  <1>6. Goes(e, c)
    BY <1>1, <1>2 DEF Goes
  <1>7. Locked(e, c)
    <2>1. \A f \in Editors : Writing(editor'[f]) <=> Writing(editor[f])
      BY <1>1, <1>5 DEF CInv, CorpusTypeOK
    <2>2. QED
      BY <1>1, <2>1 DEF Locked, Writing, CInv, CorpusTypeOK
  <1>8. Allowed(c)
    <2>1. Ready(c)
      BY <1>1, <1>2, <1>3 DEF CInv, Bases, Ready
    <2>2. overlapped = FALSE => Alone(editor[e])
      BY <1>2 DEF CInv, OneAtATime
    <2>3. QED
      BY <1>3, <1>4, <1>5, <2>1, <2>2 DEF Alone, Allowed
  <1>9. Dated(e, c)
    BY <1>1, <1>3, <1>5 DEF CInv, CallDates, Dated
  <1>10. Drafted(c)
    BY <1>3, <1>4, <1>5 DEF CInv, Drafts, Drafted
  <1>11. QED
    BY <1>3, <1>6, <1>7, <1>8, <1>9, <1>10, OneCallKeeps

LEMMA RollBackKeeps ==
  ASSUME CInv, NEW e \in Editors, RollBack(e)
  PROVE  CInv'
  <1>1. /\ Busy(e) /\ editor' = [editor EXCEPT ![e] = Over]
        /\ writer' = IF writer = e THEN "nobody" ELSE writer
        /\ versions' = versions /\ manuscript' = manuscript
        /\ clock' = clock /\ overlapped' = overlapped
    BY DEF RollBack
  <1>2. Over \in Call /\ Over.pc = "over" /\ ~Stamped(Over) /\ ~Writing(Over)
    BY FreshType DEF Over, Fresh, Stamped, Writing
  <1>3. Goes(e, Over)
    BY <1>1 DEF Goes
  <1>4. Locked(e, Over)
    <2>1. \A f \in Editors : writer = f <=> Writing(editor[f])
      BY DEF CInv, CorpusTypeOK, Writing
    <2>2. \A f \in Editors : Writing(editor'[f]) <=> f # e /\ Writing(editor[f])
      BY <1>1, <1>2 DEF CInv, CorpusTypeOK
    <2>3. writer \in Editors \cup {"nobody"} /\ "nobody" \notin Editors
      BY CorpusAssumption DEF CInv, CorpusTypeOK
    <2>4. QED
      BY <1>1, <2>1, <2>2, <2>3 DEF Locked
  <1>5. Dated(e, Over) /\ Drafted(Over) /\ Allowed(Over)
    BY <1>2 DEF Dated, Drafted, Allowed
  <1>6. QED
    BY <1>2, <1>3, <1>4, <1>5, OneCallKeeps

-------------------------------------------------------------------------------
(* Commits.                                                                *)

(* What every commit does to the calls: e is over, and with it the lock is *)
(* free and, if it was alone, nobody is busy.                              *)
LEMMA CommitCalls ==
  ASSUME CInv, NEW e \in Editors, Commit(e)
  PROVE  /\ editor[e] \in Call /\ Writing(editor[e]) /\ Busy(e)
         /\ Ready(editor[e])
         /\ editor' \in [Editors -> Call] /\ writer' = "nobody"
         /\ clock' = clock /\ overlapped' = overlapped
         /\ editor'[e] = Over
         /\ \A f \in Editors : f # e => editor'[f] = editor[f] /\ ~Writing(editor[f])
         /\ \A f \in Editors : ~Writing(editor'[f]) /\ (Busy(f)' => f # e /\ Busy(f))
         /\ overlapped = FALSE =>
              Alone(editor[e]) /\ \A f \in Editors : ~Busy(f)'
  <1>1. /\ ReadyToCommit(editor[e]) /\ writer' = "nobody"
        /\ editor' = [editor EXCEPT ![e] = Over]
        /\ clock' = clock /\ overlapped' = overlapped
    BY DEF Commit
  <1>2. Writing(editor[e]) /\ Busy(e)
    BY <1>1 DEF ReadyToCommit, Writing, Busy
  <1>3. editor[e] \in Call /\ Ready(editor[e])
    BY <1>2 DEF CInv, CorpusTypeOK, Bases
  <1>4. /\ editor' \in [Editors -> Call] /\ editor'[e] = Over
        /\ \A f \in Editors : f # e => editor'[f] = editor[f]
    BY <1>1, FreshType DEF CInv, CorpusTypeOK
  <1>5. \A f \in Editors : f # e => ~Writing(editor[f])
    BY <1>2 DEF CInv, CorpusTypeOK, Writing
  <1>6. ~Writing(Over) /\ Over.pc = "over"
    BY DEF Writing, Over, Fresh
  <1>7. \A f \in Editors : ~Writing(editor'[f]) /\ (Busy(f)' => f # e /\ Busy(f))
    BY <1>4, <1>5, <1>6 DEF Busy
  <1>8. overlapped = FALSE =>
          /\ Alone(editor[e])
          /\ \A f, g \in Editors : Busy(f) /\ Busy(g) => f = g
    BY <1>2 DEF CInv, OneAtATime
  <1>9. QED
    BY <1>1, <1>2, <1>3, <1>4, <1>5, <1>7, <1>8

InPlace(c) == c.mode = "in place"

LEMMA CommitInPlaceKeeps ==
  ASSUME CInv, NEW e \in Editors, Commit(e), InPlace(editor[e])
  PROVE  CInv'
  <1> DEFINE c == editor[e]
             b == c.base
  <1>1. /\ c \in Call /\ Writing(c) /\ b \in DOMAIN versions
        /\ c.ordinal \in Ordinals /\ c.text \in Texts /\ c.draft \in Chapters
        /\ c.draft = Rewritten(versions[b].chapters, c)
    <2>1. c \in Call /\ Writing(c) /\ Ready(c)
      BY CommitCalls
    <2>2. QED
      BY <2>1 DEF Ready, Call, CInv, Drafts, InPlace
  <1>2. /\ versions' = [versions EXCEPT ![b] =
             [@ EXCEPT !.chapters = c.draft, !.raw = FALSE]]
        /\ manuscript' = [manuscript EXCEPT ![c.ordinal] = c.text]
    BY DEF Commit, InPlace
  <1> HIDE DEF c, b
  <1>3. \A v \in DOMAIN versions : versions[v] \in Version
    BY VersionsTyped DEF CInv
  <1>4. /\ versions' \in Seq(Version) /\ DOMAIN versions' = DOMAIN versions
        /\ versions' # <<>>
        /\ \A v \in DOMAIN versions : versions'[v].born = versions[v].born
        /\ \A v \in DOMAIN versions : v # b => versions'[v] = versions[v]
        /\ versions'[b].chapters = c.draft /\ versions'[b].raw = FALSE
    <2> DEFINE new == [versions[b] EXCEPT !.chapters = c.draft, !.raw = FALSE]
    <2>1. versions[b] \in Version
      BY <1>1, <1>3
    <2>2. new \in Version /\ new.born = versions[b].born
          /\ new.chapters = c.draft /\ new.raw = FALSE
      BY <1>1, <2>1 DEF Version
    <2>3. versions' = [versions EXCEPT ![b] = new]
      BY <1>2
    <2> HIDE DEF new
    <2>4. DOMAIN versions = 1..Len(versions) /\ versions \in Seq(Version)
      BY Ids DEF CInv, CorpusTypeOK
    <2>5. /\ versions' \in Seq(Version) /\ Len(versions') = Len(versions)
          /\ \A v \in 1..Len(versions) :
               versions'[v] = IF v = b THEN new ELSE versions[v]
      BY <1>1, <2>2, <2>3, <2>4, ExceptSeq
    <2>6. DOMAIN versions' = DOMAIN versions
      BY <2>3
    <2>7. 1 \in DOMAIN versions'
      BY <2>6, Ids DEF CInv
    <2>8. versions' # <<>>
      <3>1. Len(versions') # 0
        BY <2>4, <2>5, Ids DEF CInv
      <3>2. QED
        BY <3>1, EmptySeq
    <2>9. QED
      BY <1>1, <2>2, <2>4, <2>5, <2>6, <2>8
  <1>5. manuscript' \in Chapters
    BY <1>1, <1>2 DEF Chapters, CInv, CorpusTypeOK
  <1>6. CorpusTypeOK'
    <2>1. /\ editor' \in [Editors -> Call] /\ writer' = "nobody"
          /\ clock' = clock /\ overlapped' = overlapped
          /\ \A f \in Editors : ~Writing(editor'[f])
      BY CommitCalls
    <2>2. QED
      BY <1>4, <1>5, <2>1, CorpusAssumption DEF CInv, CorpusTypeOK, Writing
  <1>7. VersionDates' /\ CallDates'
    <2>1. VersionDates'
      BY <1>4, CommitCalls DEF CInv, VersionDates
    <2>2. \A f \in Editors : Stamped(editor'[f]) =>
            editor'[f] = editor[f] /\ Stamped(editor[f])
      <3>1. ~Stamped(Over)
        BY DEF Stamped, Over, Fresh
      <3>2. QED
        BY <3>1, CommitCalls
    <2>3. clock' = clock
      BY CommitCalls
    <2>4. \A f \in Editors : Stamped(editor[f]) =>
            /\ editor[f].born <= clock
            /\ \A v \in DOMAIN versions' : versions'[v].born # editor[f].born
      BY <1>4 DEF CInv, CallDates
    <2>5. \A f, g \in Editors :
            Stamped(editor[f]) /\ Stamped(editor[g]) /\
            editor[f].born = editor[g].born => f = g
      BY DEF CInv, CallDates
    <2>6. CallDates'
      <3>1. \A f \in Editors : Stamped(editor'[f]) =>
              /\ editor'[f].born <= clock'
              /\ \A v \in DOMAIN versions' : versions'[v].born # editor'[f].born
        BY <2>2, <2>3, <2>4
      <3>2. \A f, g \in Editors :
              Stamped(editor'[f]) /\ Stamped(editor'[g]) /\
              editor'[f].born = editor'[g].born => f = g
        BY <2>2, <2>5
      <3>3. QED
        BY <3>1, <3>2 DEF CallDates, Stamped
    <2>7. QED
      BY <2>1, <2>6
  <1>8. Bases' /\ Drafts'
    <2>1. Bases'
      BY ZenonT(30), <1>4, CommitCalls DEF CInv, Bases, Ready
    <2>2. Drafts'
      BY CommitCalls DEF Drafts
    <2>3. QED
      BY <2>1, <2>2
  <1>9. OneAtATime'
    BY <1>6, CommitCalls DEF OneAtATime, CorpusTypeOK
  <1>10. ManuscriptKept'
    <2>1. SUFFICES ASSUME overlapped = FALSE
                   PROVE  versions'[LatestOf(versions')].chapters = manuscript'
      BY <1>6, CommitCalls DEF ManuscriptKept, CorpusTypeOK
    <2>2. b = LatestOf(versions) /\ versions[b].chapters = manuscript
      BY <2>1, CommitCalls DEF Alone, c, b, CInv, ManuscriptKept, InPlace
    <2>3. \A w \in DOMAIN versions : versions[w].born <= versions[b].born
      BY <2>2, LatestIsLatest DEF CInv, VersionDates
    <2>4. \A w \in DOMAIN versions' : w # b => versions'[w].born < versions'[b].born
      <3>1. \A w \in DOMAIN versions : versions[w].born \in Nat
        BY VersionsTyped DEF CInv
      <3>2. \A w \in DOMAIN versions : w # b => versions[w].born # versions[b].born
        BY <1>1 DEF CInv, VersionDates
      <3>3. ASSUME NEW w \in DOMAIN versions, w # b
            PROVE  versions[w].born < versions[b].born
        <4>1. /\ versions[w].born \in Nat /\ versions[b].born \in Nat
              /\ versions[w].born <= versions[b].born
              /\ versions[w].born # versions[b].born
          BY <1>1, <2>3, <3>1, <3>2, <3>3
        <4>2. QED
          BY <4>1
      <3>4. QED
        BY <1>1, <1>4, <3>3
    <2>5. LatestOf(versions') = b
      BY <1>1, <1>4, <2>4, LatestIsUnique
    <2>6. QED
      BY <1>1, <1>2, <1>4, <2>2, <2>5 DEF Rewritten
  <1>11. ImportedOnce'
    BY <1>4, CommitCalls DEF CInv, ImportedOnce
  <1>12. QED
    BY <1>6, <1>7, <1>8, <1>9, <1>10, <1>11 DEF CInv

LEMMA CommitNewKeeps ==
  ASSUME CInv, NEW e \in Editors, Commit(e), ~InPlace(editor[e])
  PROVE  CInv'
  <1> DEFINE c == editor[e]
             new == [chapters |-> c.draft, born |-> c.born, raw |-> c.mode = "import"]
             n == Len(versions) + 1
  <1>1. c \in Call /\ Stamped(c) /\ Writing(c) /\ Ready(c)
    BY CommitCalls DEF Stamped, Writing, InPlace
  <1>2. /\ versions' = Append(versions, new)
        /\ manuscript' = IF c.mode = "import" THEN c.draft
                         ELSE [manuscript EXCEPT ![c.ordinal] = c.text]
    BY DEF Commit, InPlace
  <1>3. new \in Version /\ new.born = c.born /\ new.chapters = c.draft
    BY <1>1 DEF Version, Call
  <1>4. new.raw <=> c.mode = "import"
    OBVIOUS
  <1>5. /\ c.born \in Nat /\ c.draft \in Chapters /\ c.born <= clock
        /\ \A v \in DOMAIN versions : versions[v].born # c.born
    BY <1>1 DEF Call, CInv, CallDates
  <1> HIDE DEF c, new
  <1>6. /\ versions' \in Seq(Version) /\ versions' # <<>>
        /\ DOMAIN versions' = DOMAIN versions \cup {n}
        /\ n \notin DOMAIN versions /\ n \in DOMAIN versions'
        /\ versions'[n] = new
        /\ \A v \in DOMAIN versions : versions'[v] = versions[v]
    <2>1. versions \in Seq(Version) /\ Len(versions) \in Nat
          /\ DOMAIN versions = 1..Len(versions)
      BY Ids DEF CInv, CorpusTypeOK
    <2>2. /\ Append(versions, new) \in Seq(Version) /\ Append(versions, new) # <<>>
          /\ Len(Append(versions, new)) = Len(versions) + 1
          /\ Append(versions, new)[Len(versions) + 1] = new
          /\ \A v \in 1..Len(versions) : Append(versions, new)[v] = versions[v]
      BY <1>3, <2>1, AppendProperties
    <2>3. DOMAIN versions' = 1..n
      BY <1>2, <2>2, LenProperties
    <2>4. /\ 1..n = (1..Len(versions)) \cup {n}
          /\ n \notin 1..Len(versions)
      BY <2>1
    <2>5. QED
      BY <1>2, <2>1, <2>2, <2>3, <2>4
  <1> HIDE DEF n
  <1>7. \A v \in DOMAIN versions :
          versions[v].born \in Nat /\ versions'[v].born = versions[v].born
    BY <1>6, VersionsTyped DEF CInv
  <1>8. CorpusTypeOK'
    <2>1. /\ editor' \in [Editors -> Call] /\ writer' = "nobody"
          /\ clock' = clock /\ overlapped' = overlapped
          /\ \A f \in Editors : ~Writing(editor'[f])
      BY CommitCalls
    <2>2. manuscript' \in Chapters
      <3>1. c.mode # "import" => c.ordinal \in Ordinals /\ c.text \in Texts
        BY <1>1 DEF Ready
      <3>2. QED
        BY <1>2, <1>5, <3>1 DEF Chapters, CInv, CorpusTypeOK
    <2>3. QED
      BY <1>6, <2>1, <2>2, CorpusAssumption DEF CInv, CorpusTypeOK, Writing
  <1>9. VersionDates'
    <2>1. \E v \in DOMAIN versions' :
            \A w \in DOMAIN versions' : versions'[w].born <= versions'[v].born
      <3>1. PICK v \in DOMAIN versions :
              \A w \in DOMAIN versions : versions[w].born <= versions[v].born
        BY DEF CInv, VersionDates
      <3>2. CASE versions[v].born <= c.born
        <4>1. \A w \in DOMAIN versions' : versions'[w].born <= versions'[n].born
          BY <1>3, <1>5, <1>6, <1>7, <3>1, <3>2
        <4>2. QED
          BY <1>6, <4>1
      <3>3. CASE c.born <= versions[v].born
        <4>1. \A w \in DOMAIN versions' : versions'[w].born <= versions'[v].born
          BY <1>3, <1>5, <1>6, <1>7, <3>1, <3>3
        <4>2. QED
          BY <1>6, <4>1
      <3>4. QED
        BY <1>5, <1>7, <3>2, <3>3
    <2>2. \A v \in DOMAIN versions' : versions'[v].born <= clock'
      <3>1. clock' = clock
        BY CommitCalls
      <3>2. \A v \in DOMAIN versions : versions'[v].born <= clock
        BY <1>7 DEF CInv, VersionDates
      <3>3. versions'[n].born <= clock
        BY <1>3, <1>5, <1>6
      <3>4. QED
        BY <1>6, <3>1, <3>2, <3>3, Zenon
    <2>3. \A v, w \in DOMAIN versions' : versions'[v].born = versions'[w].born => v = w
      BY <1>3, <1>5, <1>6, <1>7 DEF CInv, VersionDates
    <2>4. QED
      BY <2>1, <2>2, <2>3 DEF VersionDates
  <1>10. CallDates'
    <2>1. \A f \in Editors : Stamped(editor'[f]) =>
            f # e /\ editor'[f] = editor[f] /\ Stamped(editor[f])
      <3>1. ~Stamped(Over)
        BY DEF Stamped, Over, Fresh
      <3>2. QED
        BY <3>1, CommitCalls
    <2>2. \A f \in Editors : f # e /\ Stamped(editor[f]) => editor[f].born # c.born
      BY <1>1 DEF CInv, CallDates, c
    <2>3. \A f \in Editors : f # e /\ Stamped(editor[f]) =>
            \A v \in DOMAIN versions' : versions'[v].born # editor[f].born
      BY <1>3, <1>6, <1>7, <2>2 DEF CInv, CallDates
    <2>4. clock' = clock
      BY CommitCalls
    <2>5. QED
      BY <2>1, <2>3, <2>4 DEF CInv, CallDates
  <1>11. Bases' /\ Drafts'
    <2>1. Bases'
      BY <1>6, CommitCalls DEF CInv, Bases, Ready
    <2>2. Drafts'
      BY CommitCalls DEF Drafts
    <2>3. QED
      BY <2>1, <2>2
  <1>12. OneAtATime'
    BY <1>8, CommitCalls DEF OneAtATime, CorpusTypeOK
  <1>13. overlapped = FALSE => Alone(c)
    BY CommitCalls DEF c
  <1>14. ManuscriptKept'
    <2>1. SUFFICES ASSUME overlapped = FALSE
                   PROVE  versions'[LatestOf(versions')].chapters = manuscript'
      BY <1>8, CommitCalls DEF ManuscriptKept, CorpusTypeOK
    <2>2. \A v \in DOMAIN versions : versions[v].born < c.born
      BY <1>1, <1>13, <2>1 DEF Alone
    <2>3. \A w \in DOMAIN versions' : w # n => versions'[w].born < versions'[n].born
      BY <1>3, <1>6, <1>7, <2>2
    <2>4. LatestOf(versions') = n
      BY <1>6, <2>3, LatestIsUnique
    <2>5. c.mode = "clone" => c.draft = Rewritten(manuscript, c)
      BY <1>1, <1>13, <2>1 DEF Alone
    <2>6. c.mode \in {"clone", "import"}
      BY <1>1 DEF Call, Mode, c, InPlace
    <2>7. QED
      BY <1>2, <1>3, <1>6, <2>4, <2>5, <2>6 DEF Rewritten
  <1>15. ImportedOnce'
    <2>1. SUFFICES ASSUME overlapped = FALSE
                   PROVE  \A v, w \in DOMAIN versions' :
                            versions'[v].raw /\ versions'[w].raw /\
                            versions'[v].chapters = versions'[w].chapters => v = w
      BY <1>8, CommitCalls DEF ImportedOnce, CorpusTypeOK
    <2>2. \A v, w \in DOMAIN versions :
            versions[v].raw /\ versions[w].raw /\
            versions[v].chapters = versions[w].chapters => v = w
      BY <2>1 DEF CInv, ImportedOnce
    <2>3. new.raw => \A v \in DOMAIN versions :
            ~(versions[v].raw /\ versions[v].chapters = new.chapters)
      BY <1>3, <1>4, <1>13, <2>1 DEF Alone, Unknown
    <2>4. QED
      BY <1>6, <2>2, <2>3
  <1>16. QED
    BY <1>8, <1>9, <1>10, <1>11, <1>12, <1>14, <1>15 DEF CInv

-------------------------------------------------------------------------------
LEMMA StutterKeeps == CInv /\ UNCHANGED corpusVars => CInv'
  <1> SUFFICES ASSUME CInv, UNCHANGED corpusVars PROVE CInv'
    OBVIOUS
  <1>1. /\ versions' = versions /\ clock' = clock /\ writer' = writer
        /\ editor' = editor /\ manuscript' = manuscript /\ overlapped' = overlapped
    BY DEF corpusVars
  <1>2. CorpusTypeOK' /\ VersionDates' /\ CallDates'
    BY <1>1 DEF CInv, CorpusTypeOK, VersionDates, CallDates
  <1>3. Bases' /\ Drafts' /\ OneAtATime'
    BY <1>1 DEF CInv, Bases, Drafts, OneAtATime, Busy, Alone, Unknown, Ready
  <1>4. ManuscriptKept' /\ ImportedOnce'
    BY <1>1 DEF CInv, ManuscriptKept, ImportedOnce
  <1>5. QED
    BY <1>2, <1>3, <1>4 DEF CInv

LEMMA NextKeeps == CInv /\ [CorpusNext]_corpusVars => CInv'
  <1> SUFFICES ASSUME CInv, [CorpusNext]_corpusVars PROVE CInv'
    OBVIOUS
  <1>1. ASSUME NEW e \in Editors, EditorStep(e) \/ ClearCache(e) \/ Commit(e)
        PROVE  CInv'
    <2>1. CASE ReadUpdate(e)
      BY <2>1, ReadUpdateKeeps
    <2>2. CASE ReadImport(e)
      BY <2>2, ReadImportKeeps
    <2>3. CASE Stamp(e)
      BY <2>3, StampKeeps
    <2>4. CASE InsertVersion(e) \/ WriteInPlace(e)
      BY <2>4, TakeLockKeeps
    <2>5. CASE RollBack(e)
      BY <2>5, RollBackKeeps
    <2>6. CASE ClearCache(e)
      BY <2>6, ClearCacheKeeps
    <2>7. CASE Commit(e)
      BY <2>7, CommitInPlaceKeeps, CommitNewKeeps
    <2>8. QED
      BY <1>1, <2>1, <2>2, <2>3, <2>4, <2>5, <2>6, <2>7 DEF EditorStep
  <1>2. QED
    BY <1>1, StutterKeeps DEF CorpusNext

(* The inductive invariant holds in every behaviour.                       *)
THEOREM CorpusInvariant == CorpusSpec => []CInv
  BY InitCInv, NextKeeps, PTL DEF CorpusSpec

(* Types; and the write lock is held exactly by the call that has written  *)
(* and neither committed nor rolled back.                                  *)
THEOREM CorpusTypes == CorpusSpec => []CorpusTypeOK
  <1>1. CInv => CorpusTypeOK
    BY DEF CInv
  <1>2. QED
    BY <1>1, CorpusInvariant, PTL

(* update_chapter and import_target_work, one call at a time: the latest   *)
(* version is every committed edit applied in turn.                        *)
THEOREM EditsAreKept == CorpusSpec => []ManuscriptKept
  <1>1. CInv => ManuscriptKept
    BY DEF CInv
  <1>2. QED
    BY <1>1, CorpusInvariant, PTL

(* import_target_work, one call at a time: no work is imported twice.      *)
THEOREM ImportsAreIdempotent == CorpusSpec => []ImportedOnce
  <1>1. CInv => ImportedOnce
    BY DEF CInv
  <1>2. QED
    BY <1>1, CorpusInvariant, PTL

(* Overlapping or not, a step changes at most one chapter of a version that *)
(* exists and takes none away: an edit in place writes, under the lock, the *)
(* version as it then is.                                                  *)
EditComposes ==
  \A v \in DOMAIN versions :
    /\ \A o \in Ordinals : Present(versions[v].chapters, o) =>
                            Present(versions'[v].chapters, o)
    /\ \A o, p \in Ordinals :
         /\ versions'[v].chapters[o] # versions[v].chapters[o]
         /\ versions'[v].chapters[p] # versions[v].chapters[p]
         => o = p

LEMMA StepComposes == CInv /\ [CorpusNext]_corpusVars => EditComposes
  <1> SUFFICES ASSUME CInv, [CorpusNext]_corpusVars PROVE EditComposes
    OBVIOUS
  <1>1. ASSUME versions' = versions PROVE EditComposes
    BY <1>1 DEF EditComposes
  <1>2. ASSUME NEW e \in Editors, Commit(e) PROVE EditComposes
    <2> DEFINE c == editor[e]
    <2>1. c \in Call /\ Writing(c) /\ Ready(c)
      BY <1>2, CommitCalls
    <2>2. CASE InPlace(c)
      <3>1. /\ c.draft = Rewritten(versions[c.base].chapters, c)
            /\ c.base \in DOMAIN versions /\ c.ordinal \in Ordinals /\ c.text \in Texts
        BY <2>1, <2>2 DEF CInv, Drafts, Ready, InPlace
      <3>2. versions' = [versions EXCEPT ![c.base] =
                           [@ EXCEPT !.chapters = c.draft, !.raw = FALSE]]
        BY <1>2, <2>2 DEF Commit, InPlace
      <3>3. /\ versions[c.base] \in Version
            /\ versions[c.base].chapters \in Chapters
        BY <3>1, VersionsTyped DEF CInv
      <3>4. \A o \in Ordinals : c.draft[o] =
              IF o = c.ordinal THEN c.text ELSE versions[c.base].chapters[o]
        BY <2>1, <3>1, <3>3, RewrittenType
      <3>5. /\ versions'[c.base].chapters = c.draft
            /\ \A v \in DOMAIN versions : v # c.base => versions'[v] = versions[v]
        BY <3>1, <3>2, <3>3 DEF Version
      <3>6. c.text # NoText
        BY <3>1, CorpusAssumption
      <3>7. QED
        BY <3>4, <3>5, <3>6 DEF EditComposes, Present
    <2>3. CASE ~InPlace(c)
      <3> DEFINE new == [chapters |-> c.draft, born |-> c.born,
                         raw |-> c.mode = "import"]
      <3>1. new \in Version
        BY <2>1 DEF Version, Call
      <3>2. versions' = Append(versions, new)
        BY <1>2, <2>3 DEF Commit, InPlace
      <3> HIDE DEF new
      <3>3. versions \in Seq(Version) /\ DOMAIN versions = 1..Len(versions)
        BY Ids DEF CInv, CorpusTypeOK
      <3>4. \A v \in DOMAIN versions : versions'[v] = versions[v]
        BY <3>1, <3>2, <3>3, AppendProperties
      <3>5. QED
        BY <3>4 DEF EditComposes
    <2>4. QED
      BY <2>2, <2>3
  <1>3. QED
    BY <1>1, <1>2 DEF CorpusNext, EditorStep, corpusVars, ReadUpdate, ReadImport,
       Begin, Stamp, InsertVersion, WriteInPlace, RollBack, ClearCache

THEOREM OverlappingEditsCompose == CorpusSpec => EditsCompose
  <1>1. CInv /\ [CorpusNext]_corpusVars => [EditComposes]_versions
    BY StepComposes
  <1>2. QED
    BY <1>1, CorpusInvariant, PTL DEF CorpusSpec, EditsCompose, EditComposes

-----------------------------------------------------------------------------
(* Forecasts over it.                                                        *)

(* A forecast step never writes a version, and the editors write them as   *)
(* module Corpus says: the composition implements the corpus.              *)
THEOREM ForecastRefinesCorpus == Spec => CorpusSpec
  <1>1. Init => CorpusInit
    BY DEF Init
  <1>2. [Next]_vars => [CorpusNext]_corpusVars
    <2>1. ASSUME NEW e \in Editors,
                 EditorStep(e) \/ DropIndexes(e) \/ DropElsewhere(e) \/ CommitEdit(e)
          PROVE  CorpusNext
      BY <2>1 DEF CorpusNext, DropIndexes, DropElsewhere, CommitEdit
    <2>2. ASSUME NEW r \in Readers, ReaderStep(r) PROVE UNCHANGED corpusVars
      BY <2>2 DEF ReaderStep, Resolve, BuildContext, SearchHit, SearchMiss,
         PutIndex, TakeResults, SkipSearch, StartRun, Answer, Complete,
         AnswerFails, RecordFailure, GiveUp, Keep
    <2>3. UNCHANGED vars => UNCHANGED corpusVars
      BY DEF vars, corpusVars
    <2>4. QED
      BY <2>1, <2>2, <2>3 DEF Next
  <1>3. QED
    BY <1>1, <1>2, PTL DEF Spec, CorpusSpec

-------------------------------------------------------------------------------
(* Scenes, their numbers and the boundary.                                 *)

LEMMA PlacesFinite == IsFiniteSet(Places)
  <1>1. IsFiniteSet(1..LastChapter) /\ IsFiniteSet(1..MaxParts)
    BY FS_Interval, CorpusAssumption
  <1>2. QED
    BY <1>1, FS_Product DEF Places, Ordinals

LEMMA UpToFinite ==
  ASSUME NEW chs, NEW p
  PROVE  /\ IsFiniteSet({q \in Scenes(chs) : NotAfter(q, p)})
         /\ IsFiniteSet(Scenes(chs))
  <1>1. Scenes(chs) \subseteq Places
    BY DEF Scenes
  <1>2. {q \in Scenes(chs) : NotAfter(q, p)} \subseteq Places
    BY <1>1
  <1>3. QED
    BY <1>1, <1>2, PlacesFinite, FS_Subset

LEMMA SeqIsNat == \A chs, p : DiscourseSeq(chs, p) \in Nat
  BY UpToFinite, FS_CardinalityType DEF DiscourseSeq

(* A scene of a later chapter has a higher number than any earlier place.  *)
LEMMA LaterIsHigher ==
  ASSUME NEW chs, NEW l \in Places, NEW p \in Scenes(chs), l[1] < p[1]
  PROVE  DiscourseSeq(chs, l) < DiscourseSeq(chs, p)
  <1> DEFINE A == {q \in Scenes(chs) : NotAfter(q, l)}
             B == {q \in Scenes(chs) : NotAfter(q, p)}
  <1>1. \A q \in Scenes(chs) : q[1] \in Nat /\ q[2] \in Nat
    BY DEF Scenes, Places, Ordinals
  <1>2. l[1] \in Nat /\ p[1] \in Nat /\ l[2] \in Nat /\ p[2] \in Nat
    BY DEF Scenes, Places, Ordinals
  <1>3. A \subseteq B
    BY <1>1, <1>2 DEF NotAfter
  <1>4. p \in B /\ p \notin A
    BY <1>1, <1>2 DEF NotAfter
  <1>5. IsFiniteSet(B)
    BY UpToFinite
  <1> HIDE DEF A, B
  <1>6. Cardinality(A) < Cardinality(B)
    <2>1. /\ IsFiniteSet(A) /\ Cardinality(A) <= Cardinality(B)
          /\ Cardinality(B) = Cardinality(A) => A = B
      BY <1>3, <1>5, FS_Subset
    <2>2. Cardinality(A) \in Nat /\ Cardinality(B) \in Nat
      BY <1>5, <2>1, FS_CardinalityType
    <2>3. A # B
      BY <1>4
    <2>4. QED
      BY <2>1, <2>2, <2>3
  <1>7. QED
    BY <1>6 DEF DiscourseSeq, A, B

LEMMA EligibleType ==
  ASSUME NEW chs \in Chapters, NEW n
  PROVE  Eligible(chs, n) \subseteq Entries
  <1>1. ASSUME NEW p \in Scenes(chs) PROVE Entry(chs, p) \in Entries
    <2>1. p[1] \in Ordinals /\ p[2] \in 1..MaxParts /\ p[2] <= SceneCount[chs[p[1]]]
      BY DEF Scenes, Places
    <2>2. SceneCount[chs[p[1]]] # 0
      <3>1. SceneCount[chs[p[1]]] \in Nat
        BY <2>1, CorpusAssumption DEF Chapters
      <3>2. QED
        BY <2>1, <3>1
    <2>3. chs[p[1]] \in Texts
      BY <2>1, <2>2, CorpusAssumption DEF Chapters
    <2>4. QED
      BY <2>1, <2>3, SeqIsNat DEF Entry, Entries
  <1>2. QED
    BY <1>1 DEF Eligible

LEMMA CutoffType ==
  ASSUME NEW chs, NEW req \in Requests, Resolvable(chs, req)
  PROVE  Cutoff(chs, req) \in Nat
  <1>1. req.n \in Nat
    BY DEF Requests
  <1>2. Cardinality(Scenes(chs)) \in Nat
    BY UpToFinite, FS_CardinalityType
  <1>3. QED
    BY <1>1, <1>2, SeqIsNat DEF Cutoff

(* The scenes up to the boundary of a chapter that has scenes.             *)
LEMMA NoLaterChapter ==
  ASSUME NEW chs \in Chapters, NEW req \in Requests,
         req.by = "chapter", Present(chs, req.n), SceneCount[chs[req.n]] > 0,
         NEW s \in Eligible(chs, Cutoff(chs, req))
  PROVE  s.chapter <= req.n
  <1> DEFINE n == req.n
             l == <<n, SceneCount[chs[n]]>>
  <1>1. n \in Ordinals /\ n \in Nat
    BY DEF Present, Ordinals
  <1>2. SceneCount[chs[n]] \in 0..MaxParts
    BY <1>1, CorpusAssumption DEF Chapters
  <1>3. l \in Places
    BY <1>1, <1>2 DEF Places
  <1>4. Cutoff(chs, req) = DiscourseSeq(chs, l)
    BY <1>2 DEF Cutoff
  <1>5. PICK p \in Scenes(chs) :
          s = Entry(chs, p) /\ DiscourseSeq(chs, p) <= DiscourseSeq(chs, l)
    BY <1>4 DEF Eligible
  <1>6. s.chapter = p[1] /\ p[1] \in Nat
    BY <1>5 DEF Entry, Scenes, Places, Ordinals
  <1>7. ~(n < p[1])
    <2>1. n < p[1] => DiscourseSeq(chs, l) < DiscourseSeq(chs, p)
      BY <1>3, LaterIsHigher
    <2>2. DiscourseSeq(chs, l) \in Nat /\ DiscourseSeq(chs, p) \in Nat
      BY SeqIsNat
    <2>3. QED
      BY <1>5, <2>1, <2>2
  <1>8. QED
    BY <1>1, <1>6, <1>7

-------------------------------------------------------------------------------
(* The inductive invariant.  q is the request of reader r.  As long as the *)
(* version it resolved was not edited under it, its boundary is that       *)
(* version's, and what it holds and shows lies within the boundary.        *)

InFlight(q) == q.stage \notin {"new", "done"}
SealedAs(r, q) == r \notin drifted /\ q.ver \notin outdated
Reach(q) == Eligible(versions[q.ver].chapters, q.cutoff)

Anchored(q) == InFlight(q) => q.ver \in DOMAIN versions

Bounded(r, q) ==
  InFlight(q) /\ SealedAs(r, q) /\ q.ask.by = "chapter" =>
    /\ Present(versions[q.ver].chapters, q.ask.n)
    /\ q.cutoff = Cutoff(versions[q.ver].chapters, q.ask)

Shown(r, q) ==
  /\ InFlight(q) /\ SealedAs(r, q) => q.prompt \subseteq Reach(q)
  /\ q.stage = "new" => q.prompt = {}

InHand(r, q) ==
  /\ q.stage = "missed" /\ q.ver \notin outdated => q.scenes = Reach(q)
  /\ q.stage = "found" /\ SealedAs(r, q) => q.scenes \subseteq Reach(q)

MoreQueries(q) ==
  q.stage \in {"missed", "found"} /\ q.after = "threads" => q.queries < MaxQueries

Vouched(q) ==
  /\ q.sources \subseteq q.prompt
  /\ q.stage = "answered" /\ q.answer.status = "passed" =>
       q.answer.cites \subseteq Seqs(q.sources)

Fits(r, q) == /\ Anchored(q) /\ Bounded(r, q) /\ Shown(r, q)
              /\ InHand(r, q) /\ MoreQueries(q) /\ Vouched(q)

Row(q, row) ==
  /\ q.stage # "done" => row.stored = {}
  /\ (row.stored # {}) <=> (row.status = "COMPLETED")
  /\ \A c \in row.stored : c.status = "passed" => c.cites \subseteq Seqs(q.prompt)

AllFit == \A r \in Readers : Fits(r, reader[r])
Rows == \A r \in Readers : Row(reader[r], run[r])

CacheKnown == \A i \in cache : i.ver \in DOMAIN versions

(* About to commit an edit in place: no index of the version is left.      *)
CacheDropped ==
  \A e \in Editors :
    editor[e].pc = "cleared" /\ InPlace(editor[e]) /\ editor[e].base \notin outdated =>
      \A i \in cache : i.ver # editor[e].base

FInv == /\ CInv /\ TypeOK /\ AllFit /\ Rows
        /\ CacheKnown /\ CacheDropped /\ IndexFresh

-------------------------------------------------------------------------------
LEMMA IdleFits ==
  ASSUME NEW r, NEW q, q.stage \in {"new", "done"}, q.sources = {},
         q.stage = "new" => q.prompt = {}
  PROVE  Fits(r, q)
  BY DEF Fits, InFlight, Anchored, Bounded, Shown, InHand, MoreQueries, Vouched

LEMMA EndedType ==
  ASSUME NEW S \in SUBSET Entries
  PROVE  /\ Ended(S) \in Request /\ Ended(S).stage = "done"
         /\ Ended(S).prompt = S /\ Ended(S).sources = {}
         /\ [Ended(S) EXCEPT !.stage = "new"] \in Request
         /\ [Ended(S) EXCEPT !.stage = "new"].stage = "new"
         /\ [Ended(S) EXCEPT !.stage = "new"].sources = {}
         /\ [Ended(S) EXCEPT !.stage = "new"].prompt = S
  <1>1. SomeAsk \in Asks
    BY ForecastAssumption DEF SomeAsk
  <1>2. NoCandidate \in Candidate
    BY DEF NoCandidate, Candidate, Verdict
  <1>3. 0 \in 0..MaxQueries
    BY ForecastAssumption
  <1>4. QED
    BY <1>1, <1>2, <1>3 DEF Ended, Request, Stage

LEMMA InitFInv == Init => FInv
  <1> SUFFICES ASSUME Init PROVE FInv
    OBVIOUS
  <1> DEFINE fresh == [Ended({}) EXCEPT !.stage = "new"]
             none == [status |-> "NONE", stored |-> {}]
  <1>1. /\ CInv /\ cache = {} /\ drifted = {} /\ outdated = {}
        /\ reader = [r \in Readers |-> fresh] /\ run = [r \in Readers |-> none]
    BY InitCInv DEF Init
  <1>2. /\ fresh \in Request /\ fresh.stage = "new"
        /\ fresh.sources = {} /\ fresh.prompt = {}
    BY EndedType
  <1>3. none \in Run /\ none.stored = {} /\ none.status = "NONE"
    BY DEF Run
  <1> HIDE DEF fresh, none
  <1>4. TypeOK
    BY <1>1, <1>2, <1>3 DEF TypeOK, CInv
  <1>5. AllFit
    BY <1>1, <1>2, IdleFits DEF AllFit
  <1>6. Rows
    BY <1>1, <1>3 DEF Rows, Row
  <1>7. CacheKnown /\ CacheDropped /\ IndexFresh
    BY <1>1 DEF CacheKnown, CacheDropped, IndexFresh
  <1>8. QED
    BY <1>1, <1>4, <1>5, <1>6, <1>7 DEF FInv

-------------------------------------------------------------------------------
(* Steps of one reader.                                                    *)

Steady ==
  /\ versions' = versions /\ clock' = clock /\ writer' = writer
  /\ editor' = editor /\ manuscript' = manuscript /\ overlapped' = overlapped
  /\ drifted' = drifted /\ outdated' = outdated

(* Reader r's request becomes q, and its row in runs row.                  *)
Moves(r, q, row) ==
  /\ reader' = [reader EXCEPT ![r] = q]
  /\ run' = [run EXCEPT ![r] = row]

LEMMA MovesKeep ==
  ASSUME FInv, NEW r \in Readers, NEW q \in Request, NEW row \in Run,
         Moves(r, q, row), Fits(r, q), Row(q, row),
         versions' = versions, drifted' = drifted, outdated \subseteq outdated'
  PROVE  /\ reader' \in [Readers -> Request] /\ run' \in [Readers -> Run]
         /\ AllFit' /\ Rows'
  <1>1. /\ reader' \in [Readers -> Request] /\ run' \in [Readers -> Run]
        /\ reader'[r] = q /\ run'[r] = row
        /\ \A t \in Readers : t # r => reader'[t] = reader[t] /\ run'[t] = run[t]
    BY DEF Moves, FInv, TypeOK
  <1>2. \A t \in Readers : Fits(t, reader'[t])
    BY <1>1 DEF FInv, AllFit
  <1>3. ASSUME NEW t \in Readers PROVE Fits(t, reader[t])'
    <2> DEFINE p == reader'[t]
    <2>1. Fits(t, p)
      BY <1>2
    <2>2. SealedAs(t, p) \/ ~(t \notin drifted' /\ p.ver \notin outdated')
      BY DEF SealedAs
    <2>3. QED
      BY <2>1, <2>2 DEF Fits, SealedAs, InFlight, Anchored, Bounded, Shown,
         InHand, MoreQueries, Vouched, Reach
  <1>4. \A t \in Readers : Row(reader'[t], run'[t])
    BY <1>1 DEF FInv, Rows
  <1>5. QED
    BY <1>1, <1>3, <1>4 DEF AllFit, Rows, Row

(* A step that reads the corpus and the cache and writes neither.          *)
LEMMA ReaderKeeps ==
  ASSUME FInv, NEW r \in Readers, NEW q \in Request, NEW row \in Run,
         Steady, cache' = cache, Moves(r, q, row), Fits(r, q), Row(q, row)
  PROVE  FInv'
  <1>1. /\ versions' = versions /\ clock' = clock /\ writer' = writer
        /\ editor' = editor /\ manuscript' = manuscript /\ overlapped' = overlapped
        /\ drifted' = drifted /\ outdated' = outdated
    BY DEF Steady
  <1>2. CInv'
    BY <1>1, StutterKeeps DEF FInv, corpusVars
  <1>3. /\ reader' \in [Readers -> Request] /\ run' \in [Readers -> Run]
        /\ AllFit' /\ Rows'
    BY <1>1, MovesKeep
  <1>4. TypeOK'
    BY <1>1, <1>2, <1>3 DEF FInv, TypeOK, CInv
  <1>5. CacheKnown' /\ CacheDropped' /\ IndexFresh'
    BY <1>1 DEF FInv, CacheKnown, CacheDropped, IndexFresh, InPlace
  <1>6. QED
    BY <1>2, <1>3, <1>4, <1>5 DEF FInv

LEMMA KeepIsSteady == Keep => Steady
  BY DEF Keep, Steady, corpusVars

LEMMA Typed ==
  ASSUME FInv, NEW r \in Readers
  PROVE  /\ reader[r] \in Request /\ run[r] \in Run
         /\ Fits(r, reader[r]) /\ Row(reader[r], run[r])
         /\ reader \in [Readers -> Request] /\ run \in [Readers -> Run]
         /\ InFlight(reader[r]) =>
              reader[r].ver \in DOMAIN versions /\ Chs(r) \in Chapters
  <1>1. /\ reader[r] \in Request /\ run[r] \in Run
        /\ Fits(r, reader[r]) /\ Row(reader[r], run[r])
        /\ reader \in [Readers -> Request] /\ run \in [Readers -> Run]
    BY DEF FInv, TypeOK, AllFit, Rows
  <1>2. InFlight(reader[r]) => reader[r].ver \in DOMAIN versions
    BY <1>1 DEF Fits, Anchored
  <1>3. QED
    BY <1>1, <1>2, VersionsTyped DEF Chs, FInv, CInv

(* A step that leaves the row of the run alone.                            *)
LEMMA SameRow ==
  ASSUME FInv, NEW r \in Readers, NEW q, reader[r].stage # "done",
         reader' = [reader EXCEPT ![r] = q], run' = run
  PROVE  Moves(r, q, run[r]) /\ Row(q, run[r])
  <1>1. run' = [run EXCEPT ![r] = run[r]]
    BY Typed
  <1>2. run[r].stored = {} /\ run[r].status # "COMPLETED"
    BY Typed DEF Row
  <1>3. QED
    BY <1>1, <1>2 DEF Moves, Row

LEMMA ResolveKeeps ==
  ASSUME FInv, NEW r \in Readers, Resolve(r)
  PROVE  FInv'
  <1> DEFINE v == LatestOf(versions)
             chs == versions[v].chapters
             first == IF r \in Searchers THEN "excerpts" ELSE "resolved"
             q(ask) == [reader[r] EXCEPT !.stage = first, !.ask = ask,
                          !.ver = v, !.cutoff = Cutoff(chs, ask)]
  <1>1. PICK ask \in Asks :
          /\ reader[r].stage = "new" /\ Resolvable(chs, ask)
          /\ reader' = [reader EXCEPT ![r] = q(ask)]
          /\ cache' = cache /\ run' = run /\ Keep
    BY DEF Resolve, Goto
  <1> DEFINE p == q(ask)
  <1>2. reader[r] \in Request /\ Fits(r, reader[r])
    BY Typed
  <1>3. v \in DOMAIN versions /\ v \in Nat
    <2>1. v \in DOMAIN versions
      BY LatestIsLatest DEF FInv, CInv, VersionDates
    <2>2. QED
      BY <2>1, Ids DEF FInv, CInv
  <1>4. ask \in Requests /\ Cutoff(chs, ask) \in Nat
    BY <1>1, CutoffType, ForecastAssumption
  <1>5. first \in {"excerpts", "resolved"}
    OBVIOUS
  <1> HIDE DEF first, v
  <1>6. /\ p \in Request
        /\ p.stage = first /\ p.ask = ask /\ p.ver = v
        /\ p.cutoff = Cutoff(chs, ask)
        /\ p.prompt = reader[r].prompt /\ p.sources = reader[r].sources
    BY <1>1, <1>2, <1>3, <1>4, <1>5 DEF Request, Stage
  <1>7. reader[r].prompt = {} /\ reader[r].sources = {}
    BY <1>1, <1>2 DEF Fits, Shown, Vouched
  <1>8. Fits(r, p)
    <2>1. Anchored(p) /\ Shown(r, p)
      BY <1>3, <1>5, <1>6, <1>7 DEF Anchored, Shown
    <2>2. Bounded(r, p)
      BY <1>1, <1>6 DEF Bounded, Resolvable
    <2>3. InHand(r, p) /\ MoreQueries(p) /\ Vouched(p)
      BY <1>5, <1>6, <1>7 DEF InHand, MoreQueries, Vouched
    <2>4. QED
      BY <2>1, <2>2, <2>3 DEF Fits
  <1> HIDE DEF p
  <1>9. /\ reader[r].stage # "done"
        /\ reader' = [reader EXCEPT ![r] = p]
        /\ cache' = cache /\ run' = run /\ Steady
    BY <1>1, KeepIsSteady DEF p
  <1>10. QED
    BY <1>6, <1>8, <1>9, SameRow, ReaderKeeps, Typed

(* A step within one version: what the request holds and shows may change. *)
LEMMA FitsOn ==
  ASSUME NEW r, NEW q, NEW p, Fits(r, q), InFlight(q), InFlight(p),
         p.stage # "new", p.ver = q.ver, p.cutoff = q.cutoff, p.ask = q.ask,
         SealedAs(r, q) => p.prompt \subseteq Reach(q),
         InHand(r, p), MoreQueries(p), Vouched(p)
  PROVE  Fits(r, p)
  <1>1. (SealedAs(r, p) <=> SealedAs(r, q)) /\ Reach(p) = Reach(q)
    BY DEF SealedAs, Reach
  <1>2. Anchored(p) /\ Bounded(r, p)
    BY <1>1 DEF Fits, Anchored, Bounded
  <1>3. Shown(r, p)
    BY <1>1 DEF Shown
  <1>4. QED
    BY <1>2, <1>3 DEF Fits

LEMMA BuildContextKeeps ==
  ASSUME FInv, NEW r \in Readers, BuildContext(r)
  PROVE  FInv'
  <1> DEFINE q == reader[r]
             recent(n) == Newest(Eligible(Chs(r), q.cutoff), n)
             p(n) == [q EXCEPT !.stage = "threads",
                        !.sources = recent(n), !.prompt = recent(n)]
  <1>1. PICK n \in 1..MaxScenes :
          /\ q.stage = "resolved" /\ reader' = [reader EXCEPT ![r] = p(n)]
          /\ cache' = cache /\ run' = run /\ Keep
    BY DEF BuildContext, Goto
  <1> DEFINE R == recent(n)
             b == p(n)
  <1>2. q \in Request /\ Fits(r, q) /\ InFlight(q) /\ Chs(r) \in Chapters
    BY <1>1, Typed DEF InFlight
  <1>3. R \subseteq Reach(q) /\ R \subseteq Entries
    BY <1>2, EligibleType DEF Newest, Reach, Chs
  <1> HIDE DEF recent
  <1>4. /\ b \in Request /\ b.stage = "threads" /\ b.ver = q.ver
        /\ b.cutoff = q.cutoff /\ b.ask = q.ask
        /\ b.prompt = R /\ b.sources = R
    BY <1>2, <1>3 DEF Request, Stage
  <1> HIDE DEF b
  <1>5. Fits(r, b)
    BY <1>2, <1>3, <1>4, FitsOn DEF InFlight, InHand, MoreQueries, Vouched
  <1>6. /\ q.stage # "done" /\ reader' = [reader EXCEPT ![r] = b]
        /\ cache' = cache /\ run' = run /\ Steady
    BY <1>1, KeepIsSteady DEF b
  <1>7. QED
    BY <1>4, <1>5, <1>6, SameRow, ReaderKeeps, Typed

LEMMA SearchStarts ==
  ASSUME FInv, NEW r \in Readers, StartsSearch(r)
  PROVE  /\ reader[r] \in Request /\ Fits(r, reader[r]) /\ InFlight(reader[r])
         /\ Chs(r) \in Chapters
         /\ reader[r].stage \in {"threads", "excerpts"}
         /\ reader[r].stage = "threads" => reader[r].queries < MaxQueries
         /\ reader[r].stage # "done"
  BY Typed DEF StartsSearch, InFlight

LEMMA SearchHitKeeps ==
  ASSUME FInv, NEW r \in Readers, SearchHit(r)
  PROVE  FInv'
  <1> DEFINE q == reader[r]
             p(i) == [q EXCEPT !.stage = "found", !.after = q.stage,
                        !.scenes = i.scenes]
  <1>1. PICK i \in cache :
          /\ StartsSearch(r) /\ Hits(i, r)
          /\ reader' = [reader EXCEPT ![r] = p(i)]
          /\ cache' = cache /\ run' = run /\ Keep
    BY DEF SearchHit, Goto
  <1> DEFINE b == p(i)
  <1>2. /\ q \in Request /\ Fits(r, q) /\ InFlight(q)
        /\ q.stage \in {"threads", "excerpts"} /\ q.stage # "done"
        /\ q.stage = "threads" => q.queries < MaxQueries
    BY <1>1, SearchStarts
  <1>3. i.scenes \subseteq Entries
    BY DEF FInv, TypeOK, Index
  <1>4. /\ b \in Request /\ b.stage = "found" /\ b.ver = q.ver
        /\ b.cutoff = q.cutoff /\ b.ask = q.ask /\ b.after = q.stage
        /\ b.prompt = q.prompt /\ b.sources = q.sources
        /\ b.scenes = i.scenes /\ b.queries = q.queries
    BY <1>2, <1>3 DEF Request, Stage
  <1> HIDE DEF b
  <1>5. SealedAs(r, b) => b.scenes \subseteq Reach(b)
    BY <1>1, <1>4 DEF SealedAs, Reach, Hits, FInv, IndexFresh
  <1>6. SealedAs(r, q) => b.prompt \subseteq Reach(q)
    BY <1>2, <1>4 DEF Fits, Shown
  <1>7. InFlight(b) /\ InHand(r, b) /\ MoreQueries(b) /\ Vouched(b)
    BY <1>2, <1>4, <1>5 DEF InFlight, InHand, MoreQueries, Vouched, Fits
  <1>8. Fits(r, b)
    BY <1>2, <1>4, <1>6, <1>7, FitsOn
  <1>9. reader' = [reader EXCEPT ![r] = b] /\ cache' = cache /\ run' = run /\ Steady
    BY <1>1, KeepIsSteady DEF b
  <1>10. QED
    BY <1>2, <1>4, <1>8, <1>9, SameRow, ReaderKeeps, Typed

LEMMA SearchMissKeeps ==
  ASSUME FInv, NEW r \in Readers, SearchMiss(r)
  PROVE  FInv'
  <1> DEFINE q == reader[r]
             b == [q EXCEPT !.stage = "missed", !.after = q.stage,
                     !.scenes = Eligible(Chs(r), q.cutoff)]
  <1>1. /\ StartsSearch(r) /\ reader' = [reader EXCEPT ![r] = b]
        /\ cache' = cache /\ run' = run /\ Steady
    BY KeepIsSteady DEF SearchMiss, Goto
  <1>2. /\ q \in Request /\ Fits(r, q) /\ InFlight(q) /\ Chs(r) \in Chapters
        /\ q.stage \in {"threads", "excerpts"} /\ q.stage # "done"
        /\ q.stage = "threads" => q.queries < MaxQueries
    BY <1>1, SearchStarts
  <1>3. /\ b \in Request /\ b.stage = "missed" /\ b.ver = q.ver
        /\ b.cutoff = q.cutoff /\ b.ask = q.ask /\ b.after = q.stage
        /\ b.prompt = q.prompt /\ b.sources = q.sources
        /\ b.scenes = Eligible(Chs(r), q.cutoff) /\ b.queries = q.queries
    BY <1>2, EligibleType DEF Request, Stage
  <1> HIDE DEF b
  <1>4. b.scenes = Reach(b)
    BY <1>3 DEF Reach, Chs
  <1>5. SealedAs(r, q) => b.prompt \subseteq Reach(q)
    BY <1>2, <1>3 DEF Fits, Shown
  <1>6. InFlight(b) /\ InHand(r, b) /\ MoreQueries(b) /\ Vouched(b)
    BY <1>2, <1>3, <1>4 DEF InFlight, InHand, MoreQueries, Vouched, Fits
  <1>7. Fits(r, b)
    BY <1>2, <1>3, <1>5, <1>6, FitsOn
  <1>8. QED
    BY <1>1, <1>2, <1>3, <1>7, SameRow, ReaderKeeps, Typed

LEMMA PutIndexKeeps ==
  ASSUME FInv, NEW r \in Readers, PutIndex(r)
  PROVE  FInv'
  <1> DEFINE q == reader[r]
             b == [q EXCEPT !.stage = "found"]
             new == [ver |-> q.ver, cutoff |-> q.cutoff, scenes |-> q.scenes]
             soon == DroppedTooSoon(q.ver)
  <1>1. /\ q.stage = "missed" /\ run' = run
        /\ cache' = {i \in cache : ~Hits(i, r)} \cup {new}
        /\ reader' = [reader EXCEPT ![r] = b]
        /\ outdated' = IF soon THEN outdated \cup {q.ver} ELSE outdated
        /\ UNCHANGED corpusVars /\ drifted' = drifted
    BY DEF PutIndex, Goto
  <1>2. /\ versions' = versions /\ editor' = editor
    BY <1>1 DEF corpusVars
  <1>3. CInv'
    BY <1>1, StutterKeeps DEF FInv
  <1>4. /\ q \in Request /\ Fits(r, q) /\ InFlight(q)
        /\ q.ver \in DOMAIN versions /\ q.ver \in Nat
    <2>1. q \in Request /\ Fits(r, q) /\ InFlight(q)
      BY <1>1, Typed DEF InFlight
    <2>2. QED
      BY <2>1, Typed DEF Request
  <1>5. new \in Index /\ new.ver = q.ver /\ new.cutoff = q.cutoff
        /\ new.scenes = q.scenes
    BY <1>4 DEF Request, Index
  <1>6. /\ b \in Request /\ b.stage = "found" /\ b.ver = q.ver
        /\ b.cutoff = q.cutoff /\ b.ask = q.ask /\ b.after = q.after
        /\ b.prompt = q.prompt /\ b.sources = q.sources
        /\ b.scenes = q.scenes /\ b.queries = q.queries
    BY <1>4 DEF Request, Stage
  <1> HIDE DEF b, new, soon
  <1>7. q.ver \notin outdated => q.scenes = Reach(q)
    BY <1>1, <1>4 DEF Fits, InHand
  <1>8. Fits(r, b)
    <2>1. SealedAs(r, q) => b.prompt \subseteq Reach(q)
      BY <1>4, <1>6 DEF Fits, Shown
    <2>2. SealedAs(r, b) => b.scenes = Reach(b)
      BY <1>6, <1>7 DEF SealedAs, Reach
    <2>3. InFlight(b) /\ InHand(r, b) /\ MoreQueries(b) /\ Vouched(b)
      BY <1>1, <1>4, <1>6, <2>2 DEF InFlight, InHand, MoreQueries, Vouched, Fits
    <2>4. QED
      BY <1>4, <1>6, <2>1, <2>3, FitsOn
  <1>9. outdated \subseteq outdated' /\ outdated' \subseteq Nat
    BY <1>1, <1>4 DEF FInv, TypeOK
  <1>10. /\ reader' \in [Readers -> Request] /\ run' \in [Readers -> Run]
         /\ AllFit' /\ Rows'
    <2>1. Moves(r, b, run[r]) /\ Row(b, run[r]) /\ run[r] \in Run
      BY <1>1, SameRow, Typed
    <2>2. QED
      BY <1>1, <1>2, <1>6, <1>8, <1>9, <2>1, MovesKeep
  <1>11. cache' \subseteq Index
    BY <1>1, <1>5 DEF FInv, TypeOK
  <1>12. TypeOK'
    BY <1>1, <1>3, <1>9, <1>10, <1>11 DEF FInv, TypeOK, CInv
  <1>13. CacheKnown'
    BY <1>1, <1>2, <1>4, <1>5 DEF FInv, CacheKnown
  <1>14. IndexFresh'
    <2>1. ASSUME NEW i \in cache', i.ver \notin outdated'
          PROVE  i.scenes = Eligible(versions[i.ver].chapters, i.cutoff)
      <3>1. CASE i \in cache
        BY <1>9, <2>1, <3>1 DEF FInv, IndexFresh
      <3>2. CASE i = new
        BY <1>5, <1>7, <1>9, <2>1, <3>2 DEF Reach
      <3>3. QED
        BY <1>1, <3>1, <3>2
    <2>2. QED
      BY <1>2, <2>1 DEF IndexFresh
  <1>15. CacheDropped'
    <2>1. ASSUME NEW e \in Editors, editor[e].pc = "cleared", InPlace(editor[e]),
                 editor[e].base \notin outdated', NEW i \in cache'
          PROVE  i.ver # editor[e].base
      <3>1. CASE i \in cache
        BY <1>9, <2>1, <3>1 DEF FInv, CacheDropped
      <3>2. CASE i = new
        <4>1. q.ver = editor[e].base => soon
          BY <2>1 DEF soon, DroppedTooSoon, InPlace
        <4>2. QED
          BY <1>1, <1>5, <2>1, <3>2, <4>1
      <3>3. QED
        BY <1>1, <3>1, <3>2
    <2>2. QED
      BY <1>2, <2>1 DEF CacheDropped, InPlace
  <1>16. QED
    BY <1>3, <1>10, <1>12, <1>13, <1>14, <1>15 DEF FInv

LEMMA TakeResultsKeeps ==
  ASSUME FInv, NEW r \in Readers, TakeResults(r)
  PROVE  FInv'
  <1> DEFINE q == reader[r]
             fresh(results) == {s \in results : s.seq \notin Seqs(q.sources)}
             p(results) ==
               IF q.after = "threads"
               THEN [q EXCEPT !.stage = "threads", !.queries = @ + 1, !.scenes = {},
                       !.sources = @ \cup fresh(results),
                       !.prompt = @ \cup fresh(results)]
               ELSE [q EXCEPT !.stage = "ready", !.scenes = {},
                       !.prompt = @ \cup results]
  <1>1. PICK results \in SUBSET q.scenes :
          /\ q.stage = "found" /\ reader' = [reader EXCEPT ![r] = p(results)]
          /\ cache' = cache /\ run' = run /\ Keep
    BY DEF TakeResults, Goto
  <1> DEFINE b == p(results)
             new == fresh(results)
  <1>2. q \in Request /\ Fits(r, q) /\ InFlight(q) /\ q.stage # "done"
    BY <1>1, Typed DEF InFlight
  <1>3. /\ q.scenes \subseteq Entries /\ q.prompt \subseteq Entries
        /\ q.sources \subseteq q.prompt
        /\ SealedAs(r, q) => q.scenes \subseteq Reach(q) /\ q.prompt \subseteq Reach(q)
    BY <1>1, <1>2 DEF Request, Fits, Vouched, InHand, Shown
  <1>4. new \subseteq results
    OBVIOUS
  <1> HIDE DEF fresh
  <1>5. q.after = "threads" => q.queries + 1 \in 0..MaxQueries
    <2>1. q.queries \in 0..MaxQueries /\ MaxQueries \in Nat
      BY <1>2, ForecastAssumption DEF Request
    <2>2. q.after = "threads" => q.queries < MaxQueries
      BY <1>1, <1>2 DEF Fits, MoreQueries
    <2>3. QED
      BY <2>1, <2>2
  <1>6. /\ b \in Request /\ b.stage \in {"threads", "ready"} /\ b.ver = q.ver
        /\ b.cutoff = q.cutoff /\ b.ask = q.ask
        /\ b.sources \subseteq b.prompt /\ b.prompt \subseteq q.prompt \cup q.scenes
    <2>1. CASE q.after = "threads"
      <3>1. /\ b = [q EXCEPT !.stage = "threads", !.queries = q.queries + 1,
                      !.scenes = {}, !.sources = q.sources \cup new,
                      !.prompt = q.prompt \cup new]
        BY <1>2, <2>1 DEF Request
      <3>2. QED
        BY <1>2, <1>3, <1>4, <1>5, <2>1, <3>1 DEF Request, Stage
    <2>2. CASE q.after # "threads"
      <3>1. b = [q EXCEPT !.stage = "ready", !.scenes = {},
                   !.prompt = q.prompt \cup results]
        BY <1>2, <2>2 DEF Request
      <3>2. QED
        BY ZenonT(30), <1>2, <1>3, <3>1 DEF Request, Stage
    <2>3. QED
      BY <2>1, <2>2
  <1> HIDE DEF b
  <1>7. SealedAs(r, q) => b.prompt \subseteq Reach(q)
    BY <1>3, <1>6
  <1>8. InFlight(b) /\ InHand(r, b) /\ MoreQueries(b) /\ Vouched(b) /\ b.stage # "new"
    BY <1>6 DEF InFlight, InHand, MoreQueries, Vouched
  <1>9. Fits(r, b)
    BY <1>2, <1>6, <1>7, <1>8, FitsOn
  <1>10. reader' = [reader EXCEPT ![r] = b] /\ cache' = cache /\ run' = run /\ Steady
    BY <1>1, KeepIsSteady DEF b
  <1>11. QED
    BY <1>2, <1>6, <1>9, <1>10, SameRow, ReaderKeeps, Typed

(* A step to another stage of a request that is not searching.             *)
LEMMA StageFits ==
  ASSUME FInv, NEW r \in Readers, InFlight(reader[r]),
         NEW st \in {"excerpts", "ready", "asked", "failing"},
         NEW b, b = [reader[r] EXCEPT !.stage = st]
  PROVE  b \in Request /\ Fits(r, b) /\ b.prompt = reader[r].prompt /\ b.stage = st
  <1> DEFINE q == reader[r]
  <1>1. q \in Request /\ Fits(r, q) /\ InFlight(q)
    BY Typed
  <1>2. /\ b \in Request /\ b.stage = st /\ b.ver = q.ver
        /\ b.cutoff = q.cutoff /\ b.ask = q.ask
        /\ b.prompt = q.prompt /\ b.sources = q.sources
    BY <1>1 DEF Request, Stage
  <1>3. SealedAs(r, q) => b.prompt \subseteq Reach(q)
    BY <1>1, <1>2 DEF Fits, Shown
  <1>4. InFlight(b) /\ InHand(r, b) /\ MoreQueries(b) /\ Vouched(b) /\ b.stage # "new"
    BY <1>1, <1>2 DEF InFlight, InHand, MoreQueries, Vouched, Fits
  <1>5. Fits(r, b)
    BY <1>1, <1>2, <1>3, <1>4, FitsOn
  <1>6. QED
    BY <1>2, <1>5

LEMMA SkipSearchKeeps ==
  ASSUME FInv, NEW r \in Readers, SkipSearch(r)
  PROVE  FInv'
  <1> DEFINE q == reader[r]
             st == IF q.stage = "threads" THEN "excerpts" ELSE "ready"
             b == [q EXCEPT !.stage = st]
  <1>1. /\ q.stage \in {"threads", "excerpts"}
        /\ reader' = [reader EXCEPT ![r] =
             [reader[r] EXCEPT !.stage = IF @ = "threads" THEN "excerpts" ELSE "ready"]]
        /\ cache' = cache /\ run' = run /\ Steady
    BY KeepIsSteady DEF SkipSearch, Goto
  <1>2. InFlight(q) /\ q.stage # "done" /\ q \in Request /\ st \in {"excerpts", "ready"}
    BY <1>1, Typed DEF InFlight
  <1>3. reader' = [reader EXCEPT ![r] = b]
    BY <1>1, <1>2 DEF Request
  <1> HIDE DEF st
  <1>4. b \in Request /\ Fits(r, b)
    BY <1>2, StageFits
  <1> HIDE DEF b
  <1>5. QED
    BY <1>1, <1>2, <1>3, <1>4, SameRow, ReaderKeeps, Typed

LEMMA AnswerFailsKeeps ==
  ASSUME FInv, NEW r \in Readers, AnswerFails(r)
  PROVE  FInv'
  <1> DEFINE q == reader[r]
             b == [q EXCEPT !.stage = "failing"]
  <1>1. /\ q.stage = "asked" /\ reader' = [reader EXCEPT ![r] = b]
        /\ cache' = cache /\ run' = run /\ Steady
    BY KeepIsSteady DEF AnswerFails, Goto
  <1>2. InFlight(q) /\ q.stage # "done"
    BY <1>1 DEF InFlight
  <1>3. b \in Request /\ Fits(r, b)
    BY <1>2, StageFits
  <1> HIDE DEF b
  <1>4. QED
    BY <1>1, <1>2, <1>3, SameRow, ReaderKeeps, Typed

LEMMA AnswerKeeps ==
  ASSUME FInv, NEW r \in Readers, Answer(r)
  PROVE  FInv'
  <1> DEFINE q == reader[r]
             answer(cites, known, synthetic) ==
               [cites |-> cites,
                status |-> Judged(Cited(cites, r), known, synthetic)]
  <1>1. PICK cites \in SUBSET Citations, known \in BOOLEAN, synthetic \in BOOLEAN :
          /\ q.stage = "asked"
          /\ reader' = [reader EXCEPT ![r] =
               [q EXCEPT !.stage = "answered",
                         !.answer = answer(cites, known, synthetic)]]
          /\ cache' = cache /\ run' = run /\ Keep
    BY DEF Answer, Goto
  <1> DEFINE a == answer(cites, known, synthetic)
             b == [q EXCEPT !.stage = "answered", !.answer = a]
  <1>2. q \in Request /\ Fits(r, q) /\ InFlight(q) /\ q.stage # "done"
    BY <1>1, Typed DEF InFlight
  <1>3. /\ a \in Candidate /\ a.cites = cites
        /\ a.status = "passed" => Cited(cites, r)
    BY DEF Candidate, Judged, Verdict
  <1> HIDE DEF a
  <1>4. /\ b \in Request /\ b.stage = "answered" /\ b.ver = q.ver
        /\ b.cutoff = q.cutoff /\ b.ask = q.ask /\ b.answer = a
        /\ b.prompt = q.prompt /\ b.sources = q.sources
    BY <1>2, <1>3 DEF Request, Stage
  <1> HIDE DEF b
  <1>5. SealedAs(r, q) => b.prompt \subseteq Reach(q)
    BY <1>2, <1>4 DEF Fits, Shown
  <1>6. a.status = "passed" => a.cites \subseteq Seqs(q.sources)
    BY <1>3 DEF Cited
  <1>7. InFlight(b) /\ InHand(r, b) /\ MoreQueries(b) /\ Vouched(b)
    BY <1>2, <1>4, <1>6 DEF InFlight, InHand, MoreQueries, Vouched, Fits
  <1>8. Fits(r, b)
    BY <1>2, <1>4, <1>5, <1>7, FitsOn
  <1>9. reader' = [reader EXCEPT ![r] = b] /\ cache' = cache /\ run' = run /\ Steady
    BY <1>1, KeepIsSteady DEF b, a
  <1>10. QED
    BY <1>2, <1>4, <1>8, <1>9, SameRow, ReaderKeeps, Typed

LEMMA StartRunKeeps ==
  ASSUME FInv, NEW r \in Readers, StartRun(r)
  PROVE  FInv'
  <1> DEFINE q == reader[r]
             b == [q EXCEPT !.stage = "asked"]
             row == [run[r] EXCEPT !.status = "RUNNING"]
  <1>1. /\ q.stage = "ready" /\ reader' = [reader EXCEPT ![r] = b]
        /\ run' = [run EXCEPT ![r].status = "RUNNING"] /\ cache' = cache /\ Steady
    BY KeepIsSteady DEF StartRun, Goto
  <1>2. InFlight(q) /\ run[r] \in Run /\ Row(q, run[r])
    BY <1>1, Typed DEF InFlight
  <1>3. b \in Request /\ Fits(r, b) /\ b.stage = "asked"
    BY <1>2, StageFits
  <1>4. row \in Run /\ row.stored = run[r].stored /\ row.status = "RUNNING"
    BY <1>2 DEF Run
  <1>5. Moves(r, b, row)
    BY <1>1 DEF Moves
  <1> HIDE DEF b, row
  <1>6. run[r].stored = {}
    BY <1>1, <1>2 DEF Row
  <1>7. Row(b, row)
    BY <1>4, <1>6 DEF Row
  <1>8. QED
    BY <1>1, <1>3, <1>4, <1>5, <1>7, ReaderKeeps

LEMMA EndFits ==
  ASSUME NEW r, NEW S \in SUBSET Entries
  PROVE  Ended(S) \in Request /\ Fits(r, Ended(S))
  <1>1. Ended(S) \in Request /\ Ended(S).stage = "done" /\ Ended(S).sources = {}
    BY EndedType
  <1>2. QED
    BY <1>1, IdleFits

LEMMA CompleteKeeps ==
  ASSUME FInv, NEW r \in Readers, Complete(r)
  PROVE  FInv'
  <1> DEFINE q == reader[r]
             b == Ended(q.prompt)
             row == [status |-> "COMPLETED", stored |-> {q.answer}]
  <1>1. /\ q.stage = "answered" /\ Moves(r, b, row) /\ cache' = cache /\ Steady
    BY KeepIsSteady DEF Complete, Goto, Moves
  <1>2. q \in Request /\ Fits(r, q)
    BY Typed
  <1>3. q.prompt \subseteq Entries /\ q.answer \in Candidate
    BY <1>2 DEF Request
  <1>4. b \in Request /\ Fits(r, b) /\ b.stage = "done" /\ b.prompt = q.prompt
    BY <1>3, EndFits, EndedType
  <1>5. row \in Run /\ row.stored = {q.answer} /\ row.status = "COMPLETED"
    BY <1>3 DEF Run
  <1> HIDE DEF b, row
  <1>6. q.answer.status = "passed" => q.answer.cites \subseteq Seqs(q.prompt)
    BY <1>1, <1>2 DEF Fits, Vouched, Seqs
  <1>7. Row(b, row)
    BY <1>4, <1>5, <1>6 DEF Row
  <1>8. QED
    BY <1>1, <1>4, <1>5, <1>7, ReaderKeeps

LEMMA RecordFailureKeeps ==
  ASSUME FInv, NEW r \in Readers, RecordFailure(r)
  PROVE  FInv'
  <1> DEFINE b == Ended({})
             row == [run[r] EXCEPT !.status = "FAILED"]
  <1>1. /\ reader[r].stage = "failing" /\ Moves(r, b, row)
        /\ cache' = cache /\ Steady
    BY KeepIsSteady DEF RecordFailure, Goto, Moves
  <1>2. run[r] \in Run /\ Row(reader[r], run[r])
    BY Typed
  <1>3. b \in Request /\ Fits(r, b)
    BY EndFits
  <1>4. row \in Run /\ row.stored = run[r].stored /\ row.status = "FAILED"
    BY <1>2 DEF Run
  <1> HIDE DEF b, row
  <1>5. run[r].stored = {}
    BY <1>1, <1>2 DEF Row
  <1>6. Row(b, row)
    BY <1>4, <1>5 DEF Row
  <1>7. QED
    BY <1>1, <1>3, <1>4, <1>6, ReaderKeeps

LEMMA GiveUpKeeps ==
  ASSUME FInv, NEW r \in Readers, GiveUp(r)
  PROVE  FInv'
  <1> DEFINE b == Ended({})
  <1>1. /\ reader[r].stage # "done" /\ reader' = [reader EXCEPT ![r] = b]
        /\ cache' = cache /\ run' = run /\ Steady
    BY KeepIsSteady DEF GiveUp, Goto
  <1>2. b \in Request /\ Fits(r, b)
    BY EndFits
  <1> HIDE DEF b
  <1>3. QED
    BY <1>1, <1>2, SameRow, ReaderKeeps, Typed

-------------------------------------------------------------------------------
(* Steps of one editor.                                                    *)

Readings == reader' = reader /\ run' = run

(* Versions as they were, a cache that lost entries or kept them, and no   *)
(* call about to commit in place over an index.                            *)
LEMMA EditorKeeps ==
  ASSUME FInv, CInv', Readings, versions' = versions, cache' \subseteq cache,
         drifted' = drifted, outdated \subseteq outdated', outdated' \subseteq Nat,
         CacheDropped'
  PROVE  FInv'
  <1>1. TypeOK'
    BY DEF FInv, TypeOK, Readings, CInv
  <1>2. AllFit'
    <2>1. ASSUME NEW t \in Readers PROVE Fits(t, reader[t])'
      BY DEF FInv, AllFit, Readings, Fits, SealedAs, InFlight, Anchored, Bounded,
         Shown, InHand, MoreQueries, Vouched, Reach
    <2>2. QED
      BY <2>1 DEF AllFit
  <1>3. Rows'
    BY DEF FInv, Rows, Row, Readings
  <1>4. CacheKnown' /\ IndexFresh'
    BY DEF FInv, CacheKnown, IndexFresh
  <1>5. QED
    BY <1>1, <1>2, <1>3, <1>4 DEF FInv

LEMMA EditorStepEdits ==
  ASSUME FInv, NEW e \in Editors, EditorStep(e)
  PROVE  /\ versions' = versions
         /\ \A f \in Editors : f # e => editor'[f] = editor[f]
         /\ editor'[e].pc # "cleared"
  <1>1. editor \in [Editors -> Call]
    BY DEF FInv, CInv, CorpusTypeOK
  <1>2. CASE ReadUpdate(e) \/ ReadImport(e)
    <2> DEFINE edit(b, text, new, target) ==
                 [Fresh EXCEPT !.pc = "read", !.base = b, !.text = text,
                    !.mode = IF new THEN "clone" ELSE "in place",
                    !.ordinal = target,
                    !.found = Present(versions[b].chapters, target)]
               import(m) ==
                 [Fresh EXCEPT !.pc = "read", !.mode = "import", !.draft = m]
    <2>1. \/ \E b, text, new, target : Begin(e, edit(b, text, new, target))
          \/ \E m : Begin(e, import(m))
      BY <1>2 DEF ReadUpdate, ReadImport
    <2>2. /\ \A b, text, new, target : edit(b, text, new, target).pc = "read"
          /\ \A m : import(m).pc = "read"
      BY DEF Fresh
    <2> HIDE DEF edit, import
    <2>3. PICK c : Begin(e, c) /\ c.pc = "read"
      BY <2>1, <2>2
    <2>4. QED
      BY <1>1, <2>3 DEF Begin
  <1>3. CASE Stamp(e) \/ InsertVersion(e) \/ WriteInPlace(e)
    <2>1. versions' = versions
      BY <1>3 DEF Stamp, InsertVersion, WriteInPlace
    <2>2. \A f \in Editors : f # e => editor'[f] = editor[f]
      BY <1>1, <1>3 DEF Stamp, InsertVersion, WriteInPlace
    <2>3. editor[e] \in Call
      BY <1>1
    <2>4. editor'[e].pc \in {"stamped", "written"}
      BY ZenonT(30), <1>1, <1>3, <2>3 DEF Stamp, InsertVersion, WriteInPlace, Call
    <2>5. QED
      BY <2>1, <2>2, <2>4
  <1>4. CASE RollBack(e)
    <2>1. editor' = [editor EXCEPT ![e] = Over] /\ versions' = versions
      BY <1>4 DEF RollBack
    <2>2. Over.pc = "over"
      BY DEF Over, Fresh
    <2>3. QED
      BY <1>1, <2>1, <2>2
  <1>5. QED
    BY <1>2, <1>3, <1>4 DEF EditorStep

LEMMA EditorStepKeeps ==
  ASSUME FInv, NEW e \in Editors, EditorStep(e), UNCHANGED forecastVars
  PROVE  FInv'
  <1>1. /\ cache' = cache /\ Readings /\ drifted' = drifted /\ outdated' = outdated
    BY DEF forecastVars, Readings
  <1>2. CInv'
    BY NextKeeps DEF FInv, CorpusNext
  <1>3. CacheDropped'
    BY <1>1, EditorStepEdits DEF FInv, CacheDropped, InPlace
  <1>4. outdated' \subseteq Nat
    BY <1>1 DEF FInv, TypeOK
  <1>5. QED
    BY <1>1, <1>2, <1>3, <1>4, EditorStepEdits, EditorKeeps

LEMMA ClearCacheEdits ==
  ASSUME FInv, NEW e \in Editors, ClearCache(e)
  PROVE  /\ CInv' /\ versions' = versions
         /\ \A f \in Editors : f # e => editor'[f] = editor[f]
         /\ editor'[e].base = editor[e].base /\ editor'[e].mode = editor[e].mode
         /\ editor[e].base \in Nat
  <1>1. editor \in [Editors -> Call] /\ editor[e] \in Call
    BY DEF FInv, CInv, CorpusTypeOK
  <1>2. CInv'
    BY ClearCacheKeeps DEF FInv
  <1>3. editor[e].base \in Nat
    BY <1>1 DEF Call
  <1>4. QED
    BY <1>1, <1>2, <1>3 DEF ClearCache, Call

LEMMA DropIndexesKeeps ==
  ASSUME FInv, NEW e \in Editors, DropIndexes(e)
  PROVE  FInv'
  <1>1. /\ ClearCache(e) /\ Readings /\ drifted' = drifted /\ outdated' = outdated
        /\ cache' = {i \in cache : i.ver # editor[e].base}
    BY DEF DropIndexes, Cleared, Readings
  <1>2. CacheDropped'
    <2>1. ASSUME NEW f \in Editors, editor'[f].pc = "cleared", InPlace(editor'[f]),
                 editor'[f].base \notin outdated', NEW i \in cache'
          PROVE  i.ver # editor'[f].base
      <3>1. CASE f = e
        BY <1>1, <3>1, ClearCacheEdits
      <3>2. CASE f # e
        <4>1. editor'[f] = editor[f]
          BY <1>1, <3>2, ClearCacheEdits
        <4>2. QED
          BY <1>1, <2>1, <4>1 DEF FInv, CacheDropped
      <3>3. QED
        BY <3>1, <3>2
    <2>2. QED
      BY <2>1 DEF CacheDropped, InPlace
  <1>3. outdated' \subseteq Nat
    BY <1>1 DEF FInv, TypeOK
  <1>4. QED
    BY <1>1, <1>2, <1>3, ClearCacheEdits, EditorKeeps

LEMMA DropElsewhereKeeps ==
  ASSUME FInv, NEW e \in Editors, DropElsewhere(e)
  PROVE  FInv'
  <1> DEFINE v == editor[e].base
  <1>1. /\ ClearCache(e) /\ Readings /\ drifted' = drifted /\ cache' = cache
        /\ outdated' = IF InPlace(editor[e]) /\ \E i \in cache : i.ver = v
                       THEN outdated \cup {v} ELSE outdated
    BY DEF DropElsewhere, Readings, InPlace
  <1>2. outdated \subseteq outdated' /\ outdated' \subseteq Nat
    BY <1>1, ClearCacheEdits DEF FInv, TypeOK
  <1>3. CacheDropped'
    <2>1. ASSUME NEW f \in Editors, editor'[f].pc = "cleared", InPlace(editor'[f]),
                 editor'[f].base \notin outdated', NEW i \in cache'
          PROVE  i.ver # editor'[f].base
      <3>1. CASE f = e
        <4>1. editor'[f].base = v /\ InPlace(editor[e])
          BY <1>1, <2>1, <3>1, ClearCacheEdits DEF InPlace
        <4>2. QED
          BY <1>1, <2>1, <4>1
      <3>2. CASE f # e
        <4>1. editor'[f] = editor[f]
          BY <1>1, <3>2, ClearCacheEdits
        <4>2. QED
          BY <1>1, <1>2, <2>1, <4>1 DEF FInv, CacheDropped
      <3>3. QED
        BY <3>1, <3>2
    <2>2. QED
      BY <2>1 DEF CacheDropped, InPlace
  <1>4. QED
    BY <1>1, <1>2, <1>3, ClearCacheEdits, EditorKeeps

(* What a commit does to the versions, and to the calls about to commit.   *)
LEMMA CommitVersions ==
  ASSUME CInv, NEW e \in Editors, Commit(e)
  PROVE  /\ CInv'
         /\ \A v \in DOMAIN versions :
              /\ v \in DOMAIN versions'
              /\ ~(InPlace(editor[e]) /\ v = editor[e].base) =>
                   versions'[v] = versions[v]
         /\ \A f \in Editors : editor'[f].pc # "cleared"
         /\ editor[e].base \in Nat
         /\ InPlace(editor[e]) => editor[e].pc = "cleared"
  <1>1. CInv'
    BY CommitInPlaceKeeps, CommitNewKeeps
  <1>2. editor[e] \in Call /\ \A f \in Editors : editor'[f].pc # "cleared"
    BY CommitCalls DEF Writing
  <1>3. InPlace(editor[e]) => editor[e].pc = "cleared"
    BY DEF Commit, ReadyToCommit, InPlace
  <1>4. editor[e].base \in Nat
    BY <1>2 DEF Call
  <1>5. CASE InPlace(editor[e])
    <2>1. versions' = [versions EXCEPT ![editor[e].base] =
            [@ EXCEPT !.chapters = editor[e].draft, !.raw = FALSE]]
      BY <1>5 DEF Commit, InPlace
    <2>2. DOMAIN versions' = DOMAIN versions
      BY <2>1
    <2>3. \A v \in DOMAIN versions : v # editor[e].base => versions'[v] = versions[v]
      BY <2>1
    <2>4. QED
      BY <1>1, <1>2, <1>3, <1>4, <1>5, <2>2, <2>3
  <1>6. CASE ~InPlace(editor[e])
    <2> DEFINE new == [chapters |-> editor[e].draft, born |-> editor[e].born,
                       raw |-> editor[e].mode = "import"]
    <2>1. new \in Version
      BY <1>2 DEF Version, Call
    <2>2. versions' = Append(versions, new)
      BY <1>6 DEF Commit, InPlace
    <2> HIDE DEF new
    <2>3. versions \in Seq(Version) /\ Len(versions) \in Nat
          /\ DOMAIN versions = 1..Len(versions)
      BY Ids DEF CInv, CorpusTypeOK
    <2>4. /\ versions' \in Seq(Version) /\ Len(versions') = Len(versions) + 1
          /\ \A v \in 1..Len(versions) : versions'[v] = versions[v]
      BY <2>1, <2>2, <2>3, AppendProperties
    <2>5. DOMAIN versions' = 1..(Len(versions) + 1)
      BY <2>4, LenProperties
    <2>6. 1..Len(versions) \subseteq 1..(Len(versions) + 1)
      BY <2>3
    <2>7. QED
      BY <1>1, <1>2, <1>3, <1>4, <1>6, <2>3, <2>4, <2>5, <2>6
  <1>7. QED
    BY <1>5, <1>6

LEMMA CommitEditKeeps ==
  ASSUME FInv, NEW e \in Editors, CommitEdit(e)
  PROVE  FInv'
  <1> DEFINE v == editor[e].base
             here == InPlace(editor[e])
  <1>1. /\ Commit(e) /\ cache' = cache /\ Readings
        /\ here =>
             /\ drifted' = drifted \cup {r \in Readers : Resolved(r) /\ reader[r].ver = v}
             /\ outdated' = IF Indexing(v) THEN outdated \cup {v} ELSE outdated
        /\ ~here => drifted' = drifted /\ outdated' = outdated
    BY DEF CommitEdit, Readings, InPlace
  <1>2. /\ CInv' /\ v \in Nat
        /\ \A w \in DOMAIN versions :
             /\ w \in DOMAIN versions'
             /\ ~(here /\ w = v) => versions'[w] = versions[w]
        /\ \A f \in Editors : editor'[f].pc # "cleared"
        /\ here => editor[e].pc = "cleared"
    BY <1>1, CommitVersions DEF FInv
  <1> HIDE DEF v, here
  <1>3. /\ outdated \subseteq outdated' /\ outdated' \subseteq Nat
        /\ drifted \subseteq drifted' /\ drifted' \subseteq Readers
    <2>1. outdated \subseteq Nat /\ drifted \subseteq Readers
      BY DEF FInv, TypeOK
    <2>2. CASE here
      BY <1>1, <1>2, <2>1, <2>2
    <2>3. CASE ~here
      BY <1>1, <2>1, <2>3
    <2>4. QED
      BY <2>2, <2>3
  <1>4. TypeOK'
    BY <1>1, <1>2, <1>3 DEF FInv, TypeOK, Readings, CInv
  <1>5. AllFit'
    <2>1. ASSUME NEW t \in Readers PROVE Fits(t, reader[t])'
      <3> DEFINE q == reader[t]
      <3>1. Fits(t, q) /\ reader'[t] = q
        BY <1>1 DEF FInv, AllFit, Readings
      <3>2. InFlight(q) => q.ver \in DOMAIN versions /\ q.ver \in DOMAIN versions'
        BY <1>2, <3>1 DEF Fits, Anchored
      <3>3. InFlight(q) /\ t \notin drifted' => versions'[q.ver] = versions[q.ver]
        BY <1>1, <1>2, <2>1, <3>2 DEF Resolved, InFlight
      <3>4. q.stage = "missed" /\ q.ver \notin outdated' =>
              versions'[q.ver] = versions[q.ver]
        <4>1. q.stage = "missed" => InFlight(q)
          BY DEF InFlight
        <4>2. q.stage = "missed" /\ q.ver = v => Indexing(v)
          BY <2>1 DEF Indexing
        <4>3. QED
          BY <1>1, <1>2, <3>2, <4>1, <4>2
      <3>5. SealedAs(t, q)' => SealedAs(t, q) /\ t \notin drifted'
        BY <1>1, <1>3 DEF SealedAs, Readings
      <3>6. q.ver \notin outdated' => q.ver \notin outdated
        BY <1>3
      <3>7. Anchored(q)' /\ MoreQueries(q)' /\ Vouched(q)'
        BY <3>1, <3>2 DEF Fits, Anchored, MoreQueries, Vouched, InFlight
      <3>8. Bounded(t, q)'
        BY <3>1, <3>3, <3>5 DEF Fits, Bounded, InFlight
      <3>9. Shown(t, q)'
        BY <3>1, <3>3, <3>5 DEF Fits, Shown, InFlight, Reach
      <3>10. InHand(t, q)'
        <4>1. q.stage = "missed" /\ q.ver \notin outdated' =>
                q.scenes = Eligible(versions'[q.ver].chapters, q.cutoff)
          BY <3>1, <3>4, <3>6 DEF Fits, InHand, Reach
        <4>2. q.stage = "found" /\ SealedAs(t, q)' =>
                q.scenes \subseteq Eligible(versions'[q.ver].chapters, q.cutoff)
          BY <3>1, <3>3, <3>5 DEF Fits, InHand, Reach, InFlight
        <4>3. QED
          BY <3>1, <4>1, <4>2 DEF InHand, Reach
      <3>11. QED
        BY <3>7, <3>8, <3>9, <3>10 DEF Fits
    <2>2. QED
      BY <2>1 DEF AllFit
  <1>6. Rows'
    BY <1>1 DEF FInv, Rows, Row, Readings
  <1>7. CacheKnown'
    BY <1>1, <1>2 DEF FInv, CacheKnown
  <1>8. IndexFresh'
    <2>1. ASSUME NEW i \in cache, i.ver \notin outdated'
          PROVE  i.scenes = Eligible(versions'[i.ver].chapters, i.cutoff)
      <3>1. i.scenes = Eligible(versions[i.ver].chapters, i.cutoff)
        BY <1>3, <2>1 DEF FInv, IndexFresh
      <3>2. ~(here /\ i.ver = v)
        <4>1. here /\ v \notin outdated => \A j \in cache : j.ver # v
          BY <1>2 DEF FInv, CacheDropped, here, v
        <4>2. QED
          BY <1>3, <2>1, <4>1
      <3>3. versions'[i.ver] = versions[i.ver]
        BY <1>2, <3>2 DEF FInv, CacheKnown
      <3>4. QED
        BY <3>1, <3>3
    <2>2. QED
      BY <1>1, <2>1 DEF IndexFresh
  <1>9. CacheDropped'
    BY <1>2 DEF CacheDropped
  <1>10. QED
    BY <1>2, <1>4, <1>5, <1>6, <1>7, <1>8, <1>9 DEF FInv

-------------------------------------------------------------------------------
LEMMA FInvKept == FInv /\ [Next]_vars => FInv'
  <1> SUFFICES ASSUME FInv, [Next]_vars PROVE FInv'
    OBVIOUS
  <1>1. ASSUME NEW e \in Editors,
               \/ EditorStep(e) /\ UNCHANGED forecastVars
               \/ DropIndexes(e) \/ DropElsewhere(e) \/ CommitEdit(e)
        PROVE  FInv'
    BY <1>1, EditorStepKeeps, DropIndexesKeeps, DropElsewhereKeeps, CommitEditKeeps
  <1>2. ASSUME NEW r \in Readers, ReaderStep(r) PROVE FInv'
    BY <1>2, ResolveKeeps, BuildContextKeeps, SearchHitKeeps, SearchMissKeeps,
       PutIndexKeeps, TakeResultsKeeps, SkipSearchKeeps, StartRunKeeps,
       AnswerKeeps, CompleteKeeps, AnswerFailsKeeps, RecordFailureKeeps,
       GiveUpKeeps DEF ReaderStep
  <1>3. ASSUME UNCHANGED vars PROVE FInv'
    <2>1. /\ Readings /\ versions' = versions /\ cache' = cache /\ editor' = editor
          /\ drifted' = drifted /\ outdated' = outdated /\ UNCHANGED corpusVars
      BY <1>3 DEF vars, corpusVars, Readings
    <2>2. CInv'
      BY <2>1, StutterKeeps DEF FInv
    <2>3. CacheDropped' /\ outdated' \subseteq Nat
      BY <2>1 DEF FInv, CacheDropped, InPlace, TypeOK
    <2>4. QED
      BY <2>1, <2>2, <2>3, EditorKeeps
  <1>4. QED
    BY <1>1, <1>2, <1>3 DEF Next

(* The inductive invariant holds in every behaviour.                       *)
THEOREM ForecastInvariant == Spec => []FInv
  BY InitFInv, FInvKept, PTL DEF Spec

(* Types: every scene indexed or shown is a scene of a chapter, and no     *)
(* request runs more queries than it has threads.                          *)
THEOREM ForecastTypes == Spec => []TypeOK
  <1>1. FInv => TypeOK
    BY DEF FInv
  <1>2. QED
    BY <1>1, ForecastInvariant, PTL

(* _get_or_build_index and clear_cache: an index in the cache is that of   *)
(* the version as it is, outside the two named ways of going stale.        *)
THEOREM IndexesAreFresh == Spec => []IndexFresh
  <1>1. FInv => IndexFresh
    BY DEF FInv
  <1>2. QED
    BY <1>1, ForecastInvariant, PTL

(* run_forecast under a boundary set by a chapter: no scene of a later     *)
(* chapter reaches the provider, whatever runs beside it.                  *)
THEOREM NoFutureIsShown == Spec => []NoFutureShown
  <1>1. FInv => NoFutureShown
    <2> SUFFICES ASSUME FInv, NEW r \in Readers, Resolved(r),
                        reader[r].ask.by = "chapter", Sealed(r),
                        SceneCount[Chs(r)[reader[r].ask.n]] > 0,
                        NEW s \in reader[r].prompt
                 PROVE  s.chapter <= reader[r].ask.n
      BY DEF NoFutureShown
    <2> DEFINE q == reader[r]
    <2>1. q \in Request /\ Fits(r, q) /\ InFlight(q) /\ SealedAs(r, q)
          /\ Chs(r) \in Chapters
      BY Typed DEF Resolved, InFlight, Sealed, SealedAs
    <2>2. q.ask \in Requests
      BY <2>1, ForecastAssumption DEF Request
    <2>3. Present(Chs(r), q.ask.n) /\ q.cutoff = Cutoff(Chs(r), q.ask)
      BY <2>1 DEF Fits, Bounded, Chs
    <2>4. s \in Eligible(Chs(r), Cutoff(Chs(r), q.ask))
      BY <2>1, <2>3 DEF Fits, Shown, Reach, Chs
    <2>5. QED
      BY <2>1, <2>2, <2>3, <2>4, NoLaterChapter
  <1>2. QED
    BY <1>1, ForecastInvariant, PTL

(* verify_citations and the commit of a run: a stored candidate that       *)
(* passed cites what the provider was shown.                               *)
THEOREM CandidatesAreVerified == Spec => []StoredIsVerified
  <1>1. FInv => StoredIsVerified
    BY DEF FInv, Rows, Row, StoredIsVerified
  <1>2. QED
    BY <1>1, ForecastInvariant, PTL
===============================================================================
